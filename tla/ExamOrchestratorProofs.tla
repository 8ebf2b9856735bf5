----------------------- MODULE ExamOrchestratorProofs -----------------------
(***************************************************************************)
(* Theorems about ExamOrchestrator for any number of turns per phase, lost *)
(* connections and flushes in flight: its types, that the cached phase and *)
(* the log agree, that the microphone follows the phase, what a seal and   *)
(* the enqueueing of grading come after, that what was chosen for the      *)
(* candidate is there when it is used, and that clocks start once.         *)
(***************************************************************************)
EXTENDS ExamOrchestrator, ExamFsmProofs

----------------------------------------------------------------------------
(* The events *)

(* The phase that an event ends. *)
Source ==
    [DEVICE_CHECK_CONFIRMED |-> "INIT_DEVICE_CHECK", ID_VERIFIED |-> "ID_VERIFICATION",
     INTRO_COMPLETE |-> "INTRO", TOPIC_A_COMPLETE |-> "PART1_TOPIC_A",
     TOPIC_B_COMPLETE |-> "PART1_TOPIC_B", TOPIC_C_COMPLETE |-> "PART1_TOPIC_C",
     CUE_CARD_ACKED |-> "PART2_CUECARD_PRESENT", PREP_TIMER_EXPIRED |-> "PART2_PREP",
     LONG_TURN_ENDED |-> "PART2_LONG_TURN", ROUNDOFF_COMPLETE |-> "PART2_ROUNDOFF",
     DISCUSSION_COMPLETE |-> "PART3_DISCUSSION", CLOSE_DELIVERED |-> "CLOSE",
     FINALIZE_COMPLETE |-> "FINALIZING"]

(* The events that each task ever fires. *)
Fires ==
    [t \in Task |->
        CASE t = "start" -> {"DEVICE_CHECK_CONFIRMED", "ID_VERIFIED"}
          [] t = "client" -> {"INTRO_COMPLETE", "TOPIC_A_COMPLETE", "TOPIC_B_COMPLETE",
                              "TOPIC_C_COMPLETE", "CUE_CARD_ACKED", "LONG_TURN_ENDED",
                              "ROUNDOFF_COMPLETE", "DISCUSSION_COMPLETE"}
          [] t = "gemini" -> {"CLOSE_DELIVERED", "FINALIZE_COMPLETE"}
          [] t = "finalizing" -> {"FINALIZE_COMPLETE"}
          [] t = "part1_max" -> {"TOPIC_A_COMPLETE", "TOPIC_B_COMPLETE", "TOPIC_C_COMPLETE"}
          [] t = "part2_prep" -> {"PREP_TIMER_EXPIRED"}
          [] t = "part2_long_turn" -> {"LONG_TURN_ENDED"}
          [] t = "part3_discussion" -> {"DISCUSSION_COMPLETE"}]

----------------------------------------------------------------------------
(* The invariants *)

Busy(t) == task[t].pc \in {"load", "commit", "return", "enter", "marked", "enqueue"}

(* Task t's event has been committed, and t is not through with it. *)
Past(t) == task[t].pc \in {"return", "enter", "marked", "enqueue"}

(* A task is where only it can be, with an event that is its own. *)
TaskShape(t) ==
    /\ task[t].pc \in {"idle", "load", "commit", "return", "enter", "marked", "enqueue",
                       "poll", "cut", "clear", "wait"}
    /\ Busy(t) => task[t].event \in Fires[t]
    /\ ~Busy(t) => task[t].event = "none"
    /\ task[t].pc \in {"poll", "cut", "clear"} => t \in TimerName
    /\ task[t].pc = "cut" => t = "part2_long_turn"
    /\ task[t].pc = "wait" => t = "finalizing"
    /\ task[t].pc = "enqueue" => task[t].event = "FINALIZE_COMPLETE"
    /\ task[t].pc = "marked" => task[t].event = "INTRO_COMPLETE"

TaskRecord ==
    [pc : {"idle", "load", "commit", "return", "enter", "marked", "enqueue",
           "poll", "cut", "clear", "wait"},
     event : ExamEvent \cup {"none"}]

OrchestratorRecord ==
    [phase : ExamPhase, turns : 0..MostTurns, topicSets : BOOLEAN, cueCard : BOOLEAN,
     part1Start : BOOLEAN]

StateTypes ==
    /\ logged \in ExamPhase /\ status \in {"CREATED", "COMPLETED"}
    /\ sealedBy \in {"none", "drained", "timeout"}
    /\ deadline \in [TimerName -> BOOLEAN] /\ due \in [TimerName -> BOOLEAN]
    /\ marked \in BOOLEAN /\ floor \in BOOLEAN /\ muted \in BOOLEAN
    /\ orphans \in BOOLEAN /\ lost \in BOOLEAN /\ cardShown \in BOOLEAN
    /\ conn \in {"down", "starting", "up"}
    /\ orch \in OrchestratorRecord
    /\ flushing \in 0..MaxFlushing /\ stray \in 0..MaxFlushing
    /\ part3 \in {"unopened", "themed", "unthemed"}
    /\ graded \in Nat /\ drops \in 0..MaxDrops /\ severed \subseteq DOMAIN Held

Types ==
    /\ StateTypes
    /\ task \in [Task -> TaskRecord]
    /\ \A t \in Task : TaskShape(t)

(* No connection, no tasks; and start() runs alone. *)
Connected ==
    /\ conn = "down" => /\ \A t \in Task : task[t] = Idle
                        /\ ~muted /\ flushing = 0 /\ stray = 0
    /\ conn = "starting" => /\ \A t \in Task \ {"start"} : task[t] = Idle
                            /\ ~muted
                            /\ task["start"].pc \in {"load", "commit"} =>
                                   orch.phase = Source[task["start"].event]
                            /\ task["start"].pc = "enter" =>
                                   orch.phase = Target[task["start"].event]
    /\ conn = "up" => task["start"] = Idle

(* The cached phase is the logged one, or the one before it while the      *)
(* single task that committed is on its way back.                          *)
Cached ==
    conn # "down" =>
        \/ orch.phase = logged /\ \A t \in Task : task[t].pc # "return"
        \/ \E t \in Task :
            /\ task[t].pc = "return"
            /\ orch.phase = Source[task[t].event] /\ logged = Target[task[t].event]
            /\ \A u \in Task \ {t} : task[u].pc # "return"

(* No task is ahead of the cached phase. *)
Behind(t) ==
    LET here == Rung(orch.phase)
    IN  /\ task[t].pc \in {"load", "commit"} => Rung(Source[task[t].event]) <= here
        /\ task[t].pc \in {"enter", "marked", "enqueue"} => Rung(Target[task[t].event]) <= here
        /\ task[t].pc \in {"poll", "cut", "clear"} => Rung(First[t]) <= here
        /\ task[t].pc = "wait" => Rung("FINALIZING") <= here

(* Each transition is followed up by the task that made it, and no other.  *)
Once ==
    /\ \A t \in Task : Past(t) => Rung(Target[task[t].event]) <= Rung(logged)
    /\ \A t, u \in Task : Past(t) /\ Past(u) /\ task[t].event = task[u].event => t = u

(* The clock of a phase is touched only after the phase was entered, and   *)
(* the mark of Part 1 is a step ahead of its deadline.                     *)
Set(n) == deadline[n] \/ due[n]

Begun ==
    marked =>
        /\ Rung("PART1_TOPIC_A") <= Rung(logged)
        /\ \A t \in Task : Past(t) /\ Target[task[t].event] = "PART1_TOPIC_A" =>
                            task[t].pc = "marked"

Clocks ==
    /\ \A n \in TimerName : Set(n) =>
        /\ Rung(First[n]) <= Rung(logged)
        /\ \A t \in Task : Past(t) => Target[task[t].event] # First[n]
    /\ Begun
    /\ \A n \in TimerName : task[n].pc \notin {"idle", "poll"} => due[n]
    /\ due["part1_max"] => floor

Mic ==
    conn # "down" =>
        /\ orch.phase = "PART2_PREP" => muted
        /\ muted /\ ~due["part2_long_turn"] => orch.phase = "PART2_PREP"

(* The candidate's turn is counted as long as its activity_end is handled. *)
Counting == Unstarted <= flushing

Sealed ==
    sealedBy = "drained" =>
        /\ flushing = 0 /\ Rung("FINALIZING") <= Rung(logged)
        /\ conn # "down" => Rung("FINALIZING") <= Rung(orch.phase)

Grading ==
    /\ status = "COMPLETED" => logged = "COMPLETE"
    /\ graded = 0 \/ graded = 1
    /\ graded = 1 => /\ status = "COMPLETED"
                     /\ \A t \in Task : Past(t) => task[t].event # "FINALIZE_COMPLETE"
    /\ \A t \in Task : task[t].pc = "enqueue" => status = "COMPLETED"

(* What was recorded of Part 1's beginning is known to whoever ends it. *)
Floored ==
    /\ conn # "down" /\ orch.phase \in PART1_PHASES /\ marked => orch.part1Start
    /\ /\ task["client"].pc \in {"load", "commit"}
       /\ task["client"].event = "TOPIC_C_COMPLETE" /\ marked
       => floor

Acking == task["client"].event = "CUE_CARD_ACKED"

(* The card is acknowledged where it was shown. *)
Carded ==
    /\ cardShown => Rung("PART2_CUECARD_PRESENT") <= Rung(logged)
    /\ Acking => cardShown
    /\ Acking /\ task["client"].pc \in {"load", "commit"} =>
        orch.phase = "PART2_CUECARD_PRESENT"

(* The orchestrator has the card, or the topic sets, or a connection that  *)
(* had them was lost while they were still to be used.                     *)
CardKnown == orch.cueCard \/ "card" \in severed
TopicSetsKnown == orch.topicSets \/ "topics" \in severed

(* What is known from the choice of the content to its last use. *)
CardLinked ==
    /\ part3 = "unthemed" => "card" \in severed
    /\ conn = "down" /\ logged \in Held.card => "card" \in severed
    /\ conn # "down" =>
        /\ cardShown => CardKnown \/ Rung("PART3_DISCUSSION") <= Rung(orch.phase)
        /\ Rung("PART2_CUECARD_PRESENT") < Rung(orch.phase) =>
            \/ CardKnown
            \/ /\ Rung("PART3_DISCUSSION") <= Rung(orch.phase)
               /\ \A t \in Task : ~Entering(t, "PART3_DISCUSSION")

TopicsLinked ==
    /\ conn = "down" /\ logged \in Held.topics => "topics" \in severed
    /\ conn = "up" /\ Rung("INTRO") <= Rung(orch.phase) =>
        \/ TopicSetsKnown
        \/ /\ Rung("PART1_TOPIC_C") <= Rung(orch.phase)
           /\ \A t \in Task : ~EnteringTopic(t)

(* While the finalizing watchdog lives, the call that spawned it is over.  *)
Waiting ==
    task["finalizing"].pc # "idle" =>
        \A t \in Task : Past(t) => task[t].event # "CLOSE_DELIVERED"

Linked == CardLinked /\ TopicsLinked

IInv ==
    /\ Types /\ Connected /\ Cached
    /\ \A t \in Task : Behind(t)
    /\ Once /\ Clocks /\ Mic /\ Counting /\ Sealed /\ Grading /\ Floored /\ Carded
    /\ Waiting /\ Linked

----------------------------------------------------------------------------
(* Phases and events *)

(* Where the phases stand. *)
LEMMA Rungs ==
    /\ Rung("INIT_DEVICE_CHECK") = 0 /\ Rung("ID_VERIFICATION") = 1 /\ Rung("INTRO") = 2
    /\ Rung("PART1_TOPIC_A") = 3 /\ Rung("PART1_TOPIC_B") = 4 /\ Rung("PART1_TOPIC_C") = 5
    /\ Rung("PART2_CUECARD_PRESENT") = 6 /\ Rung("PART2_PREP") = 7
    /\ Rung("PART2_LONG_TURN") = 8 /\ Rung("PART2_ROUNDOFF") = 9
    /\ Rung("PART3_DISCUSSION") = 10 /\ Rung("CLOSE") = 11
    /\ Rung("FINALIZING") = 12 /\ Rung("COMPLETE") = 13
    /\ \A p \in ExamPhase : Rung(p) \in Nat /\ Rung(p) <= 13
<1>1. /\ Rung("INIT_DEVICE_CHECK") = 0 /\ Rung("ID_VERIFICATION") = 1 /\ Rung("INTRO") = 2
      /\ Rung("PART1_TOPIC_A") = 3 /\ Rung("PART1_TOPIC_B") = 4 /\ Rung("PART1_TOPIC_C") = 5
      /\ Rung("PART2_CUECARD_PRESENT") = 6 /\ Rung("PART2_PREP") = 7
      /\ Rung("PART2_LONG_TURN") = 8 /\ Rung("PART2_ROUNDOFF") = 9
      /\ Rung("PART3_DISCUSSION") = 10 /\ Rung("CLOSE") = 11
      /\ Rung("FINALIZING") = 12 /\ Rung("COMPLETE") = 13
  BY DEF Rung
<1>2. \A p \in ExamPhase : Rung(p) \in Nat /\ Rung(p) <= 13
  BY <1>1 DEF ExamPhase
<1> QED  BY <1>1, <1>2

(* No two phases stand on one rung. *)
LEMMA RungUnique ==
    ASSUME NEW p \in ExamPhase, NEW q \in ExamPhase, Rung(p) = Rung(q)
    PROVE  p = q
BY Rungs DEF ExamPhase

(* Where the events lead. *)
LEMMA Targets ==
    /\ Target["DEVICE_CHECK_CONFIRMED"] = "ID_VERIFICATION"
    /\ Target["ID_VERIFIED"] = "INTRO"
    /\ Target["INTRO_COMPLETE"] = "PART1_TOPIC_A"
    /\ Target["TOPIC_A_COMPLETE"] = "PART1_TOPIC_B"
    /\ Target["TOPIC_B_COMPLETE"] = "PART1_TOPIC_C"
    /\ Target["TOPIC_C_COMPLETE"] = "PART2_CUECARD_PRESENT"
    /\ Target["CUE_CARD_ACKED"] = "PART2_PREP"
    /\ Target["PREP_TIMER_EXPIRED"] = "PART2_LONG_TURN"
    /\ Target["LONG_TURN_ENDED"] = "PART2_ROUNDOFF"
    /\ Target["ROUNDOFF_COMPLETE"] = "PART3_DISCUSSION"
    /\ Target["DISCUSSION_COMPLETE"] = "CLOSE"
    /\ Target["CLOSE_DELIVERED"] = "FINALIZING"
    /\ Target["FINALIZE_COMPLETE"] = "COMPLETE"
<1>1. ASSUME NEW event \in ExamEvent, NEW from \in ExamPhase, NEW to \in ExamPhase,
             <<from, event, to>> \in TRANSITIONS,
             \A p \in ExamPhase, q \in ExamPhase : <<p, event, q>> \in TRANSITIONS => q = to
      PROVE  Target[event] = to
  BY <1>1 DEF Target
<1> DEFINE Leads(event, from, to) ==
             /\ event \in ExamEvent /\ from \in ExamPhase /\ to \in ExamPhase
             /\ <<from, event, to>> \in TRANSITIONS
             /\ \A p, q : <<p, event, q>> \in TRANSITIONS => q = to
<1>2. \A event, from, to : Leads(event, from, to) => Target[event] = to
  BY <1>1
<1>3. /\ Leads("DEVICE_CHECK_CONFIRMED", "INIT_DEVICE_CHECK", "ID_VERIFICATION")
      /\ Leads("ID_VERIFIED", "ID_VERIFICATION", "INTRO")
      /\ Leads("INTRO_COMPLETE", "INTRO", "PART1_TOPIC_A")
      /\ Leads("TOPIC_A_COMPLETE", "PART1_TOPIC_A", "PART1_TOPIC_B")
      /\ Leads("TOPIC_B_COMPLETE", "PART1_TOPIC_B", "PART1_TOPIC_C")
  BY DEF ExamEvent, ExamPhase, TRANSITIONS
<1>4. /\ Leads("TOPIC_C_COMPLETE", "PART1_TOPIC_C", "PART2_CUECARD_PRESENT")
      /\ Leads("CUE_CARD_ACKED", "PART2_CUECARD_PRESENT", "PART2_PREP")
      /\ Leads("PREP_TIMER_EXPIRED", "PART2_PREP", "PART2_LONG_TURN")
      /\ Leads("LONG_TURN_ENDED", "PART2_LONG_TURN", "PART2_ROUNDOFF")
  BY DEF ExamEvent, ExamPhase, TRANSITIONS
<1>5. /\ Leads("ROUNDOFF_COMPLETE", "PART2_ROUNDOFF", "PART3_DISCUSSION")
      /\ Leads("DISCUSSION_COMPLETE", "PART3_DISCUSSION", "CLOSE")
      /\ Leads("CLOSE_DELIVERED", "CLOSE", "FINALIZING")
      /\ Leads("FINALIZE_COMPLETE", "FINALIZING", "COMPLETE")
  BY DEF ExamEvent, ExamPhase, TRANSITIONS
<1> HIDE DEF Leads
<1> QED  BY <1>2, <1>3, <1>4, <1>5

(* An event leads from its source to its target, one rung up, and from     *)
(* nowhere else.                                                           *)
LEMMA EventEnds ==
    ASSUME NEW event \in ExamEvent
    PROVE  /\ Source[event] \in ExamPhase /\ Target[event] \in ExamPhase
           /\ Rung(Target[event]) = Rung(Source[event]) + 1
           /\ \A p \in ExamPhase : transition(p, event) =
                IF p = Source[event] THEN Target[event] ELSE InvalidTransitionError
           /\ \A other \in ExamEvent : Source[other] = Source[event] => other = event
<1>1. Source[event] \in ExamPhase /\ Target[event] \in ExamPhase
  BY Targets DEF ExamEvent, ExamPhase, Source
<1>2. Rung(Target[event]) = Rung(Source[event]) + 1
  BY Targets, Rungs DEF ExamEvent, Source
<1>3. \A p, q : <<p, event, q>> \in TRANSITIONS <=> p = Source[event] /\ q = Target[event]
  BY Targets DEF ExamEvent, TRANSITIONS, Source
<1>4. ASSUME NEW p \in ExamPhase
      PROVE  transition(p, event) =
                IF p = Source[event] THEN Target[event] ELSE InvalidTransitionError
  <2>1. transition(p, event) =
          IF \E q \in ExamPhase : <<p, event, q>> \in TRANSITIONS
          THEN CHOOSE q \in ExamPhase : <<p, event, q>> \in TRANSITIONS
          ELSE InvalidTransitionError
    BY DEF transition, Lookup
  <2> QED  BY <1>1, <1>3, <2>1
<1>5. \A other \in ExamEvent : Source[other] = Source[event] => other = event
  BY DEF ExamEvent, Source
<1> QED  BY <1>1, <1>2, <1>4, <1>5

(* An event is legal exactly in its source. *)
LEMMA Legal ==
    ASSUME Types, NEW event \in ExamEvent
    PROVE  /\ IsLegal(event) <=> logged = Source[event]
           /\ IsLegal(event) => transition(logged, event) = Target[event]
<1>1. InvalidTransitionError \notin ExamPhase /\ logged \in ExamPhase
  BY DEF InvalidTransitionError, ExamPhase, Types, StateTypes
<1> QED  BY <1>1, EventEnds DEF IsLegal

(* Events of the exam are all that the tasks fire. *)
LEMMA FiresEvents == \A t \in Task : Fires[t] \subseteq ExamEvent /\ "none" \notin ExamEvent
BY DEF Fires, Task, TimerName, ExamEvent

(* Where the orchestrator's own content is still to be used. *)
LEMMA HeldRungs ==
    /\ \A p \in ExamPhase : p \in Held.card <=>
         /\ Rung("PART2_CUECARD_PRESENT") <= Rung(p)
         /\ Rung(p) < Rung("PART3_DISCUSSION")
    /\ \A p \in ExamPhase : p \in Held.topics <=>
         Rung("INTRO") <= Rung(p) /\ Rung(p) < Rung("PART1_TOPIC_C")
BY Rungs DEF Held, ExamPhase

(* The deadlines' first phases, and the events that lead to them. *)
LEMMA Firsts ==
    /\ First["part1_max"] = "PART1_TOPIC_A" /\ First["part2_prep"] = "PART2_PREP"
    /\ First["part2_long_turn"] = "PART2_LONG_TURN"
    /\ First["part3_discussion"] = "PART3_DISCUSSION"
    /\ \A n \in TimerName : /\ First[n] \in ExamPhase
                            /\ \A p \in Timed[n] : p \in ExamPhase /\ Rung(First[n]) <= Rung(p)
<1>1. /\ First["part1_max"] = "PART1_TOPIC_A" /\ First["part2_prep"] = "PART2_PREP"
      /\ First["part2_long_turn"] = "PART2_LONG_TURN"
      /\ First["part3_discussion"] = "PART3_DISCUSSION"
  BY DEF First, TimerName
<1>2. \A n \in TimerName : First[n] \in ExamPhase
  BY <1>1 DEF TimerName, ExamPhase
<1>3. ASSUME NEW n \in TimerName, NEW p \in Timed[n]
      PROVE  p \in ExamPhase /\ Rung(First[n]) <= Rung(p)
  BY <1>1, Rungs DEF TimerName, Timed, PART1_PHASES, ExamPhase
<1> QED  BY <1>1, <1>2, <1>3

----------------------------------------------------------------------------
(* What a step makes of the tasks *)

(* Task t, which was not on its way back, rests, or takes up something     *)
(* that the cached phase allows.                                           *)
TakesUp(t) ==
    LET next == task'[t]
        here == Rung(orch.phase)
    IN  /\ task[t].pc # "return"
        /\ \/ next = Idle
           \/ /\ next.pc \in {"load", "commit"} /\ next.event \in Fires[t]
              /\ Rung(Source[next.event]) <= here
           \/ /\ next.pc \in {"poll", "cut", "clear"} /\ next.event = "none"
              /\ t \in TimerName /\ Rung(First[t]) <= here
              /\ next.pc = "cut" => t = "part2_long_turn"
           \/ /\ next.pc = "wait" /\ next.event = "none"
              /\ t = "finalizing" /\ Rung("FINALIZING") <= here
           \/ /\ task[t].pc = "enter" /\ next.pc = "enqueue"
              /\ next.event = task[t].event /\ next.event = "FINALIZE_COMPLETE"
           \/ /\ task[t].pc = "enter" /\ next.pc = "marked"
              /\ next.event = task[t].event /\ next.event = "INTRO_COMPLETE"

(* A step in which nobody commits, returns or connects. *)
Quiet ==
    /\ logged' = logged /\ orch'.phase = orch.phase
    /\ conn' # "down" => conn # "down"
    /\ \A t \in Task : task'[t] = task[t] \/ TakesUp(t)

(* Nobody begins to enter a phase. *)
NoNewEntry ==
    \A t \in Task : /\ task'[t].pc = "enter" => task[t].pc = "enter"
                    /\ task'[t].pc = "marked" => task[t].pc \in {"enter", "marked"}

(* Then each task is where it may be, and the phases agree as they did. *)
LEMMA QuietKeeps ==
    ASSUME Types, Cached, \A t \in Task : Behind(t), Once, Quiet
    PROVE  /\ \A t \in Task : TaskShape(t)'
           /\ Cached' /\ (\A t \in Task : Behind(t)') /\ Once'
           /\ \A t \in Task : Past(t)' => /\ Past(t) /\ task'[t].event = task[t].event
                                          /\ task[t].pc = "marked" => task'[t].pc = "marked"
           /\ NoNewEntry
<1>1. ASSUME NEW t \in Task
      PROVE  TaskShape(t)'
  <2>1. CASE task'[t] = task[t]
    BY <2>1 DEF Types, StateTypes, TaskShape, Busy
  <2>2. CASE TakesUp(t)
    <3>1. Busy(t) => task[t].event \in Fires[t]
      BY DEF Types, StateTypes, TaskShape
    <3> QED  BY <2>2, <3>1 DEF TakesUp, TaskShape, Busy, Idle
  <2> QED  BY <2>1, <2>2 DEF Quiet
<1>2. ASSUME NEW t \in Task
      PROVE  Behind(t)'
  <2>1. CASE task'[t] = task[t]
    BY <2>1 DEF Behind, Quiet
  <2>2. CASE TakesUp(t)
    BY <2>2 DEF TakesUp, Behind, Idle, Quiet
  <2> QED  BY <2>1, <2>2 DEF Quiet
<1>3. \A t \in Task : Past(t)' => /\ Past(t) /\ task'[t].event = task[t].event
                                  /\ task[t].pc = "marked" => task'[t].pc = "marked"
  BY DEF Quiet, TakesUp, Past, Idle
<1>4. \A t \in Task : /\ task'[t].pc = "return" <=> task[t].pc = "return"
                      /\ task'[t].pc = "return" => task'[t] = task[t]
  BY DEF Quiet, TakesUp, Idle
<1>5. Cached'
  BY <1>4 DEF Cached, Quiet
<1>6. Once'
  BY <1>3 DEF Once, Quiet
<1>7. NoNewEntry
  BY DEF NoNewEntry, Quiet, TakesUp, Idle
<1> QED  BY <1>1, <1>2, <1>3, <1>5, <1>6, <1>7

(* A clock that nobody sets stays as it is. *)
LEMMA ClocksFrame ==
    ASSUME Clocks, logged' = logged,
           \A t \in Task : Past(t)' => /\ Past(t) /\ task'[t].event = task[t].event
                                       /\ task[t].pc = "marked" => task'[t].pc = "marked",
           \A n \in TimerName : (Set(n)' => Set(n)) /\ (due[n] => due'[n]), marked' => marked,
           \A n \in TimerName : \/ task'[n] = task[n]
                               \/ task'[n].pc \in {"idle", "poll"}
                               \/ due[n],
           due'["part1_max"] => floor'
    PROVE  Clocks'
<1>1. \A n \in TimerName : Set(n)' =>
        /\ Rung(First[n]) <= Rung(logged)
        /\ \A t \in Task : Past(t)' => Target[task'[t].event] # First[n]
  BY DEF Clocks
<1>2. \A n \in TimerName : task'[n].pc \notin {"idle", "poll"} => due'[n]
  BY DEF Clocks
<1>3. Begun'
  BY DEF Clocks, Begun
<1> QED  BY <1>1, <1>2, <1>3 DEF Clocks

(* The microphone stays as it is in the same phase. *)
LEMMA MicFrame ==
    ASSUME Mic, orch'.phase = orch.phase, conn' # "down" => conn # "down", muted' = muted,
           \A n \in TimerName : due[n] => due'[n]
    PROVE  Mic'
BY DEF Mic, TimerName

(* A seal is as good as it was while no more turns are counted. *)
LEMMA SealedFrame ==
    ASSUME Sealed, logged' = logged, orch'.phase = orch.phase,
           conn' # "down" => conn # "down", sealedBy' = sealedBy,
           flushing' = flushing \/ sealedBy # "drained"
    PROVE  Sealed'
BY DEF Sealed

(* Nothing is graded twice while nobody enters COMPLETE. *)
LEMMA GradingFrame ==
    ASSUME Grading, UNCHANGED <<logged, status, graded>>,
           \A t \in Task : Past(t)' => /\ Past(t) /\ task'[t].event = task[t].event
                                       /\ task[t].pc = "marked" => task'[t].pc = "marked",
           \A t \in Task : task'[t].pc = "enqueue" => task[t].pc = "enqueue"
    PROVE  Grading'
BY DEF Grading

(* The client's task stays, ends, or goes on to its commit.                *)
ClientSteady ==
    LET now == task["client"]
        next == task'["client"]
    IN  \/ next = now \/ next = Idle
        \/ now.pc = "load" /\ next.pc = "commit" /\ next.event = now.event

(* Then what is known of its turn, the floor and the card stays known.     *)
LEMMA ClientFrame ==
    ASSUME Floored, Carded, Counting, Quiet, ClientSteady, Types,
           UNCHANGED <<marked, cardShown, flushing>>, orch'.part1Start = orch.part1Start,
           floor => floor'
    PROVE  Floored' /\ Carded' /\ Counting'
<1>1. Floored'
  BY DEF Floored, Quiet, ClientSteady, Idle
<1>2. Carded'
  BY DEF Carded, Acking, Quiet, ClientSteady, Idle
<1>3. Unstarted' = 0 \/ Unstarted' = Unstarted
  <2>1. \/ task'["client"].pc = "idle"
        \/ task["client"].pc # "idle" /\ task'["client"].event = task["client"].event
    BY DEF ClientSteady, Idle
  <2> QED  BY <2>1 DEF Unstarted
<1>4. flushing \in Nat
  BY SettingsAssumption DEF Types, StateTypes
<1>5. Counting'
  BY <1>3, <1>4 DEF Counting
<1> QED  BY <1>1, <1>2, <1>5

(* The connection that began goes on. *)
LEMMA LinkedFrame ==
    ASSUME Linked, UNCHANGED <<logged, severed, cardShown, part3, conn>>,
           orch'.phase = orch.phase, orch'.cueCard = orch.cueCard,
           orch'.topicSets = orch.topicSets,
           \A t \in Task : Past(t)' => Past(t) /\ task'[t].event = task[t].event,
           NoNewEntry
    PROVE  Linked'
<1>1. \A t \in Task : Entering(t, "PART3_DISCUSSION")' => Entering(t, "PART3_DISCUSSION")
  BY DEF Entering, NoNewEntry, Past
<1>2. \A t \in Task : EnteringTopic(t)' => EnteringTopic(t)
  BY DEF EnteringTopic, NoNewEntry, Past
<1>3. CardLinked'
  BY <1>1 DEF Linked, CardLinked, CardKnown
<1>4. TopicsLinked'
  BY <1>2 DEF Linked, TopicsLinked, TopicSetsKnown
<1> QED  BY <1>3, <1>4 DEF Linked

----------------------------------------------------------------------------
(* Tasks and the connection they belong to *)

(* A task's records are records of a task. *)
LEMMA Records ==
    /\ Idle \in TaskRecord
    /\ \A pc \in {"poll", "cut", "clear", "wait"} : At(pc) \in TaskRecord
    /\ \A event \in ExamEvent : Calling(event) \in TaskRecord
BY DEF Idle, At, Calling, TaskRecord

(* One task is set. *)
LEMMA OneTask ==
    ASSUME Types, NEW t \in Task, NEW next \in TaskRecord, task' = [task EXCEPT ![t] = next]
    PROVE  /\ task' \in [Task -> TaskRecord] /\ task'[t] = next
           /\ \A u \in Task \ {t} : task'[u] = task[u]
BY DEF Types, StateTypes

(* A call of _advance ends, and may have spawned a watchdog. *)
LEMMA Advanced ==
    ASSUME Types, NEW t \in Task, NEW spawned \in SUBSET TimerName,
           task' = AfterAdvance(t, spawned)
    PROVE  /\ task' \in [Task -> TaskRecord]
           /\ \A u \in Task : task'[u] = IF u \in spawned THEN At("poll")
                                         ELSE IF u = t THEN Idle ELSE task[u]
BY Records DEF Types, StateTypes, AfterAdvance

(* A task's next pc. *)
LEMMA NextPc ==
    ASSUME Types, NEW t \in Task, NEW pc \in {"commit", "return", "enter", "marked", "enqueue"},
           task' = [task EXCEPT ![t].pc = pc]
    PROVE  /\ task' \in [Task -> TaskRecord]
           /\ task'[t].pc = pc /\ task'[t].event = task[t].event
           /\ \A u \in Task \ {t} : task'[u] = task[u]
<1>1. task \in [Task -> TaskRecord]
  BY DEF Types, StateTypes
<1> DEFINE next == [task[t] EXCEPT !.pc = pc]
<1>2. next \in TaskRecord /\ next.pc = pc /\ next.event = task[t].event
  BY <1>1 DEF TaskRecord
<1>3. task' = [task EXCEPT ![t] = next]
  BY <1>1
<1> HIDE DEF next
<1> QED  BY <1>1, <1>2, <1>3

(* A task that does something has a connection, and start() one that       *)
(* nothing else runs on yet.                                               *)
LEMMA Awake ==
    ASSUME Types, Connected, NEW t \in Task, task[t] # Idle
    PROVE  IF t = "start" THEN conn = "starting" ELSE conn = "up"
BY DEF Connected, Types, StateTypes

(* The cached phase is never ahead of the log. *)
LEMMA CachedBelow ==
    ASSUME Types, Cached, conn # "down"
    PROVE  Rung(orch.phase) <= Rung(logged)
<1>1. orch.phase \in ExamPhase /\ logged \in ExamPhase
  BY DEF Types, StateTypes, OrchestratorRecord
<1>2. CASE orch.phase = logged
  BY <1>1, <1>2, Rungs
<1>3. ASSUME NEW t \in Task, task[t].pc = "return",
             orch.phase = Source[task[t].event], logged = Target[task[t].event]
      PROVE  Rung(orch.phase) <= Rung(logged)
  <2>1. task[t].event \in ExamEvent
    BY <1>3, FiresEvents DEF Types, StateTypes, TaskShape, Busy
  <2> QED  BY <1>1, <1>3, <2>1, EventEnds, Rungs
<1> QED  BY <1>2, <1>3 DEF Cached

(* A task about to fire an event that is legal finds the cache in step     *)
(* with the log.                                                           *)
LEMMA LegalHere ==
    ASSUME Types, Cached, conn # "down", NEW t \in Task, Behind(t),
           task[t].pc \in {"load", "commit"}, IsLegal(task[t].event)
    PROVE  /\ task[t].event \in ExamEvent
           /\ logged = Source[task[t].event] /\ orch.phase = logged
           /\ \A u \in Task : task[u].pc # "return"
<1>1. task[t].event \in ExamEvent
  BY FiresEvents DEF Types, StateTypes, TaskShape, Busy
<1>2. logged = Source[task[t].event]
  BY <1>1, Legal
<1>3. Rung(logged) <= Rung(orch.phase) /\ Rung(orch.phase) <= Rung(logged)
  BY <1>2, CachedBelow DEF Behind
<1>4. orch.phase \in ExamPhase /\ logged \in ExamPhase
  BY DEF Types, StateTypes, OrchestratorRecord
<1>5. orch.phase = logged
  <2>1. Rung(orch.phase) = Rung(logged)
    BY <1>3, <1>4, Rungs
  <2> QED  BY <1>4, <2>1, RungUnique
<1>6. ASSUME NEW u \in Task, task[u].pc = "return"
      PROVE  FALSE
  <2>1. task[u].event \in ExamEvent
    BY <1>6, FiresEvents DEF Types, StateTypes, TaskShape, Busy
  <2>2. \E w \in Task : /\ task[w].pc = "return"
                        /\ orch.phase = Source[task[w].event]
                        /\ logged = Target[task[w].event]
    BY <1>6 DEF Cached
  <2>3. PICK w \in Task : /\ task[w].pc = "return"
                          /\ orch.phase = Source[task[w].event]
                          /\ logged = Target[task[w].event]
    BY <2>2
  <2>4. task[w].event \in ExamEvent
    BY <2>3, FiresEvents DEF Types, StateTypes, TaskShape, Busy
  <2>5. Rung(Target[task[w].event]) = Rung(Source[task[w].event]) + 1
    BY <2>4, EventEnds
  <2>6. Rung(Target[task[w].event]) = Rung(Source[task[w].event])
    BY <1>5, <2>3
  <2>7. Rung(Source[task[w].event]) \in Nat
    BY <2>4, EventEnds, Rungs
  <2> QED  BY <2>5, <2>6, <2>7
<1> QED  BY <1>1, <1>2, <1>5, <1>6

(* The budget of turns that is counted up to is the largest of the four.   *)
LEMMA MostTurnsBounds ==
    /\ MostTurns \in Nat
    /\ \A p \in DOMAIN _candidate_turn_budget_for_phase :
         /\ _candidate_turn_budget_for_phase[p].turns \in Nat \ {0}
         /\ _candidate_turn_budget_for_phase[p].turns <= MostTurns
<1> DEFINE budget == _candidate_turn_budget_for_phase
           S == {b.turns : b \in {budget[p] : p \in DOMAIN budget}}
           Most(n) == \A p \in DOMAIN budget : budget[p].turns <= n
<1>1. /\ intro_turns \in Nat \ {0} /\ part1_topic_turns \in Nat \ {0}
      /\ part2_roundoff_turns \in Nat \ {0} /\ part3_discussion_turns \in Nat \ {0}
  BY SettingsAssumption
<1>2. /\ DOMAIN budget = {"INTRO", "PART1_TOPIC_A", "PART1_TOPIC_B", "PART1_TOPIC_C",
                          "PART2_ROUNDOFF", "PART3_DISCUSSION"}
      /\ budget["INTRO"].turns = intro_turns
      /\ budget["PART1_TOPIC_A"].turns = part1_topic_turns
      /\ budget["PART1_TOPIC_B"].turns = part1_topic_turns
      /\ budget["PART1_TOPIC_C"].turns = part1_topic_turns
      /\ budget["PART2_ROUNDOFF"].turns = part2_roundoff_turns
      /\ budget["PART3_DISCUSSION"].turns = part3_discussion_turns
  BY DEF _candidate_turn_budget_for_phase
<1> HIDE DEF budget
<1>3. /\ intro_turns \in S /\ part1_topic_turns \in S
      /\ part2_roundoff_turns \in S /\ part3_discussion_turns \in S
  BY <1>2
<1>4. \A n : Most(n) <=> /\ intro_turns <= n /\ part1_topic_turns <= n
                        /\ part2_roundoff_turns <= n /\ part3_discussion_turns <= n
  BY <1>2
<1>5. \E n \in S : Most(n)
  <2> DEFINE a == IF intro_turns <= part1_topic_turns THEN part1_topic_turns ELSE intro_turns
             b == IF part2_roundoff_turns <= part3_discussion_turns
                  THEN part3_discussion_turns ELSE part2_roundoff_turns
             m == IF a <= b THEN b ELSE a
  <2>1. m \in S
    BY <1>3
  <2>2. /\ intro_turns <= m /\ part1_topic_turns <= m
        /\ part2_roundoff_turns <= m /\ part3_discussion_turns <= m
    BY <1>1
  <2> HIDE DEF m
  <2> QED  BY <1>4, <2>1, <2>2
<1>6. S \subseteq Nat
  BY <1>1, <1>2
<1>7. MostTurns = CHOOSE n \in S : Most(n)
  BY DEF MostTurns, budget
<1>8. MostTurns \in S /\ Most(MostTurns)
  <2> HIDE DEF S, Most
  <2> QED  BY <1>5, <1>7
<1>9. \A p \in DOMAIN budget : budget[p].turns \in Nat \ {0}
  BY <1>1, <1>2
<1> QED  BY <1>6, <1>8, <1>9 DEF budget

----------------------------------------------------------------------------
(* Steps that keep the whole invariant *)

(* A new orchestrator is one. *)
LEMMA NewOrchestratorIsOne ==
    ASSUME Types, NEW p \in ExamPhase
    PROVE  /\ NewOrchestrator(p) \in OrchestratorRecord
           /\ NewOrchestrator(p).phase = p
<1>1. 0 \in 0..MostTurns
  BY MostTurnsBounds
<1>2. (p \in PART1_PHASES /\ marked) \in BOOLEAN
  OBVIOUS
<1> DEFINE b == p \in PART1_PHASES /\ marked
<1>3. NewOrchestrator(p) = [phase |-> p, turns |-> 0, topicSets |-> FALSE,
                            cueCard |-> FALSE, part1Start |-> b]
  BY DEF NewOrchestrator
<1>4. b \in BOOLEAN
  BY <1>2
<1> HIDE DEF b
<1> QED  BY <1>1, <1>3, <1>4 DEF OrchestratorRecord

(* A connection that is torn down leaves a session another one can pick    *)
(* up.                                                                     *)
LEMMA TeardownKeeps ==
    ASSUME IInv, NEW died \in BOOLEAN, Teardown(died),
           UNCHANGED <<logged, session, clock, cardShown, part3>>,
           deadline' \in [TimerName -> BOOLEAN], marked' \in BOOLEAN,
           \A n \in TimerName : Set(n)' => Rung(First[n]) <= Rung(logged),
           marked' => marked, drops' \in 0..MaxDrops
    PROVE  IInv'
<1>1. conn' = "down" /\ muted' = FALSE /\ flushing' = 0 /\ stray' = 0
  BY DEF Teardown
<1>2. \A t \in Task : task'[t] = Idle
  BY DEF Teardown
<1>3. orch' = NewOrchestrator(INITIAL_PHASE)
  BY DEF Teardown
<1>4. /\ orphans' \in BOOLEAN /\ lost' \in BOOLEAN
      /\ severed' = severed \cup {c \in DOMAIN Held : logged \in Held[c]}
  BY DEF Teardown
<1>5. UNCHANGED <<logged, status, sealedBy, graded, due, floor, cardShown, part3>>
  BY DEF session, clock
<1>6. Types'
  <2>1. \A t \in Task : TaskShape(t)'
    BY <1>2 DEF TaskShape, Busy, Idle
  <2>2. task' \in [Task -> TaskRecord]
    BY Records DEF Teardown
  <2>3. orch' \in OrchestratorRecord
    <3>1. INITIAL_PHASE \in ExamPhase
      BY DEF INITIAL_PHASE, ExamPhase
    <3> QED  BY <1>3, <3>1, NewOrchestratorIsOne DEF IInv
  <2>4. flushing' \in 0..MaxFlushing /\ stray' \in 0..MaxFlushing
    BY <1>1, SettingsAssumption
  <2> QED  BY <1>1, <1>4, <1>5, <2>1, <2>2, <2>3, <2>4 DEF IInv, Types, StateTypes
<1>7. Connected' /\ Cached' /\ Mic'
  BY <1>1, <1>2 DEF Connected, Cached, Mic
<1>8. (\A t \in Task : Behind(t)') /\ Once'
  BY <1>2 DEF Behind, Once, Past, Idle
<1>9. Clocks' /\ Waiting'
  <2>1. Begun'
    BY <1>2, <1>5 DEF IInv, Clocks, Begun, Past, Idle
  <2> QED  BY <1>2, <1>5, <2>1 DEF IInv, Clocks, Waiting, Past, Idle, TimerName, Task
<1>10. Counting'
  <2>1. Unstarted' = 0
    BY <1>2 DEF Unstarted, Idle, Task
  <2> QED  BY <1>1, <2>1 DEF Counting
<1>11. Sealed' /\ Grading'
  BY <1>1, <1>2, <1>5 DEF IInv, Sealed, Grading, Past, Idle
<1>12. Floored' /\ Carded'
  BY <1>1, <1>2, <1>5 DEF IInv, Floored, Carded, Acking, Idle, Task
<1>13. Linked'
  <2>1. /\ logged \in Held.card => "card" \in severed'
        /\ logged \in Held.topics => "topics" \in severed'
        /\ severed \subseteq severed'
    BY <1>4 DEF Held
  <2> QED  BY <1>1, <1>5, <2>1 DEF IInv, Linked, CardLinked, TopicsLinked
<1> QED  BY <1>6, <1>7, <1>8, <1>9, <1>10, <1>11, <1>12, <1>13 DEF IInv

(* A step that moves only tasks, none of them on to COMPLETE's enqueueing. *)
LEMMA TasksKeep ==
    ASSUME IInv, Quiet, ClientSteady, Connected', task' \in [Task -> TaskRecord],
           \A n \in TimerName : task'[n] = task[n] \/ task'[n].pc \in {"idle", "poll"} \/ due[n],
           \A t \in Task : task'[t].pc = "enqueue" => task[t].pc = "enqueue",
           task'["finalizing"].pc # "idle" => task["finalizing"].pc # "idle",
           UNCHANGED <<logged, session, keys, clock, connection, flushes, outside>>
    PROVE  IInv'
<1>1. UNCHANGED <<logged, status, sealedBy, graded, deadline, marked, due, floor, conn, orch,
                  muted, flushing, stray, orphans, lost, severed, cardShown, part3, drops>>
  BY DEF session, keys, clock, connection, flushes, outside
<1>2. /\ \A t \in Task : TaskShape(t)'
      /\ Cached' /\ (\A t \in Task : Behind(t)') /\ Once'
      /\ \A t \in Task : Past(t)' => /\ Past(t) /\ task'[t].event = task[t].event
                                     /\ task[t].pc = "marked" => task'[t].pc = "marked"
      /\ NoNewEntry
  BY QuietKeeps DEF IInv
<1>3. Types'
  BY <1>1, <1>2 DEF IInv, Types, StateTypes
<1>4. Clocks'
  <2>1. \A n \in TimerName : (Set(n)' => Set(n)) /\ (due[n] => due'[n])
    BY <1>1 DEF Set
  <2>2. due'["part1_max"] => floor'
    BY <1>1 DEF IInv, Clocks
  <2> QED  BY <1>1, <1>2, <2>1, <2>2, ClocksFrame DEF IInv
<1>5. Mic'
  BY <1>1, MicFrame DEF IInv
<1>10. Sealed'
  BY <1>1, SealedFrame DEF IInv
<1>6. Grading'
  BY <1>1, <1>2, GradingFrame DEF IInv
<1>7. Floored' /\ Carded' /\ Counting'
  BY <1>1, ClientFrame DEF IInv
<1>8. Linked'
  BY <1>1, <1>2, LinkedFrame DEF IInv
<1>9. Waiting'
  BY <1>2 DEF IInv, Waiting
<1> QED  BY <1>2, <1>3, <1>4, <1>5, <1>10, <1>6, <1>7, <1>8, <1>9 DEF IInv

(* Nothing about start() changes while the pumps run. *)
LEMMA PumpsRun ==
    ASSUME Connected, conn = "up", conn' = "up", task'["start"] = task["start"]
    PROVE  Connected'
BY DEF Connected

(* An event fired where it is illegal: nobody is hurt but whoever fired    *)
(* it, and the connection if that was start() or a pump.                   *)
LEMMA RaiseKeeps ==
    ASSUME IInv, NEW t \in Task, task[t].pc \in {"load", "commit"}, ~IsLegal(task[t].event),
           Raise(t), UNCHANGED <<logged, session, keys, clock, outside>>
    PROVE  IInv'
<1>2. IF t = "start" THEN conn = "starting" ELSE conn = "up"
  BY Awake DEF IInv, Idle
<1>3. UNCHANGED <<logged, session, keys, clock, cardShown, part3, drops, deadline, marked, due>>
  BY DEF outside, keys, clock
<1>4. \A n \in TimerName : Set(n)' => Rung(First[n]) <= Rung(logged)
  BY <1>3 DEF IInv, Clocks, Set
<1>5. CASE t \in {"start", "client", "gemini"}
  <2>1. /\ deadline' \in [TimerName -> BOOLEAN] /\ marked' \in BOOLEAN
        /\ drops' \in 0..MaxDrops /\ (marked' => marked)
    BY <1>3 DEF IInv, Types, StateTypes
  <2>2. Teardown(FALSE)
    BY <1>5 DEF Raise
  <2> QED  BY <1>3, <1>4, <2>1, <2>2, TeardownKeeps
<1>10. CASE t \notin {"start", "client", "gemini"}
  <2>1. task' = [task EXCEPT ![t] = Idle] /\ UNCHANGED <<connection, flushes>>
    BY <1>10 DEF Raise
  <2>2. /\ task' \in [Task -> TaskRecord] /\ task'[t] = Idle
        /\ \A u \in Task \ {t} : task'[u] = task[u]
    BY <2>1, OneTask, Records DEF IInv
  <2>3. conn = "up" /\ conn' = conn /\ orch' = orch
    BY <1>2, <1>10, <2>1 DEF connection
  <2>4. Quiet
    BY <1>3, <2>2, <2>3 DEF Quiet, TakesUp
  <2>5. ClientSteady
    BY <1>10, <2>2 DEF ClientSteady, Task
  <2>6. Connected'
    BY <1>10, <2>2, <2>3, PumpsRun DEF IInv, Task
  <2>7. \A u \in Task : task'[u] = task[u] \/ task'[u].pc = "idle"
    BY <2>2 DEF Idle
  <2>8. "finalizing" \in Task /\ TimerName \subseteq Task
    BY DEF Task
  <2>9. \A u \in Task : task'[u].pc = "enqueue" => task[u].pc = "enqueue"
    BY <2>7
  <2> QED  BY <2>1, <2>2, <2>4, <2>5, <2>6, <2>7, <2>8, <2>9, TasksKeep
<1> QED  BY <1>5, <1>10

(* transition() reads the log. *)
LEMMA LoadKeeps ==
    ASSUME IInv, NEW t \in Task, Load(t)
    PROVE  IInv'
<1>1. task[t].pc = "load" /\ UNCHANGED <<logged, session, keys, clock, outside>>
  BY DEF Load
<1>2. CASE ~IsLegal(task[t].event)
  <2>1. Raise(t)
    BY <1>2 DEF Load
  <2> QED  BY <1>1, <1>2, <2>1, RaiseKeeps
<1>3. CASE IsLegal(task[t].event)
  <2>1. task' = [task EXCEPT ![t].pc = "commit"] /\ UNCHANGED <<connection, flushes>>
    BY <1>3 DEF Load
  <2>2. /\ task' \in [Task -> TaskRecord]
        /\ task'[t].pc = "commit" /\ task'[t].event = task[t].event
        /\ \A u \in Task \ {t} : task'[u] = task[u]
    BY <2>1, NextPc DEF IInv
  <2>3. task[t].event \in Fires[t] /\ Rung(Source[task[t].event]) <= Rung(orch.phase)
    BY <1>1 DEF IInv, Types, TaskShape, Busy, Behind
  <2>4. conn' = conn /\ orch' = orch /\ muted' = muted /\ logged' = logged
    BY <1>1, <2>1 DEF connection
  <2>5. Quiet
    BY <1>1, <2>2, <2>3, <2>4 DEF Quiet, TakesUp
  <2>6. ClientSteady
    BY <1>1, <2>2 DEF ClientSteady, Task
  <2>7. Connected'
    <3>1. flushing' = flushing /\ stray' = stray
      BY <2>1 DEF flushes
    <3>2. IF t = "start" THEN conn = "starting" ELSE conn = "up"
      BY <1>1, Awake DEF IInv, Idle
    <3>3. CASE t = "start"
      BY <1>1, <2>2, <2>4, <3>1, <3>2, <3>3 DEF IInv, Connected
    <3>4. CASE t # "start"
      BY <2>2, <2>4, <3>2, <3>4, PumpsRun DEF IInv, Task
    <3> QED  BY <3>3, <3>4
  <2>8. \A n \in TimerName : task'[n] = task[n] \/ task'[n].pc \in {"idle", "poll"} \/ due[n]
    BY <1>1, <2>2 DEF IInv, Clocks, Task
  <2>9. \A u \in Task : task'[u].pc = "enqueue" => task[u].pc = "enqueue"
    BY <2>2
  <2>10. task'["finalizing"].pc # "idle" => task["finalizing"].pc # "idle"
    BY <1>1, <2>2 DEF Task
  <2> QED  BY <1>1, <2>1, <2>2, <2>5, <2>6, <2>7, <2>8, <2>9, <2>10, TasksKeep
<1> QED  BY <1>2, <1>3

(* One task other than start() and the client's is set, to something it    *)
(* may take up, and nothing else happens.                                  *)
LEMMA OneTaskKeeps ==
    ASSUME IInv, NEW t \in Task \ {"start", "client"}, conn = "up", NEW next \in TaskRecord,
           task' = [task EXCEPT ![t] = next], TakesUp(t),
           next.pc \in {"idle", "poll"} \/ (t \in TimerName => due[t]),
           next.pc # "enqueue",
           t = "finalizing" => next.pc = "idle" \/ task[t].pc # "idle",
           UNCHANGED <<logged, session, keys, clock, connection, flushes, outside>>
    PROVE  IInv'
<1>1. /\ task' \in [Task -> TaskRecord] /\ task'[t] = next
      /\ \A u \in Task \ {t} : task'[u] = task[u]
  BY OneTask DEF IInv
<1>2. conn' = conn /\ orch' = orch /\ logged' = logged
  BY DEF connection
<1>3. Quiet
  BY <1>1, <1>2 DEF Quiet
<1>4. ClientSteady
  BY <1>1 DEF ClientSteady, Task
<1>5. Connected'
  BY <1>1, <1>2, PumpsRun DEF IInv, Task
<1>6. \A n \in TimerName : task'[n] = task[n] \/ task'[n].pc \in {"idle", "poll"} \/ due[n]
  BY <1>1 DEF Task
<1>7. \A u \in Task : task'[u].pc = "enqueue" => task[u].pc = "enqueue"
  BY <1>1
<1>8. task'["finalizing"].pc # "idle" => task["finalizing"].pc # "idle"
  BY <1>1 DEF Task
<1> QED  BY <1>1, <1>3, <1>4, <1>5, <1>6, <1>7, <1>8, TasksKeep

(* CLOSE is over once Gemini has spoken. *)
LEMMA GeminiKeeps ==
    ASSUME IInv, on_gemini_turn_complete
    PROVE  IInv'
<1> DEFINE next == Calling("CLOSE_DELIVERED")
<1>1. next \in TaskRecord /\ next.pc = "load" /\ next.event = "CLOSE_DELIVERED"
  BY Records DEF ExamEvent, Calling
<1>2. /\ conn = "up" /\ task["gemini"].pc = "idle" /\ orch.phase = "CLOSE"
      /\ task' = [task EXCEPT !["gemini"] = next]
      /\ UNCHANGED <<logged, session, keys, clock, connection, flushes, outside>>
  BY DEF on_gemini_turn_complete
<1>3. "gemini" \in Task \ {"start", "client"} /\ "gemini" \notin TimerName
  BY DEF Task, TimerName
<1> HIDE DEF next
<1>4. TakesUp("gemini")
  <2>1. task'["gemini"] = next
    BY <1>1, <1>2, <1>3, OneTask DEF IInv
  <2>2. "CLOSE_DELIVERED" \in Fires["gemini"]
    BY <1>3 DEF Fires
  <2>3. Rung(Source["CLOSE_DELIVERED"]) <= Rung(orch.phase)
    BY <1>2, Rungs DEF Source
  <2> QED  BY <1>1, <1>2, <2>1, <2>2, <2>3 DEF TakesUp
<1> QED  BY <1>1, <1>2, <1>3, <1>4, OneTaskKeeps

(* A watchdog that stops waiting, or has nobody to wait for. *)
LEMMA PollKeeps ==
    ASSUME IInv, NEW n \in TimerName, Poll(n) \/ (n = "part2_long_turn" /\ PollLongTurn)
    PROVE  IInv'
<1>1. /\ task[n].pc = "poll"
      /\ \/ task' = [task EXCEPT ![n] = Idle]
         \/ due[n] /\ task' = [task EXCEPT ![n] = At("clear")]
         \/ due[n] /\ n = "part2_long_turn" /\ task' = [task EXCEPT ![n] = At("cut")]
      /\ UNCHANGED <<logged, session, keys, clock, connection, flushes, outside>>
  BY DEF Poll, PollLongTurn, Expired
<1>2. n \in Task \ {"start", "client"} /\ n # "finalizing"
  BY DEF TimerName, Task
<1>3. conn = "up" /\ Rung(First[n]) <= Rung(orch.phase)
  BY <1>1, <1>2, Awake DEF IInv, Idle, Behind
<1>4. ASSUME NEW next \in TaskRecord, task' = [task EXCEPT ![n] = next],
             \/ next = Idle
             \/ due[n] /\ next.pc = "clear" /\ next.event = "none"
             \/ /\ due[n] /\ next.pc = "cut" /\ next.event = "none"
                /\ n = "part2_long_turn"
      PROVE  IInv'
  <2>1. task'[n] = next
    BY <1>2, <1>4, OneTask DEF IInv
  <2>2. TakesUp(n)
    BY <1>1, <1>3, <1>4, <2>1 DEF TakesUp
  <2>3. next.pc \in {"idle", "poll"} \/ due[n]
    BY <1>4 DEF Idle
  <2>4. next.pc # "enqueue"
    BY <1>4 DEF Idle
  <2> QED  BY <1>1, <1>2, <1>3, <1>4, <2>2, <2>3, <2>4, OneTaskKeeps
<1>5. At("clear") \in TaskRecord /\ At("cut") \in TaskRecord /\ Idle \in TaskRecord
  BY Records
<1>6. /\ At("clear").pc = "clear" /\ At("clear").event = "none"
      /\ At("cut").pc = "cut" /\ At("cut").event = "none"
  BY DEF At
<1> QED  BY <1>1, <1>4, <1>5, <1>6

(* A quiet step, part by part. *)
LEMMA QuietStep ==
    ASSUME IInv, Quiet, StateTypes', task' \in [Task -> TaskRecord], Connected', Clocks', Mic',
           Counting', Sealed', Grading', Floored', Carded', Waiting', Linked'
    PROVE  IInv'
BY QuietKeeps DEF IInv, Types

(* A step that leaves the tasks alone is quiet. *)
LEMMA StillQuiet ==
    ASSUME IInv, task' = task, logged' = logged, orch'.phase = orch.phase, conn' = conn
    PROVE  /\ Quiet /\ ClientSteady /\ task' \in [Task -> TaskRecord]
           /\ \A t \in Task : Past(t)' => /\ Past(t) /\ task'[t].event = task[t].event
                                          /\ task[t].pc = "marked" => task'[t].pc = "marked"
           /\ NoNewEntry
           /\ \A t \in Task : task'[t].pc = "enqueue" => task[t].pc = "enqueue"
           /\ Waiting'
BY DEF IInv, Types, Quiet, ClientSteady, NoNewEntry, Past, Waiting

(* The cut mutes the long turn, whose time is up. *)
LEMMA CutKeeps ==
    ASSUME IInv, CutLongTurn
    PROVE  IInv'
<1> DEFINE n == "part2_long_turn"
           next == At("clear")
<1>1. /\ task[n].pc = "cut" /\ muted' = TRUE /\ task' = [task EXCEPT ![n] = next]
      /\ UNCHANGED <<logged, status, sealedBy, graded, deadline, marked, due, floor, conn, orch,
                     flushing, stray, orphans, lost, severed, cardShown, part3, drops>>
  BY DEF CutLongTurn, session, keys, clock, flushes, outside
<1>2. n \in TimerName /\ n \in Task \ {"start", "client", "finalizing"}
  BY DEF Task, TimerName
<1>3. next \in TaskRecord /\ next.pc = "clear" /\ next.event = "none"
  BY Records DEF At
<1> HIDE DEF n, next
<1>4. /\ task' \in [Task -> TaskRecord] /\ task'[n] = next
      /\ \A u \in Task \ {n} : task'[u] = task[u]
  BY <1>1, <1>2, <1>3, OneTask DEF IInv
<1>5. conn = "up" /\ Rung(First[n]) <= Rung(orch.phase) /\ due[n]
  BY <1>1, <1>2, Awake DEF IInv, Idle, Behind, Clocks
<1>6. Quiet
  BY <1>1, <1>2, <1>3, <1>4, <1>5 DEF Quiet, TakesUp
<1>7. /\ \A t \in Task : Past(t)' => /\ Past(t) /\ task'[t].event = task[t].event
                                     /\ task[t].pc = "marked" => task'[t].pc = "marked"
      /\ NoNewEntry
  BY <1>6, QuietKeeps DEF IInv
<1>8. StateTypes'
  BY <1>1 DEF IInv, Types, StateTypes
<1>9. Connected'
  BY <1>1, <1>2, <1>4, <1>5, PumpsRun DEF IInv, Task
<1>10. Clocks'
  <2>1. \A m \in TimerName : (Set(m)' => Set(m)) /\ (due[m] => due'[m])
    BY <1>1 DEF Set
  <2>2. \A m \in TimerName : task'[m] = task[m] \/ task'[m].pc \in {"idle", "poll"} \/ due[m]
    BY <1>4, <1>5 DEF Task
  <2>3. due'["part1_max"] => floor'
    BY <1>1 DEF IInv, Clocks
  <2> QED  BY <1>1, <1>7, <2>1, <2>2, <2>3, ClocksFrame DEF IInv
<1>11. Mic'
  BY <1>1, <1>5 DEF IInv, Mic, n
<1>12. Sealed'
  BY <1>1, SealedFrame DEF IInv
<1>13. Grading'
  <2>1. \A t \in Task : task'[t].pc = "enqueue" => task[t].pc = "enqueue"
    BY <1>3, <1>4
  <2> QED  BY <1>1, <1>7, <2>1, GradingFrame DEF IInv
<1>14. Floored' /\ Carded' /\ Counting'
  <2>1. ClientSteady
    BY <1>2, <1>4 DEF ClientSteady, Task
  <2> QED  BY <1>1, <1>6, <2>1, ClientFrame DEF IInv
<1>15. Waiting'
  BY <1>2, <1>4, <1>7 DEF IInv, Waiting, Task
<1>16. Linked'
  BY <1>1, <1>7, LinkedFrame DEF IInv
<1> QED  BY <1>4, <1>6, <1>8, <1>9, <1>10, <1>11, <1>12, <1>13, <1>14, <1>15, <1>16, QuietStep

(* What a watchdog fires, it may fire where the exam is. *)
LEMMA WatchdogEvents ==
    ASSUME IInv, NEW n \in TimerName, Rung(First[n]) <= Rung(orch.phase),
           n = "part1_max" => orch.phase \in PART1_PHASES
    PROVE  /\ WatchdogEvent(n) \in Fires[n] /\ WatchdogEvent(n) \in ExamEvent
           /\ Rung(Source[WatchdogEvent(n)]) <= Rung(orch.phase)
<1>1. CASE n = "part1_max"
  <2>1. WatchdogEvent(n) = _PART1_COMPLETION_EVENT[orch.phase]
    BY <1>1 DEF WatchdogEvent
  <2>2. /\ _PART1_COMPLETION_EVENT[orch.phase] \in
             {"TOPIC_A_COMPLETE", "TOPIC_B_COMPLETE", "TOPIC_C_COMPLETE"}
        /\ Source[_PART1_COMPLETION_EVENT[orch.phase]] = orch.phase
    BY <1>1 DEF _PART1_COMPLETION_EVENT, PART1_PHASES, Source
  <2>3. Rung(orch.phase) <= Rung(orch.phase)
    BY Rungs DEF IInv, Types, StateTypes, OrchestratorRecord
  <2>4. Fires[n] = {"TOPIC_A_COMPLETE", "TOPIC_B_COMPLETE", "TOPIC_C_COMPLETE"}
    BY <1>1 DEF Fires, Task, TimerName
  <2>5. Rung(Source[WatchdogEvent(n)]) <= Rung(orch.phase)
    BY <2>1, <2>2, <2>3
  <2> QED  BY <2>1, <2>2, <2>4, <2>5 DEF ExamEvent
<1>2. ASSUME n # "part1_max"
      PROVE  /\ WatchdogEvent(n) \in Fires[n] /\ WatchdogEvent(n) \in ExamEvent
             /\ Source[WatchdogEvent(n)] = First[n]
  <2>1. \/ n = "part2_prep" /\ WatchdogEvent(n) = "PREP_TIMER_EXPIRED"
        \/ n = "part2_long_turn" /\ WatchdogEvent(n) = "LONG_TURN_ENDED"
        \/ n = "part3_discussion" /\ WatchdogEvent(n) = "DISCUSSION_COMPLETE"
    BY <1>2 DEF TimerName, WatchdogEvent
  <2>2. WatchdogEvent(n) \in Fires[n]
    BY <2>1 DEF Fires, Task, TimerName
  <2>3. Source[WatchdogEvent(n)] = First[n]
    BY <2>1, Firsts DEF Source
  <2> QED  BY <2>1, <2>2, <2>3 DEF ExamEvent
<1> QED  BY <1>1, <1>2

(* A watchdog gives its key back and goes on to what it fires. *)
LEMMA ClearKeeps ==
    ASSUME IInv, NEW n \in TimerName, ClearDeadline(n)
    PROVE  IInv'
<1> DEFINE over == n = "part1_max" /\ orch.phase \notin PART1_PHASES
           next == IF over THEN Idle ELSE Calling(WatchdogEvent(n))
<1>1. /\ task[n].pc = "clear" /\ deadline' = [deadline EXCEPT ![n] = FALSE]
      /\ task' = [task EXCEPT ![n] = next]
      /\ UNCHANGED <<logged, status, sealedBy, graded, marked, due, floor, conn, orch, muted,
                     flushing, stray, orphans, lost, severed, cardShown, part3, drops>>
  BY DEF ClearDeadline, session, clock, connection, flushes, outside
<1>2. n \in Task \ {"start", "client", "finalizing"}
  BY DEF Task, TimerName
<1>3. conn = "up" /\ Rung(First[n]) <= Rung(orch.phase) /\ due[n]
  BY <1>1, <1>2, Awake DEF IInv, Idle, Behind, Clocks
<1>4. /\ next \in TaskRecord
      /\ \/ next = Idle
         \/ /\ next.pc = "load" /\ next.event \in Fires[n]
            /\ Rung(Source[next.event]) <= Rung(orch.phase)
  <2>1. CASE over
    BY <2>1, Records
  <2>2. CASE ~over
    <3>1. /\ WatchdogEvent(n) \in Fires[n] /\ WatchdogEvent(n) \in ExamEvent
          /\ Rung(Source[WatchdogEvent(n)]) <= Rung(orch.phase)
      BY <1>3, <2>2, WatchdogEvents
    <3>2. next = Calling(WatchdogEvent(n))
      BY <2>2
    <3>3. Calling(WatchdogEvent(n)).pc = "load"
          /\ Calling(WatchdogEvent(n)).event = WatchdogEvent(n)
      BY DEF Calling
    <3>4. Calling(WatchdogEvent(n)) \in TaskRecord
      BY <3>1, Records
    <3> HIDE DEF next
    <3> QED  BY <3>1, <3>2, <3>3, <3>4
  <2> QED  BY <2>1, <2>2
<1> HIDE DEF next
<1>5. /\ task' \in [Task -> TaskRecord] /\ task'[n] = next
      /\ \A u \in Task \ {n} : task'[u] = task[u]
  BY <1>1, <1>2, <1>4, OneTask DEF IInv
<1>6. Quiet
  BY <1>1, <1>4, <1>5 DEF Quiet, TakesUp
<1>7. /\ \A t \in Task : Past(t)' => /\ Past(t) /\ task'[t].event = task[t].event
                                     /\ task[t].pc = "marked" => task'[t].pc = "marked"
      /\ NoNewEntry
  BY <1>6, QuietKeeps DEF IInv
<1>8. StateTypes'
  BY <1>1 DEF IInv, Types, StateTypes
<1>9. Connected'
  BY <1>1, <1>2, <1>3, <1>5, PumpsRun DEF IInv, Task
<1>10. Clocks'
  <2>1. \A m \in TimerName : (Set(m)' => Set(m)) /\ (due[m] => due'[m])
    BY <1>1 DEF Set, IInv, Types, StateTypes
  <2>2. \A m \in TimerName : task'[m] = task[m] \/ task'[m].pc \in {"idle", "poll"} \/ due[m]
    BY <1>3, <1>5 DEF Task
  <2>3. due'["part1_max"] => floor'
    BY <1>1 DEF IInv, Clocks
  <2> QED  BY <1>1, <1>7, <2>1, <2>2, <2>3, ClocksFrame DEF IInv
<1>11. Mic'
  BY <1>1, MicFrame DEF IInv
<1>12. Sealed'
  BY <1>1, SealedFrame DEF IInv
<1>13. Grading'
  <2>1. \A t \in Task : task'[t].pc = "enqueue" => task[t].pc = "enqueue"
    BY <1>4, <1>5 DEF Idle
  <2> QED  BY <1>1, <1>7, <2>1, GradingFrame DEF IInv
<1>14. Floored' /\ Carded' /\ Counting'
  <2>1. ClientSteady
    BY <1>2, <1>5 DEF ClientSteady, Task
  <2> QED  BY <1>1, <1>6, <2>1, ClientFrame DEF IInv
<1>15. Waiting'
  BY <1>2, <1>5, <1>7 DEF IInv, Waiting, Task
<1>16. Linked'
  BY <1>1, <1>7, LinkedFrame DEF IInv
<1> QED  BY <1>5, <1>6, <1>8, <1>9, <1>10, <1>11, <1>12, <1>13, <1>14, <1>15, <1>16, QuietStep

(* A deadline passes, or the floor does. *)
LEMMA TimeKeeps ==
    ASSUME IInv, Time
    PROVE  IInv'
<1>1. UNCHANGED <<logged, status, sealedBy, graded, deadline, marked, conn, orch, muted, task,
                  flushing, stray, orphans, lost, severed, cardShown, part3, drops>>
  BY DEF Time, Pass, PassFloor, session, keys, connection, flushes, outside
<1> DEFINE Passed ==
             /\ due' \in [TimerName -> BOOLEAN] /\ floor' \in BOOLEAN /\ (floor => floor')
             /\ \A m \in TimerName : (due[m] => due'[m]) /\ (due'[m] => due[m] \/ deadline[m])
             /\ due'["part1_max"] => floor'
<1>2. Passed
  <2>1. /\ due \in [TimerName -> BOOLEAN] /\ floor \in BOOLEAN
        /\ due["part1_max"] => floor
    BY DEF IInv, Types, StateTypes, Clocks
  <2>2. CASE PassFloor
    BY <2>1, <2>2 DEF PassFloor
  <2>3. ASSUME NEW n \in TimerName, Pass(n)
        PROVE  Passed
    BY <2>1, <2>3 DEF Pass
  <2> HIDE DEF Passed
  <2> QED  BY <2>2, <2>3 DEF Time
<1>3. /\ Quiet /\ ClientSteady /\ task' \in [Task -> TaskRecord] /\ Waiting'
      /\ \A t \in Task : Past(t)' => /\ Past(t) /\ task'[t].event = task[t].event
                                     /\ task[t].pc = "marked" => task'[t].pc = "marked"
      /\ NoNewEntry
      /\ \A t \in Task : task'[t].pc = "enqueue" => task[t].pc = "enqueue"
  BY <1>1, StillQuiet
<1>4. StateTypes' /\ Connected'
  BY <1>1, <1>2 DEF IInv, Types, StateTypes, Connected
<1>5. Clocks'
  <2>1. \A n \in TimerName : (Set(n)' => Set(n)) /\ (due[n] => due'[n])
    BY <1>1, <1>2 DEF Set
  <2> QED  BY <1>1, <1>2, <1>3, <2>1, ClocksFrame DEF IInv
<1>6. Mic'
  BY <1>1, <1>2, MicFrame DEF IInv
<1>7. Sealed'
  BY <1>1, SealedFrame DEF IInv
<1>8. Grading'
  BY <1>1, <1>3, GradingFrame DEF IInv
<1>9. Floored' /\ Carded' /\ Counting'
  BY <1>1, <1>2, <1>3, ClientFrame DEF IInv
<1>10. Linked'
  BY <1>1, <1>3, LinkedFrame DEF IInv
<1> QED  BY <1>3, <1>4, <1>5, <1>6, <1>7, <1>8, <1>9, <1>10, QuietStep

(* A key of a deadline that has passed is gone. *)
LEMMA ExpireKeeps ==
    ASSUME IInv, NEW n \in TimerName, ExpireKey(n)
    PROVE  IInv'
<1>1. /\ deadline' = [deadline EXCEPT ![n] = FALSE]
      /\ UNCHANGED <<logged, status, sealedBy, graded, marked, due, floor, conn, orch, muted,
                     task, flushing, stray, orphans, lost, severed, cardShown, part3, drops>>
  BY DEF ExpireKey, session, clock, connection, flushes, outside
<1>2. /\ Quiet /\ ClientSteady /\ task' \in [Task -> TaskRecord] /\ Waiting'
      /\ \A t \in Task : Past(t)' => /\ Past(t) /\ task'[t].event = task[t].event
                                     /\ task[t].pc = "marked" => task'[t].pc = "marked"
      /\ NoNewEntry
      /\ \A t \in Task : task'[t].pc = "enqueue" => task[t].pc = "enqueue"
  BY <1>1, StillQuiet
<1>3. StateTypes' /\ Connected'
  BY <1>1 DEF IInv, Types, StateTypes, Connected
<1>4. Clocks'
  <2>1. \A m \in TimerName : (Set(m)' => Set(m)) /\ (due[m] => due'[m])
    BY <1>1 DEF Set, IInv, Types, StateTypes
  <2>2. due'["part1_max"] => floor'
    BY <1>1 DEF IInv, Clocks
  <2> QED  BY <1>1, <1>2, <2>1, <2>2, ClocksFrame DEF IInv
<1>5. Mic'
  BY <1>1, MicFrame DEF IInv
<1>6. Sealed'
  BY <1>1, SealedFrame DEF IInv
<1>7. Grading'
  BY <1>1, <1>2, GradingFrame DEF IInv
<1>8. Floored' /\ Carded' /\ Counting'
  BY <1>1, <1>2, ClientFrame DEF IInv
<1>9. Linked'
  BY <1>1, <1>2, LinkedFrame DEF IInv
<1> QED  BY <1>2, <1>3, <1>4, <1>5, <1>6, <1>7, <1>8, <1>9, QuietStep

(* Turns are counted and nothing else is, beside the seal's own account.   *)
LEMMA FlushesKeep ==
    ASSUME IInv, task' = task,
           flushing' \in 0..MaxFlushing, stray' \in 0..MaxFlushing, orphans' \in BOOLEAN,
           Connected', Counting', Sealed',
           UNCHANGED <<logged, session, keys, clock, connection, lost, severed, outside>>
    PROVE  IInv'
<1>1. UNCHANGED <<logged, status, sealedBy, graded, deadline, marked, due, floor, conn, orch,
                  muted, task, lost, severed, cardShown, part3, drops>>
  BY DEF session, keys, clock, connection, outside
<1>2. /\ Quiet /\ ClientSteady /\ task' \in [Task -> TaskRecord] /\ Waiting'
      /\ \A t \in Task : Past(t)' => /\ Past(t) /\ task'[t].event = task[t].event
                                     /\ task[t].pc = "marked" => task'[t].pc = "marked"
      /\ NoNewEntry
      /\ \A t \in Task : task'[t].pc = "enqueue" => task[t].pc = "enqueue"
  BY <1>1, StillQuiet
<1>3. StateTypes'
  BY <1>1 DEF IInv, Types, StateTypes
<1>4. Clocks'
  <2>1. \A m \in TimerName : (Set(m)' => Set(m)) /\ (due[m] => due'[m])
    BY <1>1 DEF Set
  <2>2. due'["part1_max"] => floor'
    BY <1>1 DEF IInv, Clocks
  <2> QED  BY <1>1, <1>2, <2>1, <2>2, ClocksFrame DEF IInv
<1>5. Mic'
  BY <1>1, MicFrame DEF IInv
<1>6. Grading'
  BY <1>1, <1>2, GradingFrame DEF IInv
<1>7. Floored' /\ Carded'
  BY <1>1 DEF IInv, Floored, Carded, Acking
<1>8. Linked'
  BY <1>1, <1>2, LinkedFrame DEF IInv
<1> QED  BY <1>2, <1>3, <1>4, <1>5, <1>6, <1>7, <1>8, QuietStep

(* Counts are numbers. *)
LEMMA Counts ==
    ASSUME Types
    PROVE  /\ flushing \in Nat /\ stray \in Nat /\ flushing <= MaxFlushing
           /\ stray <= MaxFlushing /\ MaxFlushing \in Nat
           /\ Unstarted \in {0, 1}
<1>1. /\ flushing \in Nat /\ stray \in Nat /\ flushing <= MaxFlushing
      /\ stray <= MaxFlushing /\ MaxFlushing \in Nat
  BY SettingsAssumption DEF Types, StateTypes
<1>2. Unstarted \in {0, 1}
  BY DEF Unstarted
<1> QED  BY <1>1, <1>2

(* A flush ends. *)
LEMMA FlushEndKeeps ==
    ASSUME IInv, on_turn_flush_complete
    PROVE  IInv'
<1>1. /\ UNCHANGED <<logged, session, keys, clock, connection, task, lost, severed, outside>>
      /\ \/ flushing > Unstarted /\ flushing' = flushing - 1 /\ UNCHANGED <<stray, orphans>>
         \/ stray > 0 /\ stray' = stray - 1 /\ UNCHANGED <<flushing, orphans>>
         \/ orphans /\ orphans' = FALSE /\ UNCHANGED <<flushing, stray>>
  BY DEF on_turn_flush_complete
<1>2. /\ flushing \in Nat /\ stray \in Nat /\ flushing <= MaxFlushing
      /\ stray <= MaxFlushing /\ MaxFlushing \in Nat /\ Unstarted \in {0, 1}
      /\ orphans \in BOOLEAN /\ Unstarted <= flushing
  BY Counts DEF IInv, Types, StateTypes, Counting
<1>3. /\ flushing' \in 0..MaxFlushing /\ stray' \in 0..MaxFlushing
      /\ Unstarted <= flushing' /\ (flushing = 0 => flushing' = 0) /\ (stray = 0 => stray' = 0)
  BY <1>1, <1>2
<1>4. orphans' \in BOOLEAN
  BY <1>1, <1>2
<1>5. conn' = conn /\ orch' = orch /\ muted' = muted /\ sealedBy' = sealedBy /\ task' = task
      /\ logged' = logged
  BY <1>1 DEF connection, session
<1>6. Connected' /\ Sealed'
  BY <1>3, <1>5 DEF IInv, Connected, Sealed
<1>7. Counting'
  <2>1. Unstarted' = Unstarted
    BY <1>5 DEF Unstarted
  <2> QED  BY <1>3, <2>1 DEF Counting
<1> QED  BY <1>1, <1>3, <1>4, <1>5, <1>6, <1>7, FlushesKeep

(* A turn is released: it is counted, as one before the end or as one      *)
(* after it, and no seal was given while it could still be spoken.         *)
LEMMA ReleaseKeeps ==
    ASSUME IInv, TurnReleased, conn = "up", conn' = "up", orch'.phase = orch.phase,
           UNCHANGED <<logged, sealedBy>>
    PROVE  /\ flushing' \in 0..MaxFlushing /\ stray' \in 0..MaxFlushing
           /\ orphans' = orphans /\ lost' = lost /\ severed' = severed
           /\ Sealed' /\ flushing <= flushing'
           /\ orch.phase \notin {"FINALIZING", "COMPLETE"} => 1 <= flushing'
<1>1. /\ flushing \in Nat /\ stray \in Nat /\ MaxFlushing \in Nat
      /\ flushing + stray < MaxFlushing
  BY Counts DEF IInv, TurnReleased, Pending
<1>2. orphans' = orphans /\ lost' = lost /\ severed' = severed
  BY DEF TurnReleased
<1>3. CASE orch.phase \in {"FINALIZING", "COMPLETE"}
  <2>1. stray' = stray + 1 /\ flushing' = flushing
    BY <1>3 DEF TurnReleased
  <2>2. Sealed'
    BY <2>1, SealedFrame DEF IInv
  <2> QED  BY <1>1, <1>2, <1>3, <2>1, <2>2
<1>4. CASE orch.phase \notin {"FINALIZING", "COMPLETE"}
  <2>1. flushing' = flushing + 1 /\ stray' = stray
    BY <1>4 DEF TurnReleased
  <2>2. orch.phase \in ExamPhase
    BY DEF IInv, Types, StateTypes, OrchestratorRecord
  <2>3. Rung(orch.phase) < Rung("FINALIZING")
    BY <1>4, <2>2, Rungs DEF ExamPhase
  <2>4. ~(Rung("FINALIZING") <= Rung(orch.phase))
    BY <2>2, <2>3, Rungs
  <2>5. sealedBy # "drained"
    BY <2>4 DEF IInv, Sealed
  <2>6. Sealed'
    BY <2>5 DEF Sealed
  <2> QED  BY <1>1, <1>2, <1>4, <2>1, <2>6
<1> QED  BY <1>3, <1>4

(* A turn in a phase that does not count them. *)
LEMMA OtherTurnKeeps ==
    ASSUME IInv, ActivityEndOther
    PROVE  IInv'
<1>1. /\ conn = "up" /\ task["client"].pc = "idle" /\ TurnReleased
      /\ UNCHANGED <<logged, session, keys, clock, connection, task, outside>>
  BY DEF ActivityEndOther, ClientIdle
<1>2. conn' = conn /\ orch' = orch /\ muted' = muted /\ sealedBy' = sealedBy
  BY <1>1 DEF connection, session
<1>3. /\ flushing' \in 0..MaxFlushing /\ stray' \in 0..MaxFlushing
      /\ orphans' = orphans /\ lost' = lost /\ severed' = severed /\ Sealed'
  BY <1>1, <1>2, ReleaseKeeps
<1>4. Connected'
  BY <1>1, <1>2, PumpsRun DEF IInv
<1>5. Counting'
  <2>1. Unstarted' = 0
    BY <1>1 DEF Unstarted
  <2> QED  BY <1>3, <2>1 DEF Counting
<1>6. orphans' \in BOOLEAN
  BY <1>3 DEF IInv, Types, StateTypes
<1> QED  BY <1>1, <1>3, <1>4, <1>5, <1>6, FlushesKeep

(* The client's pump goes on to fire an event of the phase it is in.       *)
LEMMA ClientFires ==
    ASSUME IInv, conn = "up", conn' = "up", task["client"].pc = "idle",
           NEW event \in Fires["client"], Source[event] = orch.phase,
           task' = [task EXCEPT !["client"] = Calling(event)],
           UNCHANGED <<logged, session, keys, clock, muted, lost, severed, outside>>,
           orch' \in OrchestratorRecord, orch'.phase = orch.phase,
           orch'.cueCard = orch.cueCard, orch'.part1Start = orch.part1Start,
           orch'.topicSets = orch.topicSets,
           flushing' \in 0..MaxFlushing, stray' \in 0..MaxFlushing, orphans' \in BOOLEAN,
           Sealed', event # "CUE_CARD_ACKED" => 1 <= flushing',
           event = "TOPIC_C_COMPLETE" /\ marked => floor,
           event = "CUE_CARD_ACKED" => cardShown
    PROVE  IInv'
<1> DEFINE next == Calling(event)
<1>1. "client" \in Task /\ "client" \notin TimerName
  BY DEF Task, TimerName
<1>2. /\ next \in TaskRecord /\ next.pc = "load" /\ next.event = event /\ event \in ExamEvent
  <2>1. event \in ExamEvent
    BY <1>1, FiresEvents
  <2> QED  BY <2>1, Records DEF Calling
<1> HIDE DEF next
<1>3. /\ task' \in [Task -> TaskRecord] /\ task'["client"] = next
      /\ \A u \in Task \ {"client"} : task'[u] = task[u]
  <2>1. task' = [task EXCEPT !["client"] = next]
    BY DEF next
  <2> QED  BY <1>1, <1>2, <2>1, OneTask DEF IInv
<1>4. UNCHANGED <<logged, status, sealedBy, graded, deadline, marked, due, floor, muted, lost,
                  severed, cardShown, part3, drops>>
  BY DEF session, keys, clock, outside
<1>5. Rung(Source[event]) <= Rung(orch.phase)
  BY Rungs DEF IInv, Types, StateTypes, OrchestratorRecord
<1>6. Quiet
  <2>1. TakesUp("client")
    BY <1>2, <1>3, <1>5 DEF TakesUp
  <2> QED  BY <1>3, <1>4, <2>1 DEF Quiet
<1>7. /\ \A t \in Task : Past(t)' => /\ Past(t) /\ task'[t].event = task[t].event
                                     /\ task[t].pc = "marked" => task'[t].pc = "marked"
      /\ NoNewEntry
  BY <1>6, QuietKeeps DEF IInv
<1>8. StateTypes'
  BY <1>4 DEF IInv, Types, StateTypes
<1>9. Connected'
  BY <1>3, PumpsRun DEF IInv, Task
<1>10. Clocks'
  <2>1. \A m \in TimerName : (Set(m)' => Set(m)) /\ (due[m] => due'[m])
    BY <1>4 DEF Set
  <2>2. \A m \in TimerName : task'[m] = task[m]
    BY <1>1, <1>3 DEF Task
  <2>3. due'["part1_max"] => floor'
    BY <1>4 DEF IInv, Clocks
  <2> QED  BY <1>4, <1>7, <2>1, <2>2, <2>3, ClocksFrame DEF IInv
<1>11. Mic'
  BY <1>4, MicFrame DEF IInv
<1>12. Grading'
  <2>1. \A t \in Task : task'[t].pc = "enqueue" => task[t].pc = "enqueue"
    BY <1>2, <1>3
  <2> QED  BY <1>4, <1>7, <2>1, GradingFrame DEF IInv
<1>13. Floored'
  BY <1>2, <1>3, <1>4 DEF IInv, Floored
<1>14. Carded'
  <2>1. event = "CUE_CARD_ACKED" => orch.phase = "PART2_CUECARD_PRESENT"
    BY DEF Source
  <2> QED  BY <1>2, <1>3, <1>4, <2>1 DEF IInv, Carded, Acking
<1>15. Counting'
  <2>1. Unstarted' = IF event # "CUE_CARD_ACKED" THEN 1 ELSE 0
    BY <1>2, <1>3 DEF Unstarted
  <2>2. flushing' \in Nat
    BY SettingsAssumption
  <2> QED  BY <2>1, <2>2 DEF Counting
<1>16. Waiting'
  BY <1>3, <1>7 DEF IInv, Waiting, Task
<1>17. Linked'
  BY <1>4, <1>7, LinkedFrame DEF IInv
<1> QED  BY <1>3, <1>6, <1>8, <1>9, <1>10, <1>11, <1>12, <1>13, <1>14, <1>15, <1>16, <1>17,
           QuietStep

(* The candidate has read the card. *)
LEMMA AckKeeps ==
    ASSUME IInv, on_cue_card_ack
    PROVE  IInv'
<1>1. /\ conn = "up" /\ task["client"].pc = "idle"
      /\ cardShown /\ orch.phase = "PART2_CUECARD_PRESENT"
      /\ task' = [task EXCEPT !["client"] = Calling("CUE_CARD_ACKED")]
      /\ UNCHANGED <<logged, session, keys, clock, connection, flushes, outside>>
  BY DEF on_cue_card_ack, ClientIdle
<1>2. /\ UNCHANGED <<logged, session, keys, clock, muted, lost, severed, outside>>
      /\ conn' = conn /\ orch' = orch /\ flushing' = flushing /\ stray' = stray
      /\ orphans' = orphans /\ sealedBy' = sealedBy /\ logged' = logged
  BY <1>1 DEF connection, flushes, session
<1>3. "CUE_CARD_ACKED" \in Fires["client"] /\ Source["CUE_CARD_ACKED"] = orch.phase
  BY <1>1 DEF Fires, Task, Source
<1>4. Sealed'
  BY <1>2, SealedFrame DEF IInv
<1>5. /\ orch' \in OrchestratorRecord /\ flushing' \in 0..MaxFlushing
      /\ stray' \in 0..MaxFlushing /\ orphans' \in BOOLEAN
  BY <1>2 DEF IInv, Types, StateTypes
<1> QED  BY <1>1, <1>2, <1>3, <1>4, <1>5, ClientFires

(* The candidate ends the long turn early. *)
LEMMA LongTurnKeeps ==
    ASSUME IInv, ActivityEndLongTurn
    PROVE  IInv'
<1>1. /\ conn = "up" /\ task["client"].pc = "idle" /\ orch.phase = "PART2_LONG_TURN"
      /\ TurnReleased
      /\ task' = [task EXCEPT !["client"] = Calling("LONG_TURN_ENDED")]
      /\ UNCHANGED <<logged, session, keys, clock, connection, outside>>
  BY DEF ActivityEndLongTurn, ClientIdle
<1>2. /\ conn' = conn /\ orch' = orch /\ muted' = muted /\ sealedBy' = sealedBy
      /\ logged' = logged
  BY <1>1 DEF connection, session
<1>3. /\ flushing' \in 0..MaxFlushing /\ stray' \in 0..MaxFlushing
      /\ orphans' = orphans /\ lost' = lost /\ severed' = severed
      /\ Sealed' /\ 1 <= flushing'
  BY <1>1, <1>2, ReleaseKeeps
<1>4. "LONG_TURN_ENDED" \in Fires["client"] /\ Source["LONG_TURN_ENDED"] = orch.phase
  BY <1>1 DEF Fires, Task, Source
<1>5. orch' \in OrchestratorRecord /\ orphans' \in BOOLEAN
  BY <1>2, <1>3 DEF IInv, Types, StateTypes
<1> QED  BY <1>1, <1>2, <1>3, <1>4, <1>5, ClientFires

(* A turn of a phase with a budget. *)
LEMMA BudgetTurnKeeps ==
    ASSUME IInv, ActivityEndBudget
    PROVE  IInv'
<1> DEFINE phase == orch.phase
           budget == _candidate_turn_budget_for_phase[phase]
           reached == orch.turns + 1 >= budget.turns
           turns == IF reached THEN budget.turns ELSE orch.turns + 1
<1>1. /\ conn = "up" /\ task["client"].pc = "idle"
      /\ phase \in DOMAIN _candidate_turn_budget_for_phase
      /\ TurnReleased
      /\ orch' = [orch EXCEPT !.turns = turns]
      /\ \/ /\ ~TooEarly(phase)
            /\ task' = [task EXCEPT !["client"] = Calling(budget.event)]
         \/ task' = task
      /\ UNCHANGED <<logged, session, keys, clock, conn, muted, outside>>
  BY DEF ActivityEndBudget, ClientIdle
<1>2. turns \in 0..MostTurns
  <2>1. /\ MostTurns \in Nat /\ budget.turns \in Nat \ {0} /\ budget.turns <= MostTurns
    BY <1>1, MostTurnsBounds
  <2>2. orch.turns \in Nat
    BY <2>1 DEF IInv, Types, StateTypes, OrchestratorRecord
  <2> HIDE DEF budget
  <2> QED  BY <2>1, <2>2
<1> HIDE DEF turns
<1>3. /\ orch' \in OrchestratorRecord /\ orch'.phase = orch.phase
      /\ orch'.cueCard = orch.cueCard /\ orch'.part1Start = orch.part1Start
      /\ orch'.topicSets = orch.topicSets
  BY <1>1, <1>2 DEF IInv, Types, StateTypes, OrchestratorRecord
<1>4. sealedBy' = sealedBy /\ logged' = logged /\ muted' = muted /\ marked' = marked
  BY <1>1 DEF session, keys
<1>5. /\ phase \in {"INTRO", "PART1_TOPIC_A", "PART1_TOPIC_B", "PART1_TOPIC_C",
                    "PART2_ROUNDOFF", "PART3_DISCUSSION"}
      /\ budget.event \in Fires["client"] /\ Source[budget.event] = phase
      /\ budget.event # "CUE_CARD_ACKED"
      /\ budget.event = "TOPIC_C_COMPLETE" => phase = "PART1_TOPIC_C"
  <2>1. phase \in {"INTRO", "PART1_TOPIC_A", "PART1_TOPIC_B", "PART1_TOPIC_C",
                   "PART2_ROUNDOFF", "PART3_DISCUSSION"}
    BY <1>1 DEF _candidate_turn_budget_for_phase
  <2>2. \/ phase = "INTRO" /\ budget.event = "INTRO_COMPLETE"
        \/ phase = "PART1_TOPIC_A" /\ budget.event = "TOPIC_A_COMPLETE"
        \/ phase = "PART1_TOPIC_B" /\ budget.event = "TOPIC_B_COMPLETE"
        \/ phase = "PART1_TOPIC_C" /\ budget.event = "TOPIC_C_COMPLETE"
        \/ phase = "PART2_ROUNDOFF" /\ budget.event = "ROUNDOFF_COMPLETE"
        \/ phase = "PART3_DISCUSSION" /\ budget.event = "DISCUSSION_COMPLETE"
    BY <2>1 DEF _candidate_turn_budget_for_phase
  <2> HIDE DEF budget, phase
  <2>3. budget.event \in Fires["client"]
    BY <2>2 DEF Fires, Task
  <2>4. Source[budget.event] = phase
    BY <2>2 DEF Source
  <2> QED  BY <2>1, <2>2, <2>3, <2>4
<1>6. /\ flushing' \in 0..MaxFlushing /\ stray' \in 0..MaxFlushing
      /\ orphans' = orphans /\ lost' = lost /\ severed' = severed
      /\ Sealed' /\ 1 <= flushing'
  <2>1. orch.phase \notin {"FINALIZING", "COMPLETE"}
    BY <1>5
  <2> QED  BY <1>1, <1>3, <1>4, <2>1, ReleaseKeeps
<1>7. orphans' \in BOOLEAN
  BY <1>6 DEF IInv, Types, StateTypes
<1>8. CASE /\ ~TooEarly(phase)
           /\ task' = [task EXCEPT !["client"] = Calling(budget.event)]
  <2>1. budget.event = "TOPIC_C_COMPLETE" /\ marked => floor
    <3>1. SUFFICES ASSUME budget.event = "TOPIC_C_COMPLETE", marked
                   PROVE  floor
      OBVIOUS
    <3>2. orch.phase = "PART1_TOPIC_C"
      BY <1>5, <3>1
    <3>3. orch.part1Start
      BY <1>1, <3>1, <3>2 DEF IInv, Floored, PART1_PHASES
    <3> QED  BY <1>8, <3>2, <3>3 DEF TooEarly
  <2> HIDE DEF budget
  <2> QED  BY <1>1, <1>3, <1>4, <1>5, <1>6, <1>7, <1>8, <2>1, ClientFires
<1>9. CASE task' = task
  <2>1. UNCHANGED <<logged, status, sealedBy, graded, deadline, marked, due, floor, conn, muted,
                    lost, severed, cardShown, part3, drops>>
    BY <1>1, <1>6 DEF session, keys, clock, outside
  <2>2. /\ Quiet /\ ClientSteady /\ task' \in [Task -> TaskRecord] /\ Waiting'
        /\ \A t \in Task : Past(t)' => /\ Past(t) /\ task'[t].event = task[t].event
                                       /\ task[t].pc = "marked" => task'[t].pc = "marked"
        /\ NoNewEntry
        /\ \A t \in Task : task'[t].pc = "enqueue" => task[t].pc = "enqueue"
    BY <1>3, <1>9, <2>1, StillQuiet
  <2>3. StateTypes'
    BY <1>3, <1>6, <1>7, <2>1 DEF IInv, Types, StateTypes
  <2>4. Connected'
    BY <1>1, <1>9, <2>1, PumpsRun DEF IInv
  <2>5. Clocks'
    <3>1. \A m \in TimerName : (Set(m)' => Set(m)) /\ (due[m] => due'[m])
      BY <2>1 DEF Set
    <3>2. due'["part1_max"] => floor'
      BY <2>1 DEF IInv, Clocks
    <3> QED  BY <1>9, <2>1, <2>2, <3>1, <3>2, ClocksFrame DEF IInv
  <2>6. Mic'
    BY <1>3, <2>1, MicFrame DEF IInv
  <2>7. Grading'
    BY <2>1, <2>2, GradingFrame DEF IInv
  <2>8. Floored' /\ Carded'
    BY <1>3, <1>9, <2>1 DEF IInv, Floored, Carded, Acking
  <2>9. Counting'
    <3>1. Unstarted' = 0
      BY <1>1, <1>9 DEF Unstarted
    <3>2. flushing' \in Nat
      BY <1>6, SettingsAssumption
    <3> QED  BY <3>1, <3>2 DEF Counting
  <2>10. Linked'
    BY <1>3, <2>1, <2>2, LinkedFrame DEF IInv
  <2> QED  BY <1>6, <2>2, <2>3, <2>4, <2>5, <2>6, <2>7, <2>8, <2>9, <2>10, QuietStep
<1> QED  BY <1>1, <1>8, <1>9

(* The finalizing watchdog stops waiting. *)
LEMMA FinalizingKeeps ==
    ASSUME IInv, _run_finalizing_watchdog
    PROVE  IInv'
<1> DEFINE t == "finalizing"
           next == Calling("FINALIZE_COMPLETE")
<1>1. /\ task[t].pc = "wait" /\ task' = [task EXCEPT ![t] = next]
      /\ sealedBy' = IF Pending = 0 THEN "drained" ELSE "timeout"
      /\ UNCHANGED <<logged, status, graded, deadline, marked, due, floor, conn, orch, muted,
                     flushing, stray, orphans, lost, severed, cardShown, part3, drops>>
  BY DEF _run_finalizing_watchdog, keys, clock, connection, flushes, outside
<1>2. t \in Task /\ t \notin TimerName
  BY DEF Task, TimerName
<1>3. /\ next \in TaskRecord /\ next.pc = "load" /\ next.event = "FINALIZE_COMPLETE"
      /\ "FINALIZE_COMPLETE" \in Fires[t] /\ Source["FINALIZE_COMPLETE"] = "FINALIZING"
  BY <1>2, Records DEF Calling, ExamEvent, Fires, Source
<1>4. /\ task' \in [Task -> TaskRecord] /\ task'[t] = next
      /\ \A u \in Task \ {t} : task'[u] = task[u]
  <2> HIDE DEF t, next
  <2> QED  BY <1>1, <1>2, <1>3, OneTask DEF IInv
<1> HIDE DEF next
<1>5. conn = "up"
  BY <1>1, <1>2, Awake DEF IInv, Idle
<1>6. Rung("FINALIZING") <= Rung(orch.phase)
  BY <1>1, <1>2 DEF IInv, Behind
<1>7. Quiet
  <2>1. TakesUp(t)
    BY <1>1, <1>3, <1>4, <1>6 DEF TakesUp
  <2> QED  BY <1>1, <1>4, <2>1 DEF Quiet
<1>8. /\ \A u \in Task : Past(u)' => /\ Past(u) /\ task'[u].event = task[u].event
                                     /\ task[u].pc = "marked" => task'[u].pc = "marked"
      /\ NoNewEntry
  BY <1>7, QuietKeeps DEF IInv
<1>9. StateTypes'
  BY <1>1 DEF IInv, Types, StateTypes
<1>10. Connected'
  BY <1>1, <1>4, <1>5, PumpsRun DEF IInv, Task
<1>11. Clocks'
  <2>1. \A m \in TimerName : (Set(m)' => Set(m)) /\ (due[m] => due'[m])
    BY <1>1 DEF Set
  <2>2. \A m \in TimerName : task'[m] = task[m]
    BY <1>2, <1>4 DEF Task
  <2>3. due'["part1_max"] => floor'
    BY <1>1 DEF IInv, Clocks
  <2> QED  BY <1>1, <1>8, <2>1, <2>2, <2>3, ClocksFrame DEF IInv
<1>12. Mic'
  BY <1>1, MicFrame DEF IInv
<1>13. Sealed'
  <2>1. Rung("FINALIZING") <= Rung(logged)
    <3>1. Rung(orch.phase) <= Rung(logged)
      BY <1>5, CachedBelow DEF IInv
    <3>2. orch.phase \in ExamPhase /\ logged \in ExamPhase
      BY DEF IInv, Types, StateTypes, OrchestratorRecord
    <3> QED  BY <1>6, <3>1, <3>2, Rungs
  <2>2. sealedBy' = "drained" => flushing = 0
    BY <1>1, Counts DEF IInv, Pending
  <2> QED  BY <1>1, <1>6, <2>1, <2>2 DEF Sealed
<1>14. Grading'
  <2>1. \A u \in Task : task'[u].pc = "enqueue" => task[u].pc = "enqueue"
    BY <1>3, <1>4
  <2> QED  BY <1>1, <1>8, <2>1, GradingFrame DEF IInv
<1>15. Floored' /\ Carded' /\ Counting'
  <2>1. ClientSteady
    BY <1>4 DEF ClientSteady, Task
  <2> QED  BY <1>1, <1>7, <2>1, ClientFrame DEF IInv
<1>16. Waiting'
  BY <1>1, <1>8 DEF IInv, Waiting
<1>17. Linked'
  BY <1>1, <1>8, LinkedFrame DEF IInv
<1> QED  BY <1>4, <1>7, <1>9, <1>10, <1>11, <1>12, <1>13, <1>14, <1>15, <1>16, <1>17, QuietStep

(* A connection is made: whatever phase it is made in, the orchestrator    *)
(* believes the log and the tasks are where they may be.                   *)
LEMMA ConnectKeeps ==
    ASSUME IInv, conn = "down", conn' # "down", conn' \in {"starting", "up"},
           orch' = NewOrchestrator(logged), muted' = (logged = "PART2_PREP"),
           task' \in [Task -> TaskRecord], \A t \in Task : TaskShape(t)',
           \A t \in Task : task'[t].pc \in {"idle", "load", "poll"},
           \A n \in TimerName : task'[n].pc # "load",
           \A t \in Task : task'[t].pc = "load" => Source[task'[t].event] = logged,
           \A t \in Task : task'[t].pc = "poll" => Rung(First[t]) <= Rung(logged),
           task'["client"] = Idle, task'["finalizing"] = Idle, Connected',
           UNCHANGED <<logged, session, keys, clock, flushes, outside>>
    PROVE  IInv'
<1>1. UNCHANGED <<logged, status, sealedBy, graded, deadline, marked, due, floor,
                  flushing, stray, orphans, lost, severed, cardShown, part3, drops>>
  BY DEF session, keys, clock, flushes, outside
<1>2. orch' \in OrchestratorRecord /\ orch'.phase = logged /\ logged \in ExamPhase
  BY NewOrchestratorIsOne DEF IInv, Types, StateTypes
<1>3. flushing = 0 /\ \A t \in Task : ~Past(t)'
  BY DEF IInv, Connected, Past
<1>4. Types'
  <2>1. muted' \in BOOLEAN /\ conn' \in {"down", "starting", "up"}
    OBVIOUS
  <2>2. StateTypes'
    BY <1>1, <1>2, <2>1 DEF IInv, Types, StateTypes
  <2> QED  BY <2>2 DEF Types
<1>5. Cached'
  BY <1>1, <1>2, <1>3 DEF Cached, Past
<1>6. \A t \in Task : Behind(t)'
  <2>1. Rung(logged) <= Rung(logged)
    BY <1>2, Rungs
  <2> QED  BY <1>2, <2>1 DEF Behind
<1>7. Once'
  BY <1>3 DEF Once
<1>8. Clocks'
  <2>1. \A n \in TimerName : Set(n)' => Rung(First[n]) <= Rung(logged)
    BY <1>1 DEF IInv, Clocks, Set
  <2>2. TimerName \subseteq Task
    BY DEF Task
  <2>3. \A n \in TimerName : task'[n].pc \in {"idle", "poll"}
    BY <2>2
  <2>4. \A n \in TimerName : task'[n].pc \notin {"idle", "poll"} => due'[n]
    BY <2>3
  <2>5. due'["part1_max"] => floor'
    BY <1>1 DEF IInv, Clocks
  <2>6. Begun'
    BY <1>1, <1>3 DEF IInv, Clocks, Begun
  <2> QED  BY <1>1, <1>3, <2>1, <2>4, <2>5, <2>6 DEF Clocks
<1>9. Mic'
  BY <1>1, <1>2 DEF Mic
<1>10. Counting' /\ Waiting'
  <2>1. Unstarted' = 0
    BY DEF Unstarted, Idle
  <2> QED  BY <1>1, <1>3, <2>1 DEF Counting, Waiting, Idle
<1>11. Sealed'
  BY <1>1, <1>2 DEF IInv, Sealed
<1>12. Grading'
  BY <1>1, <1>3 DEF IInv, Grading, Past
<1>13. Floored'
  <2>1. orch'.phase \in PART1_PHASES /\ marked => orch'.part1Start
    BY DEF NewOrchestrator
  <2>2. task'["client"].pc = "idle"
    BY DEF Idle
  <2> QED  BY <1>1, <2>1, <2>2 DEF Floored
<1>14. Carded'
  BY <1>1 DEF IInv, Carded, Acking, Idle
<1>15. Linked'
  <2>1. \A t \in Task : ~Entering(t, "PART3_DISCUSSION")' /\ ~EnteringTopic(t)'
    BY <1>3 DEF Entering, EnteringTopic, Past
  <2>2. /\ \/ Rung(logged) < Rung("PART2_CUECARD_PRESENT")
           \/ "card" \in severed
           \/ Rung("PART3_DISCUSSION") <= Rung(logged)
        /\ \/ Rung(logged) < Rung("INTRO")
           \/ "topics" \in severed
           \/ Rung("PART1_TOPIC_C") <= Rung(logged)
    <3>1. /\ conn = "down" /\ logged \in Held.card => "card" \in severed
          /\ conn = "down" /\ logged \in Held.topics => "topics" \in severed
      BY DEF IInv, Linked, CardLinked, TopicsLinked
    <3>2. /\ logged \in Held.card <=> /\ 6 <= Rung(logged)
                                      /\ Rung(logged) < 10
          /\ logged \in Held.topics <=> 2 <= Rung(logged) /\ Rung(logged) < 5
          /\ Rung(logged) \in Nat
      BY <1>2, HeldRungs, Rungs
    <3> QED  BY <3>1, <3>2, Rungs
  <2>3. /\ cardShown => Rung("PART2_CUECARD_PRESENT") <= Rung(logged)
        /\ part3 = "unthemed" => "card" \in severed
    BY DEF IInv, Carded, Linked, CardLinked
  <2>4. CardLinked'
    BY <1>1, <1>2, <2>1, <2>2, <2>3, Rungs DEF CardLinked, CardKnown
  <2>5. TopicsLinked'
    BY <1>1, <1>2, <2>1, <2>2, Rungs DEF TopicsLinked, TopicSetsKnown
  <2> QED  BY <2>4, <2>5 DEF Linked
<1> QED  BY <1>4, <1>5, <1>6, <1>7, <1>8, <1>9, <1>10, <1>11, <1>12, <1>13, <1>14, <1>15 DEF IInv

(* A session with no transition yet. *)
LEMMA FreshKeeps ==
    ASSUME IInv, StartFresh
    PROVE  IInv'
<1>1. /\ conn = "down" /\ logged = INITIAL_PHASE /\ conn' = "starting"
      /\ orch' = NewOrchestrator(logged) /\ muted' = muted
      /\ task' = [task EXCEPT !["start"] = Calling("DEVICE_CHECK_CONFIRMED")]
      /\ UNCHANGED <<logged, session, keys, clock, flushes, outside>>
  BY DEF StartFresh
<1> DEFINE next == Calling("DEVICE_CHECK_CONFIRMED")
<1>2. /\ next \in TaskRecord /\ next.pc = "load" /\ next.event = "DEVICE_CHECK_CONFIRMED"
      /\ "start" \in Task /\ "start" \notin TimerName
  BY Records DEF Calling, ExamEvent, Task, TimerName
<1> HIDE DEF next
<1>3. /\ task' \in [Task -> TaskRecord] /\ task'["start"] = next
      /\ \A t \in Task \ {"start"} : task'[t] = Idle
  <2>1. task' = [task EXCEPT !["start"] = next]
    BY <1>1 DEF next
  <2>2. \A t \in Task : task[t] = Idle
    BY <1>1 DEF IInv, Connected
  <2> QED  BY <1>2, <2>1, <2>2, OneTask DEF IInv
<1>4. muted' = (logged = "PART2_PREP")
  <2>1. muted = FALSE
    BY <1>1 DEF IInv, Connected, Types, StateTypes
  <2> QED  BY <1>1, <2>1 DEF INITIAL_PHASE
<1>5. \A t \in Task : TaskShape(t)'
  <2>1. "DEVICE_CHECK_CONFIRMED" \in Fires["start"]
    BY <1>2 DEF Fires
  <2> QED  BY <1>2, <1>3, <2>1 DEF TaskShape, Busy, Idle
<1>6. /\ \A t \in Task : task'[t].pc \in {"idle", "load", "poll"}
      /\ \A n \in TimerName : task'[n].pc # "load"
      /\ \A t \in Task : task'[t].pc = "load" => Source[task'[t].event] = logged
      /\ \A t \in Task : task'[t].pc # "poll"
      /\ task'["client"] = Idle /\ task'["finalizing"] = Idle
  <2>1. \A n \in TimerName : n \in Task \ {"start"}
    BY DEF Task, TimerName
  <2>2. "client" \in Task \ {"start"} /\ "finalizing" \in Task \ {"start"}
    BY DEF Task
  <2>3. Source["DEVICE_CHECK_CONFIRMED"] = logged
    BY <1>1 DEF Source, INITIAL_PHASE
  <2> QED  BY <1>2, <1>3, <2>1, <2>2, <2>3 DEF Idle
<1>7. Connected'
  <2>1. orch'.phase = logged
    BY <1>1, NewOrchestratorIsOne DEF IInv, Types, StateTypes
  <2>2. ~muted'
    BY <1>1 DEF IInv, Connected
  <2>3. task'["start"].pc = "load" /\ Source[task'["start"].event] = logged
    BY <1>2, <1>3, <1>6
  <2> QED  BY <1>1, <1>3, <2>1, <2>2, <2>3 DEF Connected
<1> QED  BY <1>1, <1>3, <1>4, <1>5, <1>6, <1>7, ConnectKeeps

(* Any other session. *)
LEMMA ResumeKeeps ==
    ASSUME IInv, Resume
    PROVE  IInv'
<1>1. /\ conn = "down" /\ logged # INITIAL_PHASE /\ conn' = "up"
      /\ orch' = NewOrchestrator(logged) /\ muted' = (logged = "PART2_PREP")
      /\ task' = ResumedTasks
      /\ UNCHANGED <<logged, session, keys, clock, flushes, outside>>
  BY DEF Resume
<1>2. \A t \in Task :
        \/ task'[t] = Idle
        \/ t \in TimerName /\ logged \in Timed[t] /\ task'[t] = At("poll")
  BY <1>1 DEF ResumedTasks
<1>3. task' \in [Task -> TaskRecord]
  BY <1>1, Records DEF ResumedTasks
<1>4. \A t \in Task : TaskShape(t)'
  BY <1>2 DEF TaskShape, Busy, Idle, At
<1>5. /\ \A t \in Task : task'[t].pc \in {"idle", "poll"}
      /\ \A t \in Task : task'[t].pc = "poll" => t \in TimerName /\ logged \in Timed[t]
  BY <1>2 DEF Idle, At
<1>6. \A t \in Task : task'[t].pc = "poll" => Rung(First[t]) <= Rung(logged)
  BY <1>5, Firsts
<1>7. task'["client"] = Idle /\ task'["finalizing"] = Idle /\ task'["start"] = Idle
  BY <1>2 DEF Task, TimerName
<1>8. Connected'
  BY <1>1, <1>7 DEF Connected
<1>9. TimerName \subseteq Task
  BY DEF Task
<1> QED  BY <1>1, <1>3, <1>4, <1>5, <1>6, <1>7, <1>8, <1>9, ConnectKeeps

(* start() goes on from ID_VERIFICATION. *)
LEMMA IdVerificationKeeps ==
    ASSUME IInv, EnterIdVerification
    PROVE  IInv'
<1> DEFINE next == Calling("ID_VERIFIED")
<1>1. /\ task["start"].pc = "enter" /\ Target[task["start"].event] = "ID_VERIFICATION"
      /\ task' = [task EXCEPT !["start"] = next]
      /\ UNCHANGED <<logged, session, keys, clock, connection, flushes, outside>>
  BY DEF EnterIdVerification, Entering
<1>2. /\ next \in TaskRecord /\ next.pc = "load" /\ next.event = "ID_VERIFIED"
      /\ "start" \in Task /\ "start" \notin TimerName
      /\ "ID_VERIFIED" \in Fires["start"] /\ Source["ID_VERIFIED"] = "ID_VERIFICATION"
  BY Records DEF Calling, ExamEvent, Task, TimerName, Fires, Source
<1> HIDE DEF next
<1>3. /\ task' \in [Task -> TaskRecord] /\ task'["start"] = next
      /\ \A t \in Task \ {"start"} : task'[t] = task[t]
  BY <1>1, <1>2, OneTask DEF IInv
<1>4. /\ conn = "starting" /\ orch.phase = "ID_VERIFICATION" /\ ~muted
      /\ \A t \in Task \ {"start"} : task[t] = Idle
  <2>1. conn = "starting"
    BY <1>1, <1>2, Awake DEF IInv, Idle
  <2> QED  BY <1>1, <2>1 DEF IInv, Connected
<1>5. /\ conn' = conn /\ orch' = orch /\ muted' = muted /\ logged' = logged
  BY <1>1 DEF connection
<1>6. Connected'
  BY <1>2, <1>3, <1>4, <1>5 DEF Connected
<1>7. Quiet
  <2>1. Rung(Source["ID_VERIFIED"]) <= Rung(orch.phase)
    BY <1>2, <1>4, Rungs
  <2>2. TakesUp("start")
    BY <1>1, <1>2, <1>3, <2>1 DEF TakesUp
  <2> QED  BY <1>3, <1>5, <2>2 DEF Quiet
<1>8. ClientSteady /\ task'["finalizing"] = task["finalizing"]
  BY <1>3 DEF ClientSteady, Task
<1>9. \A n \in TimerName : task'[n] = task[n]
  BY <1>2, <1>3 DEF Task
<1>10. \A t \in Task : task'[t].pc = "enqueue" => task[t].pc = "enqueue"
  BY <1>2, <1>3
<1> QED  BY <1>1, <1>3, <1>6, <1>7, <1>8, <1>9, <1>10, TasksKeep

(* A call of _advance ends and spawns at most watchdogs of clocks that     *)
(* were never set.                                                         *)
LEMMA CallEnds ==
    ASSUME IInv, NEW t \in Task, task[t].pc \in {"enter", "marked", "enqueue"},
           NEW spawned \in SUBSET TimerName, task' = AfterAdvance(t, spawned),
           \A n \in spawned : ~due[n] /\ Rung(First[n]) <= Rung(orch.phase),
           logged' = logged, orch'.phase = orch.phase, conn' # "down" => conn # "down"
    PROVE  /\ Quiet /\ ClientSteady /\ task' \in [Task -> TaskRecord] /\ Waiting' /\ ~Past(t)'
           /\ \A u \in Task : Past(u)' => /\ Past(u) /\ task'[u].event = task[u].event
                                          /\ task[u].pc = "marked" => task'[u].pc = "marked"
           /\ NoNewEntry
           /\ \A u \in Task : task'[u].pc = "enqueue" => task[u].pc = "enqueue"
           /\ \A n \in TimerName : task'[n] = task[n] \/ task'[n].pc \in {"idle", "poll"}
           /\ t # "start" => task'["start"] = task["start"]
           /\ task'[t].pc \in {"idle", "poll"}
<1>1. /\ task' \in [Task -> TaskRecord]
      /\ \A u \in Task : task'[u] = IF u \in spawned THEN At("poll")
                                    ELSE IF u = t THEN Idle ELSE task[u]
  BY Advanced DEF IInv
<1>2. /\ At("poll").pc = "poll" /\ At("poll").event = "none" /\ Idle.pc = "idle"
  BY DEF At, Idle
<1>3. \A n \in spawned : n \in Task /\ n \in TimerName /\ task[n].pc # "return"
  BY DEF IInv, Clocks, Task
<1>4. \A u \in Task : task'[u] = task[u] \/ TakesUp(u)
  <2>1. ASSUME NEW u \in spawned
        PROVE  TakesUp(u)
    BY <1>1, <1>2, <1>3 DEF TakesUp
  <2>2. t \notin spawned => TakesUp(t)
    BY <1>1 DEF TakesUp
  <2> QED  BY <1>1, <2>1, <2>2
<1>5. Quiet
  BY <1>4 DEF Quiet
<1>6. /\ \A u \in Task : Past(u)' => /\ Past(u) /\ task'[u].event = task[u].event
                                     /\ task[u].pc = "marked" => task'[u].pc = "marked"
      /\ NoNewEntry
  BY <1>5, QuietKeeps DEF IInv
<1>7. ClientSteady
  BY <1>1 DEF ClientSteady, Task, TimerName
<1>8. task'["finalizing"] = task["finalizing"] \/ task'["finalizing"] = Idle
  BY <1>1 DEF Task, TimerName
<1>9. Waiting'
  BY <1>2, <1>6, <1>8 DEF IInv, Waiting
<1>10. task'[t].pc \in {"idle", "poll"} /\ ~Past(t)'
  BY <1>1, <1>2 DEF Past
<1>11. \A n \in TimerName : task'[n] = task[n] \/ task'[n].pc \in {"idle", "poll"}
  BY <1>1, <1>2 DEF Task
<1>12. t # "start" => task'["start"] = task["start"]
  BY <1>1 DEF Task, TimerName
<1>13. \A u \in Task : task'[u].pc = "enqueue" => task[u].pc = "enqueue"
  BY <1>1, <1>2
<1> QED  BY <1>1, <1>5, <1>6, <1>7, <1>9, <1>10, <1>11, <1>12, <1>13

(* start() returns in INTRO, and the pumps run. *)
LEMMA IntroKeeps ==
    ASSUME IInv, EnterIntro
    PROVE  IInv'
<1>1. /\ task["start"].pc = "enter" /\ Target[task["start"].event] = "INTRO"
      /\ orch' = [orch EXCEPT !.topicSets = TRUE] /\ conn' = "up"
      /\ task' = AfterAdvance("start", {})
      /\ UNCHANGED <<logged, status, sealedBy, graded, deadline, marked, due, floor, muted,
                     flushing, stray, orphans, lost, severed, cardShown, part3, drops>>
  BY DEF EnterIntro, Entering, session, keys, clock, flushes, outside
<1>2. "start" \in Task
  BY DEF Task
<1>3. /\ orch' \in OrchestratorRecord /\ orch'.phase = orch.phase
      /\ orch'.cueCard = orch.cueCard /\ orch'.part1Start = orch.part1Start
      /\ orch'.topicSets
  BY <1>1 DEF IInv, Types, StateTypes, OrchestratorRecord
<1>4. conn = "starting"
  BY <1>1, <1>2, Awake DEF IInv, Idle
<1>5. /\ Quiet /\ ClientSteady /\ task' \in [Task -> TaskRecord] /\ Waiting'
      /\ \A u \in Task : Past(u)' => /\ Past(u) /\ task'[u].event = task[u].event
                                     /\ task[u].pc = "marked" => task'[u].pc = "marked"
      /\ NoNewEntry
      /\ \A u \in Task : task'[u].pc = "enqueue" => task[u].pc = "enqueue"
      /\ \A n \in TimerName : task'[n] = task[n] \/ task'[n].pc \in {"idle", "poll"}
  BY <1>1, <1>2, <1>3, <1>4, CallEnds
<1>6. StateTypes'
  BY <1>1, <1>3 DEF IInv, Types, StateTypes
<1>7. Connected'
  <2>1. task'["start"] = Idle
    BY <1>1, <1>2 DEF AfterAdvance
  <2> QED  BY <1>1, <2>1 DEF Connected
<1>8. Clocks'
  <2>1. \A m \in TimerName : (Set(m)' => Set(m)) /\ (due[m] => due'[m])
    BY <1>1 DEF Set
  <2>2. due'["part1_max"] => floor'
    BY <1>1 DEF IInv, Clocks
  <2> QED  BY <1>1, <1>5, <2>1, <2>2, ClocksFrame DEF IInv
<1>9. Mic'
  BY <1>1, <1>3, <1>4, MicFrame DEF IInv
<1>10. Sealed'
  BY <1>1, <1>3, <1>4, SealedFrame DEF IInv
<1>11. Grading'
  BY <1>1, <1>5, GradingFrame DEF IInv
<1>12. Floored' /\ Carded' /\ Counting'
  BY <1>1, <1>3, <1>5, ClientFrame DEF IInv
<1>13. Linked'
  <2>1. \A u \in Task : Entering(u, "PART3_DISCUSSION")' => Entering(u, "PART3_DISCUSSION")
    BY <1>5 DEF Entering, NoNewEntry, Past
  <2>2. CardLinked'
    BY <1>1, <1>3, <1>4, <2>1 DEF IInv, Linked, CardLinked, CardKnown
  <2>3. TopicsLinked'
    BY <1>1, <1>3 DEF TopicsLinked, TopicSetsKnown
  <2> QED  BY <2>2, <2>3 DEF Linked
<1> QED  BY <1>5, <1>6, <1>7, <1>8, <1>9, <1>10, <1>11, <1>12, <1>13, QuietStep

(* The commit: the log moves one rung, and the committing task is the one  *)
(* that knows.                                                             *)
LEMMA CommitKeeps ==
    ASSUME IInv, NEW t \in Task, Commit(t)
    PROVE  IInv'
<1> DEFINE event == task[t].event
<1>1. /\ task[t].pc = "commit" /\ IsLegal(event) /\ logged' = transition(logged, event)
      /\ task' = [task EXCEPT ![t].pc = "return"]
      /\ UNCHANGED <<status, sealedBy, graded, deadline, marked, due, floor, conn, orch, muted,
                     flushing, stray, orphans, lost, severed, cardShown, part3, drops>>
  BY DEF Commit, session, keys, clock, connection, flushes, outside
<1>2. IF t = "start" THEN conn = "starting" ELSE conn = "up"
  BY <1>1, Awake DEF IInv, Idle
<1>3. /\ event \in ExamEvent /\ logged = Source[event] /\ orch.phase = logged
      /\ \A u \in Task : task[u].pc # "return"
  BY <1>1, <1>2, LegalHere DEF IInv
<1>4. /\ logged' = Target[event] /\ logged' \in ExamPhase /\ logged \in ExamPhase
      /\ Rung(logged') = Rung(logged) + 1 /\ Rung(logged) \in Nat /\ Rung(logged') <= 13
  <2>1. logged' = Target[event]
    BY <1>1, <1>3, Legal DEF IInv
  <2>2. Target[event] \in ExamPhase /\ Rung(Target[event]) = Rung(Source[event]) + 1
    BY <1>3, EventEnds
  <2>3. logged \in ExamPhase
    BY DEF IInv, Types, StateTypes
  <2> HIDE DEF event
  <2> QED  BY <1>3, <2>1, <2>2, <2>3, Rungs
<1>5. /\ task' \in [Task -> TaskRecord]
      /\ task'[t].pc = "return" /\ task'[t].event = event
      /\ \A u \in Task \ {t} : task'[u] = task[u]
  BY <1>1, NextPc DEF IInv
<1> HIDE DEF event
<1>6. event \in Fires[t] /\ \A u \in Task : TaskShape(u)
  BY <1>1 DEF IInv, Types, TaskShape, Busy, event
<1>7. Types'
  <2>1. \A u \in Task : TaskShape(u)'
    <3>1. TaskShape(t)'
      BY <1>5, <1>6 DEF TaskShape, Busy
    <3>2. \A u \in Task \ {t} : TaskShape(u)'
      BY <1>5, <1>6 DEF TaskShape, Busy
    <3> QED  BY <3>1, <3>2
  <2>2. StateTypes'
    BY <1>1, <1>4 DEF IInv, Types, StateTypes
  <2> QED  BY <1>5, <2>1, <2>2 DEF Types
<1>8. Connected'
  <2>1. CASE t = "start"
    BY <1>1, <1>2, <1>5, <2>1 DEF IInv, Connected
  <2>2. CASE t # "start"
    BY <1>1, <1>2, <1>5, <2>2, PumpsRun DEF IInv, Task
  <2> QED  BY <2>1, <2>2
<1>9. Cached'
  BY <1>1, <1>3, <1>4, <1>5 DEF Cached
<1>10. \A u \in Task : Behind(u)'
  BY <1>1, <1>5 DEF IInv, Behind
<1>11. \A u \in Task \ {t} : Past(u) => /\ task[u].event \in ExamEvent
                                       /\ Rung(Target[task[u].event]) <= Rung(logged)
                                       /\ Target[task[u].event] \in ExamPhase
  <2>1. \A u \in Task : Past(u) => task[u].event \in ExamEvent
    BY <1>6, FiresEvents DEF TaskShape, Busy, Past
  <2> QED  BY <2>1, EventEnds DEF IInv, Once
<1>12. Once'
  <2>1. \A u \in Task \ {t} : Past(u)' => Past(u) /\ task'[u].event = task[u].event
    BY <1>5 DEF Past
  <2>2. \A u \in Task \ {t} : Past(u)' => Rung(Target[task'[u].event]) <= Rung(logged')
    BY <1>4, <1>11, <2>1, Rungs
  <2>3. \A u \in Task \ {t} : Past(u)' => task'[u].event # event
    <3>1. ASSUME NEW u \in Task \ {t}, Past(u), task[u].event = event
          PROVE  FALSE
      <4>1. Rung(logged') <= Rung(logged)
        BY <1>4, <1>11, <3>1
      <4> QED  BY <1>4, <4>1
    <3> QED  BY <2>1, <3>1
  <2>4. Rung(Target[task'[t].event]) <= Rung(logged')
    BY <1>4, <1>5
  <2>5. \A u, w \in Task \ {t} : Past(u)' /\ Past(w)' /\ task'[u].event = task'[w].event => u = w
    BY <2>1 DEF IInv, Once
  <2>6. \A u \in Task : Past(u)' => Rung(Target[task'[u].event]) <= Rung(logged')
    BY <2>2, <2>4
  <2>7. \A u, w \in Task : Past(u)' /\ Past(w)' /\ task'[u].event = task'[w].event => u = w
    BY <1>5, <2>3, <2>5
  <2> QED  BY <2>6, <2>7 DEF Once
<1>13. Clocks'
  <2>1. ASSUME NEW n \in TimerName, Set(n)'
        PROVE  /\ Rung(First[n]) <= Rung(logged')
               /\ \A u \in Task : Past(u)' => Target[task'[u].event] # First[n]
    <3>1. Set(n)
      BY <1>1, <2>1 DEF Set
    <3>2. /\ Rung(First[n]) <= Rung(logged)
          /\ \A u \in Task : Past(u) => Target[task[u].event] # First[n]
      BY <3>1 DEF IInv, Clocks
    <3>3. First[n] \in ExamPhase
      BY Firsts
    <3>4. Rung(First[n]) < Rung(logged')
      BY <1>4, <3>2, <3>3, Rungs
    <3>5. Target[event] # First[n]
      <4>1. Rung(First[n]) # Rung(logged')
        BY <1>4, <3>3, <3>4, Rungs
      <4> QED  BY <1>4, <4>1
    <3>6. Rung(First[n]) <= Rung(logged')
      BY <1>4, <3>3, <3>4, Rungs
    <3> QED  BY <1>5, <3>2, <3>5, <3>6 DEF Past
  <2>2. \A n \in TimerName : task'[n].pc \notin {"idle", "poll"} => due'[n]
    <3>1. \A n \in TimerName : task[n].pc \notin {"idle", "poll"} => due[n]
      BY DEF IInv, Clocks
    <3> QED  BY <1>1, <1>5, <3>1 DEF Task
  <2>3. due'["part1_max"] => floor'
    BY <1>1 DEF IInv, Clocks
  <2>4. Begun'
    <3>1. SUFFICES ASSUME marked
                   PROVE  Begun'
      BY <1>1 DEF Begun
    <3>2. /\ Rung("PART1_TOPIC_A") <= Rung(logged)
          /\ \A u \in Task : Past(u) /\ Target[task[u].event] = "PART1_TOPIC_A" =>
                              task[u].pc = "marked"
      BY <3>1 DEF IInv, Clocks, Begun
    <3>3. Rung("PART1_TOPIC_A") < Rung(logged')
      BY <1>4, <3>2, Rungs
    <3>4. Target[event] # "PART1_TOPIC_A" /\ Rung("PART1_TOPIC_A") <= Rung(logged')
      BY <1>4, <3>3, Rungs
    <3> QED  BY <1>5, <3>2, <3>4 DEF Begun, Past
  <2> QED  BY <2>1, <2>2, <2>3, <2>4 DEF Clocks
<1>14. Mic'
  BY <1>1 DEF IInv, Mic
<1>15. Counting'
  <2>1. Unstarted' = Unstarted
    BY <1>1, <1>5 DEF Unstarted, Task, event
  <2> QED  BY <1>1, <2>1 DEF IInv, Counting
<1>16. Sealed'
  <2>1. Rung("FINALIZING") <= Rung(logged) => Rung("FINALIZING") <= Rung(logged')
    BY <1>4, Rungs
  <2> QED  BY <1>1, <2>1 DEF IInv, Sealed
<1>17. Grading'
  <2>1. status # "COMPLETED"
    <3>1. logged # "COMPLETE"
      BY <1>4, Rungs
    <3> QED  BY <3>1 DEF IInv, Grading
  <2>2. \A u \in Task : task'[u].pc # "enqueue"
    BY <1>5, <2>1 DEF IInv, Grading
  <2> QED  BY <1>1, <2>1, <2>2 DEF IInv, Grading
<1>18. Floored'
  BY <1>1, <1>5 DEF IInv, Floored, Task
<1>19. Carded'
  <2>1. Rung("PART2_CUECARD_PRESENT") <= Rung(logged) =>
            Rung("PART2_CUECARD_PRESENT") <= Rung(logged')
    BY <1>4, Rungs
  <2>2. Acking' = Acking
    BY <1>5 DEF Acking, Task, event
  <2> QED  BY <1>1, <1>5, <2>1, <2>2 DEF IInv, Carded, Task
<1>20. Waiting'
  <2>1. CASE event # "CLOSE_DELIVERED"
    BY <1>1, <1>5, <2>1 DEF IInv, Waiting, Past, Task
  <2>2. CASE event = "CLOSE_DELIVERED"
    <3>1. task["finalizing"].pc = "idle" /\ t # "finalizing"
      <4>1. t # "finalizing"
        BY <1>6, <2>2 DEF Fires, Task, TimerName
      <4>2. Rung(logged) = 11 /\ Rung(orch.phase) = 11
        BY <1>3, <2>2, Rungs DEF Source
      <4>3. /\ Source["FINALIZE_COMPLETE"] = "FINALIZING"
            /\ Target["FINALIZE_COMPLETE"] = "COMPLETE"
            /\ Rung("FINALIZING") = 12 /\ Rung("COMPLETE") = 13
        BY Targets, Rungs DEF Source
      <4>4. /\ task["finalizing"].pc # "return" /\ TaskShape("finalizing")
            /\ Behind("finalizing") /\ "finalizing" \in Task
        BY <1>3, <1>6 DEF IInv, Task
      <4>5. Busy("finalizing") => task["finalizing"].event = "FINALIZE_COMPLETE"
        BY <4>4 DEF TaskShape, Fires, Task, TimerName
      <4>6. task["finalizing"].pc \notin {"load", "commit"}
        <5>1. ASSUME task["finalizing"].pc \in {"load", "commit"}
              PROVE  FALSE
          <6>1. 12 <= 11
            BY <4>2, <4>3, <4>4, <4>5, <5>1 DEF Behind, Busy
          <6> QED  BY <6>1
        <5> QED  BY <5>1
      <4>7. task["finalizing"].pc \notin {"enter", "marked", "enqueue"}
        <5>1. ASSUME task["finalizing"].pc \in {"enter", "marked", "enqueue"}
              PROVE  FALSE
          <6>1. 13 <= 11
            BY <4>2, <4>3, <4>4, <4>5, <5>1 DEF Behind, Busy
          <6> QED  BY <6>1
        <5> QED  BY <5>1
      <4>8. task["finalizing"].pc # "wait"
        <5>1. ASSUME task["finalizing"].pc = "wait"
              PROVE  FALSE
          <6>1. 12 <= 11
            BY <4>2, <4>3, <4>4, <5>1 DEF Behind
          <6> QED  BY <6>1
        <5> QED  BY <5>1
      <4>9. task["finalizing"].pc \notin {"poll", "cut", "clear"}
        BY <4>4 DEF TaskShape, TimerName
      <4> QED  BY <4>1, <4>4, <4>6, <4>7, <4>8, <4>9 DEF TaskShape
    <3> QED  BY <1>5, <3>1 DEF Waiting, Task
  <2> QED  BY <2>1, <2>2
<1>21. Linked'
  <2>1. \A u \in Task : Entering(u, "PART3_DISCUSSION")' => Entering(u, "PART3_DISCUSSION")
    BY <1>5 DEF Entering
  <2>2. conn' # "down" /\ conn # "down"
    BY <1>1, <1>2
  <2>3. \A u \in Task : EnteringTopic(u)' => EnteringTopic(u)
    BY <1>5 DEF EnteringTopic
  <2>4. CardLinked'
    BY <1>1, <2>1, <2>2 DEF IInv, Linked, CardLinked, CardKnown
  <2>5. TopicsLinked'
    BY <1>1, <2>2, <2>3 DEF IInv, Linked, TopicsLinked, TopicSetsKnown
  <2> QED  BY <2>4, <2>5 DEF Linked
<1> QED  BY <1>7, <1>8, <1>9, <1>10, <1>12, <1>13, <1>14, <1>15, <1>16, <1>17, <1>18, <1>19,
           <1>20, <1>21 DEF IInv

(* The call returns: the cached phase catches up with the log.             *)
LEMMA ReturnKeeps ==
    ASSUME IInv, NEW t \in Task, Return(t)
    PROVE  IInv'
<1> DEFINE event == task[t].event
           phase == Target[event]
<1>1. /\ task[t].pc = "return" /\ orch' = [orch EXCEPT !.phase = phase, !.turns = 0]
      /\ \/ /\ muted' = MutedOnEnter(phase)
            /\ task' = [task EXCEPT ![t].pc = "enter"]
         \/ /\ t = "part1_max" /\ event # "TOPIC_C_COMPLETE"
            /\ task' = [task EXCEPT ![t] = Calling(_PART1_COMPLETION_EVENT[phase])]
            /\ muted' = muted
      /\ UNCHANGED <<logged, status, sealedBy, graded, deadline, marked, due, floor, conn,
                     flushing, stray, orphans, lost, severed, cardShown, part3, drops>>
  BY DEF Return, Announced, session, keys, clock, flushes, outside
<1>2. /\ event \in Fires[t] /\ event \in ExamEvent
      /\ \A u \in Task : TaskShape(u)
  <2>1. \A u \in Task : TaskShape(u)
    BY DEF IInv, Types
  <2>2. event \in Fires[t]
    BY <1>1, <2>1 DEF TaskShape, Busy
  <2> QED  BY <2>1, <2>2, FiresEvents
<1>3. IF t = "start" THEN conn = "starting" ELSE conn = "up"
  BY <1>1, Awake DEF IInv, Idle
<1>4. /\ orch.phase = Source[event] /\ logged = phase
      /\ \A u \in Task \ {t} : task[u].pc # "return"
  BY <1>1, <1>3 DEF IInv, Cached
<1>5. /\ phase \in ExamPhase /\ orch.phase \in ExamPhase
      /\ Rung(phase) = Rung(orch.phase) + 1 /\ Rung(orch.phase) \in Nat /\ Rung(phase) \in Nat
      /\ Rung(phase) <= 13
  <2>1. /\ Source[event] \in ExamPhase /\ phase \in ExamPhase
        /\ Rung(phase) = Rung(Source[event]) + 1
    BY <1>2, EventEnds
  <2> HIDE DEF event, phase
  <2> QED  BY <1>4, <2>1, Rungs
<1>6. /\ orch' \in OrchestratorRecord /\ orch'.phase = phase
      /\ orch'.cueCard = orch.cueCard /\ orch'.part1Start = orch.part1Start
      /\ orch'.topicSets = orch.topicSets
  <2>1. orch \in OrchestratorRecord /\ 0 \in 0..MostTurns
    BY MostTurnsBounds DEF IInv, Types, StateTypes
  <2> HIDE DEF event, phase
  <2> QED  BY <1>1, <1>5, <2>1 DEF OrchestratorRecord
<1> DEFINE announced == /\ muted' = MutedOnEnter(phase)
                        /\ task'[t].pc = "enter" /\ task'[t].event = event
           silent == /\ t = "part1_max" /\ event \in {"TOPIC_A_COMPLETE", "TOPIC_B_COMPLETE"}
                     /\ task'[t].pc = "load" /\ Source[task'[t].event] = phase
                     /\ task'[t].event \in {"TOPIC_B_COMPLETE", "TOPIC_C_COMPLETE"}
                     /\ muted' = muted
<1>7. /\ task' \in [Task -> TaskRecord] /\ \A u \in Task \ {t} : task'[u] = task[u]
      /\ announced \/ silent
  <2>1. CASE /\ muted' = MutedOnEnter(phase)
             /\ task' = [task EXCEPT ![t].pc = "enter"]
    BY <2>1, NextPc DEF IInv
  <2>2. CASE /\ t = "part1_max" /\ event # "TOPIC_C_COMPLETE"
             /\ task' = [task EXCEPT ![t] = Calling(_PART1_COMPLETION_EVENT[phase])]
             /\ muted' = muted
    <3> DEFINE e == _PART1_COMPLETION_EVENT[phase]
    <3>1. event \in {"TOPIC_A_COMPLETE", "TOPIC_B_COMPLETE"}
      BY <1>2, <2>2 DEF Fires, Task, TimerName
    <3>2. phase \in {"PART1_TOPIC_B", "PART1_TOPIC_C"}
      BY <3>1, Targets
    <3>3. e \in {"TOPIC_B_COMPLETE", "TOPIC_C_COMPLETE"} /\ Source[e] = phase
      <4> HIDE DEF phase
      <4> QED  BY <3>2 DEF _PART1_COMPLETION_EVENT, Source
    <3>4. e \in ExamEvent
      BY <3>3 DEF ExamEvent
    <3> HIDE DEF e
    <3>5. Calling(e) \in TaskRecord /\ Calling(e).pc = "load" /\ Calling(e).event = e
      BY <3>4, Records DEF Calling
    <3>6. task' = [task EXCEPT ![t] = Calling(e)]
      BY <2>2 DEF e
    <3>7. /\ task' \in [Task -> TaskRecord] /\ task'[t] = Calling(e)
          /\ \A u \in Task \ {t} : task'[u] = task[u]
      BY <3>5, <3>6, OneTask DEF IInv
    <3> QED  BY <2>2, <3>1, <3>3, <3>5, <3>7
  <2> QED  BY <1>1, <2>1, <2>2
<1> HIDE DEF event, phase
<1>8. Types'
  <2>1. TaskShape(t)'
    <3>1. CASE announced
      BY <1>2, <3>1 DEF TaskShape, Busy
    <3>2. CASE silent
      BY <3>2 DEF TaskShape, Busy, Fires, Task, TimerName
    <3> QED  BY <1>7, <3>1, <3>2
  <2>2. \A u \in Task : TaskShape(u)'
    BY <1>2, <1>7, <2>1 DEF TaskShape, Busy
  <2>3. muted' \in BOOLEAN
    <3>1. muted \in BOOLEAN
      BY DEF IInv, Types, StateTypes
    <3> QED  BY <1>7, <3>1 DEF MutedOnEnter
  <2>4. StateTypes'
    BY <1>1, <1>6, <2>3 DEF IInv, Types, StateTypes
  <2> QED  BY <1>7, <2>2, <2>4 DEF Types
<1>9. Connected'
  <2>1. CASE t # "start"
    BY <1>1, <1>3, <1>7, <2>1, PumpsRun DEF IInv, Task
  <2>2. CASE t = "start"
    <3>1. announced
      BY <1>7, <2>2
    <3>2. phase \in {"ID_VERIFICATION", "INTRO"}
      <4>1. event \in {"DEVICE_CHECK_CONFIRMED", "ID_VERIFIED"}
        BY <1>2, <2>2 DEF Fires, Task
      <4> QED  BY <4>1, Targets DEF phase
    <3>3. muted' = muted
      BY <3>1, <3>2 DEF MutedOnEnter
    <3>4. ~muted /\ \A u \in Task \ {"start"} : task[u] = Idle
      BY <1>3, <2>2 DEF IInv, Connected
    <3>5. Target[task'["start"].event] = phase
      BY <2>2, <3>1 DEF phase
    <3> QED  BY <1>1, <1>3, <1>6, <1>7, <2>2, <3>1, <3>3, <3>4, <3>5 DEF Connected
  <2> QED  BY <2>1, <2>2
<1>10. Cached'
  BY <1>1, <1>4, <1>6, <1>7 DEF Cached
<1>11. \A u \in Task : Behind(u)'
  <2>1. Behind(t)'
    <3>1. Rung(phase) <= Rung(phase)
      BY <1>5
    <3> QED  BY <1>6, <1>7, <3>1 DEF Behind, phase
  <2>2. ASSUME NEW u \in Task \ {t}
        PROVE  Behind(u)'
    <3>1. Behind(u) /\ TaskShape(u) /\ task'[u] = task[u]
      BY <1>2, <1>7 DEF IInv
    <3>2. \A p \in ExamPhase : Rung(p) <= Rung(orch.phase) => Rung(p) <= Rung(orch'.phase)
      BY <1>5, <1>6, Rungs
    <3>3. Busy(u) => Source[task[u].event] \in ExamPhase /\ Target[task[u].event] \in ExamPhase
      BY <3>1, FiresEvents, EventEnds DEF TaskShape
    <3>4. u \in TimerName => First[u] \in ExamPhase
      BY Firsts
    <3>5. "FINALIZING" \in ExamPhase
      BY DEF ExamPhase
    <3> QED  BY <3>1, <3>2, <3>3, <3>4, <3>5 DEF Behind, Busy, TaskShape
  <2> QED  BY <2>1, <2>2
<1>12. \A u \in Task : Past(u)' => /\ Past(u) /\ task'[u].event = task[u].event
                                   /\ task[u].pc = "marked" => task'[u].pc = "marked"
  BY <1>1, <1>7 DEF Past, event
<1>13. Once'
  BY <1>1, <1>12 DEF IInv, Once
<1>14. Clocks'
  <2>1. \A m \in TimerName : (Set(m)' => Set(m)) /\ (due[m] => due'[m])
    BY <1>1 DEF Set
  <2>2. \A m \in TimerName : \/ task'[m] = task[m]
                             \/ task'[m].pc \in {"idle", "poll"}
                             \/ due[m]
    BY <1>1, <1>7 DEF IInv, Clocks, Task
  <2>3. due'["part1_max"] => floor'
    BY <1>1 DEF IInv, Clocks
  <2> QED  BY <1>1, <1>12, <2>1, <2>2, <2>3, ClocksFrame DEF IInv
<1>15. Mic'
  <2>1. muted /\ ~due["part2_long_turn"] => phase = "PART2_LONG_TURN"
    <3>1. SUFFICES ASSUME muted, ~due["part2_long_turn"]
                   PROVE  phase = "PART2_LONG_TURN"
      OBVIOUS
    <3>2. Source[event] = "PART2_PREP"
      BY <1>3, <1>4, <3>1 DEF IInv, Mic
    <3>3. event = "PREP_TIMER_EXPIRED"
      BY <1>2, <3>2 DEF Source, ExamEvent
    <3> QED  BY <3>3, Targets DEF phase
  <2>2. CASE announced
    BY <1>1, <1>6, <2>1, <2>2 DEF Mic, MutedOnEnter
  <2>3. CASE silent
    <3>1. phase \notin {"PART2_PREP", "PART2_LONG_TURN"}
      BY <2>3, Targets DEF phase
    <3> QED  BY <1>1, <1>6, <2>1, <2>3, <3>1 DEF Mic
  <2> QED  BY <1>7, <2>2, <2>3
<1>16. Counting'
  <2>1. Unstarted' = Unstarted
    BY <1>1, <1>7 DEF Unstarted, Task, event
  <2> QED  BY <1>1, <2>1 DEF IInv, Counting
<1>17. Sealed'
  BY <1>1, <1>4, <1>6 DEF IInv, Sealed
<1>18. Grading'
  <2>1. \A u \in Task : task'[u].pc = "enqueue" => task[u].pc = "enqueue"
    BY <1>7
  <2> QED  BY <1>1, <1>12, <2>1, GradingFrame DEF IInv
<1>19. Floored'
  <2>1. phase \in PART1_PHASES /\ marked => orch.part1Start
    <3>1. SUFFICES ASSUME phase \in PART1_PHASES, marked
                   PROVE  orch.part1Start
      OBVIOUS
    <3>2. phase # "PART1_TOPIC_A"
      <4>1. Past(t) /\ task[t].pc # "marked"
        BY <1>1 DEF Past
      <4>2. Target[task[t].event] # "PART1_TOPIC_A"
        BY <3>1, <4>1 DEF IInv, Clocks, Begun
      <4> QED  BY <4>2 DEF phase, event
    <3>3. event \in {"TOPIC_A_COMPLETE", "TOPIC_B_COMPLETE"}
      BY <1>2, <3>1, <3>2, Targets DEF PART1_PHASES, ExamEvent, phase
    <3>4. orch.phase \in PART1_PHASES
      BY <1>4, <3>3 DEF Source, PART1_PHASES
    <3> QED  BY <1>3, <3>1, <3>4 DEF IInv, Floored
  <2>2. \/ task'["client"] = task["client"]
        \/ task'["client"].pc \notin {"load", "commit"}
    BY <1>7 DEF Task
  <2> QED  BY <1>1, <1>6, <2>1, <2>2 DEF IInv, Floored
<1>20. Carded'
  <2>1. Acking' => Acking
    BY <1>7 DEF Acking, Task, event
  <2>2. ~(Acking' /\ task'["client"].pc \in {"load", "commit"})
    <3>1. SUFFICES ASSUME Acking', task'["client"].pc \in {"load", "commit"}
                   PROVE  FALSE
      OBVIOUS
    <3>2. t # "client"
      BY <1>7, <3>1
    <3>3. task'["client"] = task["client"]
      BY <1>7, <3>2 DEF Task
    <3>4. Source[event] = "PART2_CUECARD_PRESENT"
      BY <1>4, <3>1, <3>3 DEF IInv, Carded, Acking
    <3>5. event = "CUE_CARD_ACKED"
      BY <1>2, <3>4 DEF Source, ExamEvent
    <3> QED  BY <1>2, <3>2, <3>5 DEF Fires, Task, TimerName
  <2> QED  BY <1>1, <2>1, <2>2 DEF IInv, Carded
<1>21. Waiting'
  <2>1. task'["finalizing"].pc # "idle" => task["finalizing"].pc # "idle"
    BY <1>1, <1>7 DEF Task
  <2> QED  BY <1>12, <2>1 DEF IInv, Waiting
<1>22. CardLinked'
  <2>1. /\ part3 = "unthemed" => "card" \in severed
        /\ cardShown => CardKnown \/ Rung("PART3_DISCUSSION") <= Rung(orch.phase)
        /\ Rung("PART2_CUECARD_PRESENT") < Rung(orch.phase) =>
             \/ CardKnown
             \/ /\ Rung("PART3_DISCUSSION") <= Rung(orch.phase)
                /\ \A u \in Task : ~Entering(u, "PART3_DISCUSSION")
        /\ conn # "down" /\ conn' # "down"
    BY <1>1, <1>3 DEF IInv, Linked, CardLinked
  <2>2. Rung("PART2_CUECARD_PRESENT") = 6 /\ Rung("PART3_DISCUSSION") = 10
    BY Rungs
  <2>3. CardKnown' = CardKnown
    BY <1>1, <1>6 DEF CardKnown
  <2>4. cardShown => CardKnown' \/ Rung("PART3_DISCUSSION") <= Rung(orch'.phase)
    BY <1>5, <1>6, <2>1, <2>2, <2>3
  <2>5. ASSUME Rung("PART2_CUECARD_PRESENT") < Rung(orch'.phase), ~CardKnown
        PROVE  /\ Rung("PART3_DISCUSSION") <= Rung(orch'.phase)
               /\ \A u \in Task : ~Entering(u, "PART3_DISCUSSION")'
    <3>1. Rung(orch.phase) # 6
      <4>1. SUFFICES ASSUME Rung(orch.phase) = 6
                     PROVE  FALSE
        OBVIOUS
      <4>2. Source[event] = "PART2_CUECARD_PRESENT"
        <5>1. "PART2_CUECARD_PRESENT" \in ExamPhase
          BY DEF ExamPhase
        <5> QED  BY <1>4, <1>5, <2>2, <4>1, <5>1, RungUnique
      <4>3. event = "CUE_CARD_ACKED"
        BY <1>2, <4>2 DEF Source, ExamEvent
      <4>4. t = "client"
        BY <1>2, <4>3 DEF Fires, Task, TimerName
      <4>5. cardShown
        BY <4>3, <4>4 DEF IInv, Carded, Acking, event
      <4> QED  BY <2>1, <2>2, <2>5, <4>1, <4>5
    <3>2. Rung("PART2_CUECARD_PRESENT") < Rung(orch.phase)
      BY <1>5, <1>6, <2>2, <2>5, <3>1
    <3>3. /\ Rung("PART3_DISCUSSION") <= Rung(orch.phase)
          /\ \A u \in Task : ~Entering(u, "PART3_DISCUSSION")
      BY <2>1, <2>5, <3>2
    <3>4. Rung("PART3_DISCUSSION") <= Rung(orch'.phase) /\ phase # "PART3_DISCUSSION"
      BY <1>5, <1>6, <2>2, <3>3
    <3>5. ~Entering(t, "PART3_DISCUSSION")'
      BY <1>7, <3>4 DEF Entering, phase
    <3> QED  BY <1>7, <3>3, <3>4, <3>5 DEF Entering
  <2> QED  BY <1>1, <2>1, <2>3, <2>4, <2>5 DEF CardLinked
<1>23. TopicsLinked'
  <2>1. SUFFICES ASSUME conn = "up", Rung("INTRO") <= Rung(orch'.phase), ~TopicSetsKnown
                 PROVE  /\ Rung("PART1_TOPIC_C") <= Rung(orch'.phase)
                        /\ \A u \in Task : ~EnteringTopic(u)'
    BY <1>1, <1>3, <1>6 DEF TopicsLinked, TopicSetsKnown
  <2>2. Rung("INTRO") = 2 /\ Rung("PART1_TOPIC_C") = 5
    BY Rungs
  <2>3. Rung(orch.phase) # 1
    <3>1. SUFFICES ASSUME Rung(orch.phase) = 1
                   PROVE  FALSE
      OBVIOUS
    <3>2. orch.phase = "ID_VERIFICATION"
      BY <1>5, <3>1, Rungs, RungUnique DEF ExamPhase
    <3>3. event = "ID_VERIFIED"
      BY <1>2, <1>4, <3>2 DEF Source, ExamEvent
    <3>4. t = "start"
      BY <1>2, <3>3 DEF Fires, Task, TimerName
    <3> QED  BY <1>3, <2>1, <3>4
  <2>4. Rung("INTRO") <= Rung(orch.phase)
    BY <1>5, <1>6, <2>1, <2>2, <2>3
  <2>5. /\ Rung("PART1_TOPIC_C") <= Rung(orch.phase)
        /\ \A u \in Task : ~EnteringTopic(u)
    BY <2>1, <2>4 DEF IInv, Linked, TopicsLinked
  <2>6. Rung("PART1_TOPIC_C") <= Rung(orch'.phase) /\ Rung(phase) > 5
    BY <1>5, <1>6, <2>2, <2>5
  <2>7. phase \notin PART1_PHASES
    BY <2>6, Rungs DEF PART1_PHASES
  <2>8. ~EnteringTopic(t)'
    BY <1>7, <2>7 DEF EnteringTopic, phase
  <2> QED  BY <1>7, <2>5, <2>6, <2>8 DEF EnteringTopic
<1> QED  BY <1>8, <1>9, <1>10, <1>11, <1>13, <1>14, <1>15, <1>16, <1>17, <1>18, <1>19, <1>20,
           <1>21, <1>22, <1>23 DEF IInv, Linked

(* An event is known by where it leads. *)
LEMMA ByTarget ==
    ASSUME NEW a \in ExamEvent, NEW b \in ExamEvent, Target[a] = Target[b]
    PROVE  a = b
<1>1. Rung(Source[a]) + 1 = Rung(Source[b]) + 1
  BY EventEnds
<1>2. Source[a] \in ExamPhase /\ Source[b] \in ExamPhase
  BY EventEnds
<1>3. Rung(Source[a]) = Rung(Source[b])
  BY <1>1, <1>2, Rungs
<1> QED  BY <1>2, <1>3, RungUnique, EventEnds

(* A task that follows a transition up: its event, its connection, where   *)
(* the exam is by then, and that nobody else follows it up.                *)
LEMMA Follows ==
    ASSUME IInv, NEW t \in Task, Past(t), task[t].pc # "return"
    PROVE  /\ task[t].event \in Fires[t] /\ task[t].event \in ExamEvent
           /\ Target[task[t].event] \in ExamPhase
           /\ Rung(Target[task[t].event]) <= Rung(orch.phase)
           /\ Rung(Target[task[t].event]) <= Rung(logged)
           /\ IF t = "start" THEN conn = "starting" ELSE conn = "up"
           /\ \A u \in Task : Past(u) /\ Target[task[u].event] = Target[task[t].event] => u = t
           /\ \A n \in TimerName : Set(n) => First[n] # Target[task[t].event]
<1>1. \A u \in Task : Past(u) => task[u].event \in Fires[u] /\ task[u].event \in ExamEvent
  BY FiresEvents DEF IInv, Types, TaskShape, Busy, Past
<1>2. /\ Rung(Target[task[t].event]) <= Rung(orch.phase)
      /\ Rung(Target[task[t].event]) <= Rung(logged)
  BY DEF IInv, Behind, Once, Past
<1>3. IF t = "start" THEN conn = "starting" ELSE conn = "up"
  BY Awake DEF IInv, Idle, Past
<1>4. \A u \in Task : Past(u) /\ Target[task[u].event] = Target[task[t].event] => u = t
  BY <1>1, ByTarget DEF IInv, Once
<1>5. \A n \in TimerName : Set(n) => First[n] # Target[task[t].event]
  BY DEF IInv, Clocks
<1>6. Target[task[t].event] \in ExamPhase
  BY <1>1, EventEnds
<1> QED  BY <1>1, <1>2, <1>3, <1>4, <1>5, <1>6

(* A task that enters a phase. *)
LEMMA Enters ==
    ASSUME IInv, NEW t \in Task, NEW phase \in ExamPhase, Entering(t, phase)
    PROVE  /\ task[t].pc = "enter" /\ task[t].event \in Fires[t] /\ task[t].event \in ExamEvent
           /\ Target[task[t].event] = phase
           /\ Rung(phase) <= Rung(orch.phase) /\ Rung(phase) <= Rung(logged)
           /\ IF t = "start" THEN conn = "starting" ELSE conn = "up"
           /\ \A u \in Task : Past(u) /\ Target[task[u].event] = phase => u = t
           /\ \A n \in TimerName : Set(n) => First[n] # phase
           /\ phase = "PART1_TOPIC_A" => ~marked
<1>1. task[t].pc = "enter" /\ Target[task[t].event] = phase
  BY DEF Entering
<1>2. Past(t)
  BY <1>1 DEF Past
<1>3. phase = "PART1_TOPIC_A" => ~marked
  BY <1>1, <1>2 DEF IInv, Clocks, Begun
<1> QED  BY <1>1, <1>2, <1>3, Follows

(* ROUNDOFF and CLOSE. *)
LEMMA SpokenKeeps ==
    ASSUME IInv, NEW t \in Task, EnterSpoken(t)
    PROVE  IInv'
<1>1. /\ \E phase \in {"PART2_ROUNDOFF", "CLOSE"} : Entering(t, phase)
      /\ task' = AfterAdvance(t, {})
      /\ UNCHANGED <<logged, session, keys, clock, connection, flushes, outside>>
  BY DEF EnterSpoken
<1>2. PICK phase \in {"PART2_ROUNDOFF", "CLOSE"} : Entering(t, phase)
  BY <1>1
<1>3. phase \in ExamPhase /\ phase \notin {"ID_VERIFICATION", "INTRO"}
  BY DEF ExamPhase
<1>4. /\ task[t].pc = "enter" /\ task[t].event \in Fires[t] /\ Target[task[t].event] = phase
      /\ IF t = "start" THEN conn = "starting" ELSE conn = "up"
  BY <1>2, <1>3, Enters
<1>5. t # "start"
  BY <1>3, <1>4, Targets DEF Fires, Task
<1>6. conn' = conn /\ orch' = orch /\ logged' = logged
  BY <1>1 DEF connection
<1>7. /\ Quiet /\ ClientSteady /\ task' \in [Task -> TaskRecord] /\ Waiting'
      /\ \A u \in Task : task'[u].pc = "enqueue" => task[u].pc = "enqueue"
      /\ \A n \in TimerName : task'[n] = task[n] \/ task'[n].pc \in {"idle", "poll"}
      /\ task'["start"] = task["start"]
      /\ task'["finalizing"].pc # "idle" => task["finalizing"].pc # "idle"
  <2>1. task'["finalizing"].pc # "idle" => task["finalizing"].pc # "idle"
    BY <1>1 DEF AfterAdvance, Idle, Task
  <2> QED  BY <1>1, <1>4, <1>5, <1>6, <2>1, CallEnds
<1>8. Connected'
  BY <1>4, <1>5, <1>6, <1>7, PumpsRun DEF IInv
<1> QED  BY <1>1, <1>7, <1>8, TasksKeep

(* A clock is started by the one that follows up the entry of its phase.   *)
LEMMA ClockStarts ==
    ASSUME IInv, NEW t \in Task, NEW n \in TimerName, Past(t), task[t].pc # "return",
           Target[task[t].event] = First[n],
           UNCHANGED <<logged, marked, due, floor>>, ~Past(t)',
           \A m \in TimerName \ {n} : Set(m)' => Set(m),
           \A u \in Task : Past(u)' => /\ Past(u) /\ task'[u].event = task[u].event
                                       /\ task[u].pc = "marked" => task'[u].pc = "marked",
           \A m \in TimerName : task'[m] = task[m] \/ task'[m].pc \in {"idle", "poll"}
    PROVE  Clocks'
<1>1. /\ Rung(First[n]) <= Rung(logged)
      /\ \A u \in Task : Past(u) /\ Target[task[u].event] = First[n] => u = t
  BY Follows
<1>2. \A u \in Task : Past(u)' => Target[task'[u].event] # First[n]
  BY <1>1
<1>3. \A m \in TimerName : Set(m)' =>
        /\ Rung(First[m]) <= Rung(logged)
        /\ \A u \in Task : Past(u)' => Target[task'[u].event] # First[m]
  BY <1>1, <1>2 DEF IInv, Clocks
<1>4. \A m \in TimerName : task'[m].pc \notin {"idle", "poll"} => due'[m]
  BY DEF IInv, Clocks
<1>5. due'["part1_max"] => floor'
  BY DEF IInv, Clocks
<1>6. Begun'
  BY DEF IInv, Clocks, Begun
<1> QED  BY <1>3, <1>4, <1>5, <1>6 DEF Clocks

(* Part 1 begins, and the moment is recorded, once. *)
LEMMA MarkKeeps ==
    ASSUME IInv, NEW t \in Task, MarkPart1(t)
    PROVE  IInv'
<1>1. /\ Entering(t, "PART1_TOPIC_A") /\ marked' = TRUE
      /\ orch' = [orch EXCEPT !.part1Start = TRUE]
      /\ task' = [task EXCEPT ![t].pc = "marked"]
      /\ UNCHANGED <<logged, status, sealedBy, graded, deadline, due, floor, conn, muted,
                     flushing, stray, orphans, lost, severed, cardShown, part3, drops>>
  BY DEF MarkPart1, session, clock, flushes, outside
<1>2. /\ "PART1_TOPIC_A" \in ExamPhase \ {"ID_VERIFICATION", "INTRO"}
      /\ "INTRO_COMPLETE" \in ExamEvent
  BY DEF ExamPhase, ExamEvent
<1>3. /\ task[t].pc = "enter" /\ task[t].event \in Fires[t] /\ task[t].event \in ExamEvent
      /\ Target[task[t].event] = "PART1_TOPIC_A"
      /\ Rung("PART1_TOPIC_A") <= Rung(logged)
      /\ \A u \in Task : Past(u) /\ Target[task[u].event] = "PART1_TOPIC_A" => u = t
      /\ IF t = "start" THEN conn = "starting" ELSE conn = "up"
  BY <1>1, <1>2, Enters
<1>4. task[t].event = "INTRO_COMPLETE"
  BY <1>2, <1>3, Targets, ByTarget
<1>5. t = "client" /\ conn = "up"
  BY <1>3, <1>4 DEF Fires, Task, TimerName
<1>6. /\ task' \in [Task -> TaskRecord]
      /\ task'[t].pc = "marked" /\ task'[t].event = task[t].event
      /\ \A u \in Task \ {t} : task'[u] = task[u]
  BY <1>1, NextPc DEF IInv
<1>7. /\ orch' \in OrchestratorRecord /\ orch'.phase = orch.phase /\ orch'.part1Start
      /\ orch'.cueCard = orch.cueCard /\ orch'.topicSets = orch.topicSets
  BY <1>1 DEF IInv, Types, StateTypes, OrchestratorRecord
<1>8. Quiet
  <2>1. TakesUp(t)
    BY <1>3, <1>4, <1>6 DEF TakesUp
  <2> QED  BY <1>1, <1>6, <1>7, <2>1 DEF Quiet
<1>9. /\ \A u \in Task : Past(u)' => /\ Past(u) /\ task'[u].event = task[u].event
                                     /\ task[u].pc = "marked" => task'[u].pc = "marked"
      /\ NoNewEntry
  BY <1>8, QuietKeeps DEF IInv
<1>10. StateTypes'
  BY <1>1, <1>7 DEF IInv, Types, StateTypes
<1>11. Connected'
  BY <1>1, <1>5, <1>6, PumpsRun DEF IInv, Task
<1>12. Clocks'
  <2>1. \A m \in TimerName : Set(m)' =>
          /\ Rung(First[m]) <= Rung(logged')
          /\ \A u \in Task : Past(u)' => Target[task'[u].event] # First[m]
    BY <1>1, <1>9 DEF IInv, Clocks, Set
  <2>2. Begun'
    BY <1>1, <1>3, <1>6, <1>9 DEF Begun
  <2>3. \A m \in TimerName : task'[m].pc \notin {"idle", "poll"} => due'[m]
    BY <1>1, <1>5, <1>6 DEF IInv, Clocks, Task, TimerName
  <2>4. due'["part1_max"] => floor'
    BY <1>1 DEF IInv, Clocks
  <2> QED  BY <2>1, <2>2, <2>3, <2>4 DEF Clocks
<1>13. Mic'
  BY <1>1, <1>7, MicFrame DEF IInv
<1>14. Sealed'
  BY <1>1, <1>7, SealedFrame DEF IInv
<1>15. Grading'
  <2>1. \A u \in Task : task'[u].pc = "enqueue" => task[u].pc = "enqueue"
    BY <1>6
  <2> QED  BY <1>1, <1>9, <2>1, GradingFrame DEF IInv
<1>16. Floored'
  BY <1>5, <1>6, <1>7 DEF Floored
<1>17. Carded' /\ Counting'
  <2>1. ~Acking'
    BY <1>4, <1>5, <1>6 DEF Acking
  <2>2. Unstarted' = Unstarted
    BY <1>3, <1>5, <1>6 DEF Unstarted
  <2> QED  BY <1>1, <2>1, <2>2 DEF IInv, Carded, Counting
<1>18. Waiting'
  BY <1>5, <1>6, <1>9 DEF IInv, Waiting, Task
<1>19. Linked'
  BY <1>1, <1>7, <1>9, LinkedFrame DEF IInv
<1> QED  BY <1>6, <1>8, <1>10, <1>11, <1>12, <1>13, <1>14, <1>15, <1>16, <1>17, <1>18, <1>19,
           QuietStep

(* A topic is put to Gemini, or cannot be by a connection without the      *)
(* topic sets.                                                             *)
LEMMA TopicKeeps ==
    ASSUME IInv, NEW t \in Task, EnterTopic(t)
    PROVE  IInv'
<1> DEFINE first == task[t].pc = "marked"
           phase == Target[task[t].event]
<1>1. /\ first \/ Entering(t, "PART1_TOPIC_B") \/ Entering(t, "PART1_TOPIC_C")
      /\ deadline' = [deadline EXCEPT !["part1_max"] = @ \/ first]
      /\ \/ /\ task' = AfterAdvance(t, IF first THEN {"part1_max"} ELSE {})
            /\ UNCHANGED <<connection, flushes>>
         \/ Raise(t)
      /\ UNCHANGED <<logged, status, sealedBy, graded, marked, due, floor, cardShown, part3,
                     drops>>
  BY DEF EnterTopic, session, clock, outside
<1>2. task[t].pc \in {"enter", "marked"} /\ Past(t)
  BY <1>1 DEF Entering, NoNewEntry, Past
<1>3. /\ task[t].event \in Fires[t] /\ task[t].event \in ExamEvent
      /\ Rung(phase) <= Rung(orch.phase) /\ Rung(phase) <= Rung(logged)
      /\ IF t = "start" THEN conn = "starting" ELSE conn = "up"
      /\ \A n \in TimerName : Set(n) => First[n] # phase
  BY <1>2, Follows
<1>4. /\ first => task[t].event = "INTRO_COMPLETE" /\ phase = "PART1_TOPIC_A"
      /\ ~first => phase \in {"PART1_TOPIC_B", "PART1_TOPIC_C"}
  BY <1>1, Targets DEF IInv, Types, TaskShape, Entering
<1>5. /\ task[t].event \in {"INTRO_COMPLETE", "TOPIC_A_COMPLETE", "TOPIC_B_COMPLETE"}
      /\ t \in {"client", "part1_max"} /\ (first => t = "client")
  <2>1. task[t].event \in {"INTRO_COMPLETE", "TOPIC_A_COMPLETE", "TOPIC_B_COMPLETE"}
    BY <1>3, <1>4, Targets DEF ExamEvent
  <2>2. t \in {"client", "part1_max"}
    BY <1>3, <2>1 DEF Fires, Task, TimerName
  <2>3. first => t = "client"
    BY <1>3, <1>4 DEF Fires, Task, TimerName
  <2> QED  BY <2>1, <2>2, <2>3
<1>6. conn = "up" /\ "part1_max" \in TimerName /\ "client" \in Task /\ "part1_max" \in Task
  BY <1>3, <1>5 DEF TimerName, Task
<1>7. /\ deadline' \in [TimerName -> BOOLEAN]
      /\ \A n \in TimerName : Set(n)' => Set(n) \/ (first /\ n = "part1_max")
  <2>1. deadline \in [TimerName -> BOOLEAN] /\ first \in BOOLEAN
    BY DEF IInv, Types, StateTypes
  <2> HIDE DEF first
  <2> QED  BY <1>1, <1>6, <2>1 DEF Set
<1>8. first => First["part1_max"] = phase
  BY <1>4, Firsts
<1> HIDE DEF first, phase
<1>9. \A n \in TimerName : Set(n)' => Rung(First[n]) <= Rung(logged)
  BY <1>3, <1>7, <1>8 DEF IInv, Clocks
<1>10. ASSUME task' \in [Task -> TaskRecord], Quiet, ClientSteady, Waiting', ~Past(t)',
              UNCHANGED <<connection, flushes>>, task'["start"] = task["start"],
              \A u \in Task : task'[u].pc = "enqueue" => task[u].pc = "enqueue",
              \A m \in TimerName : task'[m] = task[m] \/ task'[m].pc \in {"idle", "poll"}
       PROVE  IInv'
  <2>1. /\ \A u \in Task : Past(u)' => /\ Past(u) /\ task'[u].event = task[u].event
                                       /\ task[u].pc = "marked" => task'[u].pc = "marked"
        /\ NoNewEntry
    BY <1>10, QuietKeeps DEF IInv
  <2>2. UNCHANGED <<conn, orch, muted, flushing, stray, orphans, lost, severed>>
    BY <1>10 DEF connection, flushes
  <2>3. StateTypes'
    BY <1>1, <1>7, <2>2 DEF IInv, Types, StateTypes
  <2>4. Connected'
    BY <1>6, <1>10, <2>2, PumpsRun DEF IInv
  <2>5. Clocks'
    <3>1. CASE first
      <4>1. \A m \in TimerName \ {"part1_max"} : Set(m)' => Set(m)
        BY <1>7
      <4>2. Target[task[t].event] = First["part1_max"] /\ task[t].pc # "return"
        BY <1>2, <1>8, <3>1 DEF phase
      <4> QED  BY <1>1, <1>2, <1>6, <1>10, <2>1, <4>1, <4>2, ClockStarts
    <3>2. CASE ~first
      <4>1. \A m \in TimerName : (Set(m)' => Set(m)) /\ (due[m] => due'[m])
        BY <1>1, <1>7, <3>2
      <4>2. due'["part1_max"] => floor'
        BY <1>1 DEF IInv, Clocks
      <4> QED  BY <1>1, <1>10, <2>1, <4>1, <4>2, ClocksFrame DEF IInv
    <3> QED  BY <3>1, <3>2
  <2>6. Mic'
    BY <1>1, <2>2, MicFrame DEF IInv
  <2>7. Sealed'
    BY <1>1, <2>2, SealedFrame DEF IInv
  <2>8. Grading'
    BY <1>1, <1>10, <2>1, GradingFrame DEF IInv
  <2>9. Floored' /\ Carded' /\ Counting'
    BY <1>1, <1>10, <2>2, ClientFrame DEF IInv
  <2>10. Linked'
    BY <1>1, <2>1, <2>2, LinkedFrame DEF IInv
  <2> QED  BY <1>10, <2>3, <2>4, <2>5, <2>6, <2>7, <2>8, <2>9, <2>10, QuietStep
<1>11. CASE /\ task' = AfterAdvance(t, IF first THEN {"part1_max"} ELSE {})
            /\ UNCHANGED <<connection, flushes>>
  <2>1. conn' = conn /\ orch' = orch /\ t # "start" /\ logged' = logged
    BY <1>1, <1>5, <1>11 DEF connection
  <2> DEFINE spawned == IF first THEN {"part1_max"} ELSE {}
  <2>2. spawned \in SUBSET TimerName
    BY <1>6
  <2>3. \A n \in spawned : ~due[n] /\ Rung(First[n]) <= Rung(orch.phase)
    <3>1. first => ~due["part1_max"] /\ Rung(First["part1_max"]) <= Rung(orch.phase)
      BY <1>3, <1>6, <1>8 DEF Set
    <3> QED  BY <3>1
  <2>4. task' = AfterAdvance(t, spawned)
    BY <1>11
  <2> HIDE DEF spawned
  <2>5. /\ Quiet /\ ClientSteady /\ task' \in [Task -> TaskRecord] /\ Waiting' /\ ~Past(t)'
        /\ \A u \in Task : task'[u].pc = "enqueue" => task[u].pc = "enqueue"
        /\ \A n \in TimerName : task'[n] = task[n] \/ task'[n].pc \in {"idle", "poll"}
        /\ task'["start"] = task["start"]
    BY <1>2, <2>1, <2>2, <2>3, <2>4, CallEnds
  <2> QED  BY <1>10, <1>11, <2>5
<1>12. CASE Raise(t) /\ t = "client"
  <2>1. Teardown(FALSE)
    BY <1>12 DEF Raise
  <2>2. /\ drops' \in 0..MaxDrops /\ marked' \in BOOLEAN /\ (marked' => marked)
        /\ UNCHANGED <<logged, session, clock, cardShown, part3>>
    BY <1>1 DEF IInv, Types, StateTypes, session, clock
  <2> QED  BY <1>7, <1>9, <2>1, <2>2, TeardownKeeps
<1>13. CASE Raise(t) /\ t = "part1_max"
  <2>1. task' = [task EXCEPT ![t] = Idle] /\ UNCHANGED <<connection, flushes>>
    BY <1>13 DEF Raise
  <2>2. /\ task' \in [Task -> TaskRecord] /\ task'[t] = Idle
        /\ \A u \in Task \ {t} : task'[u] = task[u]
    BY <2>1, OneTask, Records DEF IInv
  <2>3. conn' = conn /\ orch' = orch /\ logged' = logged
    BY <1>1, <2>1 DEF connection
  <2>4. Quiet
    <3>1. TakesUp(t)
      BY <1>2, <2>2 DEF TakesUp
    <3> QED  BY <2>2, <2>3, <3>1 DEF Quiet
  <2>5. /\ ClientSteady /\ task'["start"] = task["start"]
        /\ task'["finalizing"] = task["finalizing"]
    BY <1>13, <2>2 DEF ClientSteady, Task
  <2>6. \A m \in Task : task'[m] = task[m] \/ task'[m].pc = "idle"
    BY <2>2 DEF Idle
  <2>7. /\ ~Past(t)'
        /\ \A u \in Task : task'[u].pc = "enqueue" => task[u].pc = "enqueue"
        /\ \A m \in TimerName : task'[m] = task[m] \/ task'[m].pc \in {"idle", "poll"}
    <3>1. TimerName \subseteq Task
      BY DEF Task
    <3>2. ~Past(t)'
      BY <2>2 DEF Idle, Past
    <3> QED  BY <2>6, <3>1, <3>2
  <2>8. Waiting'
    <3>1. \A u \in Task : Past(u)' => /\ Past(u) /\ task'[u].event = task[u].event
                                      /\ task[u].pc = "marked" => task'[u].pc = "marked"
      BY <2>4, QuietKeeps DEF IInv
    <3> QED  BY <2>5, <3>1 DEF IInv, Waiting
  <2> QED  BY <1>10, <2>1, <2>2, <2>4, <2>5, <2>7, <2>8
<1> QED  BY <1>1, <1>5, <1>11, <1>12, <1>13

(* The end of a call of _advance by a pump or a watchdog: what it wrote    *)
(* last, and the watchdog it may have spawned for the phase it entered.    *)
LEMMA CallEndKeeps ==
    ASSUME IInv, NEW t \in Task \ {"start"}, task[t].pc \in {"enter", "enqueue"}, conn = "up",
           NEW spawned \in SUBSET TimerName, task' = AfterAdvance(t, spawned),
           \A n \in spawned : Entering(t, First[n]),
           \A n \in TimerName : Set(n)' => Set(n) \/ n \in spawned,
           UNCHANGED <<logged, marked, due, floor, conn, muted, flushing>>,
           orch'.phase = orch.phase, orch'.part1Start = orch.part1Start,
           StateTypes', Sealed',
           cardShown => cardShown',
           cardShown' => cardShown \/ Rung("PART2_CUECARD_PRESENT") <= Rung(logged),
           Grading', Linked'
    PROVE  IInv'
<1>1. \A n \in spawned : /\ ~Set(n) /\ Rung(First[n]) <= Rung(orch.phase)
                         /\ Rung(First[n]) <= Rung(logged)
                         /\ \A u \in Task : Past(u) /\ Target[task[u].event] = First[n] => u = t
  <2>1. ASSUME NEW n \in spawned
        PROVE  /\ ~Set(n) /\ Rung(First[n]) <= Rung(orch.phase)
               /\ Rung(First[n]) <= Rung(logged)
               /\ \A u \in Task : Past(u) /\ Target[task[u].event] = First[n] => u = t
    <3>1. First[n] \in ExamPhase /\ Entering(t, First[n]) /\ n \in TimerName
      BY Firsts
    <3> QED  BY <3>1, Enters
  <2> QED  BY <2>1
<1>2. /\ Quiet /\ ClientSteady /\ task' \in [Task -> TaskRecord] /\ Waiting' /\ ~Past(t)'
      /\ \A u \in Task : Past(u)' => /\ Past(u) /\ task'[u].event = task[u].event
                                     /\ task[u].pc = "marked" => task'[u].pc = "marked"
      /\ NoNewEntry
      /\ \A u \in Task : task'[u].pc = "enqueue" => task[u].pc = "enqueue"
      /\ \A n \in TimerName : task'[n] = task[n] \/ task'[n].pc \in {"idle", "poll"}
      /\ task'["start"] = task["start"]
  <2>1. \A n \in spawned : ~due[n] /\ Rung(First[n]) <= Rung(orch.phase)
    BY <1>1 DEF Set
  <2> QED  BY <2>1, CallEnds
<1>3. Connected'
  BY <1>2, PumpsRun DEF IInv
<1>4. Clocks'
  <2>1. \A n \in TimerName : Set(n) =>
          /\ Rung(First[n]) <= Rung(logged)
          /\ \A u \in Task : Past(u) => Target[task[u].event] # First[n]
    BY DEF IInv, Clocks
  <2>2. \A n \in spawned :
          /\ Rung(First[n]) <= Rung(logged)
          /\ \A u \in Task : Past(u)' => Target[task'[u].event] # First[n]
    BY <1>1, <1>2
  <2>3. \A n \in TimerName : Set(n)' =>
          /\ Rung(First[n]) <= Rung(logged)
          /\ \A u \in Task : Past(u)' => Target[task'[u].event] # First[n]
    BY <1>2, <2>1, <2>2
  <2>4. \A n \in TimerName : task'[n].pc \notin {"idle", "poll"} => due'[n]
    BY <1>2 DEF IInv, Clocks
  <2>5. due'["part1_max"] => floor'
    BY DEF IInv, Clocks
  <2>6. Begun'
    BY <1>2 DEF IInv, Clocks, Begun
  <2> QED  BY <2>3, <2>4, <2>5, <2>6 DEF Clocks
<1>5. Mic'
  BY MicFrame DEF IInv
<1>6. Floored'
  BY <1>2 DEF IInv, Floored, ClientSteady, Idle
<1>7. Carded'
  BY <1>2 DEF IInv, Carded, Acking, ClientSteady, Idle
<1>8. Counting'
  <2>1. \/ task'["client"].pc = "idle"
        \/ task["client"].pc # "idle" /\ task'["client"].event = task["client"].event
    BY <1>2 DEF ClientSteady, Idle
  <2>2. Unstarted' = 0 \/ Unstarted' = Unstarted
    BY <2>1 DEF Unstarted
  <2> QED  BY <2>2, Counts DEF IInv, Counting
<1> QED  BY <1>2, <1>3, <1>4, <1>5, <1>6, <1>7, <1>8, QuietStep

(* An event that is entered as PART2 or later was not fired by start().    *)
LEMMA NotStart ==
    ASSUME IInv, NEW t \in Task, NEW phase \in ExamPhase \ {"ID_VERIFICATION", "INTRO"},
           Entering(t, phase)
    PROVE  t # "start" /\ conn = "up"
<1>1. /\ task[t].event \in Fires[t] /\ Target[task[t].event] = phase
      /\ IF t = "start" THEN conn = "starting" ELSE conn = "up"
  BY Enters
<1>2. t # "start"
  BY <1>1, Targets DEF Fires, Task
<1> QED  BY <1>1, <1>2

(* The card is shown and kept. *)
LEMMA CueCardKeeps ==
    ASSUME IInv, NEW t \in Task, EnterCueCard(t)
    PROVE  IInv'
<1> DEFINE phase == "PART2_CUECARD_PRESENT"
<1>1. /\ Entering(t, phase) /\ orch' = [orch EXCEPT !.cueCard = TRUE] /\ cardShown' = TRUE
      /\ task' = AfterAdvance(t, {})
      /\ UNCHANGED <<logged, status, sealedBy, graded, deadline, marked, due, floor, conn, muted,
                     flushing, stray, orphans, lost, severed, part3, drops>>
  BY DEF EnterCueCard, session, keys, clock, flushes
<1>2. phase \in ExamPhase \ {"ID_VERIFICATION", "INTRO"}
  BY DEF ExamPhase
<1>3. /\ task[t].pc = "enter" /\ Rung(phase) <= Rung(logged) /\ t # "start" /\ conn = "up"
  BY <1>1, <1>2, Enters, NotStart
<1>4. /\ orch' \in OrchestratorRecord /\ orch'.phase = orch.phase
      /\ orch'.cueCard = TRUE /\ orch'.part1Start = orch.part1Start
      /\ orch'.topicSets = orch.topicSets
  BY <1>1 DEF IInv, Types, StateTypes, OrchestratorRecord
<1>5. StateTypes'
  BY <1>1, <1>4 DEF IInv, Types, StateTypes
<1>6. Sealed'
  BY <1>1, <1>4, SealedFrame DEF IInv
<1>7. /\ \A u \in Task : Past(u)' => /\ Past(u) /\ task'[u].event = task[u].event
                                     /\ task[u].pc = "marked" => task'[u].pc = "marked"
      /\ NoNewEntry
      /\ \A u \in Task : task'[u].pc = "enqueue" => task[u].pc = "enqueue"
  BY <1>1, <1>3, <1>4, CallEnds
<1>8. Grading'
  BY <1>1, <1>7, GradingFrame DEF IInv
<1>9. Linked'
  <2>1. CardLinked'
    BY <1>1, <1>3, <1>4 DEF IInv, Linked, CardLinked, CardKnown
  <2>2. \A u \in Task : EnteringTopic(u)' => EnteringTopic(u)
    BY <1>7 DEF EnteringTopic, NoNewEntry, Past
  <2>3. TopicsLinked'
    BY <1>1, <1>3, <1>4, <2>2 DEF IInv, Linked, TopicsLinked, TopicSetsKnown
  <2> QED  BY <2>1, <2>3 DEF Linked
<1>10. \A n \in TimerName : Set(n)' => Set(n)
  BY <1>1 DEF Set
<1> QED  BY <1>1, <1>3, <1>4, <1>5, <1>6, <1>8, <1>9, <1>10, CallEndKeeps

(* The clocks of prep, of the long turn and of Part 3. *)
LEMMA TimerKeeps ==
    ASSUME IInv, NEW t \in Task, EnterPart2Timed(t) \/ EnterPart3(t)
    PROVE  IInv'
<1>1. /\ \E n \in TimerName \ {"part1_max"} : Entering(t, First[n]) /\ StartTimer(t, n)
      /\ UNCHANGED <<logged, status, sealedBy, graded, marked, due, floor, conn, orch, muted,
                     flushing, stray, orphans, lost, severed, cardShown, drops>>
      /\ \/ part3' = part3
         \/ /\ Entering(t, "PART3_DISCUSSION")
            /\ part3' = IF orch.cueCard THEN "themed" ELSE "unthemed"
  <2>1. CASE EnterPart2Timed(t)
    BY <2>1, Firsts DEF EnterPart2Timed, TimerName, session, clock, connection, flushes, outside
  <2>2. CASE EnterPart3(t)
    BY <2>2, Firsts DEF EnterPart3, TimerName, session, clock, connection, flushes
  <2> QED  BY <2>1, <2>2
<1>2. PICK n \in TimerName \ {"part1_max"} : Entering(t, First[n]) /\ StartTimer(t, n)
  BY <1>1
<1>3. /\ deadline' = [deadline EXCEPT ![n] = TRUE] /\ task' = AfterAdvance(t, {n})
  BY <1>2 DEF StartTimer
<1>4. First[n] \in ExamPhase \ {"ID_VERIFICATION", "INTRO"}
  BY Firsts DEF TimerName
<1>5. task[t].pc = "enter" /\ t # "start" /\ conn = "up"
  BY <1>2, <1>4, Enters, NotStart
<1>6. StateTypes'
  <2>1. part3' \in {"unopened", "themed", "unthemed"}
    BY <1>1 DEF IInv, Types, StateTypes
  <2>2. deadline' \in [TimerName -> BOOLEAN]
    BY <1>3 DEF IInv, Types, StateTypes
  <2> QED  BY <1>1, <2>1, <2>2 DEF IInv, Types, StateTypes
<1>7. Sealed'
  BY <1>1, SealedFrame DEF IInv
<1>8. \A m \in TimerName : Set(m)' => Set(m) \/ m \in {n}
  BY <1>1, <1>3 DEF Set, IInv, Types, StateTypes
<1>9. ~due[n] /\ Rung(First[n]) <= Rung(orch.phase)
  BY <1>2, <1>4, Enters DEF Set
<1>10. /\ \A u \in Task : Past(u)' => /\ Past(u) /\ task'[u].event = task[u].event
                                      /\ task[u].pc = "marked" => task'[u].pc = "marked"
       /\ NoNewEntry
       /\ \A u \in Task : task'[u].pc = "enqueue" => task[u].pc = "enqueue"
  <2>1. {n} \in SUBSET TimerName
    OBVIOUS
  <2> QED  BY <1>1, <1>3, <1>5, <1>9, <2>1, CallEnds
<1>11. Grading'
  BY <1>1, <1>10, GradingFrame DEF IInv
<1>12. Linked'
  <2>1. part3' = "unthemed" => "card" \in severed
    <3>1. CASE part3' = part3
      BY <3>1 DEF IInv, Linked, CardLinked
    <3>2. CASE /\ Entering(t, "PART3_DISCUSSION")
               /\ part3' = IF orch.cueCard THEN "themed" ELSE "unthemed"
      <4>1. "PART3_DISCUSSION" \in ExamPhase
        BY DEF ExamPhase
      <4>2. Rung("PART3_DISCUSSION") <= Rung(orch.phase)
        BY <3>2, <4>1, Enters
      <4>3. Rung("PART2_CUECARD_PRESENT") < Rung(orch.phase)
        BY <4>2, Rungs DEF IInv, Types, StateTypes, OrchestratorRecord
      <4>4. CardKnown
        BY <1>5, <3>2, <4>3 DEF IInv, Linked, CardLinked
      <4> QED  BY <3>2, <4>4 DEF CardKnown
    <3> QED  BY <1>1, <3>1, <3>2
  <2>2. \A u \in Task : Entering(u, "PART3_DISCUSSION")' => Entering(u, "PART3_DISCUSSION")
    BY <1>10 DEF Entering, NoNewEntry, Past
  <2>3. \A u \in Task : EnteringTopic(u)' => EnteringTopic(u)
    BY <1>10 DEF EnteringTopic, NoNewEntry, Past
  <2>4. CardLinked'
    BY <1>1, <1>5, <2>1, <2>2 DEF IInv, Linked, CardLinked, CardKnown
  <2>5. TopicsLinked'
    BY <1>1, <2>3 DEF IInv, Linked, TopicsLinked, TopicSetsKnown
  <2> QED  BY <2>4, <2>5 DEF Linked
<1>13. {n} \in SUBSET TimerName /\ \A m \in {n} : Entering(t, First[m])
  BY <1>2
<1> QED  BY <1>1, <1>3, <1>5, <1>6, <1>7, <1>8, <1>11, <1>12, <1>13, CallEndKeeps

(* Grading is enqueued, or the broker is out. *)
LEMMA EnqueueKeeps ==
    ASSUME IInv, NEW t \in Task, Enqueue(t)
    PROVE  IInv'
<1>1. /\ task[t].pc = "enqueue" /\ graded' \in {graded, graded + 1}
      /\ task' = AfterAdvance(t, {})
      /\ UNCHANGED <<logged, status, sealedBy, deadline, marked, due, floor, conn, orch, muted,
                     flushing, stray, orphans, lost, severed, cardShown, part3, drops>>
  BY DEF Enqueue, keys, clock, connection, flushes, outside
<1>2. /\ task[t].event = "FINALIZE_COMPLETE" /\ "FINALIZE_COMPLETE" \in Fires[t] /\ Past(t)
      /\ status = "COMPLETED" /\ graded # 1
  <2>1. TaskShape(t)
    BY DEF IInv, Types
  <2>2. Past(t)
    BY <1>1 DEF Past
  <2> QED  BY <1>1, <2>1, <2>2 DEF TaskShape, Busy, IInv, Grading
<1>3. t # "start"
  BY <1>2 DEF Fires, Task
<1>4. conn = "up"
  BY <1>1, <1>3, Awake DEF IInv, Idle
<1>5. graded = 0 /\ graded' \in {0, 1}
  BY <1>1, <1>2 DEF IInv, Grading
<1>6. StateTypes'
  BY <1>1, <1>5 DEF IInv, Types, StateTypes
<1>7. Sealed'
  BY <1>1, SealedFrame DEF IInv
<1>8. /\ \A u \in Task : Past(u)' => /\ Past(u) /\ task'[u].event = task[u].event
                                     /\ task[u].pc = "marked" => task'[u].pc = "marked"
      /\ NoNewEntry
      /\ \A u \in Task : task'[u].pc = "enqueue" => task[u].pc = "enqueue"
      /\ ~Past(t)'
  BY <1>1, CallEnds
<1>9. Grading'
  <2>1. \A u \in Task : Past(u)' => task'[u].event # "FINALIZE_COMPLETE"
    BY <1>2, <1>8 DEF IInv, Once
  <2> QED  BY <1>1, <1>2, <1>5, <1>8, <2>1 DEF IInv, Grading
<1>10. Linked'
  BY <1>1, <1>8, LinkedFrame DEF IInv
<1>11. \A n \in TimerName : Set(n)' => Set(n)
  BY <1>1 DEF Set
<1> QED  BY <1>1, <1>3, <1>4, <1>6, <1>7, <1>9, <1>10, <1>11, CallEndKeeps

(* FINALIZING is entered: it seals, or leaves that to its watchdog. *)
LEMMA EnterFinalizingKeeps ==
    ASSUME IInv, NEW t \in Task, EnterFinalizing(t)
    PROVE  IInv'
<1> DEFINE sealing == Calling("FINALIZE_COMPLETE")
           waiting == At("wait")
<1>1. /\ Entering(t, "FINALIZING")
      /\ \/ /\ Pending = 0 /\ sealedBy' = "drained"
            /\ task' = [task EXCEPT ![t] = sealing]
         \/ /\ task' = [AfterAdvance(t, {}) EXCEPT !["finalizing"] = waiting]
            /\ sealedBy' = sealedBy
      /\ UNCHANGED <<logged, status, graded, deadline, marked, due, floor, conn, orch, muted,
                     flushing, stray, orphans, lost, severed, cardShown, part3, drops>>
  BY DEF EnterFinalizing, keys, clock, connection, flushes, outside
<1>2. /\ "FINALIZING" \in ExamPhase \ {"ID_VERIFICATION", "INTRO"}
      /\ "CLOSE_DELIVERED" \in ExamEvent /\ "FINALIZE_COMPLETE" \in ExamEvent
  BY DEF ExamPhase, ExamEvent
<1>3. /\ task[t].pc = "enter" /\ task[t].event \in Fires[t] /\ task[t].event \in ExamEvent
      /\ Target[task[t].event] = "FINALIZING"
      /\ Rung("FINALIZING") <= Rung(orch.phase) /\ Rung("FINALIZING") <= Rung(logged)
      /\ \A u \in Task : Past(u) /\ Target[task[u].event] = "FINALIZING" => u = t
      /\ conn = "up"
  BY <1>1, <1>2, Enters, NotStart
<1>4. task[t].event = "CLOSE_DELIVERED" /\ Target["CLOSE_DELIVERED"] = "FINALIZING"
  BY <1>2, <1>3, Targets, ByTarget
<1>5. t = "gemini" /\ t \notin TimerName /\ "finalizing" \in Task /\ "finalizing" \notin TimerName
  BY <1>3, <1>4 DEF Fires, Task, TimerName
<1>6. task["finalizing"].pc = "idle"
  BY <1>3, <1>4 DEF IInv, Waiting, Past
<1>7. /\ sealing \in TaskRecord /\ sealing.pc = "load" /\ sealing.event = "FINALIZE_COMPLETE"
      /\ waiting \in TaskRecord /\ waiting.pc = "wait" /\ waiting.event = "none"
      /\ "FINALIZE_COMPLETE" \in Fires[t] /\ Source["FINALIZE_COMPLETE"] = "FINALIZING"
  BY <1>2, <1>5, Records DEF Calling, At, Fires, Task, Source
<1> HIDE DEF sealing, waiting
<1>8. /\ task' \in [Task -> TaskRecord]
      /\ task'[t] = sealing \/ task'[t] = Idle
      /\ task'["finalizing"] = task["finalizing"] \/ task'["finalizing"] = waiting
      /\ \A u \in Task \ {t, "finalizing"} : task'[u] = task[u]
  <2>1. CASE task' = [task EXCEPT ![t] = sealing]
    BY <1>5, <1>7, <2>1, OneTask DEF IInv
  <2>2. CASE task' = [AfterAdvance(t, {}) EXCEPT !["finalizing"] = waiting]
    <3> DEFINE after == AfterAdvance(t, {})
    <3>1. /\ after \in [Task -> TaskRecord]
          /\ \A u \in Task : after[u] = IF u = t THEN Idle ELSE task[u]
      BY Records DEF IInv, Types, AfterAdvance
    <3> HIDE DEF after
    <3>2. task' = [after EXCEPT !["finalizing"] = waiting]
      BY <2>2 DEF after
    <3> QED  BY <1>5, <1>7, <3>1, <3>2
  <2> QED  BY <1>1, <2>1, <2>2
<1>9. Quiet
  <2>1. task'[t] = Idle => TakesUp(t)
    BY <1>3 DEF TakesUp
  <2>2. task'[t] = sealing => TakesUp(t)
    BY <1>3, <1>7 DEF TakesUp
  <2>3. task'["finalizing"] = waiting => TakesUp("finalizing")
    BY <1>3, <1>6, <1>7 DEF TakesUp
  <2> QED  BY <1>1, <1>8, <2>1, <2>2, <2>3 DEF Quiet
<1>10. /\ \A u \in Task : Past(u)' => /\ Past(u) /\ task'[u].event = task[u].event
                                      /\ task[u].pc = "marked" => task'[u].pc = "marked"
       /\ NoNewEntry
  BY <1>9, QuietKeeps DEF IInv
<1>11. StateTypes'
  <2>1. sealedBy' \in {"none", "drained", "timeout"}
    BY <1>1 DEF IInv, Types, StateTypes
  <2> QED  BY <1>1, <2>1 DEF IInv, Types, StateTypes
<1>12. Connected'
  BY <1>1, <1>3, <1>5, <1>8, PumpsRun DEF IInv, Task
<1>13. Clocks'
  <2>1. \A m \in TimerName : (Set(m)' => Set(m)) /\ (due[m] => due'[m])
    BY <1>1 DEF Set
  <2>2. \A m \in TimerName : task'[m] = task[m]
    BY <1>5, <1>8 DEF Task
  <2>3. due'["part1_max"] => floor'
    BY <1>1 DEF IInv, Clocks
  <2> QED  BY <1>1, <1>10, <2>1, <2>2, <2>3, ClocksFrame DEF IInv
<1>14. Mic'
  BY <1>1, MicFrame DEF IInv
<1>15. Sealed'
  <2>1. CASE Pending = 0
    <3>1. flushing = 0
      BY <2>1, Counts DEF IInv, Pending
    <3> QED  BY <1>1, <1>3, <3>1 DEF Sealed
  <2>2. CASE sealedBy' = sealedBy
    BY <1>1, <2>2, SealedFrame DEF IInv
  <2> QED  BY <1>1, <2>1, <2>2
<1>16. Grading'
  <2>1. \A u \in Task : task'[u].pc = "enqueue" => task[u].pc = "enqueue"
    BY <1>7, <1>8 DEF Idle
  <2> QED  BY <1>1, <1>10, <2>1, GradingFrame DEF IInv
<1>17. Floored' /\ Carded' /\ Counting'
  <2>1. ClientSteady
    BY <1>5, <1>8 DEF ClientSteady, Task
  <2> QED  BY <1>1, <1>9, <2>1, ClientFrame DEF IInv
<1>18. Waiting'
  <2>1. ~Past(t)'
    BY <1>7, <1>8 DEF Past, Idle
  <2>2. \A u \in Task : Past(u)' => task'[u].event # "CLOSE_DELIVERED"
    BY <1>3, <1>4, <1>10, <2>1
  <2> QED  BY <2>2 DEF Waiting
<1>19. Linked'
  BY <1>1, <1>10, LinkedFrame DEF IInv
<1> QED  BY <1>8, <1>9, <1>11, <1>12, <1>13, <1>14, <1>15, <1>16, <1>17, <1>18, <1>19, QuietStep

(* COMPLETE is entered: the row says so before anything is enqueued. *)
LEMMA EnterCompleteKeeps ==
    ASSUME IInv, NEW t \in Task, EnterComplete(t)
    PROVE  IInv'
<1>1. /\ Entering(t, "COMPLETE") /\ status' = "COMPLETED"
      /\ task' = [task EXCEPT ![t].pc = "enqueue"]
      /\ UNCHANGED <<logged, sealedBy, graded, deadline, marked, due, floor, conn, orch, muted,
                     flushing, stray, orphans, lost, severed, cardShown, part3, drops>>
  BY DEF EnterComplete, keys, clock, connection, flushes, outside
<1>2. /\ "COMPLETE" \in ExamPhase \ {"ID_VERIFICATION", "INTRO"}
      /\ "FINALIZE_COMPLETE" \in ExamEvent
  BY DEF ExamPhase, ExamEvent
<1>3. /\ task[t].pc = "enter" /\ task[t].event \in Fires[t] /\ task[t].event \in ExamEvent
      /\ Target[task[t].event] = "COMPLETE" /\ Rung("COMPLETE") <= Rung(logged)
      /\ t # "start" /\ conn = "up"
  BY <1>1, <1>2, Enters, NotStart
<1>4. task[t].event = "FINALIZE_COMPLETE"
  BY <1>2, <1>3, Targets, ByTarget
<1>5. t \in {"gemini", "finalizing"} /\ t \notin TimerName
  BY <1>3, <1>4 DEF Fires, Task, TimerName
<1>6. logged = "COMPLETE"
  <2>1. logged \in ExamPhase
    BY DEF IInv, Types, StateTypes
  <2>2. Rung(logged) = Rung("COMPLETE")
    BY <1>3, <2>1, Rungs
  <2> QED  BY <1>2, <2>1, <2>2, RungUnique
<1>7. /\ task' \in [Task -> TaskRecord]
      /\ task'[t].pc = "enqueue" /\ task'[t].event = task[t].event
      /\ \A u \in Task \ {t} : task'[u] = task[u]
  BY <1>1, NextPc DEF IInv
<1>8. Quiet
  <2>1. TakesUp(t)
    BY <1>3, <1>4, <1>7 DEF TakesUp
  <2> QED  BY <1>1, <1>7, <2>1 DEF Quiet
<1>9. /\ \A u \in Task : Past(u)' => /\ Past(u) /\ task'[u].event = task[u].event
                                     /\ task[u].pc = "marked" => task'[u].pc = "marked"
      /\ NoNewEntry
  BY <1>8, QuietKeeps DEF IInv
<1>10. StateTypes'
  BY <1>1 DEF IInv, Types, StateTypes
<1>11. Connected'
  BY <1>1, <1>3, <1>7, PumpsRun DEF IInv, Task
<1>12. Clocks'
  <2>1. \A m \in TimerName : (Set(m)' => Set(m)) /\ (due[m] => due'[m])
    BY <1>1 DEF Set
  <2>2. \A m \in TimerName : task'[m] = task[m]
    BY <1>5, <1>7 DEF Task
  <2>3. due'["part1_max"] => floor'
    BY <1>1 DEF IInv, Clocks
  <2> QED  BY <1>1, <1>9, <2>1, <2>2, <2>3, ClocksFrame DEF IInv
<1>13. Mic'
  BY <1>1, MicFrame DEF IInv
<1>14. Sealed'
  BY <1>1, SealedFrame DEF IInv
<1>15. Grading'
  <2>1. graded # 1
    BY <1>3, <1>4 DEF IInv, Grading, Past
  <2> QED  BY <1>1, <1>6, <2>1 DEF IInv, Grading
<1>16. Floored' /\ Carded' /\ Counting'
  <2>1. ClientSteady
    BY <1>5, <1>7 DEF ClientSteady, Task
  <2> QED  BY <1>1, <1>8, <2>1, ClientFrame DEF IInv
<1>17. Waiting'
  <2>1. task'["finalizing"].pc # "idle" => task["finalizing"].pc # "idle"
    BY <1>3, <1>7 DEF Task
  <2> QED  BY <1>9, <2>1 DEF IInv, Waiting
<1>18. Linked'
  BY <1>1, <1>9, LinkedFrame DEF IInv
<1> QED  BY <1>7, <1>8, <1>10, <1>11, <1>12, <1>13, <1>14, <1>15, <1>16, <1>17, <1>18, QuietStep

(* A connection is lost for outside reasons. *)
LEMMA LossKeeps ==
    ASSUME IInv, Drop \/ Crash
    PROVE  IInv'
<1>1. /\ drops < MaxDrops /\ drops' = drops + 1
      /\ \E died \in BOOLEAN : Teardown(died)
      /\ UNCHANGED <<logged, session, keys, clock, cardShown, part3>>
  BY DEF Drop, Crash
<1>2. drops' \in 0..MaxDrops
  BY <1>1, SettingsAssumption DEF IInv, Types, StateTypes
<1>3. deadline' = deadline /\ marked' = marked /\ due' = due
  BY <1>1 DEF keys, clock
<1>4. deadline' \in [TimerName -> BOOLEAN] /\ marked' \in BOOLEAN /\ (marked' => marked)
  BY <1>3 DEF IInv, Types, StateTypes
<1>5. \A n \in TimerName : Set(n)' => Rung(First[n]) <= Rung(logged)
  BY <1>3 DEF IInv, Clocks, Set
<1> QED  BY <1>1, <1>2, <1>4, <1>5, TeardownKeeps

----------------------------------------------------------------------------
(* The invariant of the specification *)

(* The invariant holds in the beginning. *)
LEMMA InitIInv == Init => IInv
<1> SUFFICES ASSUME Init
             PROVE  IInv
  OBVIOUS
<1>1. /\ logged = "INIT_DEVICE_CHECK" /\ status = "CREATED" /\ sealedBy = "none" /\ graded = 0
      /\ deadline = [n \in TimerName |-> FALSE] /\ marked = FALSE
      /\ due = [n \in TimerName |-> FALSE] /\ floor = FALSE
      /\ conn = "down" /\ muted = FALSE /\ task = [t \in Task |-> Idle]
      /\ orch = NewOrchestrator("INIT_DEVICE_CHECK")
      /\ flushing = 0 /\ stray = 0 /\ orphans = FALSE /\ lost = FALSE
      /\ severed = {} /\ cardShown = FALSE /\ part3 = "unopened" /\ drops = 0
  BY DEF Init, INITIAL_PHASE
<1>2. orch \in OrchestratorRecord
  <2>1. 0 \in 0..MostTurns
    BY MostTurnsBounds
  <2>2. "INIT_DEVICE_CHECK" \in ExamPhase /\ "INIT_DEVICE_CHECK" \notin PART1_PHASES
    BY DEF ExamPhase, PART1_PHASES
  <2> QED  BY <1>1, <2>1, <2>2 DEF NewOrchestrator, OrchestratorRecord
<1>3. \A t \in Task : task[t] = Idle
  BY <1>1
<1>4. Types
  <2>1. \A t \in Task : TaskShape(t)
    BY <1>3 DEF TaskShape, Busy, Idle
  <2>2. task \in [Task -> TaskRecord]
    BY <1>1, Records
  <2>3. 0 \in 0..MaxFlushing /\ 0 \in 0..MaxDrops /\ 0 \in Nat
    BY SettingsAssumption
  <2>4. "INIT_DEVICE_CHECK" \in ExamPhase
    BY DEF ExamPhase
  <2>5. StateTypes
    BY <1>1, <1>2, <2>3, <2>4 DEF StateTypes
  <2> QED  BY <2>1, <2>2, <2>5 DEF Types
<1>5. Connected /\ Cached /\ Mic
  BY <1>1, <1>3 DEF Connected, Cached, Mic
<1>6. (\A t \in Task : Behind(t)) /\ Once
  BY <1>3 DEF Behind, Once, Past, Idle
<1>7. Clocks
  BY <1>1, <1>3 DEF Clocks, Begun, Set, Idle, TimerName, Task
<1>8. Counting
  <2>1. Unstarted = 0
    BY <1>3 DEF Unstarted, Idle, Task
  <2> QED  BY <1>1, <2>1 DEF Counting
<1>9. Sealed /\ Grading
  BY <1>1, <1>3 DEF Sealed, Grading, Past, Idle
<1>10. Floored /\ Carded /\ Waiting
  BY <1>1, <1>3 DEF Floored, Carded, Acking, Waiting, Idle, Task
<1>11. Linked
  <2>1. "INIT_DEVICE_CHECK" \notin Held.card /\ "INIT_DEVICE_CHECK" \notin Held.topics
    BY DEF Held
  <2> QED  BY <1>1, <2>1 DEF Linked, CardLinked, TopicsLinked
<1> QED  BY <1>4, <1>5, <1>6, <1>7, <1>8, <1>9, <1>10, <1>11 DEF IInv

(* A state that stays stays good. *)
LEMMA StutterKeeps ==
    ASSUME IInv, UNCHANGED vars
    PROVE  IInv'
<1>1. UNCHANGED <<logged, session, keys, clock, connection, task, flushes, outside>>
  BY DEF vars
<1>2. UNCHANGED <<flushing, stray, orphans, lost, severed, conn, orch, muted, sealedBy>>
  BY <1>1 DEF flushes, connection, session
<1>3. Connected' /\ Sealed'
  BY <1>1, <1>2 DEF IInv, Connected, Sealed
<1>4. Counting'
  BY <1>1, <1>2 DEF IInv, Counting, Unstarted
<1>5. flushing' \in 0..MaxFlushing /\ stray' \in 0..MaxFlushing /\ orphans' \in BOOLEAN
  BY <1>2 DEF IInv, Types, StateTypes
<1> QED  BY <1>1, <1>2, <1>3, <1>4, <1>5, FlushesKeep

(* Every step of _advance keeps the invariant. *)
LEMMA AdvanceKeeps ==
    ASSUME IInv, NEW t \in Task, _advance(t)
    PROVE  IInv'
<1>1. CASE Load(t)
  BY <1>1, LoadKeeps
<1>2. CASE Commit(t)
  BY <1>2, CommitKeeps
<1>3. CASE Conflict(t)
  BY <1>3, RaiseKeeps DEF Conflict
<1>4. CASE Return(t)
  BY <1>4, ReturnKeeps
<1>5. CASE Enter(t)
  BY <1>5, MarkKeeps, TopicKeeps, CueCardKeeps, TimerKeeps, SpokenKeeps, EnterFinalizingKeeps,
     EnterCompleteKeeps, EnqueueKeeps DEF Enter
<1> QED  BY <1>1, <1>2, <1>3, <1>4, <1>5 DEF _advance

(* Every step keeps the invariant. *)
LEMMA NextIInv == IInv /\ [Next]_vars => IInv'
<1> SUFFICES ASSUME IInv, [Next]_vars
             PROVE  IInv'
  OBVIOUS
<1>1. CASE start
  BY <1>1, FreshKeeps, ResumeKeeps, IdVerificationKeeps, IntroKeeps DEF start
<1>2. CASE Drop \/ Crash
  BY <1>2, LossKeeps
<1>3. CASE ActivityEndLongTurn \/ ActivityEndBudget \/ ActivityEndOther
  BY <1>3, LongTurnKeeps, BudgetTurnKeeps, OtherTurnKeeps
<1>4. CASE on_cue_card_ack \/ on_gemini_turn_complete \/ on_turn_flush_complete
  BY <1>4, AckKeeps, GeminiKeeps, FlushEndKeeps
<1>5. ASSUME NEW t \in Task, _advance(t)
      PROVE  IInv'
  BY <1>5, AdvanceKeeps
<1>6. ASSUME NEW n \in TimerName, Watchdog(n)
      PROVE  IInv'
  BY <1>6, PollKeeps, CutKeeps, ClearKeeps DEF Watchdog
<1>7. CASE _run_finalizing_watchdog
  BY <1>7, FinalizingKeeps
<1>8. CASE Time
  BY <1>8, TimeKeeps
<1>9. ASSUME NEW n \in TimerName, ExpireKey(n)
      PROVE  IInv'
  BY <1>9, ExpireKeeps
<1>10. CASE UNCHANGED vars
  BY <1>10, StutterKeeps
<1> QED  BY <1>1, <1>2, <1>3, <1>4, <1>5, <1>6, <1>7, <1>8, <1>9, <1>10 DEF Next

(* A phase is left by the commit of the event that ends it, and by nothing *)
(* else.                                                                   *)
LEMMA LogMoves ==
    ASSUME IInv, [Next]_vars, logged' # logged
    PROVE  \E t \in Task : /\ task[t].pc = "commit" /\ task[t].event \in Fires[t]
                           /\ Source[task[t].event] = logged
<1>1. ASSUME NEW t \in Task, _advance(t)
      PROVE  Commit(t)
  <2>1. CASE Enter(t)
    BY <2>1 DEF Enter, MarkPart1, EnterTopic, EnterCueCard, EnterPart2Timed, EnterPart3, EnterSpoken,
                EnterFinalizing, EnterComplete, Enqueue
  <2>2. CASE Load(t) \/ Conflict(t) \/ Return(t)
    BY <2>2 DEF Load, Conflict, Return
  <2> QED  BY <1>1, <2>1, <2>2 DEF _advance
<1>2. \E t \in Task : _advance(t)
  <2>1. ~start
    BY DEF start, StartFresh, Resume, EnterIdVerification, EnterIntro
  <2>2. ~Drop /\ ~Crash
    BY DEF Drop, Crash
  <2>3. ~ActivityEndLongTurn /\ ~ActivityEndBudget /\ ~ActivityEndOther
    BY DEF ActivityEndLongTurn, ActivityEndBudget, ActivityEndOther
  <2>4. ~on_cue_card_ack /\ ~on_gemini_turn_complete /\ ~on_turn_flush_complete
    BY DEF on_cue_card_ack, on_gemini_turn_complete, on_turn_flush_complete
  <2>5. ~(\E n \in TimerName : Watchdog(n)) /\ ~_run_finalizing_watchdog
    BY DEF Watchdog, Poll, PollLongTurn, CutLongTurn, ClearDeadline, _run_finalizing_watchdog
  <2>6. ~Time /\ ~(\E n \in TimerName : ExpireKey(n))
    BY DEF Time, Pass, PassFloor, ExpireKey
  <2>7. ~UNCHANGED vars
    BY DEF vars
  <2> QED  BY <2>1, <2>2, <2>3, <2>4, <2>5, <2>6, <2>7 DEF Next
<1>3. PICK t \in Task : Commit(t)
  BY <1>1, <1>2
<1>4. task[t].pc = "commit" /\ IsLegal(task[t].event)
  BY <1>3 DEF Commit
<1>5. task[t].event \in Fires[t] /\ task[t].event \in ExamEvent
  BY <1>4, FiresEvents DEF IInv, Types, TaskShape, Busy
<1>6. Source[task[t].event] = logged
  BY <1>4, <1>5, Legal DEF IInv
<1> QED  BY <1>4, <1>5, <1>6

----------------------------------------------------------------------------
(* The theorems *)

(* The invariant holds throughout. *)
THEOREM SpecIInv == Spec => []IInv
BY InitIInv, NextIInv, PTL DEF Spec

(* The types are right: no handler, race, drop or resume leaves a field of *)
(* the orchestrator, a key, a count or a task outside of its domain.       *)
THEOREM OrchestratorTypeOK == Spec => []TypeOK
<1>1. IInv => TypeOK
  <2> SUFFICES ASSUME IInv
               PROVE  TypeOK
    OBVIOUS
  <2>1. /\ {marked, floor, muted, orphans, lost, cardShown} \subseteq BOOLEAN
        /\ {flushing, stray} \subseteq 0..MaxFlushing
    BY DEF IInv, Types, StateTypes
  <2>2. Unstarted <= flushing
    BY DEF IInv, Counting
  <2> QED  BY <2>1, <2>2 DEF IInv, Types, StateTypes, TypeOK, TaskRecord, OrchestratorRecord
<1> QED  BY <1>1, SpecIInv, PTL

(* The in-memory phase cache and the event log never disagree, whichever   *)
(* tasks race for a transition and wherever the connection was dropped,    *)
(* except while the call that committed is on its way back.                *)
THEOREM CacheFollowsLog == Spec => []CacheAgrees
<1>1. IInv => CacheAgrees
  BY DEF IInv, Cached, CacheAgrees
<1> QED  BY <1>1, SpecIInv, PTL

(* No candidate audio reaches Gemini during prep, and before the long turn *)
(* has run out its time nothing but prep silences the candidate.           *)
THEOREM MicIsRight == Spec => []MicFollowsPhase
<1>1. IInv => MicFollowsPhase
  BY DEF IInv, Mic, MicFollowsPhase
<1> QED  BY <1>1, SpecIInv, PTL

(* A session sealed because its media had drained is sealed after every    *)
(* flush of a turn that its connection released before FINALIZING.         *)
THEOREM SealWaits == Spec => []SealedAfterFlush
<1>1. IInv => SealedAfterFlush
  BY DEF IInv, Sealed, SealedAfterFlush
<1> QED  BY <1>1, SpecIInv, PTL

(* Grading is enqueued at most once, and only for a session whose row says *)
(* COMPLETED and whose log says COMPLETE.                                  *)
THEOREM GradedAtMostOnce == Spec => []GradedOnce
<1>1. IInv => GradedOnce
  BY DEF IInv, Grading, GradedOnce
<1> QED  BY <1>1, SpecIInv, PTL

(* What was chosen for the candidate is there when it is used, unless a    *)
(* connection was lost, to the outside or to a race, between the choice of *)
(* that very content and its use.                                          *)
THEOREM ContentIsKept == Spec => []ContentKept
<1>1. IInv => ContentKept
  <2> SUFFICES ASSUME IInv
               PROVE  ContentKept
    OBVIOUS
  <2>1. part3 = "unthemed" => "card" \in severed
    BY DEF IInv, Linked, CardLinked
  <2>2. ASSUME NEW t \in Task, EnteringTopic(t)
        PROVE  TopicSetsKnown
    <3>1. Past(t) /\ task[t].pc # "return" /\ Target[task[t].event] \in PART1_PHASES
      BY <2>2 DEF EnteringTopic, Past
    <3>2. /\ task[t].event \in Fires[t] /\ task[t].event \in ExamEvent
          /\ Rung(Target[task[t].event]) <= Rung(orch.phase)
          /\ IF t = "start" THEN conn = "starting" ELSE conn = "up"
      BY <3>1, Follows
    <3>3. t # "start"
      BY <3>1, <3>2, Targets DEF Fires, Task, PART1_PHASES
    <3>4. Rung("INTRO") <= Rung(orch.phase)
      BY <3>1, <3>2, Rungs DEF PART1_PHASES, IInv, Types, StateTypes, OrchestratorRecord
    <3> QED  BY <2>2, <3>2, <3>3, <3>4 DEF IInv, Linked, TopicsLinked
  <2> QED  BY <2>1, <2>2 DEF ContentKept, TopicSetsKnown
<1> QED  BY <1>1, SpecIInv, PTL

(* A clock is started once in an exam, whatever drops, resumes and races   *)
(* come: whoever is about to set a deadline, or to mark the beginning of   *)
(* Part 1, finds that it was never set.                                    *)
THEOREM ClocksStartOnce == Spec => []ClockStartsOnce
<1>1. IInv => ClockStartsOnce
  <2> SUFFICES ASSUME IInv, NEW t \in Task
               PROVE  /\ \A n \in TimerName : Setting(t, n) => ~deadline[n] /\ ~due[n]
                      /\ Entering(t, "PART1_TOPIC_A") => ~marked
    BY DEF ClockStartsOnce
  <2>1. Entering(t, "PART1_TOPIC_A") => ~marked
    <3>1. "PART1_TOPIC_A" \in ExamPhase
      BY DEF ExamPhase
    <3> QED  BY <3>1, Enters
  <2>2. ASSUME NEW n \in TimerName, Setting(t, n)
        PROVE  Past(t) /\ task[t].pc # "return" /\ Target[task[t].event] = First[n]
    <3>1. CASE n = "part1_max"
      <4>1. task[t].pc = "marked" /\ task[t].event = "INTRO_COMPLETE"
        BY <2>2, <3>1 DEF Setting, IInv, Types, TaskShape
      <4> QED  BY <3>1, <4>1, Targets, Firsts DEF Past
    <3>2. CASE n # "part1_max"
      BY <2>2, <3>2 DEF Setting, Entering, Past
    <3> QED  BY <3>1, <3>2
  <2>3. \A n \in TimerName : Setting(t, n) => ~Set(n)
    BY <2>2, Follows
  <2> QED  BY <2>1, <2>3 DEF Set
<1> QED  BY <1>1, SpecIInv, PTL

(* Prep lasts its minute: no race, drop or resume ends it before its       *)
(* deadline has passed.                                                    *)
THEOREM PrepLasts == Spec => PrepNeverCutShort
<1>1. ASSUME IInv, [Next]_vars, logged = "PART2_PREP", logged' # logged
      PROVE  due["part2_prep"]
  <2>1. PICK t \in Task : /\ task[t].pc = "commit" /\ task[t].event \in Fires[t]
                          /\ Source[task[t].event] = "PART2_PREP"
    BY <1>1, LogMoves
  <2>2. task[t].event \in ExamEvent
    BY <2>1, FiresEvents
  <2>3. task[t].event = "PREP_TIMER_EXPIRED"
    BY <2>1, <2>2 DEF Source, ExamEvent
  <2>4. t = "part2_prep"
    BY <2>1, <2>3 DEF Fires, Task, TimerName
  <2> QED  BY <1>1, <2>1, <2>4 DEF IInv, Clocks, TimerName
<1>2. IInv /\ [Next]_vars =>
        [logged = "PART2_PREP" /\ logged' # logged => due["part2_prep"]]_vars
  BY <1>1
<1> QED  BY <1>2, SpecIInv, PTL DEF Spec, PrepNeverCutShort

(* Part 1 lasts its four minutes, whatever the order of turns and of the   *)
(* ceiling's cascade, unless the moment it began was never recorded.       *)
THEOREM Part1Lasts == Spec => Part1Floor
<1>1. ASSUME IInv, [Next]_vars, logged = "PART1_TOPIC_C", logged' # logged, marked
      PROVE  floor
  <2>1. PICK t \in Task : /\ task[t].pc = "commit" /\ task[t].event \in Fires[t]
                          /\ Source[task[t].event] = "PART1_TOPIC_C"
    BY <1>1, LogMoves
  <2>2. task[t].event \in ExamEvent
    BY <2>1, FiresEvents
  <2>3. task[t].event = "TOPIC_C_COMPLETE"
    BY <2>1, <2>2 DEF Source, ExamEvent
  <2>4. t \in {"client", "part1_max"}
    BY <2>1, <2>3 DEF Fires, Task, TimerName
  <2>5. CASE t = "client"
    BY <1>1, <2>1, <2>3, <2>5 DEF IInv, Floored
  <2>6. CASE t = "part1_max"
    BY <1>1, <2>1, <2>6 DEF IInv, Clocks, TimerName
  <2> QED  BY <2>4, <2>5, <2>6
<1>2. IInv /\ [Next]_vars =>
        [logged = "PART1_TOPIC_C" /\ logged' # logged /\ marked => floor]_vars
  BY <1>1
<1> QED  BY <1>2, SpecIInv, PTL DEF Spec, Part1Floor
=============================================================================
