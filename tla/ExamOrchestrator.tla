-------------------------- MODULE ExamOrchestrator --------------------------
(***************************************************************************)
(* One candidate's exam as the api-gateway runs it: the ExamOrchestrator   *)
(* of the session's websocket connection (services/exam_orchestrator.py),  *)
(* the client and Gemini pumps that drive it (routers/ws_exam.py), the     *)
(* deadline watchdogs (services/timers.py) with their Redis keys, and what *)
(* a dropped connection or a crashed process leaves behind for the next.   *)
(*                                                                         *)
(* All tasks share one event loop, so a step is what a task does between   *)
(* two awaits.  The event log is represented by the phase it folds to, and *)
(* a transition by its two steps, load and commit: FsmEngine shows that a  *)
(* commit succeeds exactly when the phase it read is still the logged one. *)
(* Clocks are represented by the passing of the deadlines that are set.    *)
(***************************************************************************)
EXTENDS ExamFsm, FiniteSets

CONSTANTS
    intro_turns, part1_topic_turns, part2_roundoff_turns,
    part3_discussion_turns, \* settings: candidate turns per phase
    MaxDrops,               \* bound: connections lost for outside reasons
    MaxFlushing             \* bound: audio flushes in flight at a time

ASSUME SettingsAssumption ==
    /\ {intro_turns, part1_topic_turns, part2_roundoff_turns,
        part3_discussion_turns} \subseteq Nat \ {0}
    /\ MaxDrops \in Nat /\ MaxFlushing \in Nat \ {0}

VARIABLES
    (* PostgreSQL *)
    logged,     \* fold of exam_session_events
    status,     \* exam_sessions.status
    sealedBy,   \* the reason given for FINALIZE_COMPLETE, once decided
    (* Redis *)
    deadline,   \* which named deadlines have a key
    marked,     \* the key part1_start
    (* the clock *)
    due,        \* which deadlines, once set, have passed
    floor,      \* part1_min_seconds have passed since Part 1 was entered
    (* the connection and its orchestrator *)
    conn,       \* "down", "starting" (in start()) or "up" (pumps running)
    orch,       \* the orchestrator's own fields
    muted,      \* the bridge drops candidate audio
    task,       \* what each task of the connection is about to do
    (* audio flushes, which outlive their connection *)
    flushing,   \* of this connection, turns released before FINALIZING
    stray,      \* of this connection, turns released in FINALIZING or later
    orphans,    \* some flush of an earlier connection is in flight
    lost,       \* some released turn's flush was never started, or was killed
    (* history: what the connections that were lost took with them *)
    severed,    \* which content was still to be used when one was lost
    (* the outside *)
    cardShown,  \* the client has been sent a cue card
    part3,      \* how Part 3 was opened: not yet, with themes or without
    graded,     \* times grading was enqueued
    drops       \* connections lost for outside reasons

clock == <<due, floor>>
keys == <<deadline, marked>>
session == <<status, sealedBy, graded>>
connection == <<conn, orch, muted>>
flushes == <<flushing, stray, orphans, lost, severed>>
outside == <<cardShown, part3, drops>>

vars == <<logged, session, keys, clock, connection, task, flushes, outside>>

----------------------------------------------------------------------------
(* Phases, timers, budgets *)

PART1_PHASES == {"PART1_TOPIC_A", "PART1_TOPIC_B", "PART1_TOPIC_C"}

(* The deadlines, and the phases in which the watchdog of each waits. *)
TimerName == {"part1_max", "part2_prep", "part2_long_turn", "part3_discussion"}

Timed ==
    [part1_max |-> PART1_PHASES,
     part2_prep |-> {"PART2_PREP"},
     part2_long_turn |-> {"PART2_LONG_TURN"},
     part3_discussion |-> {"PART3_DISCUSSION"}]

_candidate_turn_budget_for_phase ==
    [INTRO |-> [event |-> "INTRO_COMPLETE", turns |-> intro_turns],
     PART1_TOPIC_A |-> [event |-> "TOPIC_A_COMPLETE", turns |-> part1_topic_turns],
     PART1_TOPIC_B |-> [event |-> "TOPIC_B_COMPLETE", turns |-> part1_topic_turns],
     PART1_TOPIC_C |-> [event |-> "TOPIC_C_COMPLETE", turns |-> part1_topic_turns],
     PART2_ROUNDOFF |-> [event |-> "ROUNDOFF_COMPLETE", turns |-> part2_roundoff_turns],
     PART3_DISCUSSION |->
        [event |-> "DISCUSSION_COMPLETE", turns |-> part3_discussion_turns]]

_PART1_COMPLETION_EVENT ==
    [PART1_TOPIC_A |-> "TOPIC_A_COMPLETE", PART1_TOPIC_B |-> "TOPIC_B_COMPLETE",
     PART1_TOPIC_C |-> "TOPIC_C_COMPLETE"]

(* The event each watchdog fires once its deadline has passed. *)
WatchdogEvent(name) ==
    CASE name = "part1_max" -> _PART1_COMPLETION_EVENT[orch.phase]
      [] name = "part2_prep" -> "PREP_TIMER_EXPIRED"
      [] name = "part2_long_turn" -> "LONG_TURN_ENDED"
      [] name = "part3_discussion" -> "DISCUSSION_COMPLETE"

(* The phase an event leads to: what transition() returns. *)
Target ==
    [event \in ExamEvent |->
        CHOOSE q \in ExamPhase : \E p \in ExamPhase : <<p, event, q>> \in TRANSITIONS]

(* What only the orchestrator that chose it knows, and the phases from     *)
(* that choice to its last use.                                            *)
Held ==
    [topics |-> {"INTRO", "PART1_TOPIC_A", "PART1_TOPIC_B"},
     card |-> {"PART2_CUECARD_PRESENT", "PART2_PREP", "PART2_LONG_TURN",
               "PART2_ROUNDOFF"}]

(* The event could be appended to the log as it is; its mutated form       *)
(* appends whatever it is given.                                           *)
AnyEventIsLegal(event) == event \in ExamEvent

IsLegal(event) == transition(logged, event) \in ExamPhase

----------------------------------------------------------------------------
(* Tasks *)

(* start() itself, the two pumps, and the watchdogs, each named for its    *)
(* deadline.                                                               *)
Task == {"start", "client", "gemini", "finalizing"} \cup TimerName

Idle == [pc |-> "idle", event |-> "none"]

(* About to call _advance(event). *)
Calling(event) == [pc |-> "load", event |-> event]

(* Inside a watchdog, before its _advance. *)
At(pc) == [pc |-> pc, event |-> "none"]

(* A turn whose activity_end is still being handled: its id is pending,    *)
(* its flush task does not exist yet.                                      *)
Unstarted ==
    IF task["client"].pc # "idle" /\ task["client"].event # "CUE_CARD_ACKED" THEN 1 ELSE 0

(* Mutated form: a turn counts as pending only once its flush task runs.   *)
StartedFlushes == flushing + stray - Unstarted

(* len(_pending_flush_turn_ids) *)
Pending == flushing + stray

(* A new orchestrator; its mutated form trusts its own initial phase.      *)
ForgetfulOrchestrator(phase) ==
    [phase |-> INITIAL_PHASE, turns |-> 0, topicSets |-> FALSE, cueCard |-> FALSE,
     part1Start |-> phase \in PART1_PHASES /\ marked]

NewOrchestrator(phase) ==
    [phase |-> phase, turns |-> 0, topicSets |-> FALSE, cueCard |-> FALSE,
     part1Start |-> phase \in PART1_PHASES /\ marked]

----------------------------------------------------------------------------
(* Losing the connection *)

(* The endpoint's finally block: every task is cancelled, the orchestrator *)
(* is gone.  Flush tasks run on, unless the process died with them.        *)
Teardown(died) ==
    LET started == flushing + stray - Unstarted
    IN  /\ conn' = "down"
        /\ orch' = NewOrchestrator(INITIAL_PHASE)
        /\ muted' = FALSE
        /\ task' = [t \in Task |-> Idle]
        /\ flushing' = 0 /\ stray' = 0
        /\ orphans' = (~died /\ (orphans \/ started > 0))
        /\ lost' = (lost \/ Unstarted > 0 \/ (died /\ (orphans \/ started > 0)))
        /\ severed' = severed \cup {c \in DOMAIN Held : logged \in Held[c]}

(* An exception in _advance: in start() or a pump it ends the connection,  *)
(* in a watchdog it ends the watchdog and nobody hears of it.              *)
Raise(t) ==
    IF t \in {"start", "client", "gemini"}
    THEN Teardown(FALSE)
    ELSE task' = [task EXCEPT ![t] = Idle] /\ UNCHANGED <<connection, flushes>>

(* The browser's or Gemini's side of the connection goes away; start()     *)
(* would not notice before the pumps run.                                  *)
Drop ==
    /\ conn = "up" /\ drops < MaxDrops
    /\ drops' = drops + 1
    /\ Teardown(FALSE)
    /\ UNCHANGED <<logged, session, keys, clock, cardShown, part3>>

(* The gateway's process dies. *)
Crash ==
    /\ conn # "down" /\ drops < MaxDrops
    /\ drops' = drops + 1
    /\ Teardown(TRUE)
    /\ UNCHANGED <<logged, session, keys, clock, cardShown, part3>>

----------------------------------------------------------------------------
(* start() *)

(* A session with no transition yet: _bootstrap_fresh_session. *)
StartFresh ==
    /\ conn = "down" /\ logged = INITIAL_PHASE
    /\ conn' = "starting"
    /\ orch' = NewOrchestrator(logged)
    /\ task' = [task EXCEPT !["start"] = Calling("DEVICE_CHECK_CONFIRMED")]
    /\ UNCHANGED <<logged, session, keys, clock, muted, flushes, outside>>

(* Any other session is picked up in the phase its log says: the watchdog  *)
(* of that phase starts over its unchanged deadline, or gives up when      *)
(* there is no key; and prep is muted.                                     *)
ResumedTasks ==
    [t \in Task |-> IF t \in TimerName /\ logged \in Timed[t] /\ deadline[t]
                    THEN At("poll") ELSE Idle]

(* Mutated form: the phase that is resumed is entered once more, so that   *)
(* its clock is set anew.                                                  *)
ResumeByEntering ==
    /\ conn = "down" /\ logged # INITIAL_PHASE
    /\ conn' = "up"
    /\ orch' = NewOrchestrator(logged)
    /\ muted' = (logged = "PART2_PREP")
    /\ task' = [ResumedTasks EXCEPT !["client"] =
                    [pc |-> "enter",
                     event |-> CHOOSE event \in ExamEvent : Target[event] = logged]]
    /\ UNCHANGED <<logged, session, keys, clock, flushes, outside>>

Resume ==
    /\ conn = "down" /\ logged # INITIAL_PHASE
    /\ conn' = "up"
    /\ orch' = NewOrchestrator(logged)
    /\ muted' = (logged = "PART2_PREP")
    /\ task' = ResumedTasks
    /\ UNCHANGED <<logged, session, keys, clock, flushes, outside>>

----------------------------------------------------------------------------
(* What the pumps hear *)

ClientIdle == conn = "up" /\ task["client"].pc = "idle"

(* on_turn_flush_started: the turn is pending from here on. *)
TurnReleased ==
    /\ Pending < MaxFlushing
    /\ IF orch.phase \in {"FINALIZING", "COMPLETE"}
       THEN stray' = stray + 1 /\ UNCHANGED flushing
       ELSE flushing' = flushing + 1 /\ UNCHANGED stray
    /\ UNCHANGED <<orphans, lost, severed>>

(* The floor of Part 1, at its only exit; its mutated form forgets it. *)
NeverTooEarly(phase) == phase \notin ExamPhase

TooEarly(phase) == phase = "PART1_TOPIC_C" /\ orch.part1Start /\ ~floor

(* activity_end in the long turn: the candidate has finished early. *)
ActivityEndLongTurn ==
    /\ ClientIdle /\ orch.phase = "PART2_LONG_TURN"
    /\ TurnReleased
    /\ task' = [task EXCEPT !["client"] = Calling("LONG_TURN_ENDED")]
    /\ UNCHANGED <<logged, session, keys, clock, connection, outside>>

(* activity_end in a phase with a budget of turns: counted, and the last   *)
(* one ends the phase.  The count is kept up to the budget, beyond which   *)
(* the code does not tell one value from another.                          *)
ActivityEndBudget ==
    LET phase == orch.phase
        budget == _candidate_turn_budget_for_phase[phase]
        reached == orch.turns + 1 >= budget.turns
    IN  /\ ClientIdle /\ phase \in DOMAIN _candidate_turn_budget_for_phase
        /\ TurnReleased
        /\ orch' = [orch EXCEPT !.turns = IF reached THEN budget.turns ELSE @ + 1]
        /\ task' = IF reached /\ ~TooEarly(phase)
                   THEN [task EXCEPT !["client"] = Calling(budget.event)]
                   ELSE task
        /\ UNCHANGED <<logged, session, keys, clock, conn, muted, outside>>

(* activity_end anywhere else only starts the turn's flush. *)
ActivityEndOther ==
    /\ ClientIdle
    /\ orch.phase \notin DOMAIN _candidate_turn_budget_for_phase \cup {"PART2_LONG_TURN"}
    /\ TurnReleased
    /\ UNCHANGED <<logged, session, keys, clock, connection, task, outside>>

(* cue_card_ack, from a client that has been shown a card. *)
on_cue_card_ack ==
    /\ ClientIdle /\ cardShown /\ orch.phase = "PART2_CUECARD_PRESENT"
    /\ task' = [task EXCEPT !["client"] = Calling("CUE_CARD_ACKED")]
    /\ UNCHANGED <<logged, session, keys, clock, connection, flushes, outside>>

(* Gemini's TurnComplete; it moves the exam in CLOSE only. *)
on_gemini_turn_complete ==
    /\ conn = "up" /\ task["gemini"].pc = "idle" /\ orch.phase = "CLOSE"
    /\ task' = [task EXCEPT !["gemini"] = Calling("CLOSE_DELIVERED")]
    /\ UNCHANGED <<logged, session, keys, clock, connection, flushes, outside>>

(* A flush ends, well or not: on_turn_flush_complete either way. *)
on_turn_flush_complete ==
    /\ \/ flushing > Unstarted /\ flushing' = flushing - 1 /\ UNCHANGED <<stray, orphans>>
       \/ stray > 0 /\ stray' = stray - 1 /\ UNCHANGED <<flushing, orphans>>
       \/ orphans /\ orphans' = FALSE /\ UNCHANGED <<flushing, stray>>
    /\ UNCHANGED <<logged, session, keys, clock, connection, task, lost, severed, outside>>

----------------------------------------------------------------------------
(* _advance *)

(* transition() reads the log. *)
Load(t) ==
    /\ task[t].pc = "load"
    /\ IF IsLegal(task[t].event)
       THEN /\ task' = [task EXCEPT ![t].pc = "commit"]
            /\ UNCHANGED <<connection, flushes>>
       ELSE Raise(t)
    /\ UNCHANGED <<logged, session, keys, clock, outside>>

(* The commit of the new event and the snapshot ... *)
Commit(t) ==
    /\ task[t].pc = "commit" /\ IsLegal(task[t].event)
    /\ logged' = transition(logged, task[t].event)
    /\ task' = [task EXCEPT ![t].pc = "return"]
    /\ UNCHANGED <<session, keys, clock, connection, flushes, outside>>

(* ... or the IntegrityError of the caller that came second. *)
Conflict(t) ==
    /\ task[t].pc = "commit" /\ ~IsLegal(task[t].event)
    /\ Raise(t)
    /\ UNCHANGED <<logged, session, keys, clock, outside>>

(* The ceiling watchdog cascades silently to the last topic. *)
Announced(t, event) == t = "part1_max" => event = "TOPIC_C_COMPLETE"

(* _on_enter_phase switches the microphone before its first await; in the  *)
(* mutated form the long turn leaves it as prep did.                       *)
MutedInLongTurn(phase) ==
    CASE phase = "PART2_PREP" -> TRUE
      [] phase = "PART2_ROUNDOFF" -> FALSE
      [] OTHER -> muted

MutedOnEnter(phase) ==
    CASE phase = "PART2_PREP" -> TRUE
      [] phase \in {"PART2_LONG_TURN", "PART2_ROUNDOFF"} -> FALSE
      [] OTHER -> muted

(* The call returns to _advance: the cached phase follows the log, and the *)
(* caller goes on to _on_enter_phase, or to the next silent hop.           *)
Return(t) ==
    LET event == task[t].event
        phase == Target[event]
    IN  /\ task[t].pc = "return"
        /\ orch' = [orch EXCEPT !.phase = phase, !.turns = 0]
        /\ IF Announced(t, event)
           THEN /\ muted' = MutedOnEnter(phase)
                /\ task' = [task EXCEPT ![t].pc = "enter"]
           ELSE /\ task' = [task EXCEPT ![t] = Calling(_PART1_COMPLETION_EVENT[phase])]
                /\ UNCHANGED muted
        /\ UNCHANGED <<logged, session, keys, clock, conn, flushes, outside>>

----------------------------------------------------------------------------
(* _on_enter_phase, beyond its first await *)

(* About to do what _on_enter_phase has for this phase. *)
Entering(t, phase) == task[t].pc = "enter" /\ Target[task[t].event] = phase

(* The tasks once t's _advance has returned and a new watchdog was spawned *)
(* (spawned is {} or the watchdog's name).                                 *)
AfterAdvance(t, spawned) ==
    [u \in Task |-> IF u \in spawned THEN At("poll") ELSE IF u = t THEN Idle ELSE task[u]]

(* Nothing is done on entering ID_VERIFICATION; start() fires the next. *)
EnterIdVerification ==
    /\ Entering("start", "ID_VERIFICATION")
    /\ task' = [task EXCEPT !["start"] = Calling("ID_VERIFIED")]
    /\ UNCHANGED <<logged, session, keys, clock, connection, flushes, outside>>

(* INTRO picks the topic sets; start() returns and the pumps start. *)
EnterIntro ==
    /\ Entering("start", "INTRO")
    /\ orch' = [orch EXCEPT !.topicSets = TRUE]
    /\ conn' = "up"
    /\ task' = AfterAdvance("start", {})
    /\ UNCHANGED <<logged, session, keys, clock, muted, flushes, outside>>

(* Part 1 begins: mark_phase_start ...                                     *)
MarkPart1(t) ==
    /\ Entering(t, "PART1_TOPIC_A")
    /\ marked' = TRUE
    /\ orch' = [orch EXCEPT !.part1Start = TRUE]
    /\ task' = [task EXCEPT ![t].pc = "marked"]
    /\ UNCHANGED <<logged, session, deadline, clock, conn, muted, flushes, outside>>

(* ... then set_deadline, its watchdog, and topic A.  A topic is put to    *)
(* Gemini from topic sets that only the connection of INTRO has (KeyError  *)
(* otherwise).                                                             *)
EnterTopic(t) ==
    LET first == task[t].pc = "marked"
    IN  /\ first \/ Entering(t, "PART1_TOPIC_B") \/ Entering(t, "PART1_TOPIC_C")
        /\ deadline' = [deadline EXCEPT !["part1_max"] = @ \/ first]
        /\ IF orch.topicSets
           THEN /\ task' = AfterAdvance(t, IF first THEN {"part1_max"} ELSE {})
                /\ UNCHANGED <<connection, flushes>>
           ELSE Raise(t)
        /\ UNCHANGED <<logged, session, marked, clock, outside>>

(* A card is chosen, bound to the session and shown; its mutated form      *)
(* forgets to keep it.                                                     *)
ShowCardOnly(t) ==
    /\ Entering(t, "PART2_CUECARD_PRESENT")
    /\ cardShown' = TRUE
    /\ task' = AfterAdvance(t, {})
    /\ UNCHANGED <<logged, session, keys, clock, connection, flushes, part3, drops>>

EnterCueCard(t) ==
    /\ Entering(t, "PART2_CUECARD_PRESENT")
    /\ orch' = [orch EXCEPT !.cueCard = TRUE]
    /\ cardShown' = TRUE
    /\ task' = AfterAdvance(t, {})
    /\ UNCHANGED <<logged, session, keys, clock, conn, muted, flushes, part3, drops>>

(* set_deadline of a phase with a clock of its own, and its watchdog; the  *)
(* mutated form leaves the deadline to nobody.                             *)
SetDeadlineOnly(t, name) ==
    /\ deadline' = [deadline EXCEPT ![name] = TRUE]
    /\ task' = AfterAdvance(t, {})

StartTimer(t, name) ==
    /\ deadline' = [deadline EXCEPT ![name] = TRUE]
    /\ task' = AfterAdvance(t, {name})

EnterPart2Timed(t) ==
    /\ \/ Entering(t, "PART2_PREP") /\ StartTimer(t, "part2_prep")
       \/ Entering(t, "PART2_LONG_TURN") /\ StartTimer(t, "part2_long_turn")
    /\ UNCHANGED <<logged, session, marked, clock, connection, flushes, outside>>

(* Part 3 is opened with the themes of the card this connection chose, or  *)
(* with none.                                                              *)
EnterPart3(t) ==
    /\ Entering(t, "PART3_DISCUSSION")
    /\ part3' = IF orch.cueCard THEN "themed" ELSE "unthemed"
    /\ StartTimer(t, "part3_discussion")
    /\ UNCHANGED <<logged, session, marked, clock, connection, flushes, cardShown, drops>>

(* ROUNDOFF and CLOSE only queue a directive. *)
EnterSpoken(t) ==
    /\ Entering(t, "PART2_ROUNDOFF") \/ Entering(t, "CLOSE")
    /\ task' = AfterAdvance(t, {})
    /\ UNCHANGED <<logged, session, keys, clock, connection, flushes, outside>>

(* FINALIZING seals at once when no flush is pending, and otherwise leaves *)
(* that to its watchdog.                                                   *)
EnterFinalizing(t) ==
    /\ Entering(t, "FINALIZING")
    /\ IF Pending = 0
       THEN /\ sealedBy' = "drained"
            /\ task' = [task EXCEPT ![t] = Calling("FINALIZE_COMPLETE")]
       ELSE /\ task' = [AfterAdvance(t, {}) EXCEPT !["finalizing"] = At("wait")]
            /\ UNCHANGED sealedBy
    /\ UNCHANGED <<logged, status, graded, keys, clock, connection, flushes, outside>>

(* COMPLETE: the row's status is committed, then grading is enqueued.  The *)
(* mutated form enqueues first.                                            *)
EnqueueBeforeStatus(t) ==
    /\ Entering(t, "COMPLETE")
    /\ graded' = graded + 1
    /\ task' = [task EXCEPT ![t].pc = "enqueue"]
    /\ UNCHANGED <<logged, status, sealedBy, keys, clock, connection, flushes, outside>>

EnterComplete(t) ==
    /\ Entering(t, "COMPLETE")
    /\ status' = "COMPLETED"
    /\ task' = [task EXCEPT ![t].pc = "enqueue"]
    /\ UNCHANGED <<logged, sealedBy, graded, keys, clock, connection, flushes, outside>>

(* enqueue_grading; a broker that is out is logged and swallowed. *)
Enqueue(t) ==
    /\ task[t].pc = "enqueue"
    /\ graded' \in {graded, graded + 1}
    /\ task' = AfterAdvance(t, {})
    /\ UNCHANGED <<logged, status, sealedBy, keys, clock, connection, flushes, outside>>

Enter(t) ==
    \/ MarkPart1(t)
    \/ EnterTopic(t)
    \/ EnterCueCard(t)
    \/ EnterPart2Timed(t)
    \/ EnterPart3(t)
    \/ EnterSpoken(t)
    \/ EnterFinalizing(t)
    \/ EnterComplete(t)
    \/ Enqueue(t)

----------------------------------------------------------------------------
(* Watchdogs.  Each reads its deadline once, when it starts; nobody but    *)
(* the watchdog itself changes the key while the connection is up, so it   *)
(* is taken to have read it when it is spawned.                            *)

(* The test of the wait loops; its mutated form ends the first sleep.      *)
ExpiredAtOnce(name) == name \in TimerName

Expired(name) == due[name]

(* wait_for_phase_group_deadline and wait_for_prep_expiry: a deadline that *)
(* has passed is reported whatever the phase is by then.                   *)
Poll(name) ==
    /\ name # "part2_long_turn" /\ task[name].pc = "poll"
    /\ \/ Expired(name) /\ task' = [task EXCEPT ![name] = At("clear")]
       \/ ~Expired(name) /\ logged \notin Timed[name] /\ task' = [task EXCEPT ![name] = Idle]
    /\ UNCHANGED <<logged, session, keys, clock, connection, flushes, outside>>

(* wait_for_long_turn_cutoff reads the phase before it looks at the time   *)
(* that remains ...                                                        *)
PollLongTurn ==
    LET name == "part2_long_turn"
    IN  /\ task[name].pc = "poll"
        /\ \/ logged \notin Timed[name] /\ task' = [task EXCEPT ![name] = Idle]
           \/ logged \in Timed[name] /\ Expired(name)
                /\ task' = [task EXCEPT ![name] = At("cut")]
        /\ UNCHANGED <<logged, session, keys, clock, connection, flushes, outside>>

(* ... and mutes after the awaits that follow the read: closing the        *)
(* database session, and the directive of the warning.                     *)
CutLongTurn ==
    /\ task["part2_long_turn"].pc = "cut"
    /\ muted' = TRUE
    /\ task' = [task EXCEPT !["part2_long_turn"] = At("clear")]
    /\ UNCHANGED <<logged, session, keys, clock, conn, orch, flushes, outside>>

(* clear_deadline, and on to _advance; Part 1's loop first asks whether    *)
(* the exam is still in Part 1.                                            *)
ClearDeadline(name) ==
    /\ task[name].pc = "clear"
    /\ deadline' = [deadline EXCEPT ![name] = FALSE]
    /\ task' = [task EXCEPT ![name] =
                    IF name = "part1_max" /\ orch.phase \notin PART1_PHASES
                    THEN Idle ELSE Calling(WatchdogEvent(name))]
    /\ UNCHANGED <<logged, session, marked, clock, connection, flushes, outside>>

(* The finalizing watchdog stops waiting: when the flushes are done, or    *)
(* after finalizing_watchdog_seconds; its mutated form waits for ever.     *)
FlushesDrained == Pending = 0

DrainedOrTimedOut == Pending >= 0

_run_finalizing_watchdog ==
    /\ task["finalizing"].pc = "wait" /\ DrainedOrTimedOut
    /\ sealedBy' = IF Pending = 0 THEN "drained" ELSE "timeout"
    /\ task' = [task EXCEPT !["finalizing"] = Calling("FINALIZE_COMPLETE")]
    /\ UNCHANGED <<logged, status, graded, keys, clock, connection, flushes, outside>>

Watchdog(name) ==
    \/ Poll(name)
    \/ name = "part2_long_turn" /\ (PollLongTurn \/ CutLongTurn)
    \/ ClearDeadline(name)

----------------------------------------------------------------------------
(* The clock *)

(* Somebody may still read the deadline: its phase is not over, or its     *)
(* watchdog is not.                                                        *)
Matters(name) == logged \in Timed[name] \/ task[name].pc # "idle"

(* A deadline passes; part1_max is later than part1_min_seconds. *)
Pass(name) ==
    /\ deadline[name] /\ ~due[name] /\ Matters(name)
    /\ name = "part1_max" => floor
    /\ due' = [due EXCEPT ![name] = TRUE]
    /\ UNCHANGED <<logged, session, keys, floor, connection, task, flushes, outside>>

PassFloor ==
    /\ marked /\ ~floor /\ Matters("part1_max")
    /\ floor' = TRUE
    /\ UNCHANGED <<logged, session, keys, due, connection, task, flushes, outside>>

(* The key's TTL runs out _TTL_BUFFER_SECONDS after its deadline: far      *)
(* longer than a live watchdog takes to see it, so only between            *)
(* connections.                                                            *)
ExpireKey(name) ==
    /\ conn = "down" /\ deadline[name] /\ due[name] /\ Matters(name)
    /\ deadline' = [deadline EXCEPT ![name] = FALSE]
    /\ UNCHANGED <<logged, session, marked, clock, connection, task, flushes, outside>>

----------------------------------------------------------------------------
Init ==
    /\ logged = INITIAL_PHASE /\ status = "CREATED" /\ sealedBy = "none" /\ graded = 0
    /\ deadline = [n \in TimerName |-> FALSE] /\ marked = FALSE
    /\ due = [n \in TimerName |-> FALSE] /\ floor = FALSE
    /\ conn = "down" /\ orch = NewOrchestrator(INITIAL_PHASE) /\ muted = FALSE
    /\ task = [t \in Task |-> Idle]
    /\ flushing = 0 /\ stray = 0 /\ orphans = FALSE /\ lost = FALSE
    /\ severed = {}
    /\ cardShown = FALSE /\ part3 = "unopened" /\ drops = 0

_advance(t) == Load(t) \/ Commit(t) \/ Conflict(t) \/ Return(t) \/ Enter(t)

start == StartFresh \/ Resume \/ EnterIdVerification \/ EnterIntro

Time == PassFloor \/ \E n \in TimerName : Pass(n)

Next ==
    \/ start
    \/ Drop
    \/ Crash
    \/ ActivityEndLongTurn
    \/ ActivityEndBudget
    \/ ActivityEndOther
    \/ on_cue_card_ack
    \/ on_gemini_turn_complete
    \/ on_turn_flush_complete
    \/ \E t \in Task : _advance(t)
    \/ \E n \in TimerName : Watchdog(n)
    \/ _run_finalizing_watchdog
    \/ Time
    \/ \E n \in TimerName : ExpireKey(n)

Spec == Init /\ [][Next]_vars

(* Everything the gateway does of its own accord, time included. *)
Internal ==
    \/ start
    \/ \E t \in Task : _advance(t)
    \/ \E n \in TimerName : Watchdog(n)
    \/ _run_finalizing_watchdog
    \/ Time

(* The event loop goes on running what can run, the client reconnects and  *)
(* time passes.  Nothing is asked of the candidate, of Gemini, of storage  *)
(* or of the broker.                                                       *)
FairSpec == Spec /\ WF_vars(Internal)
----------------------------------------------------------------------------
(* Properties that the code keeps *)

MostTurns ==
    CHOOSE n \in {b.turns : b \in {_candidate_turn_budget_for_phase[p] :
                                     p \in DOMAIN _candidate_turn_budget_for_phase}} :
        \A p \in DOMAIN _candidate_turn_budget_for_phase :
            _candidate_turn_budget_for_phase[p].turns <= n

TypeOK ==
    /\ logged \in ExamPhase /\ status \in {"CREATED", "COMPLETED"}
    /\ sealedBy \in {"none", "drained", "timeout"}
    /\ deadline \in [TimerName -> BOOLEAN] /\ due \in [TimerName -> BOOLEAN]
    /\ {marked, floor, muted, orphans, lost, cardShown} \subseteq BOOLEAN
    /\ conn \in {"down", "starting", "up"}
    /\ orch \in [phase : ExamPhase, turns : 0..MostTurns, topicSets : BOOLEAN,
                 cueCard : BOOLEAN, part1Start : BOOLEAN]
    /\ task \in [Task -> [pc : {"idle", "load", "commit", "return", "enter", "enqueue",
                                "marked", "poll", "cut", "clear", "wait"},
                          event : ExamEvent \cup {"none"}]]
    /\ {flushing, stray} \subseteq 0..MaxFlushing /\ Unstarted <= flushing
    /\ part3 \in {"unopened", "themed", "unthemed"}
    /\ graded \in Nat /\ drops \in 0..MaxDrops /\ severed \subseteq DOMAIN Held

(* t is about to put a topic of Part 1 to Gemini. *)
EnteringTopic(t) ==
    task[t].pc \in {"enter", "marked"} /\ Target[task[t].event] \in PART1_PHASES

(* The phase whose entry sets each deadline. *)
First ==
    [part1_max |-> "PART1_TOPIC_A", part2_prep |-> "PART2_PREP",
     part2_long_turn |-> "PART2_LONG_TURN", part3_discussion |-> "PART3_DISCUSSION"]

(* t is about to set the deadline. *)
Setting(t, name) ==
    IF name = "part1_max" THEN task[t].pc = "marked" ELSE Entering(t, First[name])

(* The in-memory phase cache and the durable event log never disagree      *)
(* (module docstrings of exam_orchestrator.py and timers.py), whichever    *)
(* tasks race for a transition and wherever the connection was dropped,    *)
(* except while the call that committed is on its way back.                *)
CacheAgrees ==
    conn # "down" /\ (\A t \in Task : task[t].pc # "return") => orch.phase = logged

(* No candidate audio reaches Gemini during prep, on the connection that   *)
(* entered it or on one that resumed into it; and before the long turn has *)
(* run out its time, nothing but prep silences the candidate.              *)
MicFollowsPhase ==
    conn = "up" =>
        /\ orch.phase = "PART2_PREP" => muted
        /\ muted /\ ~due["part2_long_turn"] => orch.phase = "PART2_PREP"

(* A session sealed because its media had drained is sealed after every    *)
(* flush of a turn that this connection released before FINALIZING, the    *)
(* turn whose activity_end was still being handled included.               *)
SealedAfterFlush ==
    logged = "COMPLETE" /\ sealedBy = "drained" => flushing = 0

(* Grading is enqueued at most once however the end of the exam is cut     *)
(* short and resumed, and only for a session whose row already says        *)
(* COMPLETED and whose log says COMPLETE.                                  *)
GradedOnce ==
    /\ graded <= 1
    /\ graded = 1 => status = "COMPLETED"
    /\ status = "COMPLETED" => logged = "COMPLETE"

(* What was chosen for the candidate is there when it is used: Part 3 is   *)
(* opened without the themes of the card, or a topic entered without topic *)
(* sets, only when a connection was lost, to the outside or to a race,     *)
(* between the choice of that very content and its use.                    *)
ContentKept ==
    /\ part3 = "unthemed" => "card" \in severed
    /\ (\E t \in Task : EnteringTopic(t)) /\ ~orch.topicSets => "topics" \in severed

(* A clock is started once in an exam, whatever drops, resumes and races   *)
(* come: whoever is about to set a deadline, or to mark the beginning of   *)
(* Part 1, finds that it was never set ("that would reset the clock":      *)
(* start()).                                                               *)
ClockStartsOnce ==
    \A t \in Task :
        /\ \A n \in TimerName : Setting(t, n) => ~deadline[n] /\ ~due[n]
        /\ Entering(t, "PART1_TOPIC_A") => ~marked

(* Prep lasts its minute: no race, drop or resume ends it before its       *)
(* deadline has passed.                                                    *)
PrepNeverCutShort ==
    [][logged = "PART2_PREP" /\ logged' # logged => due["part2_prep"]]_vars

(* Part 1 lasts its four minutes, whatever the order of turns and of the   *)
(* ceiling's cascade, unless the moment it began was never recorded.       *)
Part1Floor ==
    [][logged = "PART1_TOPIC_C" /\ logged' # logged /\ marked => floor]_vars

(* A phase with a clock of its own ends, the candidate doing nothing: the  *)
(* watchdog fires and no lost race, unlucky poll or teardown stops it.     *)
TimedPhaseEnds ==
    \A p \in {"PART2_PREP", "PART2_LONG_TURN", "PART3_DISCUSSION"} :
        logged = p ~> logged # p

(* FINALIZING cannot hang on a flush that never ends: once a connection    *)
(* has entered it, and unless that connection goes, the exam is sealed,    *)
(* its row says so and grading has been tried.                             *)
FinalizingEnds ==
    (\E t \in Task : Entering(t, "FINALIZING")) ~>
        (status = "COMPLETED" /\ (\A t \in Task : task[t].pc = "idle")) \/ conn = "down"

----------------------------------------------------------------------------
(* What the documents say and the code does not keep *)

(* After the long turn is over, no turn of the candidate is silenced for   *)
(* the rest of the connection (the comment on PART2_ROUNDOFF in            *)
(* _on_enter_phase).                                                       *)
HeardAfterLongTurn ==
    conn = "up" /\ muted => orch.phase \in {"PART2_PREP", "PART2_LONG_TURN"}

(* No audio segment is lost without a crash (the exit criteria of the      *)
(* persistence phase).                                                     *)
NoTurnLost == lost => drops > 0

(* Part 3 is linked to the topic of Part 2 in any exam, a resumed one      *)
(* included (the phases' table, and its promise of a reconnect).           *)
Part3Linked == part3 # "unthemed"

(* Any phase survives a disconnect or the death of the gateway: what the   *)
(* phase waits for, other than the candidate and Gemini, still comes.      *)
SurvivesDrop ==
    /\ \A p \in {"ID_VERIFICATION", "PART2_PREP", "FINALIZING"} : logged = p ~> logged # p
    /\ logged = "PART2_CUECARD_PRESENT" ~>
            cardShown \/ logged # "PART2_CUECARD_PRESENT"
    /\ logged = "COMPLETE" ~> status = "COMPLETED"
============================================================================
