------------------------- MODULE DirectiveDispatch -------------------------
(***************************************************************************)
(* How the stage directions of one connection reach Gemini                 *)
(* (_queue_directive, _dispatch_directives and _gemini_turn_complete of    *)
(* services/exam_orchestrator.py), beside the candidate's turns and the    *)
(* directives of the long turn's watchdog, which go round the queue        *)
(* (services/timers.py).  Each completed input turn has Gemini speak once  *)
(* (services/gemini_bridge.py, routers/ws_exam.py).                        *)
(*                                                                         *)
(* A step is what a task does between two awaits.  Races for a transition  *)
(* are ExamOrchestrator's subject: here the later of two just stops.       *)
(***************************************************************************)
EXTENDS ExamFsm, SequencesExt

CONSTANTS
    StartPhases, \* where a connection may find the exam
    MaxTurns     \* bound: turns of the candidate

ASSUME DispatchAssumption ==
    /\ StartPhases \subseteq ExamPhase \ {"COMPLETE"}
    /\ MaxTurns \in Nat

VARIABLES
    phase,           \* _phase
    directive_queue, \* _directive_queue
    gate,            \* _gemini_turn_complete.is_set()
    dispatcher,      \* where _dispatch_directives is, and the text it holds
    watchdog,        \* where the watchdog of the phase is
    ptt,             \* the button, the handling of its release, or the phase
                     \* that the turn's _advance is leaving
    unanswered,      \* input turns that Gemini has yet to reply to
    arriving,        \* TurnComplete messages on their way to the pump
    turns,           \* turns the candidate has begun
    (* history *)
    asked, told,     \* directives queued, and those sent from the queue
    quiet            \* nobody has spoken out of turn (see OutOfTurn)

gateway == <<phase, directive_queue, gate, dispatcher, watchdog>>
gemini == <<unanswered, arriving>>
history == <<asked, told, quiet>>

vars == <<gateway, ptt, gemini, turns, history>>

----------------------------------------------------------------------------
(* Phases and their directives *)

Directive ==
    {"intro", "part1_topic", "part1_extend", "reanchor", "part1_wrap_up",
     "part2_cuecard_present", "part2_roundoff", "part3_discussion",
     "part3_wrap_up", "close"}

(* The directive that _on_enter_phase queues, if any. *)
OnEnter(p) ==
    CASE p = "INTRO" -> <<"intro">>
      [] p \in {"PART1_TOPIC_A", "PART1_TOPIC_B", "PART1_TOPIC_C"} -> <<"part1_topic">>
      [] p = "PART2_CUECARD_PRESENT" -> <<"part2_cuecard_present">>
      [] p = "PART2_ROUNDOFF" -> <<"part2_roundoff">>
      [] p = "PART3_DISCUSSION" -> <<"part3_discussion">>
      [] p = "CLOSE" -> <<"close">>
      [] OTHER -> <<>>

After(p) == CHOOSE q \in ExamPhase : \E e \in ExamEvent : <<p, e, q>> \in TRANSITIONS

(* Phases that the candidate's turns end, and those a deadline ends. *)
Budgeted == {"INTRO", "PART1_TOPIC_A", "PART1_TOPIC_B", "PART1_TOPIC_C",
             "PART2_ROUNDOFF", "PART3_DISCUSSION"}

(* A wrapped-up phase, the directive that says so, and the next phase that *)
(* is announced.                                                           *)
WrapUp(p) == IF p = "PART3_DISCUSSION" THEN "part3_wrap_up" ELSE "part1_wrap_up"
WrappedTo(p) == IF p = "PART3_DISCUSSION" THEN "CLOSE" ELSE "PART2_CUECARD_PRESENT"
Wrapped == {"PART1_TOPIC_A", "PART1_TOPIC_B", "PART1_TOPIC_C", "PART3_DISCUSSION"}

----------------------------------------------------------------------------
(* Inputs to Gemini *)

AtGet == [pc |-> "get", text |-> <<>>]

(* Nothing is being said, sent or waiting to be sent, and no release is    *)
(* being handled.                                                          *)
Still ==
    /\ ptt \in {"up", "down"}
    /\ unanswered = 0 /\ arriving = 0
    /\ directive_queue = <<>> /\ dispatcher = AtGet

(* A completed input turn reaches Gemini. *)
Hear == unanswered' = unanswered + 1

(* Somebody other than the dispatcher gives Gemini an input while          *)
(* something else is going on.                                             *)
OutOfTurn == quiet' = (quiet /\ Still)

(* _queue_directive, for each of ds. *)
_queue_directive(ds) ==
    /\ directive_queue' = directive_queue \o ds
    /\ asked' = asked \o ds

(* __init__ and start(): the first transition's directive, or a re-anchor. *)
Init ==
    /\ phase \in StartPhases
    /\ directive_queue = IF phase = "INTRO" THEN <<"intro">> ELSE <<"reanchor">>
    /\ asked = directive_queue /\ told = <<>>
    /\ gate = TRUE /\ dispatcher = AtGet
    /\ watchdog = "polling" /\ ptt = "up"
    /\ unanswered = 0 /\ arriving = 0
    /\ turns = 0 /\ quiet = TRUE

----------------------------------------------------------------------------
(* _dispatch_directives *)

Get ==
    /\ dispatcher.pc = "get" /\ directive_queue # <<>>
    /\ dispatcher' = [pc |-> "wait", text |-> <<Head(directive_queue)>>]
    /\ directive_queue' = Tail(directive_queue)
    /\ UNCHANGED <<phase, gate, watchdog, ptt, gemini, turns, history>>

(* wait() returns because the event was set, and the task runs on later,   *)
(* whatever has become of the event by then.                               *)
Wake ==
    /\ dispatcher.pc = "wait" /\ gate
    /\ dispatcher' = [dispatcher EXCEPT !.pc = "go"]
    /\ UNCHANGED <<phase, directive_queue, gate, watchdog, ptt, gemini, turns, history>>

(* Mutated form: it waits for as long as it takes. *)
WaitForEver == FALSE

(* TimeoutError after directive_dispatch_timeout_seconds. *)
Timeout ==
    /\ dispatcher.pc = "wait" /\ ~gate
    /\ dispatcher' = [dispatcher EXCEPT !.pc = "go"]
    /\ quiet' = FALSE
    /\ UNCHANGED <<phase, directive_queue, gate, watchdog, ptt, gemini, turns, asked, told>>

(* Mutated form: the gate is left as it is. *)
InjectWithoutClear ==
    /\ dispatcher.pc = "go"
    /\ Hear /\ told' = told \o dispatcher.text
    /\ dispatcher' = AtGet
    /\ UNCHANGED <<phase, directive_queue, gate, watchdog, ptt, arriving, turns, asked, quiet>>

(* Mutated form: the text is kept once it is sent. *)
InjectAndKeep ==
    /\ dispatcher.pc = "go"
    /\ gate' = FALSE
    /\ Hear /\ told' = told \o dispatcher.text
    /\ dispatcher' = [dispatcher EXCEPT !.pc = "get"]
    /\ UNCHANGED <<phase, directive_queue, watchdog, ptt, arriving, turns, asked, quiet>>

Inject ==
    /\ dispatcher.pc = "go"
    /\ gate' = FALSE
    /\ Hear /\ told' = told \o dispatcher.text
    /\ dispatcher' = AtGet
    /\ UNCHANGED <<phase, directive_queue, watchdog, ptt, arriving, turns, asked, quiet>>

Dispatch == Get \/ Wake \/ Timeout \/ Inject

----------------------------------------------------------------------------
(* Gemini, and the pump that reads its events *)

(* It has spoken its reply to one input. *)
Reply ==
    /\ unanswered > 0
    /\ unanswered' = unanswered - 1 /\ arriving' = arriving + 1
    /\ UNCHANGED <<gateway, ptt, turns, history>>

(* on_gemini_turn_complete *)
on_gemini_turn_complete ==
    /\ arriving > 0 /\ arriving' = arriving - 1
    /\ gate' = TRUE
    /\ phase' = IF phase = "CLOSE" THEN After(phase) ELSE phase
    /\ UNCHANGED <<directive_queue, dispatcher, watchdog, ptt, unanswered, turns, history>>

----------------------------------------------------------------------------
(* The candidate, and the client pump *)

(* activity_start.  A reply being spoken is interrupted, with or without a *)
(* TurnComplete, or was not yet begun and is spoken afterwards.            *)
Press ==
    /\ ptt = "up" /\ turns < MaxTurns
    /\ ptt' = "down" /\ turns' = turns + 1
    /\ \/ UNCHANGED gemini
       \/ /\ unanswered > 0
          /\ unanswered' = unanswered - 1
          /\ arriving' \in {arriving, arriving + 1}
    /\ UNCHANGED <<gateway, history>>

(* activity_end is sent on to Gemini before it is handled. *)
Release ==
    /\ ptt = "down" /\ ptt' = "released"
    /\ Hear /\ OutOfTurn
    /\ UNCHANGED <<gateway, arriving, turns, asked, told>>

(* Mutated form: the turn's reply is not waited for. *)
ReleasedWithoutClear ==
    /\ ptt = "released"
    /\ \/ ptt' = "up" /\ phase # "PART2_LONG_TURN"
          /\ \/ UNCHANGED <<directive_queue, asked>>
             \/ phase \in Budgeted /\ _queue_directive(<<"reanchor">>)
             \/ phase = "PART1_TOPIC_C" /\ _queue_directive(<<"part1_extend">>)
       \/ /\ phase \in Budgeted \cup {"PART2_LONG_TURN"}
          /\ ptt' = phase /\ UNCHANGED <<directive_queue, asked>>
    /\ UNCHANGED <<phase, gate, dispatcher, watchdog, gemini, turns, told, quiet>>

(* on_activity_end, up to its _advance: nothing more, a directive, or the  *)
(* turn that ends the phase.                                               *)
on_activity_end ==
    /\ ptt = "released"
    /\ gate' = FALSE
    /\ \/ ptt' = "up" /\ phase # "PART2_LONG_TURN"
          /\ \/ UNCHANGED <<directive_queue, asked>>
             \/ phase \in Budgeted /\ _queue_directive(<<"reanchor">>)
             \/ phase = "PART1_TOPIC_C" /\ _queue_directive(<<"part1_extend">>)
       \/ /\ phase \in Budgeted \cup {"PART2_LONG_TURN"}
          /\ ptt' = phase /\ UNCHANGED <<directive_queue, asked>>
    /\ UNCHANGED <<phase, dispatcher, watchdog, gemini, turns, told, quiet>>

(* The watchdog of the long turn has something left to do, whichever the   *)
(* phase is by now: what it has decided to say, or the clear() that        *)
(* follows the hard stop.  It does so before Part 3's watchdog expires.    *)
Unfinished == {"warning", "stopping", "stopped"}

(* _advance to p: the cached phase, the next watchdog, the directive.  The *)
(* watchdog of Part 1 is that of all three topics.                         *)
_advance(p) ==
    /\ phase' = p
    /\ watchdog' = IF watchdog \in Unfinished \/ p \in {"PART1_TOPIC_B", "PART1_TOPIC_C"}
                   THEN watchdog ELSE "polling"
    /\ _queue_directive(OnEnter(p))

(* The turn's _advance.  It raises when a watchdog was faster. *)
TurnAdvances ==
    /\ ptt \in ExamPhase /\ ptt' = "up"
    /\ \/ phase = ptt /\ _advance(After(phase))
       \/ phase # ptt /\ UNCHANGED <<phase, watchdog, directive_queue, asked>>
    /\ UNCHANGED <<gate, dispatcher, gemini, turns, told, quiet>>

(* The card is acknowledged; preparation is over. *)
CueCardAckedOrPrepared ==
    /\ phase \in {"PART2_CUECARD_PRESENT", "PART2_PREP"}
    /\ _advance(After(phase))
    /\ UNCHANGED <<gate, dispatcher, ptt, gemini, turns, told, quiet>>

----------------------------------------------------------------------------
(* The watchdogs *)

(* Part 1's and Part 3's ceilings queue a directive and then advance. *)
WrapUpQueued ==
    /\ phase \in Wrapped /\ watchdog = "polling"
    /\ watchdog' = "expired"
    /\ _queue_directive(<<WrapUp(phase)>>)
    /\ quiet' = (quiet /\ ptt # "released")
    /\ UNCHANGED <<phase, gate, dispatcher, ptt, gemini, turns, told>>

WrapUpAdvances ==
    /\ phase \in Wrapped /\ watchdog = "expired"
    /\ _advance(WrappedTo(phase))
    /\ quiet' = (quiet /\ ptt # "released")
    /\ UNCHANGED <<gate, dispatcher, ptt, gemini, turns, told>>

(* wait_for_long_turn_cutoff finds the long turn going on, and then that   *)
(* it is time for the warning, or for the hard stop.                       *)
LongTurnGoesOn ==
    /\ phase = "PART2_LONG_TURN"
    /\ \/ watchdog = "polling" /\ watchdog' = "warning"
       \/ watchdog = "warned" /\ watchdog' = "stopping"
    /\ UNCHANGED <<phase, directive_queue, gate, dispatcher, ptt, gemini, turns, history>>

(* It goes round the queue, and does not look again: the candidate may     *)
(* have ended the long turn since, and then it is out of turn anyhow.      *)
SpeakOfTime ==
    /\ Hear
    /\ quiet' = (quiet /\ Still /\ phase = "PART2_LONG_TURN")
    /\ UNCHANGED <<phase, directive_queue, gate, dispatcher, ptt, arriving, turns, asked, told>>

Warn ==
    /\ watchdog = "warning"
    /\ watchdog' = IF phase = "PART2_LONG_TURN" THEN "warned" ELSE "polling"
    /\ SpeakOfTime

HardStop ==
    /\ watchdog = "stopping" /\ watchdog' = "stopped"
    /\ SpeakOfTime

(* The watchdog's _advance, which raises when the candidate was faster. *)
CutOff ==
    /\ watchdog = "stopped" /\ watchdog' = "polling"
    /\ \/ /\ phase = "PART2_LONG_TURN" /\ phase' = After(phase)
          /\ _queue_directive(OnEnter(phase'))
       \/ phase # "PART2_LONG_TURN" /\ UNCHANGED <<phase, directive_queue, asked>>

(* Mutated form: the closing line of the long turn is not waited for. *)
CutoffWithoutClear ==
    /\ CutOff
    /\ UNCHANGED <<gate, dispatcher, ptt, gemini, turns, told, quiet>>

(* _run_long_turn_watchdog after the cutoff.  The clear() and the on-enter *)
(* directive have only the transition between them.                        *)
CutoffAdvances ==
    /\ CutOff /\ gate' = FALSE
    /\ UNCHANGED <<dispatcher, ptt, gemini, turns, told, quiet>>

----------------------------------------------------------------------------

Next ==
    \/ Dispatch
    \/ Reply \/ on_gemini_turn_complete
    \/ Press \/ Release \/ on_activity_end \/ TurnAdvances \/ CueCardAckedOrPrepared
    \/ WrapUpQueued \/ WrapUpAdvances
    \/ LongTurnGoesOn \/ Warn \/ HardStop \/ CutoffAdvances

Spec == Init /\ [][Next]_vars

(* The dispatcher is scheduled, and its timeout runs out when nothing else *)
(* wakes it.  Nothing is assumed of Gemini or of the candidate.            *)
FairSpec == Spec /\ WF_vars(Dispatch)

----------------------------------------------------------------------------
(* Properties *)

(* Every variable keeps its type, and the dispatcher holds a text exactly  *)
(* while it has one to send.                                               *)
TypeOK ==
    /\ phase \in ExamPhase /\ gate \in BOOLEAN /\ quiet \in BOOLEAN
    /\ asked \in Seq(Directive) /\ told \in Seq(Directive)
    /\ directive_queue \in Seq(Directive)
    /\ dispatcher \in [pc : {"wait", "go"}, text : {<<d>> : d \in Directive}] \cup {AtGet}
    /\ watchdog \in {"polling", "expired", "warned"} \cup Unfinished
    /\ ptt \in {"up", "down", "released"} \cup ExamPhase
    /\ unanswered \in Nat /\ arriving \in Nat /\ turns \in 0 .. MaxTurns

(* As long as everybody else keeps quiet while something is being said,    *)
(* sent or waiting to be sent, the dispatcher has not timed out and the    *)
(* watchdog has not spoken of a long turn that was over, Gemini never has  *)
(* two inputs to reply to: the dispatcher adds no second one to the        *)
(* candidate's, to the hard stop's or to its own (_dispatch_directives).   *)
OneQuestionAtATime == quiet => unanswered <= 1

(* Whatever is interrupted, late or out of turn, every directive queued is *)
(* sent while the connection lasts, once and in order: the gate never      *)
(* holds the exam up for good (_dispatch_directives, the except clause).   *)
Channel == INSTANCE DirectiveChannel
EveryDirectiveIsTold == Channel!Spec
============================================================================
