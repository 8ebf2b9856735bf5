------------------------------ MODULE ExamFsm ------------------------------
(***************************************************************************)
(* The pure exam state machine of packages/exam-fsm: the phases, the exit  *)
(* events, the transition table and the replay of an event log.  Nothing   *)
(* here has state; every module of the project that speaks of a phase      *)
(* extends this one.                                                       *)
(***************************************************************************)
EXTENDS Integers, Sequences

(* class ExamPhase, in exam order. *)
ExamPhase ==
    {"INIT_DEVICE_CHECK", "ID_VERIFICATION", "INTRO", "PART1_TOPIC_A",
     "PART1_TOPIC_B", "PART1_TOPIC_C", "PART2_CUECARD_PRESENT", "PART2_PREP",
     "PART2_LONG_TURN", "PART2_ROUNDOFF", "PART3_DISCUSSION", "CLOSE",
     "FINALIZING", "COMPLETE"}

INITIAL_PHASE == "INIT_DEVICE_CHECK"

TERMINAL_PHASES == {"COMPLETE"}

(* class ExamEvent: one exit trigger per edge of the exam. *)
ExamEvent ==
    {"DEVICE_CHECK_CONFIRMED", "ID_VERIFIED", "INTRO_COMPLETE",
     "TOPIC_A_COMPLETE", "TOPIC_B_COMPLETE", "TOPIC_C_COMPLETE",
     "CUE_CARD_ACKED", "PREP_TIMER_EXPIRED", "LONG_TURN_ENDED",
     "ROUNDOFF_COMPLETE", "DISCUSSION_COMPLETE", "CLOSE_DELIVERED",
     "FINALIZE_COMPLETE"}

(* The table TRANSITIONS, a key (phase, event) and its value per triple. *)
TRANSITIONS ==
    {<<"INIT_DEVICE_CHECK",     "DEVICE_CHECK_CONFIRMED", "ID_VERIFICATION">>,
     <<"ID_VERIFICATION",       "ID_VERIFIED",            "INTRO">>,
     <<"INTRO",                 "INTRO_COMPLETE",         "PART1_TOPIC_A">>,
     <<"PART1_TOPIC_A",         "TOPIC_A_COMPLETE",       "PART1_TOPIC_B">>,
     <<"PART1_TOPIC_B",         "TOPIC_B_COMPLETE",       "PART1_TOPIC_C">>,
     <<"PART1_TOPIC_C",         "TOPIC_C_COMPLETE",       "PART2_CUECARD_PRESENT">>,
     <<"PART2_CUECARD_PRESENT", "CUE_CARD_ACKED",         "PART2_PREP">>,
     <<"PART2_PREP",            "PREP_TIMER_EXPIRED",     "PART2_LONG_TURN">>,
     <<"PART2_LONG_TURN",       "LONG_TURN_ENDED",        "PART2_ROUNDOFF">>,
     <<"PART2_ROUNDOFF",        "ROUNDOFF_COMPLETE",      "PART3_DISCUSSION">>,
     <<"PART3_DISCUSSION",      "DISCUSSION_COMPLETE",    "CLOSE">>,
     <<"CLOSE",                 "CLOSE_DELIVERED",        "FINALIZING">>,
     <<"FINALIZING",            "FINALIZE_COMPLETE",      "COMPLETE">>}

(* The exception of the same name, as the value a call ends with. *)
InvalidTransitionError == "InvalidTransitionError"

(* The lookup of transition(): the value of the key, or KeyError turned    *)
(* into InvalidTransitionError, which no key starts from.                  *)
Lookup ==
    [key \in (ExamPhase \cup {InvalidTransitionError}) \X ExamEvent |->
        IF \E q \in ExamPhase : <<key[1], key[2], q>> \in TRANSITIONS
        THEN CHOOSE q \in ExamPhase : <<key[1], key[2], q>> \in TRANSITIONS
        ELSE InvalidTransitionError]

transition(current, event) == Lookup[<<current, event>>]

(* The phase after each prefix of an event list, the loop of fold().       *)
replay(events) ==
    LET phase[n \in 0..Len(events)] ==
            IF n = 0 THEN INITIAL_PHASE
                     ELSE transition(phase[n - 1], events[n])
    IN  phase

(* fold(events): the phase the whole list leads to. *)
fold(events) == replay(events)[Len(events)]
============================================================================
