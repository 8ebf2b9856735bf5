---------------------------- MODULE PhaseLadder ----------------------------
(***************************************************************************)
(* What the exam promises whoever watches its phase: it starts at the      *)
(* device check and climbs the ladder of packages/exam-fsm one rung at a   *)
(* time, never skipping, repeating or descending, until COMPLETE.  It says *)
(* nothing of logs, transactions, connections or timers.                   *)
(***************************************************************************)
EXTENDS ExamFsm

VARIABLE phase

Init == phase = INITIAL_PHASE

Climb(event) ==
    /\ transition(phase, event) \in ExamPhase
    /\ phase' = transition(phase, event)

Next == \E event \in ExamEvent : Climb(event)

Spec == Init /\ [][Next]_phase
============================================================================
