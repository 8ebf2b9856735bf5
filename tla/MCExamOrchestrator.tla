------------------------- MODULE MCExamOrchestrator -------------------------
(* One exam, with settings small enough to reach its end: one turn per     *)
(* phase but two in the topics, so that a topic is left both with and      *)
(* without its budget spent.                                               *)
EXTENDS ExamOrchestrator
============================================================================
