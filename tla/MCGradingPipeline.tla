-------------------------- MODULE MCGradingPipeline --------------------------
(* A small instance of GradingPipeline: one turn that is flushed late, one *)
(* criterion besides pronunciation.                                        *)
EXTENDS GradingPipeline

CONSTANTS s1, s2, full, first, second

(* All of both turns, less of the first alone, and the second alone: which *)
(* is silence to a run that knows the first turn only.                     *)
MCFound == [h \in Hearing |->
               [s \in Segment |-> CASE h = full -> IF s = s1 THEN 2 ELSE 1
                                   [] h = first -> IF s = s1 THEN 1 ELSE 0
                                   [] h = second -> IF s = s2 THEN 1 ELSE 0]]
MCTextCriteria == {"fluency"}
==============================================================================
