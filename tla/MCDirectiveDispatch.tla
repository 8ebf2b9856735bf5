------------------------ MODULE MCDirectiveDispatch ------------------------
(* Connections that start the exam, or resume before the end of Part 1 or  *)
(* in Part 3.                                                              *)
EXTENDS DirectiveDispatch

MCStartPhases == {"INTRO", "PART1_TOPIC_C", "PART3_DISCUSSION"}
============================================================================
