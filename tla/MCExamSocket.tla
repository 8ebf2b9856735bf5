---------------------------- MODULE MCExamSocket ----------------------------
(* Two answers of up to two frames, two lost connections, one failed flush. *)
EXTENDS ExamSocket
============================================================================
