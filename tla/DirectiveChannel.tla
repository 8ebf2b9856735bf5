-------------------------- MODULE DirectiveChannel --------------------------
(***************************************************************************)
(* What the orchestrator's callers may count on when they queue a stage    *)
(* direction for the examiner: while the connection lasts it is told to    *)
(* Gemini, once, after those queued before it.  It says nothing of gates,  *)
(* timeouts or what Gemini is saying meanwhile.                            *)
(***************************************************************************)
EXTENDS Sequences, Naturals

CONSTANT Directive

VARIABLES asked, told

Init == asked \in Seq(Directive) /\ told = <<>>

Ask == \E d \in Directive : asked' = Append(asked, d) /\ UNCHANGED told

Tell ==
    /\ Len(told) < Len(asked)
    /\ told' = Append(told, asked[Len(told) + 1])
    /\ UNCHANGED asked

Next == Ask \/ Tell

Spec == Init /\ [][Next]_<<asked, told>> /\ WF_<<asked, told>>(Tell)
=============================================================================
