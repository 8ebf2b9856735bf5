-------------------------- MODULE CalibrationReport --------------------------
(***************************************************************************)
(* The calibration of the judge over a corpus of cases that human raters   *)
(* have scored (calibration_report.py, calibration_corpus.py): each case   *)
(* is judged twice and reconciled as an exam is, and the report sets what  *)
(* comes of it beside the human bands.                                     *)
(*                                                                         *)
(* Pure functions: the variables are their input.                          *)
(***************************************************************************)
EXTENDS BandScores, ConfidenceGates

CONSTANTS
    CorpusBands, \* bands of a case
    CaseId,      \* ids
    MaxCorpus,   \* bound: cases of a file
    MaxLive      \* bound: cases of one that a real judge scores

ASSUME CorpusAssumption == CorpusBands \subseteq 0 .. 18

VARIABLES
    file, \* the cases: [case_id, passes, human_scores]
    live  \* --live: a real judge, not the passes in the file

corpusVars == <<file, live>>

----------------------------------------------------------------------------

(* Mutated form: duplicates are let through. *)
LoadAnything == file

(* load_benchmark_corpus: it raises, and there is nothing to report, when  *)
(* an id is used twice.                                                    *)
load_benchmark_corpus ==
    IF \A i, j \in DOMAIN file : i # j => file[i].case_id # file[j].case_id
    THEN file ELSE <<>>

(* CorpusScriptedScoringLLM.score, for the case of that id and the number  *)
(* of calls before for the same id.                                        *)
score(corpus, case_id, call_index) ==
    LET of == corpus[Max({i \in DOMAIN corpus : corpus[i].case_id = case_id})]
    IN  IF call_index = 0 THEN of.passes[1] ELSE of.passes[2]

(* What a judge gives to case i when it is asked twice for every case in   *)
(* turn.  A real one may leave criteria out.                               *)
judged(corpus, i) ==
    LET id == corpus[i].case_id
        calls == 2 * Cardinality({k \in 1 .. i - 1 : corpus[k].case_id = id})
    IN  IF live THEN corpus[i].passes
        ELSE <<score(corpus, id, calls), score(corpus, id, calls + 1)>>

(* A case without a band for a criterion is left out of its figures. *)
run_calibration ==
    LET corpus == load_benchmark_corpus
        pair == [i \in DOMAIN corpus |-> judged(corpus, i)]
        human(i) == corpus[i].human_scores
        scoring(c) == Those([i \in DOMAIN corpus |-> i], {i \in DOMAIN corpus : c \in Scored(pair[i])})
    IN  [corpus_size |-> Len(corpus),
         criteria |-> [c \in CRITERION_ORDER |->
             [k \in DOMAIN scoring(c) |->
                 LET i == scoring(c)[k] IN <<final_scores(pair[i])[c], human(i)[c]>>]],
         overall |-> [i \in DOMAIN corpus |->
             <<overall_band(pair[i]),
               Round(sum(human(i)), Cardinality(DOMAIN human(i)))>>],
         flagged |-> {i \in DOMAIN corpus : flagged_criteria(pair[i]) # {}},
         predicted |-> [i \in DOMAIN corpus |-> final_scores(pair[i])]]

----------------------------------------------------------------------------
(* Inputs *)

CorpusInit == file = <<>> /\ live = FALSE

AllScored == [CRITERION_ORDER -> CorpusBands]
SomeScored == UNION {[cs -> CorpusBands] : cs \in SUBSET CRITERION_ORDER}

(* The file has another case.  BenchmarkCase wants a band for every        *)
(* criterion in its scores.                                                *)
CaseAdded ==
    /\ live' \in IF file = <<>> THEN BOOLEAN ELSE {live}
    /\ Len(file) < IF live' THEN MaxLive ELSE MaxCorpus
    /\ \E id \in CaseId, human_scores \in AllScored,
          pass_1, pass_2 \in IF live' THEN SomeScored ELSE AllScored :
         file' = Append(file, [case_id |-> id, passes |-> <<pass_1, pass_2>>,
                               human_scores |-> human_scores])

(* The corpus and what the first providers make of its recordings. *)
CorpusSpec ==
    /\ CorpusInit /\ GatesInit
    /\ [][\/ CaseAdded /\ UNCHANGED recordings
          \/ Recorded /\ UNCHANGED corpusVars]_<<corpusVars, recordings>>

----------------------------------------------------------------------------
(* Properties *)

(* Every band in the report is that of its own case's two passes; a case   *)
(* that a criterion leaves out is flagged for a human and so never just    *)
(* missing; and where both passes agree with the rater throughout, so do   *)
(* the overall bands, which are rounded in two places.  Its account of the *)
(* fallbacks is what the live chains do                                    *)
(* (run_calibration, CorpusScriptedScoringLLM).                            *)
ReportSpeaksForItsCases ==
    LET corpus == load_benchmark_corpus
        report == run_calibration
    IN  /\ \A i \in DOMAIN corpus :
             /\ report.predicted[i] = final_scores(corpus[i].passes)
             /\ corpus[i].passes = <<corpus[i].human_scores, corpus[i].human_scores>>
                  => report.overall[i][1] = report.overall[i][2] /\ i \notin report.flagged
        /\ \A c \in CRITERION_ORDER :
             report.corpus_size - Len(report.criteria[c]) <= Cardinality(report.flagged)
        /\ FallbackForetold
==============================================================================
