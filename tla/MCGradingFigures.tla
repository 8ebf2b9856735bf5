-------------------------- MODULE MCGradingFigures --------------------------
(* Every small input of the modules of pure functions, of one at a time.   *)
EXTENDS TranscriptEvidence, CalibrationReport

MCPhases == {"PART1_TOPIC_A", "PART2_LONG_TURN", "INTRO"}
MCLengths == {0, 700}
MCGaps == {0, 300, 600}
MCVocabulary == {"you", "know"}
MCBands == {11, 12, 13}
MCCorpusBands == {11, 14}
MCConfidence == {60, 70, 80}

MCInit == EvidenceInit /\ BandInit /\ CorpusInit /\ GatesInit
MCNext ==
    \/ /\ BandInit /\ CorpusInit /\ GatesInit
       /\ EvidenceNext
       /\ UNCHANGED <<bandVars, corpusVars, recordings>>
    \/ /\ EvidenceInit /\ CorpusInit /\ GatesInit
       /\ BandNext
       /\ UNCHANGED <<evidenceVars, corpusVars, recordings>>
    \/ /\ EvidenceInit /\ BandInit /\ GatesInit
       /\ CaseAdded
       /\ UNCHANGED <<evidenceVars, bandVars, recordings>>
    \/ /\ EvidenceInit /\ BandInit /\ CorpusInit
       /\ Recorded
       /\ UNCHANGED <<evidenceVars, bandVars, corpusVars>>
MCSpec == MCInit /\ [][MCNext]_<<evidenceVars, bandVars, corpusVars, recordings>>
=============================================================================
