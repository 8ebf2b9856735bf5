------------------------- MODULE TranscriptEvidence -------------------------
(***************************************************************************)
(* What the worker reckons from an exam's recorded answers: the stitched   *)
(* timeline (tasks/media.py), the words filed under their turns            *)
(* (tasks/asr.py, nlp_common.py), and the counts behind the fluency and    *)
(* grammar figures (tasks/nlp/fluency.py, tasks/nlp/grammar.py).           *)
(*                                                                         *)
(* Pure functions: the variables are their input, which grows word by      *)
(* word so that every small input is reached.  Times are milliseconds.     *)
(* The figures are ratios of the counts modelled here.                     *)
(***************************************************************************)
EXTENDS Integers, Sequences, FiniteSets, SequencesExt, FiniteSetsExt, Loops

CONSTANTS
    Phases,     \* exam phases in which the candidate answers
    Lengths,    \* how long an answer may be
    Gaps,       \* how long a silence between two words may be
    Vocabulary, \* words
    WordLength, \* how long a word is
    MaxAnswers, \* bound
    MaxWords,   \* bound
    MaxTokens   \* bound: tokens of a parsed chunk

(* Times are not negative, and a word takes some: no two start together,   *)
(* and the order that ORDER BY leaves open for equal starts is not met.    *)
ASSUME EvidenceAssumption ==
    Lengths \subseteq Nat /\ Gaps \subseteq Nat /\ WordLength \in Nat \ {0}

VARIABLES
    answers, \* audio_segments in the order of created_at: [phase, ms]
    heard,   \* WordResults of the transcription: [word, start, end]
    doc      \* a chunk as spaCy parses it: tokens [dep, head, subject]

evidenceVars == <<answers, heard, doc>>

----------------------------------------------------------------------------
(* finalize_media and _turn_id_for_offset *)

Total(seq) == FoldLeft(+, 0, seq)

(* turn_boundaries, one for each answer in the order they are stitched. *)
turn_boundaries ==
    [i \in DOMAIN answers |->
        LET offset_ms == Total([k \in 1 .. i - 1 |-> answers[k].ms])
        IN  [start |-> offset_ms, end |-> offset_ms + answers[i].ms]]

(* Mutated form: the end of an answer belongs to it. *)
TurnUpTo(bounds, at) ==
    LET inside == {i \in DOMAIN bounds : bounds[i].start <= at /\ at <= bounds[i].end}
    IN  IF inside # {} THEN Min(inside) ELSE Len(bounds)

(* The answer a word is filed under: the first whose interval holds its    *)
(* start, the last one if none does.                                       *)
_turn_id_for_offset(bounds, at) ==
    LET inside == {i \in DOMAIN bounds : bounds[i].start <= at /\ at < bounds[i].end}
    IN  IF inside # {} THEN Min(inside) ELSE Len(bounds)

(* The transcript of _persist_words: each word with its turn, and its      *)
(* place in the turn.                                                      *)
_persist_words(bounds, words) ==
    LET turn == [k \in DOMAIN words |-> _turn_id_for_offset(bounds, words[k].start)]
    IN  [k \in DOMAIN words |->
          [turn |-> turn[k], word |-> words[k].word,
           seq |-> Cardinality({m \in 1 .. k - 1 : turn[m] = turn[k]}),
           start |-> words[k].start, end |-> words[k].end]]

_PHASE_BUCKETS(phase) ==
    CASE phase \in {"PART1_TOPIC_A", "PART1_TOPIC_B", "PART1_TOPIC_C"} -> "part1"
      [] phase \in {"PART2_LONG_TURN", "PART2_ROUNDOFF"} -> "part2"
      [] phase = "PART3_DISCUSSION" -> "part3"
      [] OTHER -> "none"

PHASE_BUCKET_ORDER == <<"part1", "part2", "part3">>

(* load_words_by_phase: the words of each part, ordered by their start. *)
load_words_by_phase ==
    LET transcript == _persist_words(turn_boundaries, heard)
        order == sorted([k \in DOMAIN heard |-> heard[k].start])
        rows == [k \in DOMAIN heard |-> transcript[order[k]]]
        bucket == [k \in DOMAIN answers |-> _PHASE_BUCKETS(answers[k].phase)]
        part(i) == Those(rows, {w \in Range(rows) : bucket[w.turn] = PHASE_BUCKET_ORDER[i]})
    IN  <<part(1), part(2), part(3)>>

(* The session's words are those of its parts, part after part. *)
session_words(parts) == parts[1] \o parts[2] \o parts[3]

(* tasks/pronunciation.py has a table of its own, of what it scores. *)
SCOREABLE_BUCKETS ==
    [PART1_TOPIC_A |-> "part1", PART1_TOPIC_B |-> "part1", PART1_TOPIC_C |-> "part1",
     PART2_LONG_TURN |-> "part2", PART2_ROUNDOFF |-> "part2", PART3_DISCUSSION |-> "part3"]

(* What the pronunciation of an answer is scored against: its words. *)
reference_texts ==
    LET rows == _persist_words(turn_boundaries, heard)
    IN  [k \in {m \in DOMAIN answers : answers[m].phase \in DOMAIN SCOREABLE_BUCKETS} |->
            LET words == Those(rows, {w \in Range(rows) : w.turn = k})
            IN  [i \in DOMAIN words |-> words[i].word]]

----------------------------------------------------------------------------
(* Chunks and pauses *)

MICRO_PAUSE_FLOOR == 300
CHUNKING_PAUSE_THRESHOLD == 600
MACRO_PAUSE_FLOOR == 1000

Gap(ws, k) == ws[k + 1].start - ws[k].end
NewTurn(ws, k) == ws[k + 1].turn # ws[k].turn

(* Mutated form: a gap of just the threshold does not end a chunk. *)
ChunksOfLongerGaps(ws, threshold) ==
    FoldLeft(LAMBDA chunks, k :
               IF NewTurn(ws, k) \/ Gap(ws, k) > threshold
               THEN Append(chunks, <<ws[k + 1]>>)
               ELSE [chunks EXCEPT ![Len(chunks)] = Append(@, ws[k + 1])],
             IF ws = <<>> THEN <<>> ELSE << <<ws[1]>> >>,
             [k \in 1 .. Len(ws) - 1 |-> k])

segment_into_utterances(ws, threshold) ==
    FoldLeft(LAMBDA chunks, k :
               IF NewTurn(ws, k) \/ Gap(ws, k) >= threshold
               THEN Append(chunks, <<ws[k + 1]>>)
               ELSE [chunks EXCEPT ![Len(chunks)] = Append(@, ws[k + 1])],
             IF ws = <<>> THEN <<>> ELSE << <<ws[1]>> >>,
             [k \in 1 .. Len(ws) - 1 |-> k])

(* Mutated form: a new turn can follow a pause. *)
PausesBetweenAnyWords(ws) == {k \in 1 .. Len(ws) - 1 : Gap(ws, k) >= MICRO_PAUSE_FLOOR}

(* The places after which there is a pause. *)
_detect_pauses(ws) ==
    {k \in 1 .. Len(ws) - 1 : ~NewTurn(ws, k) /\ Gap(ws, k) >= MICRO_PAUSE_FLOOR}

(* compute_grammar_metrics: the chunks that are parsed, each for itself.   *)
parsed_chunks(ws) == segment_into_utterances(ws, CHUNKING_PAUSE_THRESHOLD)

(* Pauses at a boundary between chunks, whatever the parse of the chunks   *)
(* says; the parse decides on the others.                                  *)
_classify_pause_placement(ws, pauses) ==
    {k \in pauses : Gap(ws, k) >= CHUNKING_PAUSE_THRESHOLD}

----------------------------------------------------------------------------
(* Words *)

FILLED_PAUSES == {"um", "umm", "uh", "uhh", "erm", "er", "hmm", "like"}
FILLED_PAUSE_BIGRAMS == {<<"you", "know">>}

Pairs(ws) == {k \in 1 .. Len(ws) - 1 : TRUE}

_filled_pause_count(ws) ==
    Cardinality({k \in DOMAIN ws : ws[k].word \in FILLED_PAUSES})
      + Cardinality({k \in Pairs(ws) : <<ws[k].word, ws[k + 1].word>> \in FILLED_PAUSE_BIGRAMS})

(* The repetitions of _self_repair_count: a word said twice in a row. *)
_self_repair_count(ws) == Cardinality({k \in Pairs(ws) : ws[k].word = ws[k + 1].word})

(* _metrics_for_words: the counts its ratios are made of. *)
Turns(ws) == {ws[k].turn : k \in DOMAIN ws}
_metrics_for_words(ws) ==
    LET pauses == _detect_pauses(ws)
        first(t) == Min({ws[k].start : k \in {m \in DOMAIN ws : ws[m].turn = t}})
        last(t) == Max({ws[k].end : k \in {m \in DOMAIN ws : ws[m].turn = t}})
    IN [total_words |-> Len(ws),
        phonation |-> Total([k \in DOMAIN ws |-> ws[k].end - ws[k].start]),
        total_turn_duration |-> sum([t \in Turns(ws) |-> last(t) - first(t)]),
        pauses |-> Cardinality(pauses),
        macro_pauses |-> Cardinality({k \in pauses : Gap(ws, k) >= MACRO_PAUSE_FLOOR}),
        runs |-> Len(segment_into_utterances(ws, MICRO_PAUSE_FLOOR)),
        filled |-> _filled_pause_count(ws),
        repairs |-> _self_repair_count(ws)]

----------------------------------------------------------------------------
(* T-units *)

ConjWithSubject(t) == doc[t].dep = "conj" /\ doc[t].subject

(* Mutated form: the document is gone through once. *)
OnePass ==
    FoldLeft(LAMBDA found, t : IF ConjWithSubject(t) /\ doc[t].head \in found
                               THEN found \cup {t} ELSE found,
             {t \in DOMAIN doc : doc[t].dep = "ROOT"}, [t \in DOMAIN doc |-> t])

(* t_unit_heads of _count_tunits_and_clauses: roots, and then, pass after  *)
(* pass until one changes nothing, coordinate clauses of a head that have  *)
(* a subject of their own.                                                 *)
t_unit_heads ==
    LET pass(heads) ==
          FoldLeft(LAMBDA found, t : IF ConjWithSubject(t) /\ doc[t].head \in found
                                     THEN found \cup {t} ELSE found,
                   heads, [t \in DOMAIN doc |-> t])
        after[n \in 0 .. Len(doc)] ==
          IF n = 0 THEN {t \in DOMAIN doc : doc[t].dep = "ROOT"} ELSE pass(after[n - 1])
    IN  after[Len(doc)]

----------------------------------------------------------------------------
(* Inputs *)

EvidenceInit == answers = <<>> /\ heard = <<>> /\ doc = <<>>

(* An answer is flushed. *)
Flushed ==
    /\ heard = <<>> /\ doc = <<>> /\ Len(answers) < MaxAnswers
    /\ \E p \in Phases, ms \in Lengths : answers' = Append(answers, [phase |-> p, ms |-> ms])
    /\ UNCHANGED <<heard, doc>>

(* The transcription has another word, after the last one. *)
Heard ==
    /\ answers # <<>> /\ Len(heard) < MaxWords
    /\ \E w \in Vocabulary, g \in Gaps :
       LET at == g + (IF heard = <<>> THEN 0 ELSE Last(heard).end)
       IN  heard' = Append(heard, [word |-> w, start |-> at, end |-> at + WordLength])
    /\ UNCHANGED <<answers, doc>>

(* spaCy's parse has another token.  A root is its own head. *)
Parsed ==
    /\ answers = <<>> /\ Len(doc) < MaxTokens
    /\ \E dep \in {"ROOT", "conj", "advcl"}, head \in 1 .. MaxTokens, subject \in BOOLEAN :
       /\ dep = "ROOT" <=> head = Len(doc) + 1
       /\ doc' = Append(doc, [dep |-> dep, head |-> head, subject |-> subject])
    /\ UNCHANGED <<answers, heard>>

EvidenceNext == Flushed \/ Heard \/ Parsed

EvidenceSpec == EvidenceInit /\ [][EvidenceNext]_evidenceVars

----------------------------------------------------------------------------
(* Properties *)

(* The words go to the turns in the order of the audio, each numbered from *)
(* 0 without a gap in its turn, as uq_transcript's key needs, and a turn   *)
(* without audio gets none, unless it is the last                          *)
(* (finalize_media, _turn_id_for_offset, _persist_words).                  *)
WordsFollowTheAudio ==
    LET rows == _persist_words(turn_boundaries, heard) IN
    /\ \A k, m \in DOMAIN rows : k < m =>
          \/ rows[k].turn < rows[m].turn
          \/ rows[k].turn = rows[m].turn /\ rows[m].seq = rows[k].seq + m - k
    /\ \A k \in DOMAIN rows :
          /\ rows[k].turn < Len(answers) => answers[rows[k].turn].ms > 0
          /\ rows[k].seq > 0 => k > 1 /\ rows[k - 1].turn = rows[k].turn

(* Runs and pauses, counted by two loops in two modules, agree: a run ends *)
(* at a pause or at the end of a turn and nowhere else; a pause of at      *)
(* least the chunking threshold ends a chunk in its turn, as               *)
(* _classify_pause_placement takes for granted; and what is parsed of the  *)
(* session is what is parsed of its parts, so that T-units and clauses add *)
(* up (segment_into_utterances, _detect_pauses, compute_grammar_metrics).  *)
PausesBreakRuns ==
    LET parts == load_words_by_phase IN
    /\ parsed_chunks(session_words(parts)) = FlattenSeq([i \in 1 .. 3 |-> parsed_chunks(parts[i])])
    /\ \A ws \in Range(parts) \cup {session_words(parts)} :
        LET runs == segment_into_utterances(ws, MICRO_PAUSE_FLOOR)
            chunks == parsed_chunks(ws)
            placed == _classify_pause_placement(ws, _detect_pauses(ws))
        IN  /\ Len(runs) = Cardinality(_detect_pauses(ws)) + Cardinality(Turns(ws))
            /\ Len(chunks) = Cardinality(placed) + Cardinality(Turns(ws))
            /\ FlattenSeq(runs) = ws /\ FlattenSeq(chunks) = ws

(* The session's figures are made of those of its parts: words, speaking   *)
(* time, pauses and runs add up, so that no pause spans two parts.  Filled *)
(* pauses and repairs, matched on neighbouring words whoever spoke in      *)
(* between, can only be more, by one for each seam between parts.          *)
(* Pronunciation, which loads the words by itself, has of each answer what *)
(* its part has (_metrics_for_words, compute_fluency_metrics,              *)
(* _load_scoreable_segments).                                              *)
PartsMakeTheSession ==
    LET words == load_words_by_phase
        parts == <<_metrics_for_words(words[1]), _metrics_for_words(words[2]),
                   _metrics_for_words(words[3])>>
        session == _metrics_for_words(session_words(words))
        seams == Max({0, Cardinality({i \in 1 .. 3 : parts[i].total_words > 0}) - 1})
    IN  /\ \A f \in DOMAIN session \ {"filled", "repairs"} :
              session[f] = Total([i \in 1 .. 3 |-> parts[i][f]])
        /\ \A f \in {"filled", "repairs"} :
              session[f] - Total([i \in 1 .. 3 |-> parts[i][f]]) \in 0 .. seams
        /\ session.phonation <= session.total_turn_duration
        /\ \A k \in DOMAIN answers :
              LET said == [i \in 1 .. 3 |-> Those(words[i], {w \in Range(words[i]) : w.turn = k})]
              IN  IF k \in DOMAIN reference_texts
                  THEN \E i \in 1 .. 3 :
                         /\ PHASE_BUCKET_ORDER[i] = SCOREABLE_BUCKETS[answers[k].phase]
                         /\ reference_texts[k] = [n \in DOMAIN said[i] |-> said[i][n].word]
                         /\ \A j \in 1 .. 3 : j # i => said[j] = <<>>
                  ELSE \A i \in 1 .. 3 : said[i] = <<>>

(* A clause counts as a T-unit exactly if a chain of coordinations, each   *)
(* with a subject of its own, leads from it to a root, in whatever order   *)
(* the tokens come (_count_tunits_and_clauses).                            *)
LeadsToRoot(t) ==
    \E chain \in UNION {[1 .. n -> DOMAIN doc] : n \in DOMAIN doc} :
        /\ chain[1] = t /\ doc[Last(chain)].dep = "ROOT"
        /\ \A i \in 1 .. Len(chain) - 1 :
              ConjWithSubject(chain[i]) /\ doc[chain[i]].head = chain[i + 1]
TUnitsLeadToRoot == t_unit_heads = {t \in DOMAIN doc : LeadsToRoot(t)}
============================================================================
