--------------------------- MODULE ConfidenceGates ---------------------------
(***************************************************************************)
(* When the worker turns from its first provider to the other: the chains  *)
(* of providers/transcription.py and providers/pronunciation.py, and the   *)
(* calibration's account of which cases they would have done so for        *)
(* (calibration_report.py).  A confidence is a whole number of hundredths. *)
(*                                                                         *)
(* Pure functions: the variable is their input.                            *)
(***************************************************************************)
EXTENDS Integers, Sequences, FiniteSets, SequencesExt

CONSTANTS
    Confidence,     \* confidences of a word or of a segment
    Floor,          \* transcription_confidence_floor, pronunciation_confidence_floor
    MaxRecognized,  \* bound: words of a recording
    MaxRecordings   \* bound: cases

ASSUME GatesAssumption == Confidence \subseteq Nat /\ Floor \in Nat

VARIABLE recordings \* what the first providers make of each case's recording

----------------------------------------------------------------------------

(* What a provider answers is a set: empty when it raises. *)

(* _average_confidence, as <<sum, length>>, against the floor. *)
_average_confidence(words) == <<FoldLeft(+, 0, words), Len(words)>>
Below(average) == average[1] < Floor * average[2]

(* transcribe_with_fallback: whose transcript is taken.  The second        *)
(* provider may raise in its turn, and then the task does.                 *)
transcribe_with_fallback(answer) ==
    IF \E words \in answer : words # <<>> /\ ~Below(_average_confidence(words))
    THEN "deepgram" ELSE "whisperx"

(* assess_with_fallback, for one segment. *)
assess_with_fallback(answer, low_snr_flag) ==
    IF \E confidence \in answer : confidence >= Floor /\ ~low_snr_flag
    THEN "azure" ELSE "fallback_gop"

----------------------------------------------------------------------------
(* The dry run over a corpus, which has of each case the confidences that  *)
(* were reported for it, or none.                                          *)

asr_word_confidence(r) == {_average_confidence(words) : words \in r.words \ {<<>>}}
pronunciation_confidence(r) == r.confidence

fallback_gating_dry_run ==
    [asr |-> {i \in DOMAIN recordings :
                \E average \in asr_word_confidence(recordings[i]) : Below(average)},
     pronunciation |-> {i \in DOMAIN recordings :
                \E confidence \in pronunciation_confidence(recordings[i]) : confidence < Floor}]

----------------------------------------------------------------------------
(* Inputs *)

GatesInit == recordings = <<>>

Raised == {}

(* A case whose providers have answered or raised. *)
Recorded ==
    /\ Len(recordings) < MaxRecordings
    /\ \E words \in {Raised} \cup {{w} : w \in SeqOf(Confidence, MaxRecognized)},
          confidence \in {Raised} \cup {{c} : c \in Confidence}, low_snr_flag \in BOOLEAN :
         recordings' = Append(recordings,
             [words |-> words, confidence |-> confidence, low_snr_flag |-> low_snr_flag])

----------------------------------------------------------------------------
(* Properties *)

(* The dry run, which compares the other way round and an average it is    *)
(* given, names exactly the cases that fall back although the first        *)
(* provider had an answer; pronunciation falls back on a noisy segment     *)
(* besides, and both when there is no answer (fallback_gating_dry_run,     *)
(* transcribe_with_fallback, assess_with_fallback).                        *)
FallbackForetold ==
    \A i \in DOMAIN recordings :
        LET r == recordings[i]
            named == fallback_gating_dry_run
        IN  /\ transcribe_with_fallback(r.words) = "whisperx"
                 <=> i \in named.asr \/ r.words \subseteq {<<>>}
            /\ assess_with_fallback(r.confidence, r.low_snr_flag) = "fallback_gop"
                 <=> i \in named.pronunciation \/ r.confidence = {} \/ r.low_snr_flag
==============================================================================
