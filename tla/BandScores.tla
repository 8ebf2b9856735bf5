----------------------------- MODULE BandScores -----------------------------
(***************************************************************************)
(* What the worker makes of the judge's bands: the reconciliation of two   *)
(* passes (reconciliation.py) and, over a corpus, their agreement with     *)
(* human raters (calibration_metrics.py, calibration_report.py).           *)
(*                                                                         *)
(* A band is counted in half bands, 0 to 18.  Pure functions: the          *)
(* variables are their input.                                              *)
(***************************************************************************)
EXTENDS Integers, Sequences, FiniteSets, FiniteSetsExt, SequencesExt, Loops

CONSTANTS
    CRITERION_ORDER, \* the criteria
    Bands,           \* the bands that are given
    Threshold,       \* reconciliation threshold
    MaxCases         \* bound: cases of a corpus

ASSUME BandAssumption ==
    /\ IsFiniteSet(CRITERION_ORDER) /\ CRITERION_ORDER # {}
    /\ Bands \subseteq 0 .. 18 /\ Threshold \in Nat

VARIABLES
    passes, \* the two passes: what each gives to the criteria it scores
    series  \* of one criterion: the reconciled bands beside the human ones

bandVars == <<passes, series>>

----------------------------------------------------------------------------
(* Reconciliation *)

(* Python's round(n / d): to the nearest, a tie to the even one. *)
Round(n, d) ==
    LET q == n \div d  r == 2 * (n % d)
    IN  IF r < d \/ (r = d /\ q % 2 = 0) THEN q ELSE q + 1

Diff(a, b) == IF a < b THEN b - a ELSE a - b

Scored(pair) == DOMAIN pair[1] \cap DOMAIN pair[2]

(* final_scores: the average of the two, which is kept when it is flagged. *)
final_scores(pair) == [c \in Scored(pair) |-> Round(pair[1][c] + pair[2][c], 2)]

flagged_criteria(pair) ==
    {c \in CRITERION_ORDER : c \notin Scored(pair) \/ Diff(pair[1][c], pair[2][c]) > Threshold}

(* Mutated form: a criterion left out counts as a zero. *)
OverallOfAll(pair) ==
    LET final == final_scores(pair)
    IN  IF Scored(pair) = {} THEN 0
        ELSE Round(sum(final), Cardinality(CRITERION_ORDER))

(* The average of the criteria that both passes score. *)
overall_band(pair) ==
    LET final == final_scores(pair)
    IN  IF Scored(pair) = {} THEN 0
        ELSE Round(sum(final), Cardinality(Scored(pair)))

----------------------------------------------------------------------------
(* Agreement *)

preds == [i \in DOMAIN series |-> series[i][1]]
golds == [i \in DOMAIN series |-> series[i][2]]

(* _average_ranks, doubled: the ends of the stretch of equal values in the *)
(* sorted order, added.                                                    *)
_average_ranks(values) ==
    LET order == sorted(values)
        stretch(i) == {k \in DOMAIN order : values[order[k]] = values[i]}
    IN  [i \in DOMAIN values |-> Min(stretch(i)) + Max(stretch(i))]

(* quadratic_weighted_kappa, from the histograms of the classes.  The      *)
(* result is <<numerator, denominator>>, or <<>> for None.                 *)
Class == 0 .. 18
Hist(values) == [c \in Class |-> Cardinality({i \in DOMAIN values : values[i] = c})]

(* Mutated form: the penalty grows with the distance, not its square. *)
LinearKappa(ps, gs) ==
    LET n == Len(ps)  hp == Hist(ps)  hg == Hist(gs)
        numerator == n * sum([i \in 1 .. n |-> Diff(ps[i], gs[i])])
        expected == [i \in Class |-> sum([j \in Class |-> hg[j] * Diff(i, j)])]
        denominator == sum([i \in Class |-> hp[i] * expected[i]])
    IN  IF n = 0 \/ denominator = 0 THEN <<>> ELSE <<denominator - numerator, denominator>>

Square(a, b) == (a - b) * (a - b)

quadratic_weighted_kappa(ps, gs) ==
    LET n == Len(ps)  hp == Hist(ps)  hg == Hist(gs)
        numerator == n * sum([i \in 1 .. n |-> Square(ps[i], gs[i])])
        expected == [i \in Class |-> sum([j \in Class |-> hg[j] * Square(i, j)])]
        denominator == sum([i \in Class |-> hp[i] * expected[i]])
    IN  IF n = 0 \/ denominator = 0 THEN <<>> ELSE <<denominator - numerator, denominator>>

(* agreement_rate, times the number of pairs *)
agreement(tolerance) == Cardinality({i \in DOMAIN series : Diff(preds[i], golds[i]) <= tolerance})

----------------------------------------------------------------------------
(* Inputs *)

Pass == UNION {[cs -> Bands] : cs \in SUBSET CRITERION_ORDER}

BandInit == passes = <<>> /\ series = <<>>

(* synthesize_band_scores and run_calibration ask the judge twice. *)
Judged ==
    /\ passes = <<>> /\ series = <<>>
    /\ passes' \in Pass \X Pass
    /\ UNCHANGED series

(* run_calibration: another case in which both passes score the criterion. *)
Compared ==
    /\ passes = <<>> /\ Len(series) < MaxCases
    /\ \E p, g \in Bands : series' = Append(series, <<p, g>>)
    /\ UNCHANGED passes

BandNext == Judged \/ Compared

BandSpec == BandInit /\ [][BandNext]_bandVars

----------------------------------------------------------------------------
(* Properties *)

(* Rounding to even, twice over, does nobody an injustice: a band lies     *)
(* between the passes', the overall band between the criteria's, swapping  *)
(* the passes changes nothing, and a better band in one pass makes the     *)
(* overall band no worse (self_consistency_reconciliation, _round_to_half).*)
ReconciledFairly ==
    passes # <<>> =>
        LET final == final_scores(passes)
            values == {final[c] : c \in Scored(passes)}
            swapped == <<passes[2], passes[1]>>
        IN  /\ \A c \in Scored(passes) : LET both == {passes[1][c], passes[2][c]} IN
                 /\ Min(both) <= final[c] /\ final[c] <= Max(both)
                 /\ overall_band(<<[passes[1] EXCEPT ![c] = @ + 1], passes[2]>>)
                      >= overall_band(passes)
            /\ values # {} => /\ Min(values) <= overall_band(passes)
                              /\ overall_band(passes) <= Max(values)
            /\ overall_band(swapped) = overall_band(passes)
            /\ flagged_criteria(swapped) = flagged_criteria(passes)

(* Ranks follow the values, equal values share one, and all ranks together *)
(* are those of the positions.  Kappa is one exactly where judge and rater *)
(* agree throughout, symmetric, and what the pairs of cases, without       *)
(* classes, say it is: one less the squared distance within cases over     *)
(* that across cases.  It is None exactly if there is no distance across   *)
(* cases (_average_ranks, quadratic_weighted_kappa, agreement_rate).       *)
AgreementMeasured ==
    LET ranks == _average_ranks(preds)
        kappa == quadratic_weighted_kappa(preds, golds)
        n == Len(series)
        within == n * sum([i \in 1 .. n |-> Square(preds[i], golds[i])])
        across == sum([i \in 1 .. n |-> sum([j \in 1 .. n |-> Square(preds[i], golds[j])])])
    IN  /\ \A i, j \in 1 .. n : preds[i] < preds[j] <=> ranks[i] < ranks[j]
        /\ sum(ranks) = n * (n + 1)
        /\ kappa = quadratic_weighted_kappa(golds, preds)
        /\ IF across = 0 THEN kappa = <<>> ELSE kappa = <<across - within, across>>
        /\ kappa # <<>> => (kappa[1] = kappa[2] <=> agreement(0) = n)
============================================================================
