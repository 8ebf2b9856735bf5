------------------------------- MODULE Loops --------------------------------
(* How the worker's Python goes through its lists. *)
EXTENDS Integers, Sequences, FiniteSetsExt, SequencesExt

(* sum of f's values *)
sum(f) == MapThenSumSet(LAMBDA x : f[x], DOMAIN f)

(* A loop that appends those terms of s that are in V. *)
Those(s, V) == FoldLeft(LAMBDA kept, x : IF x \in V THEN Append(kept, x) ELSE kept, <<>>, s)

(* The positions in the order of their keys, equal keys as they come. *)
sorted(keys) ==
    CHOOSE order \in [DOMAIN keys -> DOMAIN keys] :
        \A i, j \in DOMAIN keys : i < j =>
            \/ keys[order[i]] < keys[order[j]]
            \/ keys[order[i]] = keys[order[j]] /\ order[i] < order[j]
=============================================================================
