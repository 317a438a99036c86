---------------------------- MODULE MCMapReduce ----------------------------
(* Small instances of MapReduce.                                           *)
EXTENDS MapReduce, TLC

MCKeys == 1 .. 3
MCValues == {"a", "b"}

\* Two partitions; the keys 1 and 3 share the first one.
MCPartition == [k \in MCKeys |-> IF k = 2 THEN 1 ELSE 0]

Pair(k, v) == [key |-> k, value |-> v]

\* The pairs of up to three files: keys in and out of order, a key that two
\* files share, a pair that is emitted twice, arrays that are just filled, an
\* empty file, no file.
MCInputs ==
    { << <<Pair(3, "a"), Pair(1, "a")>>, <<Pair(1, "b"), Pair(3, "b")>> >>,
      << <<Pair(2, "a"), Pair(2, "a")>>, <<>>, <<Pair(1, "a")>> >>,
      << <<Pair(1, "a")>>, <<Pair(1, "a")>>, <<Pair(1, "b"), Pair(2, "b")>> >>,
      << <<Pair(3, "a"), Pair(1, "a")>>, <<Pair(1, "b"), Pair(2, "a")>>,
         <<Pair(2, "b"), Pair(3, "b")>> >>,
      << >> }

MCTooManyFiles == { << <<>>, <<>>, <<>>, <<Pair(1, "a")>> >> }

\* More pairs than all_data has slots, more than the first partition has.
MCTooManyPairs ==
    { << <<Pair(1, "a"), Pair(2, "a"), Pair(2, "b"), Pair(2, "a")>>,
         <<Pair(3, "a"), Pair(2, "b"), Pair(1, "b")>> >>,
      << <<Pair(1, "a"), Pair(3, "a"), Pair(1, "b")>>,
         <<Pair(1, "a"), Pair(3, "b")>> >> }

MCAllInputs == MCInputs \cup MCTooManyFiles \cup MCTooManyPairs
=============================================================================
