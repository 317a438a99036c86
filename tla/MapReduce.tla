----------------------------- MODULE MapReduce -----------------------------
(***************************************************************************)
(* concurrency-mapreduce/mapreduce.c: MR_Run starts a mapper thread per    *)
(* file, joins them, distributes the emitted pairs over sorted partitions, *)
(* and starts a reducer thread per partition.                              *)
(*                                                                         *)
(* The user's functions are parameters: Map is reduced to the pairs it     *)
(* emits for a file; Reduce calls get_next until it returns NULL or, if    *)
(* early_return, may return once it has got a value.  Keys are numbers, in  *)
(* the order strcmp puts them.                                             *)
(***************************************************************************)
EXTENDS Integers, Sequences, SequencesExt, FiniteSets

CONSTANTS Keys,          \* the keys that Map emits
          Values,        \* the values that Map emits
          Inputs,        \* command lines: for each file, the pairs Map emits
          num_mappers, num_reducers,
          MaxPairs,      \* slots of all_data, 1000000 in the code
          MaxInPartition, \* slots of each part_data, 100000 in the code
          partition,     \* the partition number of each key
          NoMapper       \* nobody holds the mutex

Pairs == [key : Keys, value : Values]
Partitions == 0 .. num_reducers - 1

ASSUME KeysAssumption == Keys \subseteq Nat
ASSUME InputsAssumption == Inputs \subseteq Seq(Seq(Pairs))
ASSUME MappersAssumption == num_mappers \in Nat
ASSUME ReducersAssumption == num_reducers \in Nat \ {0}
ASSUME SizesAssumption == MaxPairs \in Nat /\ MaxInPartition \in Nat
ASSUME PartitionAssumption == partition \in [Keys -> Partitions]
ASSUME NoMapperAssumption == NoMapper \notin Nat

VARIABLES
    files,               \* the pairs of each file of the command line
    early_return,        \* may Reduce return before get_next returns NULL?
    phase,               \* MR_Run: "start", "map", "partition", "reduce",
                         \* "done", "exit1", or "undefined" after a write
                         \* beyond the end of an array
    mpc,                 \* each mapper: "map", "store", "count" or "done"
    emitted,             \* how many pairs each mapper has emitted
    mutex,               \* the mapper that holds the mutex
    all_data, map_count, \* the shared array and the slots of it in use
    next_data,           \* the loop variable of the partition loop
    part_data,           \* each partition's sorted list, part_num long
    part_count,          \* how many of its pairs get_next has returned
    rpc,                 \* each reducer: "loop", "reduce" or "done"
    calls                \* each partition's Reduce calls so far: the key and
                         \* the values get_next has returned to it

mapping == <<mpc, emitted, mutex, all_data, map_count>>
reducing == <<part_count, rpc, calls>>
program == <<files, early_return>>
vars == <<program, phase, mapping, next_data, part_data, reducing>>

Mappers == 1 .. Len(files)

-----------------------------------------------------------------------------
(* A definition whose name ends in _Something is a variant with a seeded   *)
(* fault; the specification does not use it.  It shows that a property     *)
(* would notice such a fault.                                              *)

MR_Sortadd_NotStable(list, pair) ==     \* fault: moves past equal keys
    LET stops == {n \in 1 .. Len(list) : list[n].key < pair.key} \cup {0}
    IN  InsertAt(list, Max(stops) + 1, pair)

MR_Sortadd_Appends(list, pair) ==       \* fault: does not sort
    Append(list, pair)

\* MR_Sortadd: the new pair moves down from the end until its left neighbour
\* has no greater key.
MR_Sortadd(list, pair) ==
    LET stops == {n \in 1 .. Len(list) : list[n].key <= pair.key} \cup {0}
    IN  InsertAt(list, Max(stops) + 1, pair)

-----------------------------------------------------------------------------
Init ==
    /\ files \in Inputs
    /\ early_return \in BOOLEAN
    /\ phase = "start"
    /\ mpc = [m \in Mappers |-> "map"]
    /\ emitted = [m \in Mappers |-> 0]
    /\ mutex = NoMapper
    /\ all_data = <<>>
    /\ map_count = 0
    /\ next_data = 0
    /\ part_data = [p \in Partitions |-> <<>>]
    /\ part_count = [p \in Partitions |-> 0]
    /\ rpc = [p \in Partitions |-> "loop"]
    /\ calls = [p \in Partitions |-> <<>>]

\* MR_Run up to the creation of the mappers: it wants a mapper per file.
StartMappers ==
    /\ phase = "start"
    /\ IF Len(files) <= num_mappers
       THEN phase' = "map"
       ELSE phase' = "exit1"
    /\ UNCHANGED <<program, mapping, next_data, part_data, reducing>>

(* A mapper thread runs Map, which calls MR_Emit for each of its pairs.    *)

MutexFree_Always == TRUE                \* fault: the mutex is not taken

MutexFree == mutex = NoMapper

\* The mapper threads have been created.
Mapping == phase \notin {"start", "exit1", "undefined"}

\* MR_Emit locks the mutex.
EmitLock(m) ==
    /\ Mapping /\ mpc[m] = "map" /\ emitted[m] < Len(files[m])
    /\ MutexFree
    /\ mutex' = m
    /\ mpc' = [mpc EXCEPT ![m] = "store"]
    /\ UNCHANGED <<program, phase, emitted, all_data, map_count, next_data,
                   part_data, reducing>>

\* A copy of the pair goes to the slot map_count, if there is one.
EmitStore(m) ==
    /\ Mapping /\ mpc[m] = "store"
    /\ LET pair == files[m][emitted[m] + 1] IN
       IF map_count = MaxPairs
       THEN phase' = "undefined" /\ UNCHANGED <<all_data, mpc>>
       ELSE /\ all_data' = IF map_count < Len(all_data)
                           THEN [all_data EXCEPT ![map_count + 1] = pair]
                           ELSE Append(all_data, pair)
            /\ mpc' = [mpc EXCEPT ![m] = "count"]
            /\ UNCHANGED phase
    /\ UNCHANGED <<program, emitted, mutex, map_count, next_data, part_data,
                   reducing>>

EmitUnlock_KeepsMutex(m) ==             \* fault: the mutex stays locked
    /\ Mapping /\ mpc[m] = "count"
    /\ map_count' = map_count + 1
    /\ emitted' = [emitted EXCEPT ![m] = @ + 1]
    /\ mpc' = [mpc EXCEPT ![m] = "map"]
    /\ UNCHANGED <<program, phase, mutex, all_data, next_data, part_data,
                   reducing>>

\* map_count++, and the mutex is unlocked.
EmitUnlock(m) ==
    /\ Mapping /\ mpc[m] = "count"
    /\ map_count' = map_count + 1
    /\ emitted' = [emitted EXCEPT ![m] = @ + 1]
    /\ mutex' = NoMapper
    /\ mpc' = [mpc EXCEPT ![m] = "map"]
    /\ UNCHANGED <<program, phase, all_data, next_data, part_data, reducing>>

\* Map returns.
MapReturns(m) ==
    /\ Mapping /\ mpc[m] = "map" /\ emitted[m] = Len(files[m])
    /\ mpc' = [mpc EXCEPT ![m] = "done"]
    /\ UNCHANGED <<program, phase, emitted, mutex, all_data, map_count,
                   next_data, part_data, reducing>>

(* MR_Run in the main thread.                                              *)

AllMapped_First ==                      \* fault: joins one mapper only
    mpc = <<>> \/ \E m \in Mappers : mpc[m] = "done"

\* pthread_join of every mapper returns.
AllMapped == \A m \in Mappers : mpc[m] = "done"

\* All mappers are joined, the partitions are allocated, empty.
JoinMappers ==
    /\ phase = "map"
    /\ AllMapped
    /\ phase' = "partition"
    /\ UNCHANGED <<program, mapping, next_data, part_data, reducing>>

\* One iteration of the loop over all_data.
PartitionPair ==
    /\ phase = "partition" /\ next_data < map_count
    /\ LET pair == all_data[next_data + 1]
           p == partition[pair.key]
       IN  IF Len(part_data[p]) = MaxInPartition
           THEN phase' = "undefined" /\ UNCHANGED <<part_data, next_data>>
           ELSE /\ part_data' = [part_data EXCEPT ![p] = MR_Sortadd(@, pair)]
                /\ next_data' = next_data + 1
                /\ UNCHANGED phase
    /\ UNCHANGED <<program, mapping, reducing>>

\* The reducer threads are created.
StartReducers ==
    /\ phase = "partition" /\ next_data = map_count
    /\ phase' = "reduce"
    /\ UNCHANGED <<program, mapping, next_data, part_data, reducing>>

\* All reducers are joined; two of the arrays are freed.
JoinReducers ==
    /\ phase = "reduce"
    /\ \A p \in Partitions : rpc[p] = "done"
    /\ phase' = "done"
    /\ UNCHANGED <<program, mapping, next_data, part_data, reducing>>

(* A reducer thread: MR_reduce, the user's Reduce, get_next.               *)

\* MR_reduce: while pairs are left, Reduce for the key of the next one.
CallReduce(p) ==
    /\ phase = "reduce" /\ rpc[p] = "loop"
    /\ \/ /\ part_count[p] < Len(part_data[p])
          /\ rpc' = [rpc EXCEPT ![p] = "reduce"]
          /\ calls' = [calls EXCEPT ![p] = Append(@,
                 [key |-> part_data[p][part_count[p] + 1].key,
                  values |-> <<>>])]
       \/ /\ part_count[p] >= Len(part_data[p])
          /\ rpc' = [rpc EXCEPT ![p] = "done"]
          /\ UNCHANGED calls
    /\ UNCHANGED <<program, phase, mapping, next_data, part_data, part_count>>

HasNext_AnyKey(p) ==                    \* fault: does not compare the key
    part_count[p] < Len(part_data[p])

\* get_next has a value for the key.
HasNext(p) ==
    /\ part_count[p] < Len(part_data[p])
    /\ part_data[p][part_count[p] + 1].key = Last(calls[p]).key

\* Reduce calls get_next and gets a value.
GetValue(p) ==
    /\ rpc[p] = "reduce" /\ HasNext(p)
    /\ LET value == part_data[p][part_count[p] + 1].value IN
       calls' = [calls EXCEPT ![p][Len(calls[p])].values = Append(@, value)]
    /\ part_count' = [part_count EXCEPT ![p] = @ + 1]
    /\ UNCHANGED <<program, phase, mapping, next_data, part_data, rpc>>

\* Reduce returns: get_next has returned NULL, or it does not want more.  (One
\* that never calls get_next would be called again and again.)
ReduceReturns(p) ==
    /\ rpc[p] = "reduce"
    /\ ~HasNext(p) \/ (early_return /\ Last(calls[p]).values # <<>>)
    /\ rpc' = [rpc EXCEPT ![p] = "loop"]
    /\ UNCHANGED <<program, phase, mapping, next_data, part_data, part_count,
                   calls>>

MapperStep(m) == EmitLock(m) \/ EmitStore(m) \/ EmitUnlock(m) \/ MapReturns(m)
MainStep == \/ StartMappers \/ JoinMappers \/ PartitionPair
            \/ StartReducers \/ JoinReducers
ReducerStep(p) == CallReduce(p) \/ GetValue(p) \/ ReduceReturns(p)

Next ==
    \/ StartMappers
    \/ \E m \in Mappers : MapperStep(m)
    \/ JoinMappers
    \/ PartitionPair
    \/ StartReducers
    \/ JoinReducers
    \/ \E p \in Partitions : ReducerStep(p)

Spec == Init /\ [][Next]_vars

\* Every thread that can run does; a mapper that waits for the mutex gets it
\* if it is free again and again.
Fairness ==
    /\ \A m \in 1 .. num_mappers :
           SF_vars(m \in Mappers /\ MapperStep(m))
    /\ WF_vars(MainStep)
    /\ \A p \in Partitions : WF_vars(ReducerStep(p))

FairSpec == Spec /\ Fairness

-----------------------------------------------------------------------------
(* Properties.                                                             *)

\* How often a sequence has an element.
Count(x, seq) == Cardinality({n \in DOMAIN seq : seq[n] = x})

\* The pairs a mapper has stored: one more than it has counted while it is
\* between the two.
StoredBy(m) ==
    SubSeq(files[m], 1, emitted[m] + (IF mpc[m] = "count" THEN 1 ELSE 0))

\* The values with a key, in the order of the list.
ValuesOf(key, list) ==
    FlattenSeq([n \in DOMAIN list |->
                   IF list[n].key = key THEN <<list[n].value>> ELSE <<>>])

\* Every variable has its type; the counters stay inside what they count.
TypeOK ==
    /\ files \in Inputs
    /\ early_return \in BOOLEAN
    /\ phase \in {"start", "map", "partition", "reduce", "done", "exit1",
                  "undefined"}
    /\ mpc \in [Mappers -> {"map", "store", "count", "done"}]
    /\ emitted \in [Mappers -> Nat]
    /\ mutex \in Mappers \cup {NoMapper}
    /\ all_data \in Seq(Pairs)
    /\ map_count \in 0 .. Len(all_data)
    /\ next_data \in 0 .. map_count
    /\ part_data \in [Partitions -> Seq(Pairs)]
    /\ part_count \in [Partitions -> Nat]
    /\ \A p \in Partitions : part_count[p] <= Len(part_data[p])
    /\ rpc \in [Partitions -> {"loop", "reduce", "done"}]
    /\ calls \in [Partitions -> Seq([key : Keys, values : Seq(Values)])]

\* The mutex keeps the mappers out of each other's way in MR_Emit: a pair is
\* in all_data as often as the mappers have stored it, whatever the order in
\* which they run; none is lost or overwritten, and map_count counts them.
EmitsAreKept ==
    /\ \A pair \in Pairs :
          Count(pair, all_data)
            = Cardinality({c \in Mappers \X (1 .. Len(all_data)) :
                  /\ c[2] <= Len(StoredBy(c[1]))
                  /\ StoredBy(c[1])[c[2]] = pair})
    /\ map_count = Len(all_data)
                     - Cardinality({m \in Mappers : mpc[m] = "count"})

\* get_next gives out a partition's values once each and in order, each to a
\* Reduce call for its own key, also if Reduce does not take them all.
ValuesGoToTheirKey ==
    \A p \in Partitions :
        FlattenSeq([n \in DOMAIN calls[p] |->
            [k \in DOMAIN calls[p][n].values |->
                [key |-> calls[p][n].key, value |-> calls[p][n].values[k]]]])
          = SubSeq(part_data[p], 1, part_count[p])

\* In the files are more pairs than all_data has slots for, or more for some
\* partition than that has.
TooManyPairs ==
    LET all == FlattenSeq(files) IN
    \/ Len(all) > MaxPairs
    \/ \E p \in Partitions :
          Cardinality({n \in DOMAIN all : partition[all[n].key] = p})
              > MaxInPartition

\* When MR_Run returns, all pairs of the files have been emitted, and every
\* key that was emitted has been reduced with all its values, in the order they
\* were emitted in, in its own partition and in no other; and keys came in
\* ascending order, each once, unless Reduce did not take all the values and
\* was called again.  MR_Run does not get that far, but
\* writes beyond an array, only if the pairs are too many for the arrays.
AllReduced ==
    /\ phase = "undefined" => TooManyPairs
    /\ phase = "done" => \A m \in Mappers : emitted[m] = Len(files[m])
    /\ phase = "done" =>
        \A p \in Partitions :
            /\ \A key \in Keys :
                  FlattenSeq([n \in DOMAIN calls[p] |->
                      IF calls[p][n].key = key THEN calls[p][n].values
                                               ELSE <<>>])
                    = IF partition[key] = p THEN ValuesOf(key, all_data)
                                            ELSE <<>>
            /\ \A n \in 1 .. Len(calls[p]) - 1 :
                  \/ calls[p][n].key < calls[p][n + 1].key
                  \/ early_return /\ calls[p][n].key = calls[p][n + 1].key

\* MR_Run gets done.
Terminates == <>(phase \in {"done", "exit1", "undefined"})
=============================================================================
