--------------------------- MODULE MapReduceProofs ---------------------------
(***************************************************************************)
(* Proofs about MapReduce, for any inputs, any number of mappers and       *)
(* reducers, any partition function and any sizes of the arrays.           *)
(***************************************************************************)
EXTENDS MapReduce, SequenceLemmas

-----------------------------------------------------------------------------
(* The inductive invariant.                                                *)

CallType == [key : Keys, values : Seq(Values)]

\* The types, as the proofs use them.
Types ==
    /\ files \in Inputs
    /\ early_return \in BOOLEAN
    /\ phase \in {"start", "map", "partition", "reduce", "done", "exit1",
                  "undefined"}
    /\ mpc \in [Mappers -> {"map", "store", "count", "done"}]
    /\ emitted \in [Mappers -> Nat]
    /\ mutex \in Mappers \cup {NoMapper}
    /\ all_data \in Seq(Pairs)
    /\ map_count \in Nat
    /\ next_data \in 0 .. map_count
    /\ part_data \in [Partitions -> Seq(Pairs)]
    /\ part_count \in [Partitions -> Nat]
    /\ rpc \in [Partitions -> {"loop", "reduce", "done"}]
    /\ calls \in [Partitions -> Seq(CallType)]

\* A mapper is inside MR_Emit if and only if it holds the mutex.
OneHolder ==
    \A m \in Mappers : mpc[m] \in {"store", "count"} <=> mutex = m

\* map_count lags behind by the pair that has been stored last, until it is
\* counted.
Counting == \E m \in Mappers : mpc[m] = "count"

Counted == Len(all_data) = map_count + IF Counting THEN 1 ELSE 0

\* How far the mappers are.
Emits ==
    \A m \in Mappers :
        /\ emitted[m] <= Len(files[m])
        /\ mpc[m] \in {"store", "count"} => emitted[m] < Len(files[m])
        /\ mpc[m] = "done" => emitted[m] = Len(files[m])

\* The pairs that have been stored, by their mapper and number.
StoredCount(m) == emitted[m] + IF mpc[m] = "count" THEN 1 ELSE 0

Stored == {c \in Cells(files) : c[2] <= StoredCount(c[1])}

\* Of every kind of pair all_data has as many as the mappers have stored.
KindKept(kind) ==
    Cardinality({n \in DOMAIN all_data : all_data[n] \in kind})
      = Cardinality({c \in Stored : files[c[1]][c[2]] \in kind})

Kept == \A kind \in SUBSET Pairs : KindKept(kind)

\* What MR_Run's phases are for.
Phases ==
    /\ phase \in {"partition", "reduce", "done"} => AllMapped
    /\ phase \notin {"reduce", "done"} =>
           \A p \in Partitions :
               rpc[p] = "loop" /\ calls[p] = <<>> /\ part_count[p] = 0
    /\ phase \in {"reduce", "done"} => next_data = map_count
    /\ phase = "done" => \A p \in Partitions : rpc[p] = "done"
    /\ phase = "undefined" => TooManyPairs

\* A partition is sorted, and has the pairs of its keys that the partition
\* loop has come to, those with the same key in the order of all_data.
Taken == SubSeq(all_data, 1, next_data)

Sorted(list) ==
    \A i, j \in 1 .. Len(list) : i <= j => list[i].key <= list[j].key

Partitioned(p) ==
    /\ Sorted(part_data[p])
    /\ Len(part_data[p])
         = Cardinality({n \in 1 .. next_data : partition[all_data[n].key] = p})
    /\ \A key \in Keys :
           ValuesOf(key, part_data[p])
             = IF partition[key] = p THEN ValuesOf(key, Taken) ELSE <<>>

\* What the calls of Reduce have got is what get_next has moved past: all of
\* it, and for each key.
Given(p) == SubSeq(part_data[p], 1, part_count[p])

PairsOf(call) ==
    [k \in DOMAIN call.values |->
        [key |-> call.key, value |-> call.values[k]]]

PairLists(cs) == [n \in DOMAIN cs |-> PairsOf(cs[n])]

PairsOfCalls(cs) == FlattenSeq(PairLists(cs))

ValuesFor(key, call) == IF call.key = key THEN call.values ELSE <<>>

ValueLists(key, cs) == [n \in DOMAIN cs |-> ValuesFor(key, cs[n])]

ValuesOfCalls(key, cs) == FlattenSeq(ValueLists(key, cs))

Reduced(p) ==
    /\ part_count[p] <= Len(part_data[p])
    /\ PairsOfCalls(calls[p]) = Given(p)
    /\ \A key \in Keys : ValuesOfCalls(key, calls[p]) = ValuesOf(key, Given(p))

\* Keys do not go down from call to call, and stay only after an early return:
\* what get_next has not come to has no smaller key than the last call and,
\* if that has taken all it could, no equal one.
Ahead(p) ==
    /\ rpc[p] = "reduce" => calls[p] # <<>>
    /\ rpc[p] = "done" => part_count[p] = Len(part_data[p])
    /\ \A n \in 1 .. Len(calls[p]) - 1 :
           \/ calls[p][n].key < calls[p][n + 1].key
           \/ early_return /\ calls[p][n].key = calls[p][n + 1].key
    /\ calls[p] # <<>> =>
           \A i \in part_count[p] + 1 .. Len(part_data[p]) :
               \/ Last(calls[p]).key < part_data[p][i].key
               \/ /\ early_return \/ rpc[p] = "reduce"
                  /\ Last(calls[p]).key = part_data[p][i].key

Mapped == OneHolder /\ Counted /\ Emits /\ Kept

Inv ==
    /\ Types
    /\ Mapped
    /\ Phases
    /\ \A p \in Partitions : Partitioned(p) /\ Reduced(p) /\ Ahead(p)

-----------------------------------------------------------------------------
(* The values with a key.                                                  *)

\* ValuesOf flattens lists of one value or none.
OneByOne(key, list) ==
    [n \in DOMAIN list |->
        IF list[n].key = key THEN <<list[n].value>> ELSE <<>>]

LEMMA OneByOneType ==
    ASSUME NEW key, NEW list \in Seq(Pairs)
    PROVE  /\ OneByOne(key, list) \in Seq(Seq(Values))
           /\ Len(OneByOne(key, list)) = Len(list)
           /\ \A n \in 1 .. Len(list) :
                  OneByOne(key, list)[n] =
                      IF list[n].key = key THEN <<list[n].value>> ELSE <<>>
  <1>1. \A n \in 1 .. Len(list) :
            /\ list[n].value \in Values
            /\ (IF list[n].key = key THEN <<list[n].value>> ELSE <<>>)
                   \in Seq(Values)
    <2> TAKE n \in 1 .. Len(list)
    <2>1. list[n] \in Pairs
      OBVIOUS
    <2>2. list[n].value \in Values
      BY <2>1 DEF Pairs
    <2> QED BY <2>2
  <1>2. DOMAIN list = 1 .. Len(list) /\ Len(list) \in Nat
    OBVIOUS
  <1>3. OneByOne(key, list) \in [1 .. Len(list) -> Seq(Values)]
    BY <1>1, <1>2 DEF OneByOne
  <1> QED BY <1>2, <1>3 DEF OneByOne

LEMMA ValuesType ==
    ASSUME NEW key, NEW list \in Seq(Pairs)
    PROVE  ValuesOf(key, list) \in Seq(Values)
  BY OneByOneType, FlattenType DEF ValuesOf, OneByOne

LEMMA ValuesEmpty == ASSUME NEW key PROVE ValuesOf(key, <<>>) = <<>>
  <1>1. OneByOne(key, <<>>) = <<>>
    BY DEF OneByOne
  <1> QED BY <1>1, FlattenEmpty DEF ValuesOf, OneByOne

LEMMA ValuesConcat ==
    ASSUME NEW key, NEW s \in Seq(Pairs), NEW t \in Seq(Pairs)
    PROVE  ValuesOf(key, s \o t) = ValuesOf(key, s) \o ValuesOf(key, t)
  <1>1. PICK a, b, c : /\ a = OneByOne(key, s) /\ b = OneByOne(key, t)
                       /\ c = OneByOne(key, s \o t)
    OBVIOUS
  <1>2. s \o t \in Seq(Pairs) /\ Len(s \o t) = Len(s) + Len(t)
    OBVIOUS
  <1>3. /\ a \in Seq(Seq(Values)) /\ Len(a) = Len(s)
        /\ b \in Seq(Seq(Values)) /\ Len(b) = Len(t)
        /\ c \in Seq(Seq(Values)) /\ Len(c) = Len(s) + Len(t)
    BY <1>1, <1>2, OneByOneType
  <1>4. PICK V : V = Seq(Values)
    OBVIOUS
  <1>5. a \in Seq(V) /\ b \in Seq(V) /\ c \in Seq(V)
    BY <1>3, <1>4
  <1>6. /\ a \o b \in Seq(V) /\ Len(a \o b) = Len(c)
        /\ \A n \in 1 .. Len(c) :
               (a \o b)[n] = IF n <= Len(s) THEN a[n] ELSE b[n - Len(s)]
    <2>1. /\ a \o b \in Seq(V) /\ Len(a \o b) = Len(a) + Len(b)
          /\ \A n \in 1 .. Len(a) + Len(b) :
                 (a \o b)[n] = IF n <= Len(a) THEN a[n] ELSE b[n - Len(a)]
      BY <1>5, ConcatProperties
    <2> QED BY <1>3, <2>1
  <1>7. ASSUME NEW n \in 1 .. Len(c) PROVE c[n] = (a \o b)[n]
    <2>1. c[n] = IF (s \o t)[n].key = key THEN <<(s \o t)[n].value>> ELSE <<>>
      <3>1. PICK u : u = s \o t
        OBVIOUS
      <3>2. u \in Seq(Pairs) /\ Len(u) = Len(c) /\ c = OneByOne(key, u)
        BY <1>1, <1>2, <1>3, <3>1
      <3>3. c[n] = IF u[n].key = key THEN <<u[n].value>> ELSE <<>>
        BY <3>2, OneByOneType
      <3> QED BY <3>1, <3>3
    <2>2. CASE n <= Len(s)
      <3>1. n \in 1 .. Len(s) /\ (s \o t)[n] = s[n]
        BY <1>3, <2>2
      <3>2. a[n] = IF s[n].key = key THEN <<s[n].value>> ELSE <<>>
        BY <1>1, <3>1, OneByOneType
      <3> QED BY <1>6, <2>1, <2>2, <3>1, <3>2
    <2>3. CASE ~(n <= Len(s))
      <3>1. n - Len(s) \in 1 .. Len(t) /\ (s \o t)[n] = t[n - Len(s)]
        BY <1>3, <2>3
      <3>2. PICK k \in 1 .. Len(t) : k = n - Len(s)
        BY <3>1
      <3>3. b[k] = IF t[k].key = key THEN <<t[k].value>> ELSE <<>>
        BY <1>1, OneByOneType
      <3> QED BY <1>6, <2>1, <2>3, <3>1, <3>2, <3>3
    <2> QED BY <2>2, <2>3
  <1>8. c = a \o b
    BY <1>5, <1>6, <1>7, SeqEqual
  <1>9. FlattenSeq(a \o b) = FlattenSeq(a) \o FlattenSeq(b)
    BY <1>3, FlattenConcat
  <1> QED BY <1>1, <1>8, <1>9 DEF ValuesOf, OneByOne

LEMMA ValuesNone ==
    ASSUME NEW key, NEW list \in Seq(Pairs),
           \A n \in 1 .. Len(list) : list[n].key # key
    PROVE  ValuesOf(key, list) = <<>>
  <1>1. PICK a : a = OneByOne(key, list)
    OBVIOUS
  <1>2. a \in Seq(Seq(Values)) /\ \A n \in 1 .. Len(a) : a[n] = <<>>
    <2>1. /\ a \in Seq(Seq(Values)) /\ Len(a) = Len(list)
          /\ \A n \in 1 .. Len(list) :
                 a[n] = IF list[n].key = key THEN <<list[n].value>> ELSE <<>>
      BY <1>1, OneByOneType
    <2> QED BY <2>1
  <1>3. FlattenSeq(a) = <<>>
    BY <1>2, FlattenNothing
  <1> QED BY <1>1, <1>3 DEF ValuesOf, OneByOne

\* One pair more.
OneValue(key, pair) == IF pair.key = key THEN <<pair.value>> ELSE <<>>

LEMMA ValuesOne ==
    ASSUME NEW key, NEW pair \in Pairs
    PROVE  ValuesOf(key, <<pair>>) = OneValue(key, pair)
  <1>1. PICK a : a = OneValue(key, pair)
    OBVIOUS
  <1>2. a \in Seq(Values)
    BY <1>1 DEF OneValue, Pairs
  <1>3. OneByOne(key, <<pair>>) = <<a>>
    BY <1>1 DEF OneByOne, OneValue
  <1>4. FlattenSeq(<<a>>) = a
    BY <1>2, FlattenOne
  <1> QED BY <1>1, <1>3, <1>4 DEF ValuesOf, OneByOne

LEMMA ValuesAppend ==
    ASSUME NEW key, NEW s \in Seq(Pairs), NEW pair \in Pairs
    PROVE  ValuesOf(key, Append(s, pair))
             = ValuesOf(key, s) \o OneValue(key, pair)
  <1>1. Append(s, pair) = s \o <<pair>> /\ <<pair>> \in Seq(Pairs)
    OBVIOUS
  <1> QED BY <1>1, ValuesConcat, ValuesOne

-----------------------------------------------------------------------------
(* MR_Sortadd keeps the list sorted, and is stable.                        *)

LEMMA SortaddKeeps ==
    ASSUME NEW list \in Seq(Pairs), Sorted(list), NEW pair \in Pairs
    PROVE  /\ MR_Sortadd(list, pair) \in Seq(Pairs)
           /\ Len(MR_Sortadd(list, pair)) = Len(list) + 1
           /\ Sorted(MR_Sortadd(list, pair))
           /\ \A key : ValuesOf(key, MR_Sortadd(list, pair))
                         = ValuesOf(key, list) \o OneValue(key, pair)
  <1> DEFINE stops == {n \in 1 .. Len(list) : list[n].key <= pair.key} \cup {0}
  <1>1. PICK k : k = Max(stops)
    OBVIOUS
  <1>2. /\ Len(list) \in Nat /\ pair.key \in Nat
        /\ \A n \in 1 .. Len(list) : list[n] \in Pairs /\ list[n].key \in Nat
    <2>1. \A x \in Pairs : x.key \in Nat
      BY KeysAssumption DEF Pairs
    <2> QED BY <2>1
  <1>3. k \in stops /\ \A n \in stops : n <= k
    <2>1. stops \in SUBSET (0 .. Len(list)) /\ stops # {}
      BY <1>2
    <2> QED BY <1>1, <1>2, <2>1, MaxIsGreatest
  <1>4. k \in 0 .. Len(list) /\ k + 1 \in 1 .. Len(list) + 1
    BY <1>2, <1>3
  <1>5. \A n \in 1 .. Len(list) : n <= k => list[n].key <= pair.key
    <2> SUFFICES ASSUME NEW n \in 1 .. Len(list), n <= k
                 PROVE  list[n].key <= pair.key
      OBVIOUS
    <2>1. k \in 1 .. Len(list) /\ list[k].key <= pair.key
      BY <1>3, <1>4
    <2>2. list[n].key <= list[k].key
      BY <2>1 DEF Sorted
    <2> QED BY <1>2, <2>1, <2>2
  <1>6. \A n \in 1 .. Len(list) : n > k => pair.key < list[n].key
    <2> SUFFICES ASSUME NEW n \in 1 .. Len(list), n > k
                 PROVE  pair.key < list[n].key
      OBVIOUS
    <2>1. n \notin stops
      BY <1>3, <1>4
    <2> QED BY <1>2, <2>1
  <1> HIDE DEF stops
  <1>7. PICK new : new = MR_Sortadd(list, pair)
    OBVIOUS
  <1>8. new = InsertAt(list, k + 1, pair)
    BY <1>1, <1>7 DEF MR_Sortadd, stops
  <1>9. /\ new \in Seq(Pairs) /\ Len(new) = Len(list) + 1
        /\ \A j \in 1 .. Len(list) + 1 :
               new[j] = IF j < k + 1 THEN list[j]
                        ELSE IF j = k + 1 THEN pair ELSE list[j - 1]
    <2>1. PICK i \in 1 .. Len(list) + 1 : i = k + 1
      BY <1>4
    <2>2. new = InsertAt(list, i, pair)
      BY <1>8, <2>1
    <2>3. /\ new \in Seq(Pairs) /\ Len(new) = Len(list) + 1
          /\ \A j \in 1 .. Len(list) + 1 :
                 new[j] = IF j < i THEN list[j]
                          ELSE IF j = i THEN pair ELSE list[j - 1]
      <3>1. \A j \in 1 .. Len(list) + 1 :
                /\ InsertAt(list, j, pair) \in Seq(Pairs)
                /\ Len(InsertAt(list, j, pair)) = Len(list) + 1
                /\ \A n \in 1 .. Len(list) + 1 :
                       InsertAt(list, j, pair)[n] =
                           IF n < j THEN list[n]
                           ELSE IF n = j THEN pair ELSE list[n - 1]
        BY InsertType
      <3> QED BY <2>2, <3>1
    <2> QED BY <2>1, <2>3
  <1>10. Sorted(new)
    <2> SUFFICES ASSUME NEW i \in 1 .. Len(list) + 1,
                        NEW j \in 1 .. Len(list) + 1, i <= j
                 PROVE  new[i].key <= new[j].key
      BY <1>9 DEF Sorted
    <2>1. CASE i < k + 1 /\ j < k + 1
      <3>1. i \in 1 .. Len(list) /\ j \in 1 .. Len(list)
        BY <1>4, <2>1
      <3> QED BY <1>9, <2>1, <3>1 DEF Sorted
    <2>2. CASE i < k + 1 /\ j = k + 1
      <3>1. i \in 1 .. Len(list) /\ i <= k
        BY <1>4, <2>2
      <3> QED BY <1>5, <1>9, <2>2, <3>1
    <2>3. CASE i < k + 1 /\ j > k + 1
      <3>1. /\ i \in 1 .. Len(list) /\ i <= k
            /\ j - 1 \in 1 .. Len(list) /\ j - 1 > k
        BY <1>2, <1>4, <2>3
      <3>2. new[i] = list[i] /\ new[j] = list[j - 1]
        BY <1>4, <1>9, <2>3
      <3> QED BY <3>1, <3>2 DEF Sorted
    <2>4. CASE i = k + 1 /\ j = k + 1
      BY <1>2, <1>9, <2>4
    <2>5. CASE i = k + 1 /\ j > k + 1
      <3>1. j - 1 \in 1 .. Len(list) /\ j - 1 > k
        BY <1>2, <1>4, <2>5
      <3>2. new[i] = pair /\ new[j] = list[j - 1]
        BY <1>4, <1>9, <2>5
      <3>3. pair.key < list[j - 1].key /\ list[j - 1].key \in Nat
        BY <1>2, <1>6, <3>1
      <3> QED BY <1>2, <3>2, <3>3
    <2>6. CASE i > k + 1 /\ j > k + 1
      <3>1. i - 1 \in 1 .. Len(list) /\ j - 1 \in 1 .. Len(list)
        BY <1>2, <1>4, <2>6
      <3>2. new[i] = list[i - 1] /\ new[j] = list[j - 1]
        BY <1>4, <1>9, <2>6
      <3> QED BY <3>1, <3>2 DEF Sorted
    <2> QED BY <1>2, <1>4, <2>1, <2>2, <2>3, <2>4, <2>5, <2>6
  <1>11. ASSUME NEW key
         PROVE  ValuesOf(key, new) = ValuesOf(key, list) \o OneValue(key, pair)
    <2>1. PICK a, b : /\ a = SubSeq(list, 1, k)
                      /\ b = SubSeq(list, k + 1, Len(list))
      OBVIOUS
    <2>2. a \in Seq(Pairs) /\ b \in Seq(Pairs) /\ <<pair>> \in Seq(Pairs)
      BY <1>2, <1>4, <2>1
    <2>3. list = a \o b
      <3>1. /\ 1 \in 1 .. Len(list) + 1 /\ k \in 1 - 1 .. Len(list)
            /\ Len(list) \in k .. Len(list)
        BY <1>2, <1>4
      <3>2. a \o b = SubSeq(list, 1, Len(list))
        BY <2>1, <3>1, ConcatAdjacentSubSeq
      <3> QED BY <3>2, SubSeqFull
    <2>4. new = (a \o <<pair>>) \o b /\ a \o <<pair>> \in Seq(Pairs)
      BY <1>4, <1>8, <2>1, <2>2 DEF InsertAt
    <2>5. PICK va, vb, v : /\ va = ValuesOf(key, a) /\ vb = ValuesOf(key, b)
                           /\ v = OneValue(key, pair)
      OBVIOUS
    <2>6. va \in Seq(Values) /\ vb \in Seq(Values) /\ v \in Seq(Values)
      <3>1. v \in Seq(Values)
        BY <2>5 DEF OneValue, Pairs
      <3> QED BY <2>2, <2>5, <3>1, ValuesType
    <2>7. ValuesOf(key, list) = va \o vb
      BY <2>2, <2>3, <2>5, ValuesConcat
    <2>8. ValuesOf(key, new) = (va \o v) \o vb
      <3>1. PICK s : s = a \o <<pair>>
        OBVIOUS
      <3>2. ValuesOf(key, new) = ValuesOf(key, s) \o vb
        BY <2>2, <2>4, <2>5, <3>1, ValuesConcat
      <3>3. ValuesOf(key, s) = va \o v
        <4>1. ValuesOf(key, s) = va \o ValuesOf(key, <<pair>>)
          BY <2>2, <2>5, <3>1, ValuesConcat
        <4> QED BY <2>5, <4>1, ValuesOne
      <3> QED BY <3>2, <3>3
    <2>9. CASE pair.key = key
      <3>1. \A n \in 1 .. Len(b) : b[n].key # key
        <4> SUFFICES ASSUME NEW n \in 1 .. Len(b) PROVE b[n].key # key
          OBVIOUS
        <4>1. k + n \in 1 .. Len(list) /\ k + n > k /\ b[n] = list[k + n]
          BY <1>2, <1>4, <2>1
        <4>2. PICK i \in 1 .. Len(list) : i = k + n /\ i > k
          BY <4>1
        <4>3. pair.key < list[i].key
          BY <1>6, <4>2
        <4> QED BY <1>2, <2>9, <4>1, <4>2, <4>3
      <3>2. vb = <<>>
        BY <2>2, <2>5, <3>1, ValuesNone
      <3>3. va \o vb = va /\ (va \o v) \o vb = va \o v
        BY <2>6, <3>2
      <3> QED BY <2>5, <2>7, <2>8, <3>3
    <2>10. CASE pair.key # key
      <3>1. v = <<>>
        BY <2>5, <2>10 DEF OneValue
      <3>2. (va \o v) \o vb = va \o vb /\ (va \o vb) \o v = va \o vb
        BY <2>6, <3>1
      <3> QED BY <2>5, <2>7, <2>8, <3>2
    <2> QED BY <2>9, <2>10
  <1> QED BY <1>7, <1>9, <1>10, <1>11

-----------------------------------------------------------------------------
(* The calls of Reduce.                                                    *)

LEMMA CallLemma ==
    \A call \in CallType :
        /\ call.key \in Keys /\ call.values \in Seq(Values)
        /\ Len(call.values) \in Nat
        /\ \A key : ValuesFor(key, call) \in Seq(Values)
        /\ PairsOf(call) \in Seq(Pairs)
        /\ Len(PairsOf(call)) = Len(call.values)
        /\ \A k \in 1 .. Len(call.values) :
               PairsOf(call)[k] = [key |-> call.key, value |-> call.values[k]]
  <1> SUFFICES ASSUME NEW call \in CallType
               PROVE  /\ call.key \in Keys /\ call.values \in Seq(Values)
                      /\ Len(call.values) \in Nat
                      /\ \A key : ValuesFor(key, call) \in Seq(Values)
                      /\ PairsOf(call) \in Seq(Pairs)
                      /\ Len(PairsOf(call)) = Len(call.values)
                      /\ \A k \in 1 .. Len(call.values) :
                             PairsOf(call)[k] =
                                 [key |-> call.key, value |-> call.values[k]]
    OBVIOUS
  <1>1. call.key \in Keys /\ call.values \in Seq(Values)
    BY DEF CallType
  <1>2. DOMAIN call.values = 1 .. Len(call.values) /\ Len(call.values) \in Nat
    BY <1>1
  <1>3. \A k \in 1 .. Len(call.values) :
            [key |-> call.key, value |-> call.values[k]] \in Pairs
    BY <1>1 DEF Pairs
  <1>4. \A key : ValuesFor(key, call) \in Seq(Values)
    BY <1>1 DEF ValuesFor
  <1> QED BY <1>1, <1>2, <1>3, <1>4 DEF PairsOf

LEMMA ListsType ==
    \A cs \in Seq(CallType) : \A key :
        /\ PairLists(cs) \in Seq(Seq(Pairs))
        /\ ValueLists(key, cs) \in Seq(Seq(Values))
        /\ Len(PairLists(cs)) = Len(cs) /\ Len(ValueLists(key, cs)) = Len(cs)
        /\ \A n \in 1 .. Len(cs) :
               /\ PairLists(cs)[n] = PairsOf(cs[n])
               /\ ValueLists(key, cs)[n] = ValuesFor(key, cs[n])
  <1> SUFFICES ASSUME NEW cs \in Seq(CallType), NEW key
               PROVE  /\ PairLists(cs) \in Seq(Seq(Pairs))
                      /\ ValueLists(key, cs) \in Seq(Seq(Values))
                      /\ Len(PairLists(cs)) = Len(cs)
                      /\ Len(ValueLists(key, cs)) = Len(cs)
                      /\ \A n \in 1 .. Len(cs) :
                             /\ PairLists(cs)[n] = PairsOf(cs[n])
                             /\ ValueLists(key, cs)[n] = ValuesFor(key, cs[n])
    OBVIOUS
  <1>1. DOMAIN cs = 1 .. Len(cs) /\ Len(cs) \in Nat
    OBVIOUS
  <1>2. \A n \in 1 .. Len(cs) : PairsOf(cs[n]) \in Seq(Pairs)
    BY CallLemma
  <1>3. \A n \in 1 .. Len(cs) : ValuesFor(key, cs[n]) \in Seq(Values)
    BY CallLemma
  <1>4. PairLists(cs) \in [1 .. Len(cs) -> Seq(Pairs)]
    BY <1>1, <1>2 DEF PairLists
  <1>5. ValueLists(key, cs) \in [1 .. Len(cs) -> Seq(Values)]
    BY <1>1, <1>3 DEF ValueLists
  <1> QED BY <1>1, <1>4, <1>5 DEF PairLists, ValueLists

\* A new call has no values.
LEMMA CallsAppend ==
    ASSUME NEW cs \in Seq(CallType), NEW k \in Keys
    PROVE  LET ds == Append(cs, [key |-> k, values |-> <<>>]) IN
           /\ ds \in Seq(CallType) /\ Len(ds) = Len(cs) + 1
           /\ \A n \in 1 .. Len(cs) : ds[n] = cs[n]
           /\ Last(ds).key = k
           /\ PairsOfCalls(ds) = PairsOfCalls(cs)
           /\ \A key : ValuesOfCalls(key, ds) = ValuesOfCalls(key, cs)
  <1>1. PICK call : call = [key |-> k, values |-> <<>>]
    OBVIOUS
  <1>2. call \in CallType /\ call.values = <<>> /\ call.key = k
    BY <1>1 DEF CallType
  <1>3. PICK ds : ds = Append(cs, call)
    OBVIOUS
  <1>4. /\ ds \in Seq(CallType) /\ Len(ds) = Len(cs) + 1
        /\ ds[Len(cs) + 1] = call
        /\ \A n \in 1 .. Len(cs) : ds[n] = cs[n]
    BY <1>2, <1>3
  <1>5. PairsOf(call) = <<>> /\ \A key : ValuesFor(key, call) = <<>>
    BY <1>2 DEF PairsOf, ValuesFor
  <1>6. PICK n \in Nat : n = Len(cs)
    OBVIOUS
  <1>7. PairsOfCalls(ds) = PairsOfCalls(cs)
    <2>1. PICK a, b : a = PairLists(cs) /\ b = PairLists(ds)
      OBVIOUS
    <2>2. /\ a \in Seq(Seq(Pairs)) /\ Len(a) = n
          /\ \A i \in 1 .. n : a[i] = PairsOf(cs[i])
      BY <1>6, <2>1, ListsType
    <2>3. /\ b \in Seq(Seq(Pairs)) /\ Len(b) = n + 1
          /\ \A i \in 1 .. n + 1 : b[i] = PairsOf(ds[i])
      BY <1>4, <1>6, <2>1, ListsType
    <2>4. b[n + 1] = <<>> /\ \A i \in 1 .. n : a[i] = b[i]
      BY <1>4, <1>5, <1>6, <2>2, <2>3
    <2>5. b = Append(a, <<>>)
      BY <2>2, <2>3, <2>4, SameAppend
    <2>6. FlattenSeq(Append(a, <<>>)) = FlattenSeq(a) \o <<>>
      <3>1. <<>> \in Seq(Pairs)
        OBVIOUS
      <3> QED BY <2>2, <3>1, FlattenAppend
    <2>7. FlattenSeq(a) \in Seq(Pairs)
      BY <2>2, FlattenType
    <2> QED BY <2>1, <2>5, <2>6, <2>7 DEF PairsOfCalls
  <1>8. ASSUME NEW key PROVE ValuesOfCalls(key, ds) = ValuesOfCalls(key, cs)
    <2>1. PICK a, b : a = ValueLists(key, cs) /\ b = ValueLists(key, ds)
      OBVIOUS
    <2>2. /\ a \in Seq(Seq(Values)) /\ Len(a) = n
          /\ \A i \in 1 .. n : a[i] = ValuesFor(key, cs[i])
      BY <1>6, <2>1, ListsType
    <2>3. /\ b \in Seq(Seq(Values)) /\ Len(b) = n + 1
          /\ \A i \in 1 .. n + 1 : b[i] = ValuesFor(key, ds[i])
      BY <1>4, <1>6, <2>1, ListsType
    <2>4. b[n + 1] = <<>> /\ \A i \in 1 .. n : a[i] = b[i]
      <3>1. n + 1 \in 1 .. n + 1 /\ ds[n + 1] = call
        BY <1>4, <1>6
      <3>2. b[n + 1] = ValuesFor(key, call)
        BY <2>3, <3>1
      <3>3. ASSUME NEW i \in 1 .. n PROVE a[i] = b[i]
        <4>1. i \in 1 .. n + 1 /\ ds[i] = cs[i]
          BY <1>4, <1>6
        <4> QED BY <2>2, <2>3, <4>1
      <3> QED BY <1>5, <3>2, <3>3
    <2>5. b = Append(a, <<>>)
      BY <2>2, <2>3, <2>4, SameAppend
    <2>6. FlattenSeq(Append(a, <<>>)) = FlattenSeq(a) \o <<>>
      <3>1. <<>> \in Seq(Values)
        OBVIOUS
      <3> QED BY <2>2, <3>1, FlattenAppend
    <2>7. FlattenSeq(a) \in Seq(Values)
      BY <2>2, FlattenType
    <2> QED BY <2>1, <2>5, <2>6, <2>7 DEF ValuesOfCalls
  <1>9. Last(ds).key = k
    BY <1>2, <1>4 DEF Last
  <1> QED BY <1>1, <1>3, <1>4, <1>7, <1>8, <1>9

\* get_next returns a value to the last call.
LEMMA CallsGrow ==
    ASSUME NEW cs \in Seq(CallType), cs # <<>>, NEW v \in Values
    PROVE  LET n == Len(cs)
               ds == [cs EXCEPT ![n].values = Append(@, v)]
           IN  /\ ds \in Seq(CallType) /\ Len(ds) = Len(cs)
               /\ \A i \in 1 .. n : ds[i].key = cs[i].key
               /\ PairsOfCalls(ds) =
                      Append(PairsOfCalls(cs), [key |-> cs[n].key, value |-> v])
               /\ \A key : ValuesOfCalls(key, ds) =
                      IF cs[n].key = key THEN Append(ValuesOfCalls(key, cs), v)
                                         ELSE ValuesOfCalls(key, cs)
  <1>1. PICK n \in Nat : n = Len(cs) /\ n # 0
    OBVIOUS
  <1>2. PICK call : call = cs[n]
    OBVIOUS
  <1>3. PICK grown : grown = [call EXCEPT !.values = Append(@, v)]
    OBVIOUS
  <1>4. PICK ds : ds = [cs EXCEPT ![n] = grown]
    OBVIOUS
  <1>5. ds = [cs EXCEPT ![n].values = Append(@, v)]
    BY <1>1, <1>2, <1>3, <1>4
  <1>6. call \in CallType
    BY <1>1, <1>2
  <1>7. call.key \in Keys /\ call.values \in Seq(Values)
    BY <1>6, CallLemma
  <1>8. grown.key = call.key /\ grown.values = Append(call.values, v)
    BY <1>3, <1>6 DEF CallType
  <1>9. grown \in CallType
    <2>1. Append(call.values, v) \in Seq(Values)
      BY <1>7
    <2> QED BY <1>3, <1>6, <2>1 DEF CallType
  <1>10. ds \in Seq(CallType) /\ Len(ds) = n
    BY <1>1, <1>4, <1>9
  <1>11. ds[n] = grown /\ \A i \in 1 .. n : i # n => ds[i] = cs[i]
    BY <1>1, <1>4
  <1>12. PICK pair : pair = [key |-> call.key, value |-> v]
    OBVIOUS
  <1>13. pair \in Pairs
    BY <1>7, <1>12 DEF Pairs
  <1>14. PairsOfCalls(ds) = Append(PairsOfCalls(cs), pair)
    <2>1. PICK a, b : a = PairLists(cs) /\ b = PairLists(ds)
      OBVIOUS
    <2>2. /\ a \in Seq(Seq(Pairs)) /\ Len(a) = n
          /\ \A i \in 1 .. n : a[i] = PairsOf(cs[i])
      BY <1>1, <2>1, ListsType
    <2>3. /\ b \in Seq(Seq(Pairs)) /\ Len(b) = n
          /\ \A i \in 1 .. n : b[i] = PairsOf(ds[i])
      BY <1>10, <2>1, ListsType
    <2>4. PairsOf(grown) = Append(PairsOf(call), pair)
      <3>1. PICK c, g : c = PairsOf(call) /\ g = PairsOf(grown)
        OBVIOUS
      <3>2. PICK m \in Nat : m = Len(call.values)
        BY <1>7
      <3>3. /\ c \in Seq(Pairs) /\ Len(c) = m
            /\ \A k \in 1 .. m :
                   c[k] = [key |-> call.key, value |-> call.values[k]]
        BY <1>6, <3>1, <3>2, CallLemma
      <3>4. Len(grown.values) = m + 1
        BY <1>7, <1>8, <3>2
      <3>5. /\ g \in Seq(Pairs) /\ Len(g) = m + 1
            /\ \A k \in 1 .. m + 1 :
                   g[k] = [key |-> call.key, value |-> grown.values[k]]
        BY <1>8, <1>9, <3>1, <3>4, CallLemma
      <3>6. /\ \A k \in 1 .. m : grown.values[k] = call.values[k]
            /\ grown.values[m + 1] = v
        BY <1>7, <1>8, <3>2
      <3>7. g[m + 1] = pair
        BY <1>12, <3>5, <3>6
      <3>8. \A k \in 1 .. m : c[k] = g[k]
        <4> SUFFICES ASSUME NEW k \in 1 .. m PROVE c[k] = g[k]
          OBVIOUS
        <4>1. k \in 1 .. m + 1 /\ grown.values[k] = call.values[k]
          BY <3>6
        <4> QED BY <3>3, <3>5, <4>1
      <3>9. g = Append(c, pair)
        BY <3>3, <3>5, <3>7, <3>8, SameAppend
      <3> QED BY <3>1, <3>9
    <2>5. b = [a EXCEPT ![n] = b[n]]
      <3>1. \A i \in 1 .. n : i # n => a[i] = b[i]
        BY <1>11, <2>2, <2>3
      <3>2. PICK V : V = Seq(Pairs)
        OBVIOUS
      <3>3. a \in Seq(V) /\ b \in Seq(V) /\ n \in 1 .. Len(a)
        BY <1>1, <2>2, <2>3, <3>2
      <3>4. \A s, t \in Seq(V) : \A k \in 1 .. Len(s) :
                Len(s) = Len(t) /\ (\A i \in 1 .. Len(s) : i # k => s[i] = t[i])
                => t = [s EXCEPT ![k] = t[k]]
        BY SameExcept
      <3> QED BY <2>2, <2>3, <3>1, <3>3, <3>4
    <2>6. b[n] = Append(a[n], pair)
      BY <1>1, <1>2, <1>11, <2>2, <2>3, <2>4
    <2>7. FlattenSeq([a EXCEPT ![n] = Append(@, pair)])
            = Append(FlattenSeq(a), pair)
      <3>1. a # <<>> /\ Len(a) = n
        BY <1>1, <2>2
      <3> QED BY <1>13, <2>2, <3>1, FlattenGrow
    <2>8. [a EXCEPT ![n] = Append(@, pair)]
            = [a EXCEPT ![n] = Append(a[n], pair)]
      BY <1>1, <2>2
    <2> QED BY <2>1, <2>5, <2>6, <2>7, <2>8 DEF PairsOfCalls
  <1>15. ASSUME NEW key
         PROVE  ValuesOfCalls(key, ds) =
                    IF call.key = key THEN Append(ValuesOfCalls(key, cs), v)
                                      ELSE ValuesOfCalls(key, cs)
    <2>1. PICK a, b : a = ValueLists(key, cs) /\ b = ValueLists(key, ds)
      OBVIOUS
    <2>2. /\ a \in Seq(Seq(Values)) /\ Len(a) = n
          /\ \A i \in 1 .. n : a[i] = ValuesFor(key, cs[i])
      BY <1>1, <2>1, ListsType
    <2>3. /\ b \in Seq(Seq(Values)) /\ Len(b) = n
          /\ \A i \in 1 .. n : b[i] = ValuesFor(key, ds[i])
      BY <1>10, <2>1, ListsType
    <2>4. \A i \in 1 .. n : i # n => a[i] = b[i]
      BY <1>11, <2>2, <2>3
    <2>5. b = [a EXCEPT ![n] = b[n]]
      <3>1. PICK V : V = Seq(Values)
        OBVIOUS
      <3>2. a \in Seq(V) /\ b \in Seq(V) /\ n \in 1 .. Len(a)
        BY <1>1, <2>2, <2>3, <3>1
      <3>3. \A s, t \in Seq(V) : \A k \in 1 .. Len(s) :
                Len(s) = Len(t) /\ (\A i \in 1 .. Len(s) : i # k => s[i] = t[i])
                => t = [s EXCEPT ![k] = t[k]]
        BY SameExcept
      <3> QED BY <2>2, <2>3, <2>4, <3>2, <3>3
    <2>6. a[n] = ValuesFor(key, call) /\ b[n] = ValuesFor(key, grown)
      BY <1>1, <1>2, <1>11, <2>2, <2>3
    <2>7. CASE call.key = key
      <3>1. b[n] = Append(a[n], v)
        BY <1>8, <2>6, <2>7 DEF ValuesFor
      <3>2. FlattenSeq([a EXCEPT ![n] = Append(@, v)])
              = Append(FlattenSeq(a), v)
        <4>1. a # <<>> /\ Len(a) = n
          BY <1>1, <2>2
        <4> QED BY <2>2, <4>1, FlattenGrow
      <3>3. [a EXCEPT ![n] = Append(@, v)] = [a EXCEPT ![n] = Append(a[n], v)]
        BY <1>1, <2>2
      <3> QED BY <2>1, <2>5, <2>7, <3>1, <3>2, <3>3 DEF ValuesOfCalls
    <2>8. CASE call.key # key
      <3>1. b[n] = a[n]
        BY <1>8, <2>6, <2>8 DEF ValuesFor
      <3>2. a = b
        BY <1>1, <2>2, <2>5, <3>1
      <3> QED BY <2>1, <2>8, <3>2 DEF ValuesOfCalls
    <2> QED BY <2>7, <2>8
  <1>16. \A i \in 1 .. n : ds[i].key = cs[i].key
    BY <1>2, <1>8, <1>11
  <1> QED BY <1>1, <1>2, <1>5, <1>10, <1>12, <1>14, <1>15, <1>16

-----------------------------------------------------------------------------
(* The pairs of the files, and those that have been stored.                *)

LEMMA FilesType ==
    ASSUME files \in Inputs
    PROVE  /\ files \in Seq(Seq(Pairs))
           /\ Len(files) \in Nat
           /\ \A m \in Mappers :
                  /\ files[m] \in Seq(Pairs) /\ Len(files[m]) \in Nat
                  /\ \A n \in 1 .. Len(files[m]) : files[m][n] \in Pairs
  <1>1. files \in Seq(Seq(Pairs))
    BY InputsAssumption
  <1>2. \A m \in 1 .. Len(files) : files[m] \in Seq(Pairs)
    BY <1>1
  <1> QED BY <1>1, <1>2 DEF Mappers

CellsOf(kind) == {c \in Cells(files) : files[c[1]][c[2]] \in kind}

\* All files together have at least as many pairs of any kind as the files.
LEMMA PairsOfFiles ==
    ASSUME files \in Inputs
    PROVE  LET all == FlattenSeq(files) IN
           /\ all \in Seq(Pairs)
           /\ \A kind :
                  /\ IsFiniteSet(CellsOf(kind))
                  /\ IsFiniteSet({n \in DOMAIN all : all[n] \in kind})
                  /\ Cardinality(CellsOf(kind))
                       <= Cardinality({n \in DOMAIN all : all[n] \in kind})
  <1>1. PICK all : all = FlattenSeq(files)
    OBVIOUS
  <1>2. all \in Seq(Pairs) /\ Len(all) \in Nat /\ DOMAIN all = 1 .. Len(all)
    BY <1>1, FilesType, FlattenType
  <1>3. PICK g \in Injection(Cells(files), 1 .. Len(all)) :
            \A c \in Cells(files) : all[g[c]] = files[c[1]][c[2]]
    BY <1>1, FilesType, FlattenPlaces
  <1>4. /\ g \in [Cells(files) -> 1 .. Len(all)]
        /\ \A c, d \in Cells(files) : g[c] = g[d] => c = d
    BY <1>3 DEF Injection, IsInjective
  <1>5. ASSUME NEW kind
        PROVE  LET places == {n \in DOMAIN all : all[n] \in kind} IN
               /\ IsFiniteSet(CellsOf(kind)) /\ IsFiniteSet(places)
               /\ Cardinality(CellsOf(kind)) <= Cardinality(places)
    <2> DEFINE places == {n \in DOMAIN all : all[n] \in kind}
               h == [c \in CellsOf(kind) |-> g[c]]
    <2>1. IsFiniteSet(places)
      <3>1. IsFiniteSet(1 .. Len(all))
        BY <1>2, FS_Interval
      <3>2. places \in SUBSET (1 .. Len(all))
        BY <1>2
      <3> QED BY <3>1, <3>2, FS_Subset
    <2>2. \A c \in CellsOf(kind) : c \in Cells(files) /\ g[c] \in places
      BY <1>2, <1>3, <1>4 DEF CellsOf
    <2>3. h \in [CellsOf(kind) -> places]
      BY <2>2
    <2>4. \A c, d \in CellsOf(kind) : h[c] = h[d] => c = d
      BY <1>4, <2>2
    <2>5. h \in Injection(CellsOf(kind), places)
      <3> HIDE DEF h, places
      <3> QED BY <2>3, <2>4 DEF Injection, IsInjective
    <2> HIDE DEF places, h
    <2>6. /\ IsFiniteSet(CellsOf(kind))
          /\ Cardinality(CellsOf(kind)) <= Cardinality(places)
      BY <2>1, <2>5, FS_Injection
    <2> QED BY <2>1, <2>6 DEF places
  <1> QED BY <1>1, <1>2, <1>5

StoredOf(kind) == {c \in Stored : files[c[1]][c[2]] \in kind}

PlacesOf(kind, list) == {n \in DOMAIN list : list[n] \in kind}

LEMMA PlacesFinite ==
    ASSUME NEW list \in Seq(Pairs), NEW kind
    PROVE  /\ IsFiniteSet(PlacesOf(kind, list))
           /\ Cardinality(PlacesOf(kind, list)) \in Nat
  <1>1. IsFiniteSet(1 .. Len(list))
    BY FS_Interval
  <1>2. PlacesOf(kind, list) \in SUBSET (1 .. Len(list))
    BY DEF PlacesOf
  <1> QED BY <1>1, <1>2, FS_Subset, FS_CardinalityType

LEMMA StoredFinite ==
    ASSUME files \in Inputs, NEW kind
    PROVE  /\ StoredOf(kind) \subseteq CellsOf(kind)
           /\ IsFiniteSet(StoredOf(kind)) /\ IsFiniteSet(CellsOf(kind))
           /\ Cardinality(StoredOf(kind)) \in Nat
           /\ Cardinality(CellsOf(kind)) \in Nat
           /\ Cardinality(StoredOf(kind)) <= Cardinality(CellsOf(kind))
  <1>1. IsFiniteSet(CellsOf(kind))
    BY PairsOfFiles
  <1>2. StoredOf(kind) \subseteq CellsOf(kind)
    BY DEF StoredOf, CellsOf, Stored
  <1> QED BY <1>1, <1>2, FS_Subset, FS_CardinalityType

\* A pair at the end of a list.
LEMMA PlacesAppend ==
    ASSUME NEW list \in Seq(Pairs), NEW pair \in Pairs, NEW kind
    PROVE  Cardinality(PlacesOf(kind, Append(list, pair)))
             = Cardinality(PlacesOf(kind, list))
                 + IF pair \in kind THEN 1 ELSE 0
  <1>1. PICK new : new = Append(list, pair)
    OBVIOUS
  <1>2. PICK n \in Nat : n = Len(list)
    OBVIOUS
  <1>3. /\ DOMAIN new = 1 .. n + 1 /\ DOMAIN list = 1 .. n
        /\ new[n + 1] = pair /\ \A i \in 1 .. n : new[i] = list[i]
    BY <1>1, <1>2
  <1>4. CASE pair \in kind
    <2>1. /\ PlacesOf(kind, new) = PlacesOf(kind, list) \cup {n + 1}
          /\ n + 1 \notin PlacesOf(kind, list)
      BY <1>3, <1>4 DEF PlacesOf
    <2>2. IsFiniteSet(PlacesOf(kind, list))
      BY PlacesFinite
    <2> QED BY <1>1, <1>4, <2>1, <2>2, FS_AddElement
  <1>5. CASE pair \notin kind
    <2>1. PlacesOf(kind, new) = PlacesOf(kind, list)
      BY <1>3, <1>5 DEF PlacesOf
    <2>2. Cardinality(PlacesOf(kind, list)) \in Nat
      BY PlacesFinite
    <2> QED BY <1>1, <1>5, <2>1, <2>2
  <1> QED BY <1>4, <1>5

\* What a mapper stores is a pair that has not been stored.
LEMMA NextCell ==
    ASSUME Types, Emits, NEW m \in Mappers, mpc[m] = "store"
    PROVE  LET c == <<m, emitted[m] + 1>> IN
           /\ c \in Cells(files) /\ c \notin Stored
           /\ files[m][emitted[m] + 1] \in Pairs
  <1>1. m \in 1 .. Len(files) /\ emitted[m] \in Nat
    BY DEF Types, Mappers
  <1>2. emitted[m] < Len(files[m]) /\ Len(files[m]) \in Nat
    BY FilesType DEF Types, Emits
  <1>3. emitted[m] + 1 \in 1 .. Len(files[m])
    BY <1>1, <1>2
  <1>4. PICK c : c = <<m, emitted[m] + 1>>
    OBVIOUS
  <1>5. c[1] = m /\ c[2] = emitted[m] + 1
    BY <1>4
  <1>6. c \in Cells(files)
    BY <1>1, <1>3, <1>4, <1>5, CellsAre
  <1>7. StoredCount(m) = emitted[m]
    BY <1>1 DEF StoredCount
  <1>8. c \notin Stored
    BY <1>1, <1>5, <1>7 DEF Stored
  <1>9. files[m][emitted[m] + 1] \in Pairs
    BY <1>3, FilesType DEF Types
  <1> QED BY <1>4, <1>6, <1>8, <1>9

\* The shared array is as long as the pairs that have been stored.
LEMMA StoredLength ==
    ASSUME Types, Kept
    PROVE  IsFiniteSet(Stored) /\ Cardinality(Stored) = Len(all_data)
  <1>1. all_data \in Seq(Pairs) /\ files \in Inputs
    BY DEF Types
  <1>2. PlacesOf(Pairs, all_data) = 1 .. Len(all_data)
    BY <1>1 DEF PlacesOf
  <1>3. StoredOf(Pairs) = Stored
    <2>1. ASSUME NEW c \in Stored PROVE files[c[1]][c[2]] \in Pairs
      <3>1. c[1] \in 1 .. Len(files) /\ c[2] \in 1 .. Len(files[c[1]])
        BY CellsAre DEF Stored
      <3> QED BY <1>1, <3>1, FilesType DEF Mappers
    <2> QED BY <2>1 DEF StoredOf
  <1>4. Cardinality(PlacesOf(Pairs, all_data)) = Cardinality(StoredOf(Pairs))
    BY DEF Kept, KindKept, PlacesOf, StoredOf
  <1>5. Cardinality(1 .. Len(all_data)) = Len(all_data)
    <2>1. Len(all_data) \in Nat
      BY <1>1
    <2> QED BY <2>1, CountUpTo
  <1> QED BY <1>1, <1>2, <1>3, <1>4, <1>5, StoredFinite

\* When a mapper has to store a pair and there is no slot for it, the files
\* have too many pairs.
LEMMA TooManyForAll ==
    ASSUME Types, Mapped, NEW m \in Mappers, mpc[m] = "store",
           map_count = MaxPairs
    PROVE  TooManyPairs
  <1>1. Len(all_data) = MaxPairs
    <2>1. ~Counting
      BY DEF Mapped, OneHolder, Counting, Types
    <2> QED BY <2>1 DEF Mapped, Counted, Types
  <1>2. PICK c : c = <<m, emitted[m] + 1>>
    OBVIOUS
  <1>3. /\ c \in Cells(files) /\ c \notin Stored
        /\ files[c[1]][c[2]] \in Pairs
    BY <1>2, NextCell DEF Mapped
  <1>4. IsFiniteSet(Stored) /\ Cardinality(Stored) = MaxPairs
    BY <1>1, StoredLength DEF Mapped
  <1>5. MaxPairs \in Nat /\ files \in Inputs
    BY SizesAssumption DEF Types
  <1>6. Cardinality(Stored \cup {c}) = MaxPairs + 1
    BY <1>3, <1>4, FS_AddElement
  <1>7. Stored \cup {c} \subseteq CellsOf(Pairs)
    <2>1. ASSUME NEW d \in Stored PROVE d \in CellsOf(Pairs)
      <3>1. d[1] \in 1 .. Len(files) /\ d[2] \in 1 .. Len(files[d[1]])
        BY CellsAre DEF Stored
      <3>2. files[d[1]][d[2]] \in Pairs
        BY <1>5, <3>1, FilesType DEF Mappers
      <3> QED BY <3>2 DEF CellsOf, Stored
    <2> QED BY <1>3, <2>1 DEF CellsOf
  <1>8. PICK all : all = FlattenSeq(files)
    OBVIOUS
  <1>9. /\ all \in Seq(Pairs) /\ IsFiniteSet(CellsOf(Pairs))
        /\ Cardinality(CellsOf(Pairs))
             <= Cardinality({n \in DOMAIN all : all[n] \in Pairs})
    BY <1>5, <1>8, PairsOfFiles
  <1>10. Cardinality({n \in DOMAIN all : all[n] \in Pairs}) = Len(all)
    <2>1. {n \in DOMAIN all : all[n] \in Pairs} = 1 .. Len(all)
      BY <1>9
    <2>2. Len(all) \in Nat
      BY <1>9
    <2> QED BY <2>1, <2>2, CountUpTo
  <1>11. MaxPairs + 1 <= Cardinality(CellsOf(Pairs))
    BY <1>6, <1>7, <1>9, FS_Subset
  <1>12. Cardinality(CellsOf(Pairs)) \in Nat /\ Len(all) \in Nat
    BY <1>9, FS_CardinalityType
  <1>13. Len(all) > MaxPairs
    BY <1>5, <1>9, <1>10, <1>11, <1>12
  <1> QED BY <1>8, <1>13 DEF TooManyPairs

\* When the partition loop has to add a pair to a full list, the files have
\* too many pairs for that partition.
LEMMA TooManyForPartition ==
    ASSUME Types, Mapped, next_data < map_count,
           NEW p \in Partitions, Partitioned(p),
           p = partition[all_data[next_data + 1].key],
           Len(part_data[p]) = MaxInPartition
    PROVE  TooManyPairs
  <1>1. /\ all_data \in Seq(Pairs) /\ next_data \in Nat /\ files \in Inputs
        /\ map_count \in Nat /\ MaxInPartition \in Nat
    BY SizesAssumption DEF Types
  <1>2. next_data + 1 \in 1 .. Len(all_data)
    BY <1>1 DEF Mapped, Counted
  <1> DEFINE kind == {x \in Pairs : partition[x.key] = p}
             before == {n \in 1 .. next_data : partition[all_data[n].key] = p}
  <1>3. IsFiniteSet(before)
    <2>1. IsFiniteSet(1 .. next_data)
      BY <1>1, FS_Interval
    <2> QED BY <2>1, FS_Subset
  <1>4. Cardinality(before) = MaxInPartition
    BY DEF Partitioned
  <1>5. Cardinality(before \cup {next_data + 1}) = MaxInPartition + 1
    <2>1. next_data + 1 \notin before
      BY <1>1
    <2> QED BY <1>3, <1>4, <2>1, FS_AddElement
  <1>6. before \cup {next_data + 1} \subseteq PlacesOf(kind, all_data)
    <2>1. ASSUME NEW n \in 1 .. Len(all_data), partition[all_data[n].key] = p
          PROVE  n \in PlacesOf(kind, all_data)
      BY <1>1, <2>1 DEF PlacesOf
    <2>2. \A n \in before : n \in 1 .. Len(all_data)
      BY <1>1, <1>2
    <2> QED BY <1>2, <2>1, <2>2
  <1>7. MaxInPartition + 1 <= Cardinality(PlacesOf(kind, all_data))
    <2> HIDE DEF kind, before
    <2> QED BY <1>1, <1>5, <1>6, PlacesFinite, FS_Subset
  <1>8. Cardinality(PlacesOf(kind, all_data)) = Cardinality(StoredOf(kind))
    <2>1. kind \in SUBSET Pairs
      OBVIOUS
    <2> HIDE DEF kind
    <2> QED BY <2>1 DEF Mapped, Kept, KindKept, PlacesOf, StoredOf
  <1>9. PICK all : all = FlattenSeq(files)
    OBVIOUS
  <1>10. /\ all \in Seq(Pairs)
         /\ IsFiniteSet({n \in DOMAIN all : all[n] \in kind})
         /\ Cardinality(CellsOf(kind))
              <= Cardinality({n \in DOMAIN all : all[n] \in kind})
    <2> HIDE DEF kind
    <2> QED BY <1>1, <1>9, PairsOfFiles
  <1>11. {n \in DOMAIN all : all[n] \in kind}
           = {n \in DOMAIN all : partition[all[n].key] = p}
    BY <1>10
  <1>12. /\ Cardinality(StoredOf(kind)) <= Cardinality(CellsOf(kind))
         /\ Cardinality(StoredOf(kind)) \in Nat
         /\ Cardinality(CellsOf(kind)) \in Nat
    <2> HIDE DEF kind
    <2> QED BY <1>1, StoredFinite
  <1>13. Cardinality({n \in DOMAIN all : all[n] \in kind}) \in Nat
    <2> HIDE DEF kind
    <2> QED BY <1>10, FS_CardinalityType
  <1>14. Cardinality({n \in DOMAIN all : partition[all[n].key] = p})
           > MaxInPartition
    <2>1. PICK x, y, z : /\ x = Cardinality(StoredOf(kind))
                         /\ y = Cardinality(CellsOf(kind))
                         /\ z = Cardinality({n \in DOMAIN all :
                                                all[n] \in kind})
      OBVIOUS
    <2>2. x \in Nat /\ y \in Nat /\ z \in Nat /\ x <= y /\ y <= z
      <3> HIDE DEF kind
      <3> QED BY <1>10, <1>12, <1>13, <2>1
    <2>3. MaxInPartition + 1 <= x
      <3> HIDE DEF kind
      <3> QED BY <1>7, <1>8, <2>1
    <2>4. z > MaxInPartition
      BY <1>1, <2>2, <2>3
    <2> HIDE DEF kind
    <2> QED BY <1>11, <2>1, <2>4
  <1> QED BY <1>9, <1>14 DEF TooManyPairs

-----------------------------------------------------------------------------
(* What does not change.                                                   *)

InOrder == \A p \in Partitions : Partitioned(p) /\ Reduced(p) /\ Ahead(p)

LEMMA MappedStays ==
    ASSUME Mapped, UNCHANGED <<files, mapping>>
    PROVE  Mapped'
  <1>1. Mappers' = Mappers /\ Stored' = Stored
    BY DEF mapping, Mappers, Stored, StoredCount
  <1>2. OneHolder'
    BY <1>1 DEF mapping, Mapped, OneHolder
  <1>3. Counted'
    BY <1>1 DEF mapping, Mapped, Counted, Counting
  <1>4. Emits'
    BY <1>1 DEF mapping, Mapped, Emits
  <1>5. Kept'
    BY <1>1 DEF mapping, Mapped, Kept, KindKept
  <1> QED BY <1>2, <1>3, <1>4, <1>5 DEF Mapped

\* The pairs that the partition loop has come to stay where they are.
LEMMA PartitionedStays ==
    ASSUME Types, UNCHANGED <<next_data, part_data>>,
           \A n \in 1 .. next_data : all_data'[n] = all_data[n],
           next_data <= Len(all_data), all_data' \in Seq(Pairs),
           next_data <= Len(all_data'),
           NEW p \in Partitions, Partitioned(p)
    PROVE  Partitioned(p)'
  <1>1. all_data \in Seq(Pairs) /\ next_data \in Nat
    BY DEF Types
  <1>2. Taken' = Taken
    <2>1. PICK a, b : a = Taken /\ b = Taken'
      OBVIOUS
    <2>2. /\ a \in Seq(Pairs) /\ Len(a) = next_data
          /\ \A n \in 1 .. next_data : a[n] = all_data[n]
      BY <1>1, <2>1 DEF Taken
    <2>3. /\ b \in Seq(Pairs) /\ Len(b) = next_data
          /\ \A n \in 1 .. next_data : b[n] = all_data'[n]
      BY <1>1, <2>1 DEF Taken
    <2>4. a = b
      BY <2>2, <2>3, SeqEqual
    <2> QED BY <2>1, <2>4
  <1>3. {n \in 1 .. next_data : partition[all_data[n].key] = p}
          = {n \in 1 .. next_data' : partition[all_data'[n].key] = p}
    OBVIOUS
  <1>4. Sorted(part_data'[p])
    BY DEF Partitioned
  <1>5. Len(part_data'[p])
          = Cardinality({n \in 1 .. next_data' :
                            partition[all_data'[n].key] = p})
    BY <1>3 DEF Partitioned
  <1>6. \A key \in Keys :
            ValuesOf(key, part_data'[p])
              = IF partition[key] = p THEN ValuesOf(key, Taken') ELSE <<>>
    BY <1>2 DEF Partitioned
  <1> QED BY <1>4, <1>5, <1>6 DEF Partitioned

LEMMA NextInAll ==
    ASSUME Types, Mapped
    PROVE  next_data <= Len(all_data) /\ map_count <= Len(all_data)
  BY DEF Types, Mapped, Counted

\* Without a step of MR_Run or of a reducer.
LEMMA InOrderStays ==
    ASSUME Types, Mapped, InOrder,
           UNCHANGED <<all_data, early_return, next_data, part_data, reducing>>
    PROVE  InOrder'
  <1> SUFFICES ASSUME NEW p \in Partitions
               PROVE  Partitioned(p)' /\ Reduced(p)' /\ Ahead(p)'
    BY DEF InOrder
  <1>1. Partitioned(p)'
    BY NextInAll, PartitionedStays DEF InOrder, Types
  <1>2. Reduced(p)'
    BY DEF InOrder, Reduced, Given, reducing
  <1>3. Ahead(p)'
    BY DEF InOrder, Ahead, reducing
  <1> QED BY <1>1, <1>2, <1>3

\* TooManyPairs is about the files alone.
LEMMA TooManyStays ==
    ASSUME UNCHANGED files PROVE TooManyPairs' = TooManyPairs
  BY DEF TooManyPairs

\* A mapper that has not returned is there in the phase "map" only.
LEMMA MapperPhase ==
    ASSUME Types, Phases, Mapping, NEW m \in Mappers, mpc[m] # "done"
    PROVE  phase = "map"
  BY DEF Types, Phases, Mapping, AllMapped

-----------------------------------------------------------------------------
(* The steps.                                                              *)

LEMMA InitLemma == ASSUME Init PROVE Inv
  <1>1. Len(files) \in Nat /\ \A m \in Mappers : Len(files[m]) \in Nat
    BY FilesType DEF Init
  <1>2. Types
    BY DEF Init, Types
  <1>3. OneHolder
    BY NoMapperAssumption, <1>1 DEF Init, OneHolder, Mappers
  <1>4. Counted
    BY DEF Init, Counted, Counting
  <1>5. Emits
    BY <1>1 DEF Init, Emits
  <1>6. Kept
    <2> SUFFICES ASSUME NEW kind PROVE KindKept(kind)
      BY DEF Kept
    <2>1. {n \in DOMAIN all_data : all_data[n] \in kind} = {}
      BY DEF Init
    <2>2. Stored = {}
      <3> SUFFICES ASSUME NEW c \in Stored PROVE FALSE
        OBVIOUS
      <3>1. /\ c[1] \in Mappers /\ c[2] \in 1 .. Len(files[c[1]])
            /\ c[2] <= StoredCount(c[1])
        BY CellsAre DEF Stored, Mappers
      <3>2. StoredCount(c[1]) = 0
        BY <3>1 DEF StoredCount, Init
      <3> QED BY <1>1, <3>1, <3>2
    <2>3. {c \in Stored : files[c[1]][c[2]] \in kind} = {}
      BY <2>2
    <2> QED BY <2>1, <2>3 DEF KindKept
  <1>7. Phases
    BY DEF Init, Phases
  <1>8. ASSUME NEW p \in Partitions
        PROVE  Partitioned(p) /\ Reduced(p) /\ Ahead(p)
    <2>1. /\ part_data[p] = <<>> /\ part_count[p] = 0 /\ calls[p] = <<>>
          /\ next_data = 0 /\ all_data = <<>> /\ rpc[p] = "loop"
      BY DEF Init
    <2>2. Taken = <<>> /\ Given(p) = <<>>
      BY <2>1 DEF Taken, Given
    <2>3. Partitioned(p)
      <3>1. Sorted(part_data[p])
        BY <2>1 DEF Sorted
      <3>2. Cardinality({n \in 1 .. next_data :
                            partition[all_data[n].key] = p}) = 0
        <4>1. {n \in 1 .. next_data : partition[all_data[n].key] = p} = {}
          BY <2>1
        <4> QED BY <4>1, FS_EmptySet
      <3> QED BY <2>1, <2>2, <3>1, <3>2, ValuesEmpty DEF Partitioned
    <2>4. PairsOfCalls(<<>>) = <<>> /\ \A key : ValuesOfCalls(key, <<>>) = <<>>
      <3>1. PairLists(<<>>) = <<>> /\ \A key : ValueLists(key, <<>>) = <<>>
        BY DEF PairLists, ValueLists
      <3> QED BY <3>1, FlattenEmpty DEF PairsOfCalls, ValuesOfCalls
    <2>5. Reduced(p)
      BY <2>1, <2>2, <2>4, ValuesEmpty DEF Reduced
    <2>6. Ahead(p)
      BY <2>1 DEF Ahead
    <2> QED BY <2>3, <2>5, <2>6
  <1> QED BY <1>2, <1>3, <1>4, <1>5, <1>6, <1>7, <1>8 DEF Inv, Mapped

LEMMA StartMappersKeeps == ASSUME Inv, StartMappers PROVE Inv'
  <1>1. /\ Types /\ Mapped /\ Phases /\ InOrder
        /\ phase = "start" /\ phase' \in {"map", "exit1"}
        /\ UNCHANGED <<files, early_return, mapping, next_data, part_data,
                       reducing>>
    BY DEF Inv, InOrder, StartMappers, program
  <1>2. Types'
    BY <1>1 DEF Types, mapping, reducing, Mappers
  <1>3. Mapped'
    BY <1>1, MappedStays
  <1>4. Phases'
    BY <1>1 DEF Phases, reducing
  <1>5. InOrder'
    BY <1>1, InOrderStays DEF mapping
  <1> QED BY <1>2, <1>3, <1>4, <1>5 DEF Inv, InOrder

LEMMA JoinMappersKeeps == ASSUME Inv, JoinMappers PROVE Inv'
  <1>1. /\ Types /\ Mapped /\ Phases /\ InOrder
        /\ phase = "map" /\ AllMapped /\ phase' = "partition"
        /\ UNCHANGED <<files, early_return, mapping, next_data, part_data,
                       reducing>>
    BY DEF Inv, InOrder, JoinMappers, program
  <1>2. Types'
    BY <1>1 DEF Types, mapping, reducing, Mappers
  <1>3. Mapped'
    BY <1>1, MappedStays
  <1>4. AllMapped'
    BY <1>1 DEF AllMapped, Mappers, mapping
  <1>5. Phases'
    BY <1>1, <1>4 DEF Phases, reducing
  <1>6. InOrder'
    BY <1>1, InOrderStays DEF mapping
  <1> QED BY <1>2, <1>3, <1>5, <1>6 DEF Inv, InOrder

LEMMA StartReducersKeeps == ASSUME Inv, StartReducers PROVE Inv'
  <1>1. /\ Types /\ Mapped /\ Phases /\ InOrder
        /\ phase = "partition" /\ next_data = map_count /\ phase' = "reduce"
        /\ UNCHANGED <<files, early_return, mapping, next_data, part_data,
                       reducing>>
    BY DEF Inv, InOrder, StartReducers, program
  <1>2. Types'
    BY <1>1 DEF Types, mapping, reducing, Mappers
  <1>3. Mapped'
    BY <1>1, MappedStays
  <1>4. AllMapped'
    BY <1>1 DEF Phases, AllMapped, Mappers, mapping
  <1>5. Phases'
    BY <1>1, <1>4 DEF Phases, mapping
  <1>6. InOrder'
    BY <1>1, InOrderStays DEF mapping
  <1> QED BY <1>2, <1>3, <1>5, <1>6 DEF Inv, InOrder

LEMMA JoinReducersKeeps == ASSUME Inv, JoinReducers PROVE Inv'
  <1>1. /\ Types /\ Mapped /\ Phases /\ InOrder
        /\ phase = "reduce" /\ \A p \in Partitions : rpc[p] = "done"
        /\ phase' = "done"
        /\ UNCHANGED <<files, early_return, mapping, next_data, part_data,
                       reducing>>
    BY DEF Inv, InOrder, JoinReducers, program
  <1>2. Types'
    BY <1>1 DEF Types, mapping, reducing, Mappers
  <1>3. Mapped'
    BY <1>1, MappedStays
  <1>4. AllMapped'
    BY <1>1 DEF Phases, AllMapped, Mappers, mapping
  <1>5. Phases'
    BY <1>1, <1>4 DEF Phases, mapping, reducing
  <1>6. InOrder'
    BY <1>1, InOrderStays DEF mapping
  <1> QED BY <1>2, <1>3, <1>5, <1>6 DEF Inv, InOrder

(* The mappers.                                                            *)

LEMMA StoredStays ==
    ASSUME UNCHANGED files,
           \A n \in Mappers : StoredCount(n)' = StoredCount(n)
    PROVE  Stored' = Stored
  <1>1. \A c \in Cells(files) : StoredCount(c[1])' = StoredCount(c[1])
    BY CellsAre DEF Mappers
  <1> QED BY <1>1 DEF Stored

LEMMA KeptStays ==
    ASSUME Kept, UNCHANGED <<files, all_data>>, Stored' = Stored PROVE Kept'
  BY DEF Kept, KindKept

LEMMA EmitLockKeeps ==
    ASSUME Inv, NEW m \in Mappers, EmitLock(m) PROVE Inv'
  <1>1. /\ Types /\ Mapped /\ Phases /\ InOrder
        /\ Mapping /\ mpc[m] = "map" /\ emitted[m] < Len(files[m])
        /\ mutex = NoMapper /\ mutex' = m
        /\ mpc' = [mpc EXCEPT ![m] = "store"]
        /\ UNCHANGED <<files, early_return, phase, emitted, all_data, map_count,
                       next_data, part_data, reducing>>
    BY DEF Inv, InOrder, EmitLock, MutexFree, program
  <1>2. Mappers' = Mappers
    BY <1>1 DEF Mappers
  <1>3. Types'
    BY <1>1, <1>2 DEF Types, reducing
  <1>4. \A n \in Mappers : mpc'[n] = IF n = m THEN "store" ELSE mpc[n]
    BY <1>1 DEF Types
  <1>5. NoMapper \notin Mappers
    BY NoMapperAssumption, <1>1, FilesType DEF Mappers, Types
  <1>6. OneHolder'
    BY <1>1, <1>2, <1>4, <1>5 DEF Mapped, OneHolder
  <1>7. Counting' = Counting
    BY <1>1, <1>2, <1>4 DEF Counting
  <1>8. Counted'
    BY <1>1, <1>7 DEF Mapped, Counted
  <1>9. Emits'
    BY <1>1, <1>2, <1>4 DEF Mapped, Emits
  <1>10. Kept'
    <2>1. \A n \in Mappers : StoredCount(n)' = StoredCount(n)
      BY <1>1, <1>4 DEF StoredCount
    <2> QED BY <1>1, <2>1, StoredStays, KeptStays DEF Mapped
  <1>11. Phases'
    <2>1. phase = "map"
      BY <1>1, MapperPhase
    <2> QED BY <1>1, <2>1 DEF Phases, reducing
  <1>12. InOrder'
    BY <1>1, InOrderStays
  <1> QED
    BY <1>3, <1>6, <1>8, <1>9, <1>10, <1>11, <1>12 DEF Inv, InOrder, Mapped

LEMMA EmitStoreKeeps ==
    ASSUME Inv, NEW m \in Mappers, EmitStore(m) PROVE Inv'
  <1>1. /\ Types /\ Mapped /\ Phases /\ InOrder
        /\ Mapping /\ mpc[m] = "store"
        /\ UNCHANGED <<files, early_return, emitted, mutex, map_count,
                       next_data, part_data, reducing>>
    BY DEF Inv, InOrder, EmitStore, program
  <1>2. Mappers' = Mappers
    BY <1>1 DEF Mappers
  <1>3. phase = "map"
    BY <1>1, MapperPhase
  <1>4. CASE map_count = MaxPairs
    <2>1. phase' = "undefined" /\ UNCHANGED <<all_data, mpc>>
      BY <1>4 DEF EmitStore
    <2>2. Types'
      BY <1>1, <1>2, <2>1 DEF Types, reducing
    <2>3. Mapped'
      BY <1>1, <2>1, MappedStays DEF mapping
    <2>4. TooManyPairs'
      BY <1>1, <1>4, TooManyForAll, TooManyStays
    <2>5. Phases'
      BY <1>1, <1>3, <2>1, <2>4 DEF Phases, reducing
    <2>6. InOrder'
      BY <1>1, <2>1, InOrderStays
    <2> QED BY <2>2, <2>3, <2>5, <2>6 DEF Inv, InOrder
  <1>5. CASE map_count # MaxPairs
    <2>1. PICK pair, c : /\ pair = files[m][emitted[m] + 1]
                         /\ c = <<m, emitted[m] + 1>>
      OBVIOUS
    <2>2. /\ pair \in Pairs /\ c \in Cells(files) /\ c \notin Stored
          /\ files[c[1]][c[2]] = pair /\ c[1] = m /\ c[2] = emitted[m] + 1
      BY <1>1, <2>1, NextCell DEF Mapped
    <2>3. ~Counting
      BY <1>1 DEF Mapped, OneHolder, Counting, Types
    <2>4. map_count = Len(all_data)
      BY <1>1, <2>3 DEF Mapped, Counted, Types
    <2>5. /\ all_data' = Append(all_data, pair)
          /\ mpc' = [mpc EXCEPT ![m] = "count"]
          /\ UNCHANGED phase
      BY <1>1, <1>5, <2>1, <2>4 DEF EmitStore, Types
    <2>6. \A n \in Mappers : mpc'[n] = IF n = m THEN "count" ELSE mpc[n]
      BY <1>1, <2>5 DEF Types
    <2>7. /\ all_data \in Seq(Pairs) /\ all_data' \in Seq(Pairs)
          /\ Len(all_data') = Len(all_data) + 1
          /\ \A n \in 1 .. Len(all_data) : all_data'[n] = all_data[n]
      BY <1>1, <2>2, <2>5 DEF Types
    <2>8. Types'
      BY <1>1, <1>2, <2>5, <2>7 DEF Types, reducing
    <2>9. OneHolder'
      BY <1>1, <1>2, <2>6 DEF Mapped, OneHolder
    <2>10. Counting'
      BY <1>2, <2>6 DEF Counting
    <2>11. Counted'
      BY <1>1, <2>4, <2>7, <2>10 DEF Counted, Types
    <2>12. Emits'
      BY <1>1, <1>2, <2>6 DEF Mapped, Emits
    <2>13. Stored' = Stored \cup {c}
      <3>1. \A n \in Mappers :
                StoredCount(n)' = StoredCount(n) + IF n = m THEN 1 ELSE 0
        BY <1>1, <2>6 DEF StoredCount, Types
      <3>2. StoredCount(m) = emitted[m] /\ emitted[m] \in Nat
        BY <1>1 DEF StoredCount, Types
      <3>3. ASSUME NEW d \in Cells(files)
            PROVE  d \in Stored' <=> d \in Stored \cup {c}
        <4>1. d[1] \in Mappers /\ d[2] \in Nat /\ d = <<d[1], d[2]>>
          BY CellsAre, <1>1, FilesType DEF Mappers, Types
        <4>2. d \in Stored' <=> d[2] <= StoredCount(d[1])'
          BY <1>1 DEF Stored
        <4>3. d \in Stored <=> d[2] <= StoredCount(d[1])
          BY DEF Stored
        <4>4. CASE d[1] # m
          <5>1. StoredCount(d[1]) \in Nat
            BY <1>1, <4>1 DEF StoredCount, Types
          <5>2. StoredCount(d[1])' = StoredCount(d[1])
            BY <3>1, <4>1, <4>4, <5>1
          <5>3. d # c
            BY <2>2, <4>4
          <5> QED BY <4>2, <4>3, <5>2, <5>3
        <4>5. CASE d[1] = m
          <5>1. d \in Stored' <=> d[2] <= emitted[m] + 1
            BY <3>1, <3>2, <4>2, <4>5
          <5>2. d \in Stored <=> d[2] <= emitted[m]
            BY <3>2, <4>3, <4>5
          <5>3. d = c <=> d[2] = emitted[m] + 1
            BY <2>1, <2>2, <4>1, <4>5
          <5> QED BY <3>2, <4>1, <5>1, <5>2, <5>3
        <4> QED BY <4>4, <4>5
      <3>4. Stored \subseteq Cells(files) /\ Stored' \subseteq Cells(files)
        BY <1>1 DEF Stored
      <3> QED BY <2>2, <3>3, <3>4
    <2>14. Kept'
      <3> SUFFICES ASSUME NEW kind \in SUBSET Pairs PROVE KindKept(kind)'
        BY DEF Kept
      <3>1. Cardinality(PlacesOf(kind, all_data'))
              = Cardinality(PlacesOf(kind, all_data))
                  + IF pair \in kind THEN 1 ELSE 0
        BY <2>2, <2>5, <2>7, PlacesAppend
      <3>2. IsFiniteSet(StoredOf(kind)) /\ Cardinality(StoredOf(kind)) \in Nat
        BY <1>1, StoredFinite DEF Types
      <3>3. Cardinality(StoredOf(kind)')
              = Cardinality(StoredOf(kind)) + IF pair \in kind THEN 1 ELSE 0
        <4>1. CASE pair \in kind
          <5>1. /\ StoredOf(kind)' = StoredOf(kind) \cup {c}
                /\ c \notin StoredOf(kind)
            BY <1>1, <2>2, <2>13, <4>1 DEF StoredOf
          <5> QED BY <3>2, <4>1, <5>1, FS_AddElement
        <4>2. CASE pair \notin kind
          <5>1. StoredOf(kind)' = StoredOf(kind)
            BY <1>1, <2>2, <2>13, <4>2 DEF StoredOf
          <5> QED BY <3>2, <4>2, <5>1
        <4> QED BY <4>1, <4>2
      <3>4. Cardinality(PlacesOf(kind, all_data)) = Cardinality(StoredOf(kind))
        BY <1>1 DEF Mapped, Kept, KindKept, PlacesOf, StoredOf
      <3>5. Cardinality(PlacesOf(kind, all_data'))
              = Cardinality(StoredOf(kind)')
        BY <3>1, <3>3, <3>4
      <3> QED BY <3>5 DEF KindKept, PlacesOf, StoredOf
    <2>15. Phases'
      BY <1>1, <1>3, <2>5 DEF Phases, reducing
    <2>16. InOrder'
      <3> SUFFICES ASSUME NEW p \in Partitions
                   PROVE  Partitioned(p)' /\ Reduced(p)' /\ Ahead(p)'
        BY DEF InOrder
      <3>1. /\ next_data <= Len(all_data) /\ next_data <= Len(all_data')
            /\ \A n \in 1 .. next_data : all_data'[n] = all_data[n]
        BY <1>1, <2>7, NextInAll DEF Types
      <3>2. Partitioned(p)'
        BY <1>1, <2>7, <3>1, PartitionedStays DEF InOrder
      <3>3. Reduced(p)'
        BY <1>1 DEF InOrder, Reduced, Given, reducing
      <3>4. Ahead(p)'
        BY <1>1 DEF InOrder, Ahead, reducing
      <3> QED BY <3>2, <3>3, <3>4
    <2> QED BY <2>8, <2>9, <2>11, <2>12, <2>14, <2>15, <2>16
            DEF Inv, InOrder, Mapped
  <1> QED BY <1>4, <1>5

LEMMA EmitUnlockKeeps ==
    ASSUME Inv, NEW m \in Mappers, EmitUnlock(m) PROVE Inv'
  <1>1. /\ Types /\ Mapped /\ Phases /\ InOrder
        /\ Mapping /\ mpc[m] = "count"
        /\ map_count' = map_count + 1
        /\ emitted' = [emitted EXCEPT ![m] = @ + 1]
        /\ mutex' = NoMapper
        /\ mpc' = [mpc EXCEPT ![m] = "map"]
        /\ UNCHANGED <<files, early_return, phase, all_data, next_data,
                       part_data, reducing>>
    BY DEF Inv, InOrder, EmitUnlock, program
  <1>2. Mappers' = Mappers
    BY <1>1 DEF Mappers
  <1>3. Types'
    BY <1>1, <1>2 DEF Types, reducing
  <1>4. \A n \in Mappers :
            /\ mpc'[n] = IF n = m THEN "map" ELSE mpc[n]
            /\ emitted'[n] = emitted[n] + IF n = m THEN 1 ELSE 0
            /\ emitted[n] \in Nat
    BY <1>1 DEF Types
  <1>5. NoMapper \notin Mappers
    BY NoMapperAssumption, <1>1, FilesType DEF Mappers, Types
  <1>6. mutex = m
    BY <1>1 DEF Mapped, OneHolder
  <1>7. OneHolder'
    BY <1>1, <1>2, <1>4, <1>5, <1>6 DEF Mapped, OneHolder
  <1>8. Counting /\ ~Counting'
    BY <1>1, <1>2, <1>4, <1>6 DEF Mapped, OneHolder, Counting
  <1>9. Counted'
    BY <1>1, <1>8 DEF Mapped, Counted, Types
  <1>10. Emits'
    <2> SUFFICES ASSUME NEW n \in Mappers
                 PROVE  /\ emitted'[n] <= Len(files[n])
                        /\ mpc'[n] \in {"store", "count"}
                               => emitted'[n] < Len(files[n])
                        /\ mpc'[n] = "done" => emitted'[n] = Len(files[n])
      BY <1>1, <1>2 DEF Emits
    <2>1. Len(files[n]) \in Nat
      BY <1>1, FilesType DEF Types
    <2> QED BY <1>1, <1>4, <2>1 DEF Mapped, Emits
  <1>11. Kept'
    <2>1. \A n \in Mappers : StoredCount(n)' = StoredCount(n)
      BY <1>1, <1>4 DEF StoredCount
    <2> QED BY <1>1, <2>1, StoredStays, KeptStays DEF Mapped
  <1>12. Phases'
    <2>1. phase = "map"
      BY <1>1, MapperPhase
    <2> QED BY <1>1, <2>1 DEF Phases, reducing
  <1>13. InOrder'
    BY <1>1, InOrderStays
  <1> QED
    BY <1>3, <1>7, <1>9, <1>10, <1>11, <1>12, <1>13 DEF Inv, InOrder, Mapped

LEMMA MapReturnsKeeps ==
    ASSUME Inv, NEW m \in Mappers, MapReturns(m) PROVE Inv'
  <1>1. /\ Types /\ Mapped /\ Phases /\ InOrder
        /\ Mapping /\ mpc[m] = "map" /\ emitted[m] = Len(files[m])
        /\ mpc' = [mpc EXCEPT ![m] = "done"]
        /\ UNCHANGED <<files, early_return, phase, emitted, mutex, all_data,
                       map_count, next_data, part_data, reducing>>
    BY DEF Inv, InOrder, MapReturns, program
  <1>2. Mappers' = Mappers
    BY <1>1 DEF Mappers
  <1>3. Types'
    BY <1>1, <1>2 DEF Types, reducing
  <1>4. \A n \in Mappers : mpc'[n] = IF n = m THEN "done" ELSE mpc[n]
    BY <1>1 DEF Types
  <1>5. OneHolder'
    BY <1>1, <1>2, <1>4 DEF Mapped, OneHolder
  <1>6. Counting' = Counting
    BY <1>1, <1>2, <1>4 DEF Counting
  <1>7. Counted'
    BY <1>1, <1>6 DEF Mapped, Counted
  <1>8. Emits'
    BY <1>1, <1>2, <1>4 DEF Mapped, Emits
  <1>9. Kept'
    <2>1. \A n \in Mappers : StoredCount(n)' = StoredCount(n)
      BY <1>1, <1>4 DEF StoredCount
    <2> QED BY <1>1, <2>1, StoredStays, KeptStays DEF Mapped
  <1>10. Phases'
    <2>1. phase = "map"
      BY <1>1, MapperPhase
    <2> QED BY <1>1, <2>1 DEF Phases, reducing
  <1>11. InOrder'
    BY <1>1, InOrderStays
  <1> QED
    BY <1>3, <1>5, <1>7, <1>8, <1>9, <1>10, <1>11 DEF Inv, InOrder, Mapped

(* The partition loop.                                                     *)

LEMMA PartitionPairKeeps == ASSUME Inv, PartitionPair PROVE Inv'
  <1>1. /\ Types /\ Mapped /\ Phases /\ InOrder
        /\ phase = "partition" /\ next_data < map_count
        /\ UNCHANGED <<files, early_return, mapping, reducing>>
    BY DEF Inv, InOrder, PartitionPair, program
  <1>2. Mappers' = Mappers
    BY <1>1 DEF Mappers
  <1>3. /\ all_data \in Seq(Pairs) /\ map_count \in Nat /\ next_data \in Nat
        /\ map_count <= Len(all_data)
    BY <1>1, NextInAll DEF Types
  <1>4. PICK n \in 1 .. Len(all_data) : n = next_data + 1
    BY <1>1, <1>3
  <1>5. PICK pair \in Pairs : pair = all_data[n]
    BY <1>3
  <1>6. PICK p \in Partitions : p = partition[pair.key]
    BY PartitionAssumption DEF Pairs
  <1>7. Mapped'
    BY <1>1, MappedStays
  <1>8. CASE Len(part_data[p]) = MaxInPartition
    <2>1. phase' = "undefined" /\ UNCHANGED <<part_data, next_data>>
      BY <1>4, <1>5, <1>6, <1>8 DEF PartitionPair
    <2>2. Types'
      BY <1>1, <1>2, <2>1 DEF Types, mapping, reducing
    <2>3. TooManyPairs'
      BY <1>1, <1>4, <1>5, <1>6, <1>8, TooManyForPartition, TooManyStays
         DEF InOrder
    <2>4. Phases'
      BY <1>1, <2>1, <2>3 DEF Phases, reducing
    <2>5. InOrder'
      BY <1>1, <2>1, InOrderStays DEF mapping
    <2> QED BY <1>7, <2>2, <2>4, <2>5 DEF Inv, InOrder
  <1>9. CASE Len(part_data[p]) # MaxInPartition
    <2>1. PICK list : list = part_data[p]
      OBVIOUS
    <2>2. list \in Seq(Pairs) /\ Sorted(list)
      BY <1>1, <2>1 DEF Types, InOrder, Partitioned
    <2>3. PICK new : new = MR_Sortadd(list, pair)
      OBVIOUS
    <2>4. /\ new \in Seq(Pairs) /\ Len(new) = Len(list) + 1 /\ Sorted(new)
          /\ \A key : ValuesOf(key, new)
                        = ValuesOf(key, list) \o OneValue(key, pair)
      BY <2>2, <2>3, SortaddKeeps
    <2>5. /\ part_data' = [part_data EXCEPT ![p] = new]
          /\ next_data' = n
          /\ UNCHANGED phase
      BY <1>4, <1>5, <1>6, <1>9, <2>1, <2>3 DEF PartitionPair
    <2>6. \A q \in Partitions :
              part_data'[q] = IF q = p THEN new ELSE part_data[q]
      BY <1>1, <2>5 DEF Types
    <2>7. Types'
      <3>1. part_data' \in [Partitions -> Seq(Pairs)]
        BY <1>1, <2>4, <2>5 DEF Types
      <3>2. next_data' \in 0 .. map_count'
        BY <1>1, <1>3, <1>4, <2>5 DEF mapping
      <3> QED BY <1>1, <1>2, <2>5, <3>1, <3>2 DEF Types, mapping, reducing
    <2>8. AllMapped'
      BY <1>1, <1>2 DEF Phases, AllMapped, mapping
    <2>9. Phases'
      BY <1>1, <2>5, <2>8 DEF Phases, reducing
    <2>10. ASSUME NEW key
           PROVE  ValuesOf(key, Taken') = ValuesOf(key, Taken)
                                            \o OneValue(key, pair)
      <3>1. PICK a : a = Taken
        OBVIOUS
      <3>2. a \in Seq(Pairs)
        BY <1>1, <1>3, <3>1, NextInAll DEF Taken
      <3>3. Taken' = Append(a, pair)
        BY <1>1, <1>3, <1>4, <1>5, <2>5, <3>1 DEF Taken, mapping
      <3> QED BY <3>1, <3>2, <3>3, ValuesAppend
    <2>11. ASSUME NEW key PROVE ValuesOf(key, Taken) \in Seq(Values)
      <3>1. Taken \in Seq(Pairs)
        BY <1>1, <1>3, NextInAll DEF Taken
      <3> QED BY <3>1, ValuesType
    <2>12. ASSUME NEW q \in Partitions PROVE Partitioned(q)'
      <3> DEFINE before == {i \in 1 .. next_data :
                               partition[all_data[i].key] = q}
                 after == {i \in 1 .. n : partition[all_data[i].key] = q}
      <3>1. IsFiniteSet(before) /\ Cardinality(before) \in Nat
        <4>1. IsFiniteSet(1 .. next_data)
          BY <1>3, CountUpTo
        <4> QED BY <4>1, FS_Subset, FS_CardinalityType
      <3>2. /\ Sorted(part_data[q])
            /\ Len(part_data[q]) = Cardinality(before)
            /\ \A key \in Keys :
                   ValuesOf(key, part_data[q])
                     = IF partition[key] = q THEN ValuesOf(key, Taken) ELSE <<>>
        BY <1>1 DEF InOrder, Partitioned
      <3>3. after = {i \in 1 .. next_data' : partition[all_data'[i].key] = q}
        BY <1>1, <2>5 DEF mapping
      <3>4. CASE q = p
        <4>1. after = before \cup {n} /\ n \notin before
          BY <1>3, <1>4, <1>5, <1>6, <3>4
        <4>2. Cardinality(after) = Cardinality(before) + 1
          <5> HIDE DEF before, after
          <5> QED BY <3>1, <4>1, FS_AddElement
        <4>3. Len(part_data'[q]) = Cardinality(after)
          <5> HIDE DEF before, after
          <5> QED BY <2>1, <2>4, <2>6, <3>2, <3>4, <4>2
        <4>4. ASSUME NEW key \in Keys
              PROVE  ValuesOf(key, part_data'[q])
                       = IF partition[key] = q THEN ValuesOf(key, Taken')
                                               ELSE <<>>
          <5>1. ValuesOf(key, part_data'[q])
                  = ValuesOf(key, part_data[q]) \o OneValue(key, pair)
            BY <2>1, <2>4, <2>6, <3>4
          <5>2. CASE partition[key] = q
            BY <2>10, <3>2, <5>1, <5>2
          <5>3. CASE partition[key] # q
            <6>1. OneValue(key, pair) = <<>>
              BY <1>6, <3>4, <5>3 DEF OneValue
            <6>2. ValuesOf(key, part_data[q]) = <<>>
              BY <3>2, <5>3
            <6>3. <<>> \o <<>> = <<>>
              OBVIOUS
            <6> QED BY <5>1, <5>3, <6>1, <6>2, <6>3
          <5> QED BY <5>2, <5>3
        <4>5. Sorted(part_data'[q])
          BY <2>4, <2>6, <3>4
        <4> HIDE DEF before, after
        <4> QED BY <3>3, <4>3, <4>4, <4>5 DEF Partitioned
      <3>5. CASE q # p
        <4>1. after = before
          BY <1>3, <1>4, <1>5, <1>6, <3>5
        <4>2. part_data'[q] = part_data[q]
          BY <2>6, <3>5
        <4>3. ASSUME NEW key \in Keys
              PROVE  ValuesOf(key, part_data'[q])
                       = IF partition[key] = q THEN ValuesOf(key, Taken')
                                               ELSE <<>>
          <5>1. CASE partition[key] = q
            <6>1. OneValue(key, pair) = <<>>
              BY <1>6, <3>5, <5>1 DEF OneValue
            <6>2. PICK a : a = ValuesOf(key, Taken)
              OBVIOUS
            <6>3. a \o <<>> = a
              BY <2>11, <6>2
            <6> QED BY <2>10, <3>2, <4>2, <5>1, <6>1, <6>2, <6>3
          <5>2. CASE partition[key] # q
            BY <3>2, <4>2, <5>2
          <5> QED BY <5>1, <5>2
        <4> HIDE DEF before, after
        <4> QED BY <3>2, <3>3, <4>1, <4>2, <4>3 DEF Partitioned
      <3> QED BY <3>4, <3>5
    <2>13. ASSUME NEW q \in Partitions PROVE Reduced(q)' /\ Ahead(q)'
      <3>1. /\ rpc'[q] = "loop" /\ calls[q] = <<>> /\ part_count[q] = 0
            /\ calls'[q] = <<>> /\ part_count'[q] = 0
        BY <1>1 DEF Phases, reducing
      <3>2. part_data[q] \in Seq(Pairs) /\ part_data'[q] \in Seq(Pairs)
        BY <1>1, <2>7 DEF Types
      <3>3. Given(q) = <<>> /\ Given(q)' = <<>>
        BY <3>1, <3>2 DEF Given
      <3>4. Len(part_data'[q]) \in Nat
        BY <3>2
      <3>5. Reduced(q)'
        BY <1>1, <3>1, <3>3, <3>4 DEF InOrder, Reduced
      <3>6. Ahead(q)'
        BY <3>1 DEF Ahead
      <3> QED BY <3>5, <3>6
    <2> QED BY <1>7, <2>7, <2>9, <2>12, <2>13 DEF Inv, InOrder
  <1> QED BY <1>8, <1>9

(* The reducers.                                                           *)

\* A reducer's step changes nothing that is another's.
LEMMA OtherReducers ==
    ASSUME Types, Mapped, InOrder, NEW p \in Partitions,
           UNCHANGED <<all_data, early_return, next_data, part_data>>,
           \A q \in Partitions \ {p} :
               /\ rpc'[q] = rpc[q] /\ calls'[q] = calls[q]
               /\ part_count'[q] = part_count[q]
    PROVE  /\ \A q \in Partitions : Partitioned(q)'
           /\ \A q \in Partitions \ {p} : Reduced(q)' /\ Ahead(q)'
  <1>1. ASSUME NEW q \in Partitions PROVE Partitioned(q)'
    BY NextInAll, PartitionedStays DEF InOrder, Types
  <1>2. ASSUME NEW q \in Partitions \ {p} PROVE Reduced(q)' /\ Ahead(q)'
    BY DEF InOrder, Reduced, Ahead, Given
  <1> QED BY <1>1, <1>2

\* A reducer runs while the phase is "reduce".
LEMMA ReducerPhase ==
    ASSUME Types, Phases, NEW p \in Partitions, rpc[p] = "reduce"
    PROVE  phase = "reduce"
  BY DEF Types, Phases

LEMMA CallReduceKeeps ==
    ASSUME Inv, NEW p \in Partitions, CallReduce(p) PROVE Inv'
  <1>1. /\ Types /\ Mapped /\ Phases /\ InOrder
        /\ phase = "reduce" /\ rpc[p] = "loop"
        /\ UNCHANGED <<files, early_return, phase, mapping, next_data,
                       part_data, part_count>>
    BY DEF Inv, InOrder, CallReduce, program
  <1>2. Mapped' /\ Mappers' = Mappers
    BY <1>1, MappedStays DEF Mappers
  <1>3. AllMapped'
    BY <1>1, <1>2 DEF Phases, AllMapped, mapping
  <1>4. /\ part_data[p] \in Seq(Pairs) /\ part_count[p] \in Nat
        /\ calls[p] \in Seq(CallType) /\ Len(part_data[p]) \in Nat
    BY <1>1 DEF Types
  <1>5. Phases'
    BY <1>1, <1>3 DEF Phases, mapping
  <1>6. CASE part_count[p] < Len(part_data[p])
    <2>1. PICK i \in 1 .. Len(part_data[p]) : i = part_count[p] + 1
      BY <1>4, <1>6
    <2>2. PICK k \in Keys : k = part_data[p][i].key
      <3>1. part_data[p][i] \in Pairs
        BY <1>4
      <3> QED BY <3>1 DEF Pairs
    <2>3. PICK cs, ds : /\ cs = calls[p]
                        /\ ds = Append(cs, [key |-> k, values |-> <<>>])
      OBVIOUS
    <2>4. /\ cs \in Seq(CallType) /\ ds \in Seq(CallType)
          /\ Len(ds) = Len(cs) + 1
          /\ \A n \in 1 .. Len(cs) : ds[n] = cs[n]
          /\ Last(ds).key = k
          /\ PairsOfCalls(ds) = PairsOfCalls(cs)
          /\ \A key : ValuesOfCalls(key, ds) = ValuesOfCalls(key, cs)
      BY <1>4, <2>3, CallsAppend
    <2>5. /\ rpc' = [rpc EXCEPT ![p] = "reduce"]
          /\ calls' = [calls EXCEPT ![p] = ds]
      <3>1. /\ rpc' = [rpc EXCEPT ![p] = "reduce"]
            /\ calls' = [calls EXCEPT ![p] = Append(@,
                  [key |-> part_data[p][part_count[p] + 1].key,
                   values |-> <<>>])]
        BY <1>4, <1>6 DEF CallReduce
      <3>2. calls' = [calls EXCEPT ![p] =
                         Append(@, [key |-> k, values |-> <<>>])]
        BY <2>1, <2>2, <3>1
      <3> QED BY <1>1, <2>3, <3>1, <3>2 DEF Types
    <2>6. /\ rpc'[p] = "reduce" /\ calls'[p] = ds
          /\ \A q \in Partitions \ {p} :
                 rpc'[q] = rpc[q] /\ calls'[q] = calls[q]
      BY <1>1, <2>5 DEF Types
    <2>7. Types'
      <3>1. /\ rpc' \in [Partitions -> {"loop", "reduce", "done"}]
            /\ calls' \in [Partitions -> Seq(CallType)]
        BY <1>1, <2>4, <2>5 DEF Types
      <3> QED BY <1>1, <1>2, <3>1 DEF Types, mapping
    <2>8. Reduced(p)'
      BY <1>1, <2>3, <2>4, <2>6 DEF InOrder, Reduced, Given
    <2>9. Ahead(p)'
      <3>1. \A j \in i .. Len(part_data[p]) :
                /\ part_data[p][j].key \in Nat
                /\ k <= part_data[p][j].key
        <4> SUFFICES ASSUME NEW j \in i .. Len(part_data[p])
                     PROVE  /\ part_data[p][j].key \in Nat
                            /\ k <= part_data[p][j].key
          OBVIOUS
        <4>1. j \in 1 .. Len(part_data[p]) /\ i <= j
          OBVIOUS
        <4>2. part_data[p][j] \in Pairs
          BY <1>4, <4>1
        <4>3. part_data[p][j].key \in Nat
          BY <4>2, KeysAssumption DEF Pairs
        <4>4. part_data[p][i].key <= part_data[p][j].key
          BY <1>1, <4>1 DEF InOrder, Partitioned, Sorted
        <4> QED BY <2>2, <4>3, <4>4
      <3>2. k \in Nat
        BY <2>2, KeysAssumption
      <3>3. ASSUME NEW j \in part_count[p] + 1 .. Len(part_data[p])
            PROVE  Last(ds).key < part_data[p][j].key
                     \/ Last(ds).key = part_data[p][j].key
        BY <2>1, <2>4, <3>1, <3>2
      <3>4. ASSUME NEW n \in 1 .. Len(ds) - 1
            PROVE  \/ ds[n].key < ds[n + 1].key
                   \/ early_return /\ ds[n].key = ds[n + 1].key
        <4>1. n \in 1 .. Len(cs) /\ Len(cs) \in Nat
          BY <2>4
        <4>2. CASE n < Len(cs)
          <5>1. /\ n \in 1 .. Len(cs) - 1 /\ n + 1 \in 1 .. Len(cs)
                /\ n \in 1 .. Len(cs)
            BY <4>1, <4>2
          <5>2. ds[n] = cs[n] /\ ds[n + 1] = cs[n + 1]
            BY <2>4, <5>1
          <5>3. \/ cs[n].key < cs[n + 1].key
                \/ early_return /\ cs[n].key = cs[n + 1].key
            BY <1>1, <2>3, <5>1 DEF InOrder, Ahead
          <5> QED BY <5>2, <5>3
        <4>3. CASE n = Len(cs)
          <5>1. cs # <<>>
            BY <4>1, <4>3
          <5>2. ds[n] = Last(cs) /\ ds[n + 1] = Last(ds)
            BY <2>4, <4>1, <4>3 DEF Last
          <5>3. i \in part_count[p] + 1 .. Len(part_data[p])
            BY <2>1
          <5>4. \/ Last(cs).key < part_data[p][i].key
                \/ early_return /\ Last(cs).key = part_data[p][i].key
            BY <1>1, <2>3, <5>1, <5>3 DEF InOrder, Ahead
          <5> QED BY <2>2, <2>4, <5>2, <5>4
        <4> QED BY <4>1, <4>2, <4>3
      <3>5. ds # <<>>
        BY <2>4
      <3> QED BY <1>1, <2>6, <3>3, <3>4, <3>5 DEF Ahead
    <2>10. \A q \in Partitions \ {p} : part_count'[q] = part_count[q]
      BY <1>1
    <2>11. InOrder'
      BY <1>1, <2>6, <2>8, <2>9, <2>10, OtherReducers DEF InOrder, mapping
    <2> QED BY <1>2, <1>5, <2>7, <2>11 DEF Inv, InOrder
  <1>7. CASE ~(part_count[p] < Len(part_data[p]))
    <2>1. /\ rpc' = [rpc EXCEPT ![p] = "done"] /\ UNCHANGED calls
          /\ part_count[p] = Len(part_data[p])
      BY <1>1, <1>4, <1>7 DEF CallReduce, InOrder, Reduced
    <2>2. /\ rpc'[p] = "done"
          /\ \A q \in Partitions \ {p} : rpc'[q] = rpc[q]
      BY <1>1, <2>1 DEF Types
    <2>3. Types'
      BY <1>1, <1>2, <2>1 DEF Types, mapping
    <2>4. Reduced(p)'
      BY <1>1, <2>1 DEF InOrder, Reduced, Given
    <2>5. Ahead(p)'
      BY <1>1, <1>4, <2>1, <2>2 DEF InOrder, Ahead
    <2>6. InOrder'
      BY <1>1, <2>1, <2>2, <2>4, <2>5, OtherReducers DEF InOrder, mapping
    <2> QED BY <1>2, <1>5, <2>3, <2>6 DEF Inv, InOrder
  <1> QED BY <1>6, <1>7

LEMMA GetValueKeeps ==
    ASSUME Inv, NEW p \in Partitions, GetValue(p) PROVE Inv'
  <1>1. /\ Types /\ Mapped /\ Phases /\ InOrder
        /\ rpc[p] = "reduce" /\ HasNext(p)
        /\ part_count' = [part_count EXCEPT ![p] = @ + 1]
        /\ UNCHANGED <<files, early_return, phase, mapping, next_data,
                       part_data, rpc>>
    BY DEF Inv, InOrder, GetValue, program
  <1>2. Mapped' /\ Mappers' = Mappers
    BY <1>1, MappedStays DEF Mappers
  <1>3. phase = "reduce"
    BY <1>1, ReducerPhase
  <1>4. AllMapped'
    BY <1>1, <1>2, <1>3 DEF Phases, AllMapped, mapping
  <1>5. /\ part_data[p] \in Seq(Pairs) /\ part_count[p] \in Nat
        /\ calls[p] \in Seq(CallType) /\ Len(part_data[p]) \in Nat
    BY <1>1 DEF Types
  <1>6. Phases'
    BY <1>1, <1>3, <1>4 DEF Phases, mapping
  <1>7. PICK i \in 1 .. Len(part_data[p]) : i = part_count[p] + 1
    BY <1>1, <1>5 DEF HasNext
  <1>8. PICK pair \in Pairs : pair = part_data[p][i]
    BY <1>5
  <1>9. PICK cs : cs = calls[p]
    OBVIOUS
  <1>10. cs \in Seq(CallType) /\ cs # <<>> /\ cs[Len(cs)].key = pair.key
    BY <1>1, <1>5, <1>7, <1>8, <1>9 DEF InOrder, Ahead, HasNext, Last
  <1>11. PICK ds : ds = [cs EXCEPT ![Len(cs)].values = Append(@, pair.value)]
    OBVIOUS
  <1>12. pair = [key |-> cs[Len(cs)].key, value |-> pair.value]
         /\ pair.value \in Values
    BY <1>10 DEF Pairs
  <1>13. /\ ds \in Seq(CallType) /\ Len(ds) = Len(cs)
         /\ \A n \in 1 .. Len(cs) : ds[n].key = cs[n].key
         /\ PairsOfCalls(ds) = Append(PairsOfCalls(cs), pair)
         /\ \A key : ValuesOfCalls(key, ds) =
                IF pair.key = key
                THEN Append(ValuesOfCalls(key, cs), pair.value)
                ELSE ValuesOfCalls(key, cs)
    <2>1. PICK v \in Values : v = pair.value
      BY <1>12
    <2>2. ds = [cs EXCEPT ![Len(cs)].values = Append(@, v)]
      BY <1>11, <2>1
    <2>3. /\ ds \in Seq(CallType) /\ Len(ds) = Len(cs)
          /\ \A n \in 1 .. Len(cs) : ds[n].key = cs[n].key
          /\ PairsOfCalls(ds) =
                 Append(PairsOfCalls(cs),
                        [key |-> cs[Len(cs)].key, value |-> v])
          /\ \A key : ValuesOfCalls(key, ds) =
                 IF cs[Len(cs)].key = key
                 THEN Append(ValuesOfCalls(key, cs), v)
                 ELSE ValuesOfCalls(key, cs)
      <3>1. \A w \in Values :
                LET n == Len(cs)
                    es == [cs EXCEPT ![n].values = Append(@, w)]
                IN  /\ es \in Seq(CallType) /\ Len(es) = Len(cs)
                    /\ \A j \in 1 .. n : es[j].key = cs[j].key
                    /\ PairsOfCalls(es) =
                           Append(PairsOfCalls(cs),
                                  [key |-> cs[n].key, value |-> w])
                    /\ \A key : ValuesOfCalls(key, es) =
                           IF cs[n].key = key
                           THEN Append(ValuesOfCalls(key, cs), w)
                           ELSE ValuesOfCalls(key, cs)
        BY <1>10, CallsGrow
      <3> QED BY <2>2, <3>1
    <2> QED BY <1>10, <1>12, <2>1, <2>3
  <1>14. calls' = [calls EXCEPT ![p] = ds]
    <2>1. calls' = [calls EXCEPT ![p][Len(calls[p])].values =
                       Append(@, pair.value)]
      BY <1>7, <1>8 DEF GetValue
    <2> QED BY <1>1, <1>9, <1>11, <2>1 DEF Types
  <1>15. /\ calls'[p] = ds /\ part_count'[p] = i
         /\ \A q \in Partitions \ {p} :
                calls'[q] = calls[q] /\ part_count'[q] = part_count[q]
    BY <1>1, <1>7, <1>14 DEF Types
  <1>16. Types'
    <2>1. /\ calls' \in [Partitions -> Seq(CallType)]
          /\ part_count' \in [Partitions -> Nat]
      BY <1>1, <1>13, <1>14 DEF Types
    <2> QED BY <1>1, <1>2, <2>1 DEF Types, mapping
  <1>17. PICK given : given = Given(p)
    OBVIOUS
  <1>18. given \in Seq(Pairs) /\ Given(p)' = Append(given, pair)
    <2>1. given = SubSeq(part_data[p], 1, i - 1) /\ given \in Seq(Pairs)
      BY <1>5, <1>7, <1>17 DEF Given
    <2>2. Given(p)' = SubSeq(part_data[p], 1, i)
      BY <1>1, <1>15 DEF Given
    <2>3. SubSeq(part_data[p], 1, i)
            = Append(SubSeq(part_data[p], 1, i - 1), part_data[p][i])
      BY <1>5
    <2> QED BY <1>8, <2>1, <2>2, <2>3
  <1>19. Reduced(p)'
    <2>1. /\ PairsOfCalls(cs) = given
          /\ \A key \in Keys : ValuesOfCalls(key, cs) = ValuesOf(key, given)
      BY <1>1, <1>9, <1>17 DEF InOrder, Reduced
    <2>2. PairsOfCalls(calls'[p]) = Given(p)'
      BY <1>13, <1>15, <1>18, <2>1
    <2>3. ASSUME NEW key \in Keys
          PROVE  ValuesOfCalls(key, calls'[p]) = ValuesOf(key, Given(p)')
      <3>1. PICK a : a = ValuesOf(key, given)
        OBVIOUS
      <3>2. a \in Seq(Values)
        BY <1>18, <3>1, ValuesType
      <3>3. ValuesOf(key, Given(p)') = a \o OneValue(key, pair)
        BY <1>18, <3>1, ValuesAppend
      <3>4. CASE pair.key = key
        <4>1. OneValue(key, pair) = <<pair.value>>
          BY <3>4 DEF OneValue
        <4>2. a \o <<pair.value>> = Append(a, pair.value)
          BY <1>12, <3>2
        <4>3. ValuesOfCalls(key, ds) = Append(a, pair.value)
          BY <1>13, <2>1, <3>1, <3>4
        <4> QED BY <1>15, <3>3, <4>1, <4>2, <4>3
      <3>5. CASE pair.key # key
        <4>1. OneValue(key, pair) = <<>>
          BY <3>5 DEF OneValue
        <4>2. a \o <<>> = a
          BY <3>2
        <4>3. ValuesOfCalls(key, ds) = a
          BY <1>13, <2>1, <3>1, <3>5
        <4> QED BY <1>15, <3>3, <4>1, <4>2, <4>3
      <3> QED BY <3>4, <3>5
    <2>4. part_count'[p] <= Len(part_data'[p])
      BY <1>1, <1>15
    <2> QED BY <2>2, <2>3, <2>4 DEF Reduced
  <1>20. Ahead(p)'
    <2>1. Last(ds).key = Last(cs).key /\ ds # <<>>
      BY <1>10, <1>13 DEF Last
    <2>2. ASSUME NEW n \in 1 .. Len(ds) - 1
          PROVE  \/ ds[n].key < ds[n + 1].key
                 \/ early_return /\ ds[n].key = ds[n + 1].key
      <3>1. /\ n \in 1 .. Len(cs) /\ n + 1 \in 1 .. Len(cs)
            /\ n \in 1 .. Len(cs) - 1
        BY <1>10, <1>13
      <3>2. ds[n].key = cs[n].key /\ ds[n + 1].key = cs[n + 1].key
        BY <1>13, <3>1
      <3>3. \/ cs[n].key < cs[n + 1].key
            \/ early_return /\ cs[n].key = cs[n + 1].key
        BY <1>1, <1>9, <3>1 DEF InOrder, Ahead
      <3> QED BY <3>2, <3>3
    <2>3. ASSUME NEW j \in i + 1 .. Len(part_data[p])
          PROVE  \/ Last(ds).key < part_data[p][j].key
                 \/ Last(ds).key = part_data[p][j].key
      <3>1. j \in part_count[p] + 1 .. Len(part_data[p])
        BY <1>5, <1>7
      <3> QED BY <1>1, <1>9, <1>10, <2>1, <3>1 DEF InOrder, Ahead
    <2> QED BY <1>1, <1>15, <2>1, <2>2, <2>3 DEF Ahead
  <1>21. InOrder'
    BY <1>1, <1>15, <1>19, <1>20, OtherReducers DEF InOrder, mapping
  <1> QED BY <1>2, <1>6, <1>16, <1>21 DEF Inv, InOrder

LEMMA ReduceReturnsKeeps ==
    ASSUME Inv, NEW p \in Partitions, ReduceReturns(p) PROVE Inv'
  <1>1. /\ Types /\ Mapped /\ Phases /\ InOrder
        /\ rpc[p] = "reduce"
        /\ ~HasNext(p) \/ early_return
        /\ rpc' = [rpc EXCEPT ![p] = "loop"]
        /\ UNCHANGED <<files, early_return, phase, mapping, next_data,
                       part_data, part_count, calls>>
    BY DEF Inv, InOrder, ReduceReturns, program
  <1>2. Mapped' /\ Mappers' = Mappers
    BY <1>1, MappedStays DEF Mappers
  <1>3. phase = "reduce"
    BY <1>1, ReducerPhase
  <1>4. AllMapped'
    BY <1>1, <1>2, <1>3 DEF Phases, AllMapped, mapping
  <1>5. Phases'
    BY <1>1, <1>3, <1>4 DEF Phases, mapping
  <1>6. /\ rpc'[p] = "loop"
        /\ \A q \in Partitions \ {p} : rpc'[q] = rpc[q]
    BY <1>1 DEF Types
  <1>7. Types'
    BY <1>1, <1>2 DEF Types, mapping
  <1>8. Reduced(p)'
    BY <1>1 DEF InOrder, Reduced, Given
  <1>9. /\ part_data[p] \in Seq(Pairs) /\ part_count[p] \in Nat
        /\ calls[p] \in Seq(CallType) /\ Len(part_data[p]) \in Nat
    BY <1>1 DEF Types
  <1>10. Ahead(p)'
    <2>1. ASSUME calls[p] # <<>>,
                 NEW j \in part_count[p] + 1 .. Len(part_data[p])
          PROVE  \/ Last(calls[p]).key < part_data[p][j].key
                 \/ /\ early_return
                    /\ Last(calls[p]).key = part_data[p][j].key
      <3>1. PICK i \in 1 .. Len(part_data[p]) : i = part_count[p] + 1
        BY <1>9
      <3>2. /\ j \in 1 .. Len(part_data[p]) /\ i <= j
            /\ i \in part_count[p] + 1 .. Len(part_data[p])
        BY <1>9, <3>1
      <3>3. PICK x, y, z : /\ x = Last(calls[p]).key
                           /\ y = part_data[p][i].key
                           /\ z = part_data[p][j].key
        OBVIOUS
      <3>4. x \in Nat /\ y \in Nat /\ z \in Nat
        <4>1. Last(calls[p]) \in CallType
          BY <1>9, <2>1 DEF Last
        <4>2. part_data[p][i] \in Pairs /\ part_data[p][j] \in Pairs
          BY <1>9, <3>2
        <4> QED BY <3>3, <4>1, <4>2, KeysAssumption DEF CallType, Pairs
      <3>5. y <= z
        BY <1>1, <3>2, <3>3 DEF InOrder, Partitioned, Sorted
      <3>6. (x < y \/ x = y) /\ (x < z \/ x = z)
        BY <1>1, <2>1, <3>2, <3>3 DEF InOrder, Ahead
      <3>7. ~early_return => x # y
        BY <1>1, <1>9, <3>1, <3>3 DEF HasNext
      <3>8. x < z \/ (early_return /\ x = z)
        BY <3>4, <3>5, <3>6, <3>7
      <3> QED BY <3>3, <3>8
    <2> QED BY <1>1, <1>6, <2>1 DEF InOrder, Ahead
  <1>11. InOrder'
    BY <1>1, <1>6, <1>8, <1>10, OtherReducers DEF InOrder, mapping
  <1> QED BY <1>2, <1>5, <1>7, <1>11 DEF Inv, InOrder

LEMMA InvStep == Inv /\ [Next]_vars => Inv'
  <1> SUFFICES ASSUME Inv, [Next]_vars PROVE Inv'
    OBVIOUS
  <1>1. ASSUME NEW m \in Mappers, MapperStep(m) PROVE Inv'
    BY <1>1, EmitLockKeeps, EmitStoreKeeps, EmitUnlockKeeps, MapReturnsKeeps
       DEF MapperStep
  <1>2. ASSUME NEW p \in Partitions, ReducerStep(p) PROVE Inv'
    BY <1>2, CallReduceKeeps, GetValueKeeps, ReduceReturnsKeeps
       DEF ReducerStep
  <1>3. CASE UNCHANGED vars
    <2>1. /\ Types /\ Mapped /\ Phases /\ InOrder
          /\ UNCHANGED <<files, early_return, phase, mapping, next_data,
                         part_data, reducing>>
      BY <1>3 DEF Inv, InOrder, vars, program
    <2>2. Types'
      BY <2>1 DEF Types, mapping, reducing, Mappers
    <2>3. Mapped'
      BY <2>1, MappedStays
    <2>4. AllMapped' = AllMapped /\ TooManyPairs' = TooManyPairs
      BY <2>1, TooManyStays DEF AllMapped, Mappers, mapping
    <2>5. Phases'
      BY <2>1, <2>4 DEF Phases, mapping, reducing
    <2>6. InOrder'
      BY <2>1, InOrderStays DEF mapping
    <2> QED BY <2>2, <2>3, <2>5, <2>6 DEF Inv, InOrder
  <1> QED
    BY <1>1, <1>2, <1>3, StartMappersKeeps, JoinMappersKeeps,
       PartitionPairKeeps, StartReducersKeeps, JoinReducersKeeps DEF Next

LEMMA Invariance == Spec => []Inv
  BY InitLemma, InvStep, PTL DEF Spec

-----------------------------------------------------------------------------
(* The theorems.                                                           *)

\* Every variable has its type, and map_count, next_data and each part_count
\* stay within the lists they count.
THEOREM TypeCorrect == Spec => []TypeOK
  <1>1. Inv => TypeOK
    <2> SUFFICES ASSUME Inv PROVE TypeOK
      OBVIOUS
    <2>1. map_count \in 0 .. Len(all_data)
      BY NextInAll DEF Inv, Types
    <2>2. \A p \in Partitions : part_count[p] <= Len(part_data[p])
      BY DEF Inv, Reduced
    <2> QED BY <2>1, <2>2 DEF Inv, Types, TypeOK, CallType
  <1> QED BY <1>1, Invariance, PTL

\* MR_Emit under the mutex: each pair a mapper has stored is in all_data, as
\* often as it has been stored, and map_count counts them but the one that is
\* not counted yet; whatever the order in which the mappers run.
THEOREM EmittedPairsAreKept == Spec => []EmitsAreKept
  <1>1. Inv => EmitsAreKept
    <2> SUFFICES ASSUME Inv PROVE EmitsAreKept
      OBVIOUS
    <2>1. Types /\ Mapped
      BY DEF Inv
    <2>2. all_data \in Seq(Pairs) /\ files \in Inputs
      BY <2>1 DEF Types
    <2>3. ASSUME NEW m \in Mappers
          PROVE  /\ StoredCount(m) \in 0 .. Len(files[m])
                 /\ StoredBy(m) \in Seq(Pairs)
                 /\ Len(StoredBy(m)) = StoredCount(m)
                 /\ \A n \in 1 .. StoredCount(m) :
                        /\ <<m, n>> \in Stored
                        /\ StoredBy(m)[n] = files[m][n]
      <3>1. files[m] \in Seq(Pairs) /\ Len(files[m]) \in Nat
        BY <2>2, FilesType
      <3>2. StoredCount(m) \in 0 .. Len(files[m])
        BY <2>1, <3>1 DEF StoredCount, Types, Mapped, Emits
      <3>3. StoredBy(m) = SubSeq(files[m], 1, StoredCount(m))
        BY DEF StoredBy, StoredCount
      <3>4. PICK k \in 0 .. Len(files[m]) : k = StoredCount(m)
        BY <3>2
      <3>5. /\ SubSeq(files[m], 1, k) \in Seq(Pairs)
            /\ Len(SubSeq(files[m], 1, k)) = k
            /\ \A n \in 1 .. k : SubSeq(files[m], 1, k)[n] = files[m][n]
        BY <3>1
      <3>6. ASSUME NEW n \in 1 .. k PROVE <<m, n>> \in Stored
        <4>1. PICK c : c = <<m, n>>
          OBVIOUS
        <4>2. c[1] = m /\ c[2] = n /\ n \in 1 .. Len(files[m])
          BY <3>1, <4>1
        <4>3. c \in Cells(files)
          BY <4>1, <4>2, CellsAre DEF Mappers
        <4> QED BY <3>4, <4>1, <4>2, <4>3 DEF Stored
      <3> QED BY <3>2, <3>3, <3>4, <3>5, <3>6
    <2>4. ASSUME NEW m \in Mappers PROVE StoredCount(m) <= Len(all_data)
      <3>1. PICK k \in Nat : k = StoredCount(m)
        BY <2>3
      <3> DEFINE h == [n \in 1 .. k |-> <<m, n>>]
      <3>2. /\ h \in [1 .. k -> Stored]
            /\ \A i, j \in 1 .. k : h[i] = h[j] => i = j
        BY <2>3, <3>1
      <3>3. h \in Injection(1 .. k, Stored)
        <4> HIDE DEF h
        <4> QED BY <3>2 DEF Injection, IsInjective
      <3>4. IsFiniteSet(Stored) /\ Cardinality(Stored) = Len(all_data)
        BY <2>1, StoredLength DEF Mapped
      <3>5. Cardinality(1 .. k) <= Cardinality(Stored)
        <4> HIDE DEF h
        <4> QED BY <3>3, <3>4, FS_Injection
      <3> QED BY <3>1, <3>4, <3>5, CountUpTo
    <2>5. ASSUME NEW pair \in Pairs
          PROVE  Count(pair, all_data)
                   = Cardinality({c \in Mappers \X (1 .. Len(all_data)) :
                         /\ c[2] <= Len(StoredBy(c[1]))
                         /\ StoredBy(c[1])[c[2]] = pair})
      <3> DEFINE found == {c \in Mappers \X (1 .. Len(all_data)) :
                              /\ c[2] <= Len(StoredBy(c[1]))
                              /\ StoredBy(c[1])[c[2]] = pair}
      <3>1. ASSUME NEW c \in found PROVE c \in StoredOf({pair})
        <4>1. /\ c[1] \in Mappers /\ c[2] \in 1 .. StoredCount(c[1])
              /\ c = <<c[1], c[2]>>
          BY <2>3
        <4>2. <<c[1], c[2]>> \in Stored /\ files[c[1]][c[2]] = pair
          BY <2>3, <4>1
        <4> QED BY <4>1, <4>2 DEF StoredOf
      <3>2. ASSUME NEW c \in StoredOf({pair}) PROVE c \in found
        <4>1. /\ c = <<c[1], c[2]>> /\ c[1] \in Mappers
              /\ c[2] \in 1 .. Len(files[c[1]]) /\ c[2] <= StoredCount(c[1])
              /\ files[c[1]][c[2]] = pair
          BY CellsAre DEF StoredOf, Stored, Mappers
        <4>2. c[2] \in Nat /\ c[2] >= 1 /\ c[2] \in 1 .. StoredCount(c[1])
          BY <2>2, <2>3, <4>1, FilesType
        <4>3. c[2] \in 1 .. Len(all_data)
          BY <2>2, <2>3, <2>4, <4>1, <4>2
        <4>4. c[2] <= Len(StoredBy(c[1])) /\ StoredBy(c[1])[c[2]] = pair
          BY <2>3, <4>1, <4>2
        <4>5. c \in Mappers \X (1 .. Len(all_data))
          BY <4>1, <4>3
        <4> QED BY <4>4, <4>5
      <3>3. found = StoredOf({pair})
        <4> HIDE DEF found
        <4> QED BY <3>1, <3>2
      <3>4. PlacesOf({pair}, all_data) = {n \in DOMAIN all_data :
                                            all_data[n] = pair}
        BY DEF PlacesOf
      <3>5. Cardinality(PlacesOf({pair}, all_data))
              = Cardinality(StoredOf({pair}))
        BY <2>1 DEF Mapped, Kept, KindKept, PlacesOf, StoredOf
      <3> QED BY <3>3, <3>4, <3>5 DEF Count
    <2>6. map_count = Len(all_data)
                        - Cardinality({m \in Mappers : mpc[m] = "count"})
      <3>1. CASE Counting
        <4>1. PICK m \in Mappers : mpc[m] = "count"
          BY <3>1 DEF Counting
        <4>2. {n \in Mappers : mpc[n] = "count"} = {m}
          BY <2>1, <4>1 DEF Mapped, OneHolder
        <4>3. Cardinality({m}) = 1
          BY FS_Singleton
        <4>4. Len(all_data) = map_count + 1 /\ map_count \in Nat
          BY <2>1, <3>1 DEF Mapped, Counted, Types
        <4>5. Cardinality({n \in Mappers : mpc[n] = "count"}) = 1
          BY <4>2, <4>3
        <4> QED BY <4>4, <4>5
      <3>2. CASE ~Counting
        <4>1. {n \in Mappers : mpc[n] = "count"} = {}
          BY <3>2 DEF Counting
        <4>2. Len(all_data) = map_count + 0 /\ map_count \in Nat
          BY <2>1, <3>2 DEF Mapped, Counted, Types
        <4>3. Cardinality({n \in Mappers : mpc[n] = "count"}) = 0
          BY <4>1, FS_EmptySet
        <4> QED BY <4>2, <4>3
      <3> QED BY <3>1, <3>2
    <2> QED BY <2>5, <2>6 DEF EmitsAreKept
  <1> QED BY <1>1, Invariance, PTL

\* get_next gives out the values of a partition once each and in order, each
\* to a Reduce call for its own key.
THEOREM ValuesAreGivenOnce == Spec => []ValuesGoToTheirKey
  <1>1. Inv => ValuesGoToTheirKey
    BY DEF Inv, Reduced, ValuesGoToTheirKey, PairsOfCalls, PairLists, PairsOf,
           Given
  <1> QED BY <1>1, Invariance, PTL

\* When MR_Run returns, each key has been reduced with all its values, in the
\* order in which they were emitted, in its own partition and in ascending
\* order of keys; and an array is overrun only if the files have too many pairs.
THEOREM EverythingIsReduced == Spec => []AllReduced
  <1>1. Inv => AllReduced
    <2> SUFFICES ASSUME Inv PROVE AllReduced
      OBVIOUS
    <2>1. Types /\ Mapped /\ Phases
      BY DEF Inv
    <2>2. phase = "undefined" => TooManyPairs
      BY <2>1 DEF Phases
    <2>3. phase = "done" => \A m \in Mappers : emitted[m] = Len(files[m])
      BY <2>1 DEF Phases, AllMapped, Mapped, Emits
    <2>4. ASSUME phase = "done", NEW p \in Partitions
          PROVE  /\ \A key \in Keys :
                        ValuesOfCalls(key, calls[p])
                          = IF partition[key] = p THEN ValuesOf(key, all_data)
                                                  ELSE <<>>
                 /\ \A n \in 1 .. Len(calls[p]) - 1 :
                        \/ calls[p][n].key < calls[p][n + 1].key
                        \/ /\ early_return
                           /\ calls[p][n].key = calls[p][n + 1].key
      <3>1. ~Counting
        BY <2>1, <2>4 DEF Phases, AllMapped, Counting
      <3>2. all_data \in Seq(Pairs) /\ next_data = Len(all_data)
        BY <2>1, <2>4, <3>1 DEF Phases, Mapped, Counted, Types
      <3>3. Taken = all_data
        BY <3>2 DEF Taken
      <3>4. part_data[p] \in Seq(Pairs) /\ part_count[p] = Len(part_data[p])
        BY <2>1, <2>4 DEF Phases, Types, Inv, Ahead
      <3>5. Given(p) = part_data[p]
        BY <3>4 DEF Given
      <3>6. Partitioned(p) /\ Reduced(p) /\ Ahead(p)
        BY DEF Inv
      <3>7. ASSUME NEW key \in Keys
            PROVE  ValuesOfCalls(key, calls[p])
                     = IF partition[key] = p THEN ValuesOf(key, all_data)
                                             ELSE <<>>
        <4>1. ValuesOfCalls(key, calls[p]) = ValuesOf(key, part_data[p])
          BY <3>5, <3>6 DEF Reduced
        <4>2. ValuesOf(key, part_data[p])
                = IF partition[key] = p THEN ValuesOf(key, all_data)
                                        ELSE <<>>
          BY <3>3, <3>6 DEF Partitioned
        <4> QED BY <4>1, <4>2
      <3>8. \A n \in 1 .. Len(calls[p]) - 1 :
                \/ calls[p][n].key < calls[p][n + 1].key
                \/ early_return /\ calls[p][n].key = calls[p][n + 1].key
        BY <3>6 DEF Ahead
      <3> QED BY <3>7, <3>8
    <2> QED BY <2>2, <2>3, <2>4
            DEF AllReduced, ValuesOfCalls, ValueLists, ValuesFor
  <1> QED BY <1>1, Invariance, PTL
=============================================================================
