--------------------------- MODULE SequenceLemmas ---------------------------
(***************************************************************************)
(* Facts about FlattenSeq, InsertAt and Max of the community modules,      *)
(* which the models use for lists of lists, for insertion into a sorted    *)
(* list and for the place of the insertion; and about the operators of     *)
(* RunLength, for all inputs: compressing a page gives the run-length      *)
(* compression of its bytes, and joining the compressed pages gives that   *)
(* of all the bytes.                                                       *)
(*                                                                         *)
(* FlattenSeq is recursive.  What it computes is shown by induction on the *)
(* length of its argument; here that is always the same argument: of the   *)
(* lengths (or places) at which a fact fails there would be a least one,   *)
(* by Least, and at that one it does not fail.                             *)
(***************************************************************************)
EXTENDS RunLength, FiniteSetTheorems, SequenceTheorems,
        WellFoundedInduction, TLAPS

-----------------------------------------------------------------------------
(* The least element.                                                      *)

Less == {ij \in Nat \X Nat : ij[1] < ij[2]}

LEMMA LessIsWellFounded == IsWellFoundedOn(Less, Nat)
  BY NatLessThanWellFounded DEF OpToRel, Less

\* Every set of natural numbers that has an element has a least one.
LEMMA Least ==
    ASSUME NEW T \in SUBSET Nat, T # {}
    PROVE  \E n \in T : \A m \in T : n <= m
  <1>1. PICK n \in T : \A m \in T : ~(<<m, n>> \in Less)
    BY LessIsWellFounded, WFMin
  <1>2. \A m \in T : ~(m < n)
    BY <1>1 DEF Less
  <1> QED BY <1>2

\* A bounded set of natural numbers that has an element has a greatest one,
\* and it is Max's choice.
LEMMA MaxIsGreatest ==
    ASSUME NEW n \in Nat, NEW T \in SUBSET (0 .. n), T # {}
    PROVE  Max(T) \in T /\ \A m \in T : m <= Max(T)
  <1> DEFINE below == {n - m : m \in T}
  <1>1. below \in SUBSET Nat /\ below # {}
    <2>1. \A m \in T : n - m \in Nat
      OBVIOUS
    <2>2. \E m \in T : n - m \in below
      OBVIOUS
    <2> QED BY <2>1, <2>2
  <1>2. PICK d \in below : \A e \in below : d <= e
    BY <1>1, Least
  <1>3. PICK m \in T : d = n - m
    OBVIOUS
  <1>4. \A k \in T : m >= k
    <2> SUFFICES ASSUME NEW k \in T PROVE m >= k
      OBVIOUS
    <2>1. n - k \in below /\ k \in Nat /\ m \in Nat
      OBVIOUS
    <2>2. d <= n - k
      BY <1>2, <2>1
    <2> HIDE DEF below
    <2> QED BY <1>3, <2>1, <2>2
  <1>5. /\ Max(T) \in T
        /\ \A k \in T : Max(T) >= k
    BY <1>4 DEF Max
  <1> QED BY <1>5

LEMMA CountUpTo ==
    \A n \in Nat : IsFiniteSet(1 .. n) /\ Cardinality(1 .. n) = n
  <1> SUFFICES ASSUME NEW n \in Nat
               PROVE  IsFiniteSet(1 .. n) /\ Cardinality(1 .. n) = n
    OBVIOUS
  <1>1. /\ IsFiniteSet(1 .. n)
        /\ Cardinality(1 .. n) = IF 1 > n THEN 0 ELSE n - 1 + 1
    BY FS_Interval
  <1> QED BY <1>1

\* Functions with the same domain and the same values are the same.
LEMMA SameValues ==
    ASSUME NEW D, NEW f, NEW g, f = [x \in D |-> f[x]], g = [x \in D |-> g[x]],
           \A x \in D : f[x] = g[x]
    PROVE  f = g
  <1>1. [x \in D |-> f[x]] = [x \in D |-> g[x]]
    BY Zenon
  <1> QED BY <1>1, Zenon

\* Sequences that differ in one element, or by one.
LEMMA SameExcept ==
    \A S : \A s, t \in Seq(S) : \A n \in 1 .. Len(s) :
        Len(s) = Len(t) /\ (\A i \in 1 .. Len(s) : i # n => s[i] = t[i])
        => t = [s EXCEPT ![n] = t[n]]
  <1> SUFFICES ASSUME NEW S, NEW s \in Seq(S), NEW t \in Seq(S),
                      NEW n \in 1 .. Len(s), Len(s) = Len(t),
                      \A i \in 1 .. Len(s) : i # n => s[i] = t[i]
               PROVE  t = [s EXCEPT ![n] = t[n]]
    OBVIOUS
  <1>1. PICK u : u = [s EXCEPT ![n] = t[n]]
    OBVIOUS
  <1>2. u \in Seq(S) /\ Len(u) = Len(s) /\ \A i \in 1 .. Len(s) : u[i] = t[i]
    BY <1>1
  <1>3. u = t
    BY <1>2, SeqEqual
  <1> QED BY <1>1, <1>3

LEMMA SameAppend ==
    \A S : \A s, t \in Seq(S) : \A x :
        /\ Len(t) = Len(s) + 1 /\ t[Len(s) + 1] = x
        /\ \A i \in 1 .. Len(s) : s[i] = t[i]
        => t = Append(s, x)
  <1> SUFFICES ASSUME NEW S, NEW s \in Seq(S), NEW t \in Seq(S), NEW x,
                      Len(t) = Len(s) + 1, t[Len(s) + 1] = x,
                      \A i \in 1 .. Len(s) : s[i] = t[i]
               PROVE  t = Append(s, x)
    OBVIOUS
  <1>1. x \in S
    OBVIOUS
  <1>2. PICK u : u = Append(s, x)
    OBVIOUS
  <1>3. u \in Seq(S) /\ Len(u) = Len(t) /\ \A i \in 1 .. Len(t) : u[i] = t[i]
    BY <1>1, <1>2
  <1>4. u = t
    BY <1>3, SeqEqual
  <1> QED BY <1>2, <1>4

-----------------------------------------------------------------------------
(* Recursive functions.                                                    *)

\* A function that starts with start and goes on with step.
Recurs(f, n, V, start, step) ==
    /\ f \in [0 .. n -> V]
    /\ f[0] = start
    /\ \A i \in 1 .. n : f[i] = step[<<i, f[i - 1]>>]

LEMMA RecursionExists ==
    ASSUME NEW V, NEW start \in V, NEW n \in Nat,
           NEW step, step \in [(1 .. n) \X V -> V]
    PROVE  \E f : Recurs(f, n, V, start, step)
  <1> DEFINE Is(f, m) == /\ f[0] = start
                         /\ \A i \in 1 .. m : f[i] = step[<<i, f[i - 1]>>]
             T == {m \in 0 .. n : ~ \E f \in [0 .. m -> V] : Is(f, m)}
  <1>1. T \in SUBSET Nat /\ \A m \in T : m \in 0 .. n
    OBVIOUS
  <1>2. CASE T = {}
    <2>1. n \in 0 .. n /\ n \notin T
      <3> HIDE DEF T
      <3> QED BY <1>2
    <2>2. PICK f \in [0 .. n -> V] : Is(f, n)
      BY <2>1
    <2> QED BY <2>2 DEF Recurs
  <1> SUFFICES ASSUME T # {} PROVE FALSE
    BY <1>2
  <1>3. PICK m \in T : \A k \in T : m <= k
    BY <1>1, Least
  <1>4. m # 0
    <2> SUFFICES ASSUME m = 0 PROVE FALSE
      OBVIOUS
    <2>1. PICK f : f = [i \in 0 .. 0 |-> start]
      OBVIOUS
    <2>2. f \in [0 .. 0 -> V] /\ f[0] = start
      BY <2>1
    <2>3. Is(f, 0)
      BY <2>2
    <2> QED BY <2>2, <2>3
  <1>5. m - 1 \in 0 .. n /\ m - 1 \notin T /\ m \in 1 .. n
    <2>1. m \in 1 .. n /\ m - 1 \in 0 .. n
      BY <1>1, <1>4
    <2>2. ~(m <= m - 1)
      BY <2>1
    <2> QED BY <1>3, <2>1, <2>2
  <1>6. PICK f \in [0 .. m - 1 -> V] : Is(f, m - 1)
    BY <1>5
  <1>7. PICK v : v = step[<<m, f[m - 1]>>]
    OBVIOUS
  <1>8. v \in V
    BY <1>5, <1>7
  <1>9. PICK g : g = [i \in 0 .. m |-> IF i = m THEN v ELSE f[i]]
    OBVIOUS
  <1>10. g \in [0 .. m -> V]
    BY <1>5, <1>8, <1>9
  <1>11. g[0] = start
    BY <1>5, <1>6, <1>9
  <1>12. ASSUME NEW i \in 1 .. m PROVE g[i] = step[<<i, g[i - 1]>>]
    <2>1. g[i - 1] = f[i - 1]
      BY <1>5, <1>9
    <2>2. CASE i = m
      <3>1. g[m] = v
        BY <1>5, <1>9
      <3> QED BY <1>7, <2>1, <2>2, <3>1
    <2>3. CASE i # m
      <3>1. i \in 1 .. m - 1 /\ g[i] = f[i]
        BY <1>5, <1>9, <2>3
      <3> QED BY <1>6, <2>1, <3>1
    <2> QED BY <2>2, <2>3
  <1>13. Is(g, m)
    BY <1>11, <1>12
  <1> QED BY <1>10, <1>13

-----------------------------------------------------------------------------
(* FlattenSeq.                                                             *)

\* The first n values of the recursive function in FlattenSeq(seqs).
Flattens(seqs, n, f) ==
    f = [i \in 1 .. n |-> IF i = 1 THEN seqs[i] ELSE f[i - 1] \o seqs[i]]

\* There is such a function.
LEMMA FlattensExists ==
    ASSUME NEW seqs, NEW n \in Nat PROVE \E f : Flattens(seqs, n, f)
  <1> DEFINE T == {m \in Nat : ~ \E f : Flattens(seqs, m, f)}
  <1> SUFFICES ASSUME T # {} PROVE FALSE
    OBVIOUS
  <1>1. PICK m \in T : \A k \in T : m <= k
    BY Least
  <1>2. CASE m = 0
    <2>1. Flattens(seqs, 0, <<>>)
      BY DEF Flattens
    <2> QED BY <1>2, <2>1
  <1>3. CASE m > 0
    <2>1. m - 1 \in Nat /\ m - 1 \notin T
      BY <1>1, <1>3
    <2>2. PICK f : Flattens(seqs, m - 1, f)
      BY <2>1
    <2> DEFINE g == [i \in 1 .. m |->
                        IF i = m
                        THEN IF m = 1 THEN seqs[m] ELSE f[m - 1] \o seqs[m]
                        ELSE f[i]]
               h == [i \in 1 .. m |->
                        IF i = 1 THEN seqs[i] ELSE g[i - 1] \o seqs[i]]
    <2>3. ASSUME NEW i \in 1 .. m PROVE g[i] = h[i]
      <3>1. CASE i = m
        BY <3>1
      <3>2. CASE i # m
        <4>1. i \in 1 .. m - 1 /\ i # m /\ m # 0
          BY <3>2
        <4>2. f[i] = IF i = 1 THEN seqs[i] ELSE f[i - 1] \o seqs[i]
          BY <2>2, <4>1 DEF Flattens
        <4>3. g[i] = f[i]
          BY <4>1
        <4>4. i # 1 => g[i - 1] = f[i - 1]
          BY <4>1
        <4> QED BY <4>2, <4>3, <4>4
      <3> QED BY <3>1, <3>2
    <2>4. g = [i \in 1 .. m |-> g[i]] /\ h = [i \in 1 .. m |-> h[i]]
      OBVIOUS
    <2> HIDE DEF g, h
    <2>5. g = h
      BY <2>3, <2>4, SameValues, Zenon
    <2>6. Flattens(seqs, m, g)
      BY <2>5 DEF h, Flattens
    <2> QED BY <2>6
  <1> QED BY <1>1, <1>2, <1>3

\* FlattenSeq's result is its last value.
LEMMA FlattensLast ==
    ASSUME NEW seqs, Len(seqs) \in Nat, Len(seqs) # 0
    PROVE  \E f : /\ Flattens(seqs, Len(seqs), f)
                  /\ FlattenSeq(seqs) = f[Len(seqs)]
  <1> DEFINE f == CHOOSE g : Flattens(seqs, Len(seqs), g)
  <1>1. Flattens(seqs, Len(seqs), f)
    BY FlattensExists
  <1>2. FlattenSeq(seqs) = f[Len(seqs)]
    BY DEF FlattenSeq, Flattens
  <1> QED BY <1>1, <1>2

\* It is the same function for two lists that start in the same way.
LEMMA FlattensSame ==
    \A ss, tt, f, g : \A n, m \in Nat :
        /\ n <= m /\ Flattens(ss, n, f) /\ Flattens(tt, m, g)
        /\ \A i \in 1 .. n : ss[i] = tt[i]
        => \A i \in 1 .. n : f[i] = g[i]
  <1> SUFFICES ASSUME NEW ss, NEW tt, NEW f, NEW g,
                      NEW n \in Nat, NEW m \in Nat, n <= m,
                      Flattens(ss, n, f), Flattens(tt, m, g),
                      \A i \in 1 .. n : ss[i] = tt[i]
               PROVE  \A i \in 1 .. n : f[i] = g[i]
    OBVIOUS
  <1> DEFINE T == {i \in 1 .. n : f[i] # g[i]}
  <1> SUFFICES ASSUME T # {} PROVE FALSE
    OBVIOUS
  <1>1. PICK i \in T : \A k \in T : i <= k
    <2>1. T \in SUBSET Nat
      OBVIOUS
    <2> QED BY <2>1, Least
  <1>2. i \in 1 .. n /\ i \in 1 .. m
    OBVIOUS
  <1>3. /\ f[i] = IF i = 1 THEN ss[i] ELSE f[i - 1] \o ss[i]
        /\ g[i] = IF i = 1 THEN tt[i] ELSE g[i - 1] \o tt[i]
    BY <1>2 DEF Flattens
  <1>4. i # 1 => i - 1 \in 1 .. n /\ i - 1 \notin T
    BY <1>1
  <1>5. f[i] = g[i]
    BY <1>2, <1>3, <1>4
  <1> QED BY <1>5

LEMMA FlattenEmpty == FlattenSeq(<<>>) = <<>>
  BY DEF FlattenSeq

LEMMA FlattenOne == ASSUME NEW S, NEW s \in Seq(S) PROVE FlattenSeq(<<s>>) = s
  <1> DEFINE ss == <<s>>
  <1>1. Len(ss) = 1 /\ ss[1] = s
    OBVIOUS
  <1> HIDE DEF ss
  <1>2. PICK f : Flattens(ss, Len(ss), f) /\ FlattenSeq(ss) = f[Len(ss)]
    <2>1. Len(ss) \in Nat /\ Len(ss) # 0
      BY <1>1
    <2> QED BY <2>1, FlattensLast, Zenon
  <1>3. FlattenSeq(ss) = s
    BY <1>1, <1>2 DEF Flattens
  <1> QED BY <1>3 DEF ss

\* FlattenSeq of lists over S is a list over S.
LEMMA FlattenType ==
    ASSUME NEW S, NEW seqs \in Seq(Seq(S)) PROVE FlattenSeq(seqs) \in Seq(S)
  <1>1. CASE seqs = <<>>
    <2>1. <<>> \in Seq(S)
      OBVIOUS
    <2> QED BY <1>1, <2>1, FlattenEmpty
  <1>2. CASE seqs # <<>>
    <2> DEFINE n == Len(seqs)
    <2>1. n \in Nat /\ n # 0 /\ \A i \in 1 .. n : seqs[i] \in Seq(S)
      BY <1>2
    <2> HIDE DEF n
    <2>2. PICK f : Flattens(seqs, n, f) /\ FlattenSeq(seqs) = f[n]
      BY <2>1, FlattensLast DEF n
    <2> DEFINE T == {i \in 1 .. n : f[i] \notin Seq(S)}
    <2>3. ASSUME T # {} PROVE FALSE
      <3>1. T \in SUBSET Nat
        BY <2>1
      <3>2. PICK i \in T : \A k \in T : i <= k
        BY <2>3, <3>1, Least
      <3>3. f[i] = IF i = 1 THEN seqs[i] ELSE f[i - 1] \o seqs[i]
        BY <2>2 DEF Flattens
      <3>4. i # 1 => i - 1 \in 1 .. n /\ i - 1 \notin T
        BY <3>2, <2>1
      <3>5. i = 1 => f[i] \in Seq(S)
        BY <3>3, <2>1
      <3>6. i # 1 => f[i - 1] \in Seq(S)
        BY <3>4
      <3>7. i # 1 => f[i] \in Seq(S)
        <4> SUFFICES ASSUME i # 1 PROVE f[i - 1] \o seqs[i] \in Seq(S)
          BY <3>3
        <4>1. seqs[i] \in Seq(S)
          BY <2>1
        <4> QED BY <4>1, <3>6, ConcatProperties
      <3> QED BY <3>5, <3>7
    <2>4. n \in 1 .. n
      BY <2>1
    <2>5. f[n] \in Seq(S)
      BY <2>3, <2>4
    <2> HIDE DEF T
    <2> QED BY <2>2, <2>5
  <1> QED BY <1>1, <1>2

\* What FlattenSeq is of a list that is longer by one than another.
LEMMA FlattenLonger ==
    ASSUME NEW ss, NEW tt, NEW n \in Nat, n # 0,
           Len(ss) = n, Len(tt) = n + 1, \A i \in 1 .. n : ss[i] = tt[i]
    PROVE  FlattenSeq(tt) = FlattenSeq(ss) \o tt[n + 1]
  <1>1. PICK m \in Nat : m = n + 1
    OBVIOUS
  <1>2. PICK f : Flattens(ss, n, f) /\ FlattenSeq(ss) = f[n]
    BY FlattensLast
  <1>3. PICK g : Flattens(tt, m, g) /\ FlattenSeq(tt) = g[m]
    BY <1>1, FlattensLast
  <1>4. \A i \in 1 .. n : f[i] = g[i]
    BY <1>1, <1>2, <1>3, FlattensSame
  <1>5. g[m] = g[n] \o tt[m]
    <2>1. m \in 1 .. m /\ m # 1 /\ m - 1 = n
      BY <1>1
    <2> QED BY <1>3, <2>1 DEF Flattens
  <1>6. f[n] = g[n]
    <2>1. n \in 1 .. n
      OBVIOUS
    <2> QED BY <1>4, <2>1
  <1> QED BY <1>1, <1>2, <1>3, <1>5, <1>6

\* One list more.
LEMMA FlattenAppend ==
    ASSUME NEW S, NEW seqs \in Seq(Seq(S)), NEW s \in Seq(S)
    PROVE  FlattenSeq(Append(seqs, s)) = FlattenSeq(seqs) \o s
  <1>1. CASE seqs = <<>>
    <2>1. Append(seqs, s) = <<s>>
      BY <1>1
    <2>2. FlattenSeq(seqs) \o s = s
      BY <1>1, FlattenEmpty
    <2> QED BY <2>1, <2>2, FlattenOne
  <1>2. CASE seqs # <<>>
    <2>1. PICK n \in Nat : n = Len(seqs)
      OBVIOUS
    <2>2. PICK tt : tt = Append(seqs, s)
      OBVIOUS
    <2>3. /\ n # 0 /\ Len(seqs) = n /\ Len(tt) = n + 1 /\ tt[n + 1] = s
          /\ \A i \in 1 .. n : seqs[i] = tt[i]
      BY <1>2, <2>1, <2>2
    <2>4. FlattenSeq(tt) = FlattenSeq(seqs) \o tt[n + 1]
      BY <2>3, FlattenLonger
    <2> QED BY <2>2, <2>3, <2>4
  <1> QED BY <1>1, <1>2

\* The last list gets an element more.
LEMMA FlattenGrow ==
    ASSUME NEW S, NEW seqs \in Seq(Seq(S)), seqs # <<>>, NEW x \in S
    PROVE  LET n == Len(seqs) IN
           FlattenSeq([seqs EXCEPT ![n] = Append(@, x)])
             = Append(FlattenSeq(seqs), x)
  <1>1. PICK n \in Nat : n = Len(seqs) /\ n # 0
    OBVIOUS
  <1>2. PICK front, last : front = SubSeq(seqs, 1, n - 1) /\ last = seqs[n]
    OBVIOUS
  <1>3. front \in Seq(Seq(S)) /\ last \in Seq(S) /\ Append(last, x) \in Seq(S)
    BY <1>1, <1>2
  <1>4. seqs = Append(front, last)
    BY <1>1, <1>2
  <1>5. [seqs EXCEPT ![n] = Append(@, x)] = Append(front, Append(last, x))
    <2>1. PICK U, longer : U = Seq(S) /\ longer = Append(last, x)
      OBVIOUS
    <2>2. seqs \in Seq(U) /\ front \in Seq(U) /\ longer \in U
      BY <1>3, <2>1
    <2>3. [seqs EXCEPT ![n] = longer] = Append(front, longer)
      BY <1>1, <1>2, <2>2
    <2>4. [seqs EXCEPT ![n] = Append(@, x)] = [seqs EXCEPT ![n] = longer]
      BY <1>1, <1>2, <2>1
    <2> QED BY <2>1, <2>3, <2>4
  <1>6. FlattenSeq(front) \in Seq(S)
    BY <1>3, FlattenType
  <1>7. /\ FlattenSeq(seqs) = FlattenSeq(front) \o last
        /\ FlattenSeq(Append(front, Append(last, x)))
             = FlattenSeq(front) \o Append(last, x)
    BY <1>3, <1>4, FlattenAppend
  <1>8. FlattenSeq(front) \o Append(last, x)
          = Append(FlattenSeq(front) \o last, x)
    BY <1>3, <1>6
  <1> QED BY <1>1, <1>5, <1>7, <1>8

\* The beginning of a list of lists.
LEMMA FlattenSubSeq ==
    ASSUME NEW S, NEW seqs \in Seq(Seq(S)), NEW n \in 1 .. Len(seqs)
    PROVE  FlattenSeq(SubSeq(seqs, 1, n))
             = FlattenSeq(SubSeq(seqs, 1, n - 1)) \o seqs[n]
  <1>1. PICK front : front = SubSeq(seqs, 1, n - 1)
    OBVIOUS
  <1>2. front \in Seq(Seq(S)) /\ seqs[n] \in Seq(S)
    BY <1>1
  <1>3. SubSeq(seqs, 1, n) = Append(front, seqs[n])
    BY <1>1
  <1> QED BY <1>1, <1>2, <1>3, FlattenAppend

\* A list of nothing but empty lists.
LEMMA FlattenNothing ==
    ASSUME NEW S, NEW seqs \in Seq(Seq(S)),
           \A n \in 1 .. Len(seqs) : seqs[n] = <<>>
    PROVE  FlattenSeq(seqs) = <<>>
  <1> DEFINE Flat(n) == FlattenSeq(SubSeq(seqs, 1, n))
             T == {n \in 0 .. Len(seqs) : Flat(n) # <<>>}
  <1>1. SubSeq(seqs, 1, 0) = <<>> /\ SubSeq(seqs, 1, Len(seqs)) = seqs
    OBVIOUS
  <1>2. ASSUME T # {} PROVE FALSE
    <2>1. T \in SUBSET Nat
      OBVIOUS
    <2>2. PICK n \in T : \A k \in T : n <= k
      BY <1>2, <2>1, Least
    <2>3. n # 0
      BY <1>1, FlattenEmpty
    <2>4. n \in 1 .. Len(seqs) /\ n - 1 \in 0 .. Len(seqs)
      BY <2>3
    <2>5. n - 1 \notin T
      BY <2>2
    <2>6. Flat(n) = Flat(n - 1) \o seqs[n]
      BY <2>4, FlattenSubSeq
    <2>7. Flat(n - 1) = <<>> /\ seqs[n] = <<>>
      BY <2>4, <2>5
    <2>8. <<>> \o <<>> = <<>>
      OBVIOUS
    <2> QED BY <2>6, <2>7, <2>8
  <1>3. Len(seqs) \in 0 .. Len(seqs)
    OBVIOUS
  <1> QED BY <1>1, <1>2, <1>3

\* An element at the end of a list is at the end of two.
LEMMA ConcatAppend ==
    \A S : \A s, t \in Seq(S) : \A x \in S :
        s \o Append(t, x) = Append(s \o t, x)
  OBVIOUS

\* Two lists of lists, one after the other.
LEMMA FlattenConcat ==
    ASSUME NEW S, NEW ss \in Seq(Seq(S)), NEW tt \in Seq(Seq(S))
    PROVE  FlattenSeq(ss \o tt) = FlattenSeq(ss) \o FlattenSeq(tt)
  <1> DEFINE Flat(n) == FlattenSeq(SubSeq(tt, 1, n))
             T == {n \in 0 .. Len(tt) :
                      FlattenSeq(ss \o SubSeq(tt, 1, n))
                        # FlattenSeq(ss) \o Flat(n)}
  <1>1. SubSeq(tt, 1, 0) = <<>> /\ SubSeq(tt, 1, Len(tt)) = tt
    OBVIOUS
  <1>2. FlattenSeq(ss) \in Seq(S)
    BY FlattenType
  <1>3. ASSUME T # {} PROVE FALSE
    <2>1. T \in SUBSET Nat
      OBVIOUS
    <2>2. PICK n \in T : \A k \in T : n <= k
      BY <1>3, <2>1, Least
    <2>3. n # 0
      <3>1. ss \o <<>> = ss /\ FlattenSeq(ss) \o <<>> = FlattenSeq(ss)
        BY <1>2
      <3> QED BY <1>1, <3>1, FlattenEmpty
    <2>4. n \in 1 .. Len(tt) /\ n - 1 \in 0 .. Len(tt) /\ tt[n] \in Seq(S)
      BY <2>3
    <2>5. n - 1 \notin T
      BY <2>2
    <2>6. PICK front : front = SubSeq(tt, 1, n - 1)
      OBVIOUS
    <2>7. front \in Seq(Seq(S)) /\ ss \o front \in Seq(Seq(S))
      <3>1. PICK U : U = Seq(S)
        OBVIOUS
      <3>2. ss \in Seq(U) /\ tt \in Seq(U) /\ n - 1 \in 0 .. Len(tt)
        BY <2>4, <3>1
      <3>3. front \in Seq(U)
        BY <2>6, <3>2
      <3>4. ss \o front \in Seq(U)
        BY <3>2, <3>3
      <3> QED BY <3>1, <3>3, <3>4
    <2>8. ss \o SubSeq(tt, 1, n) = Append(ss \o front, tt[n])
      <3>1. SubSeq(tt, 1, n) = Append(front, tt[n])
        BY <2>4, <2>6
      <3>2. ss \o Append(front, tt[n]) = Append(ss \o front, tt[n])
        <4>1. PICK U, x : U = Seq(S) /\ x = tt[n]
          OBVIOUS
        <4>2. ss \in Seq(U) /\ front \in Seq(U) /\ x \in U
          BY <2>4, <2>7, <4>1
        <4>3. \A s, t \in Seq(U) : \A y \in U :
                  s \o Append(t, y) = Append(s \o t, y)
          <5> HIDE DEF T, Flat
          <5> QED BY ConcatAppend
        <4>4. ss \o Append(front, x) = Append(ss \o front, x)
          BY <4>2, <4>3
        <4> QED BY <4>1, <4>4
      <3> QED BY <3>1, <3>2
    <2>9. FlattenSeq(ss \o SubSeq(tt, 1, n))
            = FlattenSeq(ss \o front) \o tt[n]
      BY <2>4, <2>7, <2>8, FlattenAppend
    <2>10. FlattenSeq(ss \o front) = FlattenSeq(ss) \o Flat(n - 1)
      BY <2>4, <2>5, <2>6
    <2>11. Flat(n) = Flat(n - 1) \o tt[n]
      BY <2>4, FlattenSubSeq
    <2>12. Flat(n - 1) \in Seq(S)
      BY <2>6, <2>7, FlattenType
    <2>13. (FlattenSeq(ss) \o Flat(n - 1)) \o tt[n]
             = FlattenSeq(ss) \o (Flat(n - 1) \o tt[n])
      <3>1. PICK a, b, x : a = FlattenSeq(ss) /\ b = Flat(n - 1) /\ x = tt[n]
        OBVIOUS
      <3>2. a \in Seq(S) /\ b \in Seq(S) /\ x \in Seq(S)
        BY <1>2, <2>4, <2>12, <3>1
      <3>3. (a \o b) \o x = a \o (b \o x)
        <4> HIDE DEF T, Flat
        <4> QED BY <3>2, ConcatAssociative, SMTT(30)
      <3> QED BY <3>1, <3>3
    <2> QED BY <2>9, <2>10, <2>11, <2>13
  <1>4. Len(tt) \in 0 .. Len(tt)
    OBVIOUS
  <1> QED BY <1>1, <1>3, <1>4

-----------------------------------------------------------------------------
(* The places of the elements of a list of lists.                          *)

Cells(seqs) == UNION {{m} \X (1 .. Len(seqs[m])) : m \in 1 .. Len(seqs)}

LEMMA CellsAre ==
    ASSUME NEW seqs, NEW c
    PROVE  c \in Cells(seqs) <=> /\ c = <<c[1], c[2]>>
                                 /\ c[1] \in 1 .. Len(seqs)
                                 /\ c[2] \in 1 .. Len(seqs[c[1]])
  BY DEF Cells

\* FlattenSeq has a place for every element of every list.
LEMMA FlattenPlaces ==
    ASSUME NEW S, NEW seqs \in Seq(Seq(S))
    PROVE  \E g \in Injection(Cells(seqs), 1 .. Len(FlattenSeq(seqs))) :
               \A c \in Cells(seqs) : FlattenSeq(seqs)[g[c]] = seqs[c[1]][c[2]]
  <1> DEFINE Flat(n) == FlattenSeq(SubSeq(seqs, 1, n))
             Upto(n) == {c \in Cells(seqs) : c[1] <= n}
             Placed(n) ==
                 \E g \in [Upto(n) -> 1 .. Len(Flat(n))] :
                     /\ \A c, d \in Upto(n) : g[c] = g[d] => c = d
                     /\ \A c \in Upto(n) : Flat(n)[g[c]] = seqs[c[1]][c[2]]
             T == {n \in 0 .. Len(seqs) : ~Placed(n)}
  <1>1. SubSeq(seqs, 1, Len(seqs)) = seqs
    OBVIOUS
  <1>2. ASSUME T # {} PROVE FALSE
    <2>1. T \in SUBSET Nat
      OBVIOUS
    <2>2. PICK n \in T : \A k \in T : n <= k
      BY <1>2, <2>1, Least
    <2>3. ASSUME n = 0 PROVE FALSE
      <3>1. Upto(0) = {}
        BY CellsAre
      <3>2. [x \in Upto(0) |-> 0] \in [Upto(0) -> 1 .. Len(Flat(0))]
        BY <3>1
      <3>3. Placed(0)
        BY <3>1, <3>2
      <3> QED BY <2>3, <3>3
    <2>4. n \in 1 .. Len(seqs) /\ n - 1 \in 0 .. Len(seqs)
      BY <2>3
    <2>5. n - 1 \notin T
      <3> HIDE DEF T
      <3> QED BY <2>2, <2>4
    <2>6. PICK s, a, b : s = seqs[n] /\ a = Flat(n - 1) /\ b = Flat(n)
      OBVIOUS
    <2>7. s \in Seq(S) /\ a \in Seq(S) /\ b = a \o s
      <3>1. SubSeq(seqs, 1, n - 1) \in Seq(Seq(S))
        BY <2>4
      <3>2. a \in Seq(S)
        BY <2>6, <3>1, FlattenType
      <3>3. s \in Seq(S)
        BY <2>4, <2>6
      <3>4. b = a \o s
        BY <2>4, <2>6, FlattenSubSeq
      <3> QED BY <3>2, <3>3, <3>4
    <2>8. PICK g \in [Upto(n - 1) -> 1 .. Len(a)] :
              /\ \A c, d \in Upto(n - 1) : g[c] = g[d] => c = d
              /\ \A c \in Upto(n - 1) : a[g[c]] = seqs[c[1]][c[2]]
      BY <2>4, <2>5, <2>6
    <2> DEFINE h == [c \in Upto(n) |->
                        IF c[1] < n THEN g[c] ELSE Len(a) + c[2]]
    <2>9. ASSUME NEW c \in Upto(n)
          PROVE  \/ c[1] < n /\ c \in Upto(n - 1) /\ h[c] = g[c]
                 \/ c[1] = n /\ c[2] \in 1 .. Len(s) /\ h[c] = Len(a) + c[2]
      <3>1. /\ c[1] \in 1 .. Len(seqs) /\ c[1] <= n
            /\ c[2] \in 1 .. Len(seqs[c[1]])
        BY CellsAre
      <3>2. CASE c[1] < n
        <4>1. c[1] <= n - 1
          BY <2>4, <3>1, <3>2
        <4> QED BY <3>2, <4>1
      <3>3. CASE c[1] = n
        BY <2>6, <3>1, <3>3
      <3> QED BY <2>4, <3>1, <3>2, <3>3
    <2>10. ASSUME NEW c \in Upto(n)
           PROVE  h[c] \in 1 .. Len(b) /\ b[h[c]] = seqs[c[1]][c[2]]
      <3>1. Len(b) = Len(a) + Len(s)
        BY <2>7
      <3>2. CASE c[1] < n /\ c \in Upto(n - 1) /\ h[c] = g[c]
        <4>1. PICK i \in 1 .. Len(a) : i = h[c]
          BY <2>8, <3>2
        <4>2. a[i] = seqs[c[1]][c[2]]
          BY <2>8, <3>2, <4>1
        <4>3. b[i] = a[i] /\ i \in 1 .. Len(b)
          BY <2>7
        <4> QED BY <4>1, <4>2, <4>3
      <3>3. CASE c[1] = n /\ c[2] \in 1 .. Len(s) /\ h[c] = Len(a) + c[2]
        <4>1. PICK i \in 1 .. Len(s) : i = c[2]
          BY <3>3
        <4>2. b[Len(a) + i] = s[i] /\ Len(a) + i \in 1 .. Len(b)
          BY <2>7
        <4> QED BY <2>6, <3>3, <4>1, <4>2
      <3> HIDE DEF h
      <3> QED BY <2>9, <3>2, <3>3
    <2>11. ASSUME NEW c \in Upto(n), NEW d \in Upto(n), h[c] = h[d]
           PROVE  c = d
      <3>1. c = <<c[1], c[2]>> /\ d = <<d[1], d[2]>>
        BY CellsAre
      <3>2. \A e \in Upto(n - 1) : g[e] \in 1 .. Len(a)
        BY <2>8
      <3>3. Len(a) \in Nat
        BY <2>7
      <3> HIDE DEF h
      <3>4. CASE c[1] < n /\ d[1] < n
        <4>1. g[c] = g[d] /\ c \in Upto(n - 1) /\ d \in Upto(n - 1)
          BY <2>9, <2>11, <3>4
        <4> QED BY <2>8, <4>1
      <3>5. CASE c[1] = n /\ d[1] = n
        <4>1. /\ c[2] \in 1 .. Len(s) /\ h[c] = Len(a) + c[2]
              /\ d[2] \in 1 .. Len(s) /\ h[d] = Len(a) + d[2]
          BY <2>9, <3>5
        <4>2. PICK i, j \in 1 .. Len(s) : i = c[2] /\ j = d[2]
          BY <4>1
        <4>3. Len(a) + i = Len(a) + j
          BY <2>11, <4>1, <4>2
        <4>4. i = j
          BY <3>3, <4>3
        <4> QED BY <3>1, <3>5, <4>2, <4>4
      <3>6. ASSUME NEW e \in Upto(n), NEW f \in Upto(n), e[1] < n, f[1] = n
            PROVE  h[e] # h[f]
        <4>1. e \in Upto(n - 1) /\ h[e] = g[e]
          BY <2>9, <3>6
        <4>2. g[e] \in 1 .. Len(a)
          BY <3>2, <4>1
        <4>3. f[2] \in 1 .. Len(s) /\ h[f] = Len(a) + f[2]
          BY <2>9, <3>6
        <4>4. \A i \in 1 .. Len(a), j \in 1 .. Len(s) : i # Len(a) + j
          BY <3>3
        <4> QED BY <4>1, <4>2, <4>3, <4>4
      <3>7. (c[1] < n \/ c[1] = n) /\ (d[1] < n \/ d[1] = n)
        BY <2>9
      <3> QED BY <2>11, <3>4, <3>5, <3>6, <3>7
    <2>12. h \in [Upto(n) -> 1 .. Len(b)]
      BY <2>10
    <2> HIDE DEF h
    <2>13. Placed(n)
      <3> HIDE DEF Flat, Upto
      <3> QED BY <2>6, <2>10, <2>11, <2>12
    <2> QED BY <2>13
  <1>3. Placed(Len(seqs))
    <2>1. Len(seqs) \in 0 .. Len(seqs)
      OBVIOUS
    <2> HIDE DEF Placed
    <2> QED BY <1>2, <2>1
  <1>4. Upto(Len(seqs)) = Cells(seqs)
    BY CellsAre
  <1> HIDE DEF Upto
  <1>5. PICK g \in [Cells(seqs) -> 1 .. Len(FlattenSeq(seqs))] :
            /\ \A c, d \in Cells(seqs) : g[c] = g[d] => c = d
            /\ \A c \in Cells(seqs) : FlattenSeq(seqs)[g[c]] = seqs[c[1]][c[2]]
    <2>1. Flat(Len(seqs)) = FlattenSeq(seqs)
      BY <1>1
    <2> HIDE DEF Flat
    <2> QED BY <1>3, <1>4, <2>1
  <1>6. g \in Injection(Cells(seqs), 1 .. Len(FlattenSeq(seqs)))
    BY <1>5 DEF Injection, IsInjective
  <1> QED BY <1>5, <1>6

-----------------------------------------------------------------------------
(* InsertAt.                                                               *)

\* A new element between two parts of a list.
LEMMA InsertType ==
    \A S : \A s \in Seq(S), e \in S : \A i \in 1 .. Len(s) + 1 :
        /\ InsertAt(s, i, e) \in Seq(S)
        /\ Len(InsertAt(s, i, e)) = Len(s) + 1
        /\ \A j \in 1 .. Len(s) + 1 :
               InsertAt(s, i, e)[j] = IF j < i THEN s[j]
                                      ELSE IF j = i THEN e ELSE s[j - 1]
  <1> SUFFICES ASSUME NEW S, NEW s \in Seq(S), NEW e \in S,
                      NEW i \in 1 .. Len(s) + 1
               PROVE  /\ InsertAt(s, i, e) \in Seq(S)
                      /\ Len(InsertAt(s, i, e)) = Len(s) + 1
                      /\ \A j \in 1 .. Len(s) + 1 :
                             InsertAt(s, i, e)[j] =
                                 IF j < i THEN s[j]
                                 ELSE IF j = i THEN e ELSE s[j - 1]
    OBVIOUS
  <1>1. PICK a, b : a = SubSeq(s, 1, i - 1) /\ b = SubSeq(s, i, Len(s))
    OBVIOUS
  <1>2. /\ a \in Seq(S) /\ Len(a) = i - 1
        /\ \A j \in 1 .. i - 1 : a[j] = s[j]
    BY <1>1
  <1>3. /\ b \in Seq(S) /\ Len(b) = Len(s) + 1 - i
        /\ \A j \in 1 .. Len(s) + 1 - i : b[j] = s[i + j - 1]
    BY <1>1
  <1>4. InsertAt(s, i, e) = (a \o <<e>>) \o b
    BY <1>1 DEF InsertAt
  <1>5. PICK ae : ae = a \o <<e>>
    OBVIOUS
  <1>6. /\ ae \in Seq(S) /\ Len(ae) = i /\ ae[i] = e
        /\ \A j \in 1 .. i - 1 : ae[j] = s[j]
    BY <1>2, <1>5
  <1>7. PICK r : r = ae \o b
    OBVIOUS
  <1>8. r \in Seq(S) /\ Len(r) = Len(s) + 1
    BY <1>3, <1>6, <1>7
  <1>9. ASSUME NEW j \in 1 .. Len(s) + 1
        PROVE  r[j] = IF j < i THEN s[j] ELSE IF j = i THEN e ELSE s[j - 1]
    <2>1. Len(ae) + Len(b) = Len(s) + 1
      BY <1>3, <1>6
    <2>2. r[j] = IF j <= Len(ae) THEN ae[j] ELSE b[j - Len(ae)]
      BY <1>3, <1>6, <1>7, <2>1, ConcatProperties
    <2>3. CASE j <= i
      BY <1>6, <2>2, <2>3
    <2>4. CASE j > i
      <3>1. j - i \in 1 .. Len(s) + 1 - i
        BY <2>4
      <3>2. b[j - i] = s[j - 1]
        <4>1. i + (j - i) - 1 = j - 1
          OBVIOUS
        <4> QED BY <1>3, <3>1, <4>1
      <3> QED BY <1>6, <2>2, <2>4, <3>2
    <2> QED BY <2>3, <2>4
  <1>10. InsertAt(s, i, e) = r
    BY <1>4, <1>5, <1>7
  <1> QED BY <1>8, <1>9, <1>10

-----------------------------------------------------------------------------
(* Run-length compression.  Both loops of RunLength append to what they    *)
(* have, and AddByte appends a page of one byte, so the fact they share is *)
(* JoinRunsLemma.                                                          *)

\* Runs of at least one byte.
RunsOver(S) == [count : Nat \ {0}, char : S]

LEMMA ConcatIs ==
    ASSUME NEW U, NEW u \in Seq(U), NEW v \in Seq(U)
    PROVE  /\ u \o v \in Seq(U) /\ Len(u \o v) = Len(u) + Len(v)
           /\ \A k \in 1 .. Len(u \o v) :
                  (u \o v)[k] = IF k <= Len(u) THEN u[k] ELSE v[k - Len(u)]
  OBVIOUS

\* A list with an element before or after it.
LEMMA ListWithOne ==
    ASSUME NEW S, NEW s \in Seq(S), NEW x \in S
    PROVE  /\ s \o <<x>> \in Seq(S) /\ Len(s \o <<x>>) = Len(s) + 1
           /\ \A k \in 1 .. Len(s) : (s \o <<x>>)[k] = s[k]
           /\ (s \o <<x>>)[Len(s) + 1] = x
           /\ <<x>> \o s \in Seq(S) /\ Len(<<x>> \o s) = Len(s) + 1
           /\ \A k \in 1 .. Len(s) : (<<x>> \o s)[k + 1] = s[k]
           /\ (<<x>> \o s)[1] = x
  OBVIOUS

-----------------------------------------------------------------------------
(* Expanding runs.                                                         *)

\* The lists that Expand joins.
Stretches(runs) == [k \in 1..Len(runs) |-> Stretch(runs[k])]

LEMMA RunLemma ==
    ASSUME NEW S, NEW n \in Nat \ {0}, NEW c \in S
    PROVE  /\ Run(n, c) \in RunsOver(S)
           /\ Run(n, c).count = n /\ Run(n, c).char = c
  BY DEF Run, RunsOver

LEMMA StretchType ==
    \A S : \A r \in RunsOver(S) : Stretch(r) \in Seq(S)
  BY DEF Stretch, RunsOver

LEMMA StretchesType ==
    ASSUME NEW S, NEW runs \in Seq(RunsOver(S))
    PROVE  /\ Stretches(runs) \in Seq(Seq(S))
           /\ Len(Stretches(runs)) = Len(runs)
           /\ \A k \in 1 .. Len(runs) : Stretches(runs)[k] = Stretch(runs[k])
  <1>1. \A k \in 1 .. Len(runs) : Stretch(runs[k]) \in Seq(S)
    BY StretchType
  <1> QED BY <1>1 DEF Stretches

LEMMA ExpandType ==
    ASSUME NEW S, NEW runs \in Seq(RunsOver(S)) PROVE Expand(runs) \in Seq(S)
  <1>1. Expand(runs) = FlattenSeq(Stretches(runs))
    BY DEF Expand, Stretches
  <1> QED BY <1>1, StretchesType, FlattenType

\* Two lists of runs, one after the other.
LEMMA ExpandConcat ==
    ASSUME NEW S, NEW a \in Seq(RunsOver(S)), NEW b \in Seq(RunsOver(S))
    PROVE  Expand(a \o b) = Expand(a) \o Expand(b)
  <1>1. PICK ab : ab = a \o b
    OBVIOUS
  <1>2. /\ ab \in Seq(RunsOver(S)) /\ Len(ab) = Len(a) + Len(b)
        /\ \A k \in 1 .. Len(ab) :
               ab[k] = IF k <= Len(a) THEN a[k] ELSE b[k - Len(a)]
    BY <1>1
  <1>3. PICK sa, sb, sab : /\ sa = Stretches(a) /\ sb = Stretches(b)
                           /\ sab = Stretches(ab)
    OBVIOUS
  <1>4. /\ sa \in Seq(Seq(S)) /\ Len(sa) = Len(a)
        /\ \A k \in 1 .. Len(a) : sa[k] = Stretch(a[k])
    BY <1>3, StretchesType
  <1>5. /\ sb \in Seq(Seq(S)) /\ Len(sb) = Len(b)
        /\ \A k \in 1 .. Len(b) : sb[k] = Stretch(b[k])
    BY <1>3, StretchesType
  <1>6. /\ sab \in Seq(Seq(S)) /\ Len(sab) = Len(ab)
        /\ \A k \in 1 .. Len(ab) : sab[k] = Stretch(ab[k])
    BY <1>2, <1>3, StretchesType
  <1>7. sab = sa \o sb
    <2>1. PICK t : t = sa \o sb
      OBVIOUS
    <2>2. /\ t \in Seq(Seq(S)) /\ Len(t) = Len(sa) + Len(sb)
          /\ \A k \in 1 .. Len(t) :
                 t[k] = IF k <= Len(sa) THEN sa[k] ELSE sb[k - Len(sa)]
      <3>1. PICK U : U = Seq(S)
        OBVIOUS
      <3>2. sa \in Seq(U) /\ sb \in Seq(U)
        BY <1>4, <1>5, <3>1
      <3>3. /\ t \in Seq(U) /\ Len(t) = Len(sa) + Len(sb)
            /\ \A k \in 1 .. Len(t) :
                   t[k] = IF k <= Len(sa) THEN sa[k] ELSE sb[k - Len(sa)]
        BY <2>1, <3>2
      <3> QED BY <3>1, <3>3
    <2>3. Len(t) = Len(sab)
      BY <1>2, <1>4, <1>5, <1>6, <2>2
    <2>4. ASSUME NEW k \in 1 .. Len(t) PROVE t[k] = sab[k]
      <3>1. k \in 1 .. Len(ab) /\ k \in Nat /\ Len(a) \in Nat /\ Len(b) \in Nat
        BY <1>6, <2>3, <1>2
      <3>2. CASE k <= Len(a)
        <4>1. k \in 1 .. Len(a)
          BY <3>1, <3>2
        <4> QED BY <1>2, <1>4, <1>6, <2>2, <3>1, <3>2, <4>1
      <3>3. CASE ~(k <= Len(a))
        <4>1. k - Len(a) \in 1 .. Len(b)
          BY <1>2, <3>1, <3>3
        <4> QED BY <1>2, <1>4, <1>5, <1>6, <2>2, <3>1, <3>3, <4>1
      <3> QED BY <3>2, <3>3
    <2>5. t = sab
      BY <1>6, <2>2, <2>3, <2>4, SeqEqual
    <2> QED BY <2>1, <2>5
  <1>8. FlattenSeq(sa \o sb) = FlattenSeq(sa) \o FlattenSeq(sb)
    BY <1>4, <1>5, FlattenConcat
  <1> QED BY <1>1, <1>3, <1>7, <1>8 DEF Expand, Stretches

LEMMA ExpandNone == Expand(<<>>) = <<>>
  <1>1. Stretches(<<>>) = <<>>
    BY DEF Stretches
  <1> QED BY <1>1, FlattenEmpty DEF Expand, Stretches

LEMMA ExpandOne ==
    ASSUME NEW S, NEW r \in RunsOver(S) PROVE Expand(<<r>>) = Stretch(r)
  <1>1. PICK s : s = Stretch(r)
    OBVIOUS
  <1>2. s \in Seq(S)
    BY <1>1, StretchType
  <1>3. Stretches(<<r>>) = <<s>>
    BY <1>1 DEF Stretches
  <1>4. FlattenSeq(<<s>>) = s
    BY <1>2, FlattenOne
  <1> QED BY <1>1, <1>3, <1>4 DEF Expand, Stretches

\* A run that is split expands to the same.
LEMMA StretchSplit ==
    ASSUME NEW S, NEW m \in Nat \ {0}, NEW n \in Nat \ {0}, NEW c \in S
    PROVE  Stretch(Run(m + n, c)) = Stretch(Run(m, c)) \o Stretch(Run(n, c))
  <1>1. PICK x, y, z : /\ x = [i \in 1 .. m |-> c]
                       /\ y = [i \in 1 .. n |-> c]
                       /\ z = [i \in 1 .. m + n |-> c]
    OBVIOUS
  <1>2. /\ x \in Seq(S) /\ Len(x) = m /\ y \in Seq(S) /\ Len(y) = n
        /\ z \in Seq(S) /\ Len(z) = m + n
        /\ \A i \in 1 .. m : x[i] = c
        /\ \A i \in 1 .. n : y[i] = c
        /\ \A i \in 1 .. m + n : z[i] = c
    BY <1>1
  <1>3. PICK t : t = x \o y
    OBVIOUS
  <1>4. t \in Seq(S) /\ Len(t) = m + n /\ \A i \in 1 .. m + n : t[i] = c
    BY <1>2, <1>3
  <1>5. t = z
    BY <1>2, <1>4, SeqEqual
  <1> QED BY <1>1, <1>3, <1>5 DEF Stretch, Run

-----------------------------------------------------------------------------
(* Joining runs.                                                           *)

LEMMA RunsHaveBytes ==
    ASSUME NEW S, NEW runs \in Seq(RunsOver(S))
    PROVE  \A k \in 1 .. Len(runs) : runs[k].count > 0
  <1>1. \A k \in 1 .. Len(runs) : runs[k] \in RunsOver(S)
    OBVIOUS
  <1> QED BY <1>1 DEF RunsOver

LEMMA SameRun ==
    ASSUME NEW S, NEW r \in RunsOver(S) PROVE r = Run(r.count, r.char)
  BY DEF Run, RunsOver

\* What JoinRuns makes of the compressed forms of two stretches of bytes is
\* the compressed form of both.
LEMMA JoinRunsLemma ==
    ASSUME NEW S, NEW a \in Seq(RunsOver(S)), NEW b \in Seq(RunsOver(S)),
           NEW x, NEW y, IsRunLengthOf(a, x), IsRunLengthOf(b, y)
    PROVE  /\ JoinRuns(a, b) \in Seq(RunsOver(S))
           /\ IsRunLengthOf(JoinRuns(a, b), x \o y)
  <1> DEFINE Meet == a # <<>> /\ b # <<>> /\ Last(a).char = Head(b).char
  <1>1. /\ \A k \in 1 .. Len(a) : a[k] \in RunsOver(S)
        /\ \A k \in 1 .. Len(b) : b[k] \in RunsOver(S)
        /\ Len(a) \in Nat /\ Len(b) \in Nat
    OBVIOUS
  <1>2. CASE ~Meet
    <2>1. PICK ab : ab = a \o b
      OBVIOUS
    <2>2. JoinRuns(a, b) = ab
      BY <1>2, <2>1 DEF JoinRuns
    <2>3. /\ ab \in Seq(RunsOver(S)) /\ Len(ab) = Len(a) + Len(b)
          /\ \A k \in 1 .. Len(ab) :
                 ab[k] = IF k <= Len(a) THEN a[k] ELSE b[k - Len(a)]
      BY <2>1
    <2>4. Expand(ab) = x \o y
      BY <2>1, ExpandConcat DEF IsRunLengthOf
    <2>5. \A k \in 1 .. Len(ab) : ab[k].count > 0
      BY <2>3, RunsHaveBytes
    <2>6. ASSUME NEW k \in 1 .. Len(ab) - 1 PROVE ab[k].char # ab[k + 1].char
      <3>1. k \in Nat /\ k \in 1 .. Len(ab) /\ k + 1 \in 1 .. Len(ab)
        BY <2>3
      <3>2. CASE k < Len(a)
        <4>1. k \in 1 .. Len(a) - 1
          BY <1>1, <3>1, <3>2
        <4>2. ab[k] = a[k] /\ ab[k + 1] = a[k + 1]
          BY <1>1, <2>3, <3>1, <3>2
        <4> QED BY <4>1, <4>2 DEF IsRunLengthOf
      <3>3. CASE k = Len(a)
        <4>1. a # <<>> /\ b # <<>>
          BY <1>1, <2>3, <3>3
        <4>2. ab[k] = Last(a) /\ ab[k + 1] = Head(b)
          BY <1>1, <2>3, <3>1, <3>3, <4>1 DEF Last
        <4> QED BY <1>2, <4>1, <4>2
      <3>4. CASE k > Len(a)
        <4>1. PICK m \in Nat : m = k - Len(a)
          BY <1>1, <3>1, <3>4
        <4>2. m \in 1 .. Len(b) - 1
          BY <1>1, <2>3, <3>1, <3>4, <4>1
        <4>3. ab[k] = b[m] /\ ab[k + 1] = b[m + 1]
          BY <1>1, <2>3, <3>1, <3>4, <4>1
        <4> QED BY <4>2, <4>3 DEF IsRunLengthOf
      <3> QED BY <1>1, <3>1, <3>2, <3>3, <3>4
    <2> QED BY <2>2, <2>3, <2>4, <2>5, <2>6 DEF IsRunLengthOf
  <1>3. CASE Meet
    <2>1. PICK la, lb \in Nat : la = Len(a) /\ lb = Len(b)
      BY <1>1
    <2>2. la > 0 /\ lb > 0 /\ Last(a) = a[la] /\ Head(b) = b[1]
      BY <1>3, <2>1 DEF Last
    <2>3. PICK m, n \in Nat \ {0} : m = a[la].count /\ n = b[1].count
      BY <1>1, <2>1, <2>2 DEF RunsOver
    <2>4. PICK c \in S : c = a[la].char /\ c = b[1].char
      BY <1>1, <1>3, <2>1, <2>2 DEF RunsOver
    <2>5. PICK f, t : f = Front(a) /\ t = Tail(b)
      OBVIOUS
    <2>6. /\ f \in Seq(RunsOver(S)) /\ Len(f) = la - 1
          /\ \A k \in 1 .. la - 1 : f[k] = a[k]
      BY <2>1, <2>2, <2>5 DEF Front
    <2>7. /\ t \in Seq(RunsOver(S)) /\ Len(t) = lb - 1
          /\ \A k \in 1 .. lb - 1 : t[k] = b[k + 1]
      BY <2>1, <2>2, <2>5
    <2>8. PICK r, p, q : r = Run(m + n, c) /\ p = Run(m, c) /\ q = Run(n, c)
      OBVIOUS
    <2>9. /\ r \in RunsOver(S) /\ p \in RunsOver(S) /\ q \in RunsOver(S)
          /\ r.char = c /\ r.count = m + n
      <3>1. m + n \in Nat \ {0}
        OBVIOUS
      <3> QED BY <2>8, <3>1, RunLemma
    <2>10. a[la] = p /\ b[1] = q
      <3>1. a[la] \in RunsOver(S) /\ b[1] \in RunsOver(S)
        BY <1>1, <2>1, <2>2
      <3> QED BY <2>3, <2>4, <2>8, <3>1, SameRun
    <2>11. a = f \o <<p>> /\ b = <<q>> \o t
      <3>1. PICK u, v : u = f \o <<p>> /\ v = <<q>> \o t
        OBVIOUS
      <3>2. /\ u \in Seq(RunsOver(S)) /\ Len(u) = Len(f) + 1
            /\ \A k \in 1 .. Len(f) : u[k] = f[k]
            /\ u[Len(f) + 1] = p
        <4>1. PICK U : U = RunsOver(S)
          OBVIOUS
        <4>2. f \in Seq(U) /\ p \in U
          BY <2>6, <2>9, <4>1
        <4>3. /\ u \in Seq(U) /\ Len(u) = Len(f) + 1
              /\ \A k \in 1 .. Len(f) : u[k] = f[k]
              /\ u[Len(f) + 1] = p
          BY <3>1, <4>2
        <4> QED BY <4>1, <4>3
      <3>3. /\ v \in Seq(RunsOver(S)) /\ Len(v) = Len(t) + 1
            /\ \A k \in 1 .. Len(t) : v[k + 1] = t[k]
            /\ v[1] = q
        BY <2>7, <2>9, <3>1, ListWithOne
      <3>4. a = u
        <4>1. Len(a) = Len(u)
          BY <2>1, <2>2, <2>6, <3>2
        <4>2. ASSUME NEW k \in 1 .. Len(a) PROVE a[k] = u[k]
          <5>1. CASE k = la
            BY <2>6, <2>10, <3>2, <5>1
          <5>2. CASE k # la
            <6>1. k \in 1 .. la - 1
              BY <2>1, <5>2
            <6> QED BY <2>6, <3>2, <6>1
          <5> QED BY <5>1, <5>2
        <4> QED BY <3>2, <4>1, <4>2, SeqEqual
      <3>5. b = v
        <4>1. Len(b) = Len(v)
          BY <2>1, <2>2, <2>7, <3>3
        <4>2. ASSUME NEW k \in 1 .. Len(b) PROVE b[k] = v[k]
          <5>1. CASE k = 1
            BY <2>10, <3>3, <5>1
          <5>2. CASE k # 1
            <6>1. k - 1 \in 1 .. lb - 1 /\ (k - 1) + 1 = k
              BY <2>1, <5>2
            <6>2. v[(k - 1) + 1] = t[k - 1] /\ t[k - 1] = b[(k - 1) + 1]
              BY <2>7, <3>3, <6>1
            <6> QED BY <6>1, <6>2
          <5> QED BY <5>1, <5>2
        <4> QED BY <3>3, <4>1, <4>2, SeqEqual
      <3> QED BY <3>1, <3>4, <3>5
    <2>12. PICK z : z = f \o <<r>> \o t
      OBVIOUS
    <2>13. JoinRuns(a, b) = z
      BY <1>3, <2>2, <2>3, <2>4, <2>5, <2>8, <2>12 DEF JoinRuns
    <2>14. /\ z \in Seq(RunsOver(S)) /\ Len(z) = la + lb - 1
           /\ \A k \in 1 .. la + lb - 1 :
                  z[k] = IF k < la THEN a[k]
                         ELSE IF k = la THEN r ELSE b[k - la + 1]
      <3>1. PICK u : u = f \o <<r>>
        OBVIOUS
      <3>2. /\ u \in Seq(RunsOver(S)) /\ Len(u) = la
            /\ \A k \in 1 .. la : u[k] = IF k < la THEN a[k] ELSE r
        <4>1. /\ u \in Seq(RunsOver(S)) /\ Len(u) = Len(f) + 1
              /\ \A k \in 1 .. Len(f) : u[k] = f[k]
              /\ u[Len(f) + 1] = r
          <5>1. PICK U : U = RunsOver(S)
            OBVIOUS
          <5>2. f \in Seq(U) /\ r \in U
            BY <2>6, <2>9, <5>1
          <5>3. /\ u \in Seq(U) /\ Len(u) = Len(f) + 1
                /\ \A k \in 1 .. Len(f) : u[k] = f[k]
                /\ u[Len(f) + 1] = r
            BY <3>1, <5>2
          <5> QED BY <5>1, <5>3
        <4> QED BY <2>1, <2>2, <2>6, <4>1
      <3>3. z = u \o t
        BY <2>12, <3>1
      <3>4. /\ z \in Seq(RunsOver(S)) /\ Len(z) = la + lb - 1
            /\ \A k \in 1 .. la + lb - 1 :
                   z[k] = IF k <= la THEN u[k] ELSE t[k - la]
        <4>1. /\ u \o t \in Seq(RunsOver(S))
              /\ Len(u \o t) = Len(u) + Len(t)
              /\ \A k \in 1 .. Len(u \o t) :
                     (u \o t)[k] = IF k <= Len(u) THEN u[k] ELSE t[k - Len(u)]
          BY <2>7, <3>2, ConcatIs
        <4> QED BY <2>1, <2>2, <2>7, <3>2, <3>3, <4>1
      <3>5. ASSUME NEW k \in 1 .. la + lb - 1
            PROVE  z[k] = IF k < la THEN a[k]
                          ELSE IF k = la THEN r ELSE b[k - la + 1]
        <4>1. CASE k <= la
          BY <3>2, <3>4, <4>1
        <4>2. CASE k > la
          <5>1. k - la \in 1 .. lb - 1
            BY <4>2
          <5> QED BY <2>7, <3>4, <4>2, <5>1
        <4> QED BY <4>1, <4>2
      <3> QED BY <3>4, <3>5
    <2>15. Expand(z) = x \o y
      <3>1. PICK F, P, Q, T : /\ F = Expand(f) /\ P = Stretch(p)
                              /\ Q = Stretch(q) /\ T = Expand(t)
        OBVIOUS
      <3>2. F \in Seq(S) /\ P \in Seq(S) /\ Q \in Seq(S) /\ T \in Seq(S)
        BY <2>6, <2>7, <2>9, <3>1, ExpandType, StretchType
      <3>3. /\ <<p>> \in Seq(RunsOver(S)) /\ <<q>> \in Seq(RunsOver(S))
            /\ <<r>> \in Seq(RunsOver(S)) /\ f \o <<r>> \in Seq(RunsOver(S))
        BY <2>6, <2>9
      <3>4. x = F \o P
        <4>1. Expand(f \o <<p>>) = Expand(f) \o Expand(<<p>>)
          BY <2>6, <3>3, ExpandConcat
        <4>2. Expand(<<p>>) = P
          BY <2>9, <3>1, ExpandOne
        <4> QED BY <2>11, <3>1, <4>1, <4>2 DEF IsRunLengthOf
      <3>5. y = Q \o T
        <4>1. Expand(<<q>> \o t) = Expand(<<q>>) \o Expand(t)
          BY <2>7, <3>3, ExpandConcat
        <4>2. Expand(<<q>>) = Q
          BY <2>9, <3>1, ExpandOne
        <4> QED BY <2>11, <3>1, <4>1, <4>2 DEF IsRunLengthOf
      <3>6. Expand(z) = (F \o (P \o Q)) \o T
        <4>1. Expand((f \o <<r>>) \o t) = Expand(f \o <<r>>) \o Expand(t)
          BY <2>7, <3>3, ExpandConcat
        <4>2. Expand(f \o <<r>>) = Expand(f) \o Expand(<<r>>)
          BY <2>6, <3>3, ExpandConcat
        <4>3. Expand(<<r>>) = Stretch(r)
          BY <2>9, ExpandOne
        <4>4. Stretch(r) = P \o Q
          BY <2>8, <3>1, StretchSplit
        <4> QED BY <2>12, <3>1, <4>1, <4>2, <4>3, <4>4
      <3>7. (F \o P) \o (Q \o T) = (F \o (P \o Q)) \o T
        BY <3>2, SMTT(30)
      <3> QED BY <3>4, <3>5, <3>6, <3>7
    <2>16. \A k \in 1 .. Len(z) : z[k].count > 0
      BY <2>14, RunsHaveBytes
    <2>17. ASSUME NEW k \in 1 .. Len(z) - 1 PROVE z[k].char # z[k + 1].char
      <3>1. k \in 1 .. la + lb - 1 /\ k + 1 \in 1 .. la + lb - 1 /\ k \in Nat
        BY <2>14
      <3>2. CASE k < la
        <4>1. k \in 1 .. Len(a) - 1
          BY <2>1, <3>1, <3>2
        <4>2. a[k].char # a[k + 1].char
          BY <4>1 DEF IsRunLengthOf
        <4>3. z[k + 1].char = a[k + 1].char
          <5>1. CASE k + 1 < la
            BY <2>14, <3>1, <5>1
          <5>2. CASE k + 1 = la
            BY <2>4, <2>9, <2>14, <3>1, <5>2
          <5> QED BY <3>1, <3>2, <5>1, <5>2
        <4> QED BY <2>14, <3>1, <3>2, <4>2, <4>3
      <3>3. CASE k >= la
        <4>1. PICK d \in Nat : d = k - la + 1
          BY <3>1, <3>3
        <4>2. d \in 1 .. Len(b) - 1
          BY <2>1, <2>14, <3>1, <3>3, <4>1
        <4>3. b[d].char # b[d + 1].char
          BY <4>2 DEF IsRunLengthOf
        <4>4. z[k + 1] = b[d + 1]
          BY <2>14, <3>1, <3>3, <4>1
        <4>5. z[k].char = b[d].char
          BY <2>4, <2>9, <2>14, <3>1, <3>3, <4>1
        <4> QED BY <4>3, <4>4, <4>5
      <3> QED BY <3>1, <3>2, <3>3
    <2> QED BY <2>13, <2>14, <2>15, <2>16, <2>17 DEF IsRunLengthOf
  <1> QED BY <1>2, <1>3

\* One byte is a page of one run.
LEMMA AddByteJoins ==
    ASSUME NEW S, NEW runs \in Seq(RunsOver(S)), NEW c \in S
    PROVE  AddByte(runs, c) = JoinRuns(runs, <<Run(1, c)>>)
  <1>1. PICK r : r = Run(1, c)
    OBVIOUS
  <1>2. r \in RunsOver(S) /\ r.count = 1 /\ r.char = c
    BY <1>1, RunLemma
  <1>3. /\ <<r>> # <<>> /\ Head(<<r>>) = r /\ Tail(<<r>>) = <<>>
        /\ Append(runs, r) = runs \o <<r>>
    BY <1>2
  <1>4. CASE runs # <<>> /\ Last(runs).char = c
    <2>1. Last(runs) \in RunsOver(S) /\ Front(runs) \in Seq(RunsOver(S))
      BY <1>4 DEF Last, Front
    <2>2. Run(Last(runs).count + 1, c) \in RunsOver(S)
      BY <2>1 DEF RunsOver, Run
    <2>3. PICK f, l : f = Front(runs) /\ l = Run(Last(runs).count + 1, c)
      OBVIOUS
    <2>4. f \o <<l>> \o <<>> = f \o <<l>>
      BY <2>1, <2>2, <2>3
    <2> QED BY <1>1, <1>2, <1>3, <1>4, <2>3, <2>4 DEF AddByte, JoinRuns
  <1>5. CASE ~(runs # <<>> /\ Last(runs).char = c)
    BY <1>1, <1>2, <1>3, <1>5 DEF AddByte, JoinRuns
  <1> QED BY <1>4, <1>5

LEMMA OneByte ==
    ASSUME NEW S, NEW c \in S
    PROVE  /\ <<Run(1, c)>> \in Seq(RunsOver(S))
           /\ IsRunLengthOf(<<Run(1, c)>>, <<c>>)
  <1>1. PICK r : r = Run(1, c)
    OBVIOUS
  <1>2. r \in RunsOver(S) /\ r.count = 1 /\ r.char = c
    BY <1>1, RunLemma
  <1>3. Expand(<<r>>) = <<c>>
    <2>1. Expand(<<r>>) = Stretch(r)
      BY <1>2, ExpandOne
    <2>2. [k \in 1 .. 1 |-> c] = <<c>>
      OBVIOUS
    <2> QED BY <1>2, <2>1, <2>2 DEF Stretch
  <1> QED BY <1>1, <1>2, <1>3 DEF IsRunLengthOf

LEMMA NoBytes == \A S : <<>> \in Seq(RunsOver(S)) /\ IsRunLengthOf(<<>>, <<>>)
  <1>1. \A S : <<>> \in Seq(RunsOver(S))
    OBVIOUS
  <1>2. IsRunLengthOf(<<>>, <<>>)
    BY ExpandNone DEF IsRunLengthOf
  <1> QED BY <1>1, <1>2

-----------------------------------------------------------------------------
(* RLECompress.                                                            *)

\* The values of the recursive function in RLECompress(bytes) up to n.
Compresses(bytes, n, f) ==
    f = [k \in 0 .. n |->
            IF k = 0 THEN <<>> ELSE AddByte(f[k - 1], bytes[k])]

\* There is such a function.
LEMMA CompressesExists ==
    ASSUME NEW bytes, NEW n \in Nat PROVE \E f : Compresses(bytes, n, f)
  <1> DEFINE T == {m \in Nat : ~ \E f : Compresses(bytes, m, f)}
  <1> SUFFICES ASSUME T # {} PROVE FALSE
    OBVIOUS
  <1>1. PICK m \in T : \A k \in T : m <= k
    BY Least
  <1>2. CASE m = 0
    <2>1. Compresses(bytes, 0, [k \in 0 .. 0 |-> <<>>])
      BY DEF Compresses
    <2> QED BY <1>2, <2>1
  <1>3. CASE m > 0
    <2>1. m - 1 \in Nat /\ m - 1 \notin T
      BY <1>1, <1>3
    <2>2. PICK f : Compresses(bytes, m - 1, f)
      BY <2>1
    <2> DEFINE g == [k \in 0 .. m |->
                        IF k = m THEN AddByte(f[m - 1], bytes[m]) ELSE f[k]]
               h == [k \in 0 .. m |->
                        IF k = 0 THEN <<>>
                        ELSE AddByte(g[k - 1], bytes[k])]
    <2>3. ASSUME NEW k \in 0 .. m PROVE g[k] = h[k]
      <3>1. CASE k = m
        BY <1>3, <3>1
      <3>2. CASE k # m
        <4>1. k \in 0 .. m - 1
          BY <3>2
        <4>2. f[k] = IF k = 0 THEN <<>> ELSE AddByte(f[k - 1], bytes[k])
          BY <2>2, <4>1 DEF Compresses
        <4>3. g[k] = f[k] /\ (k # 0 => g[k - 1] = f[k - 1])
          BY <4>1
        <4> QED BY <4>2, <4>3
      <3> QED BY <3>1, <3>2
    <2>4. g = [k \in 0 .. m |-> g[k]] /\ h = [k \in 0 .. m |-> h[k]]
      OBVIOUS
    <2> HIDE DEF g, h
    <2>5. g = h
      BY <2>3, <2>4, SameValues, Zenon
    <2>6. Compresses(bytes, m, g)
      BY <2>5 DEF h, Compresses
    <2> QED BY <2>6
  <1> QED BY <1>1, <1>2, <1>3

\* Compressing a page gives the run-length compression of its bytes.
LEMMA CompressIsRight ==
    ASSUME NEW S, NEW bytes \in Seq(S)
    PROVE  /\ RLECompress(bytes) \in Seq(RunsOver(S))
           /\ IsRunLengthOf(RLECompress(bytes), bytes)
  <1> DEFINE N == Len(bytes)
             f == CHOOSE g : Compresses(bytes, N, g)
             Good(n) == /\ f[n] \in Seq(RunsOver(S))
                        /\ IsRunLengthOf(f[n], SubSeq(bytes, 1, n))
             T == {n \in 0 .. N : ~Good(n)}
  <1>1. N \in Nat /\ SubSeq(bytes, 1, 0) = <<>> /\ SubSeq(bytes, 1, N) = bytes
    OBVIOUS
  <1>2. Compresses(bytes, N, f)
    BY <1>1, CompressesExists
  <1>3. RLECompress(bytes) = f[N]
    BY DEF RLECompress, Compresses
  <1> HIDE DEF f, N
  <1>4. ASSUME T # {} PROVE FALSE
    <2>1. T \in SUBSET Nat
      BY <1>1
    <2>2. PICK n \in T : \A k \in T : n <= k
      BY <1>4, <2>1, Least
    <2>3. f[n] = IF n = 0 THEN <<>> ELSE AddByte(f[n - 1], bytes[n])
      BY <1>2, <2>2 DEF Compresses
    <2>4. CASE n = 0
      <3>1. f[n] = <<>> /\ SubSeq(bytes, 1, n) = <<>>
        BY <1>1, <2>3, <2>4
      <3>2. Good(n)
        BY <3>1, NoBytes
      <3> QED BY <3>2
    <2>5. CASE n # 0
      <3>1. n \in 1 .. N /\ n - 1 \in 0 .. N /\ n - 1 \notin T
        BY <1>1, <2>1, <2>2, <2>5
      <3>2. PICK c \in S : c = bytes[n]
        BY <3>1 DEF N
      <3>3. PICK a, x : a = f[n - 1] /\ x = SubSeq(bytes, 1, n - 1)
        OBVIOUS
      <3>4. a \in Seq(RunsOver(S)) /\ IsRunLengthOf(a, x)
        BY <3>1, <3>3
      <3>5. f[n] = JoinRuns(a, <<Run(1, c)>>)
        BY <2>3, <2>5, <3>2, <3>3, <3>4, AddByteJoins
      <3>6. SubSeq(bytes, 1, n) = x \o <<c>>
        BY <3>1, <3>2, <3>3 DEF N
      <3>7. PICK b, y : b = <<Run(1, c)>> /\ y = <<c>>
        OBVIOUS
      <3>8. b \in Seq(RunsOver(S)) /\ IsRunLengthOf(b, y)
        BY <3>7, OneByte
      <3>9. /\ JoinRuns(a, b) \in Seq(RunsOver(S))
            /\ IsRunLengthOf(JoinRuns(a, b), x \o y)
        BY <3>4, <3>8, JoinRunsLemma
      <3>10. Good(n)
        BY <3>5, <3>6, <3>7, <3>9
      <3> QED BY <3>10
    <2> QED BY <2>4, <2>5
  <1>5. Good(N)
    <2>1. N \in 0 .. N
      BY <1>1
    <2> QED BY <1>4, <2>1
  <1> QED BY <1>1, <1>3, <1>5

-----------------------------------------------------------------------------
(* JoinPages.                                                              *)

\* The values of the recursive function in JoinPages(pages) up to n.
Joins(pages, n, f) ==
    f = [k \in 0 .. n |->
            IF k = 0 THEN <<>> ELSE JoinRuns(f[k - 1], pages[k])]

\* There is such a function.
LEMMA JoinsExists ==
    ASSUME NEW pages, NEW n \in Nat PROVE \E f : Joins(pages, n, f)
  <1> DEFINE T == {m \in Nat : ~ \E f : Joins(pages, m, f)}
  <1> SUFFICES ASSUME T # {} PROVE FALSE
    OBVIOUS
  <1>1. PICK m \in T : \A k \in T : m <= k
    BY Least
  <1>2. CASE m = 0
    <2>1. Joins(pages, 0, [k \in 0 .. 0 |-> <<>>])
      BY DEF Joins
    <2> QED BY <1>2, <2>1
  <1>3. CASE m > 0
    <2>1. m - 1 \in Nat /\ m - 1 \notin T
      BY <1>1, <1>3
    <2>2. PICK f : Joins(pages, m - 1, f)
      BY <2>1
    <2> DEFINE g == [k \in 0 .. m |->
                        IF k = m THEN JoinRuns(f[m - 1], pages[m]) ELSE f[k]]
               h == [k \in 0 .. m |->
                        IF k = 0 THEN <<>>
                        ELSE JoinRuns(g[k - 1], pages[k])]
    <2>3. ASSUME NEW k \in 0 .. m PROVE g[k] = h[k]
      <3>1. CASE k = m
        BY <1>3, <3>1
      <3>2. CASE k # m
        <4>1. k \in 0 .. m - 1
          BY <3>2
        <4>2. f[k] = IF k = 0 THEN <<>> ELSE JoinRuns(f[k - 1], pages[k])
          BY <2>2, <4>1 DEF Joins
        <4>3. g[k] = f[k] /\ (k # 0 => g[k - 1] = f[k - 1])
          BY <4>1
        <4> QED BY <4>2, <4>3
      <3> QED BY <3>1, <3>2
    <2>4. g = [k \in 0 .. m |-> g[k]] /\ h = [k \in 0 .. m |-> h[k]]
      OBVIOUS
    <2> HIDE DEF g, h
    <2>5. g = h
      BY <2>3, <2>4, SameValues, Zenon
    <2>6. Joins(pages, m, g)
      BY <2>5 DEF h, Joins
    <2> QED BY <2>6
  <1> QED BY <1>1, <1>2, <1>3

\* Joining compressed pages gives the run-length compression of their bytes.
LEMMA JoinPagesIsRight ==
    ASSUME NEW S, NEW pages \in Seq(Seq(RunsOver(S))),
           NEW texts \in Seq(Seq(S)), Len(texts) = Len(pages),
           \A n \in 1 .. Len(pages) : IsRunLengthOf(pages[n], texts[n])
    PROVE  /\ JoinPages(pages) \in Seq(RunsOver(S))
           /\ IsRunLengthOf(JoinPages(pages), FlattenSeq(texts))
  <1> DEFINE N == Len(pages)
             f == CHOOSE g : Joins(pages, N, g)
             Good(n) ==
                 /\ f[n] \in Seq(RunsOver(S))
                 /\ IsRunLengthOf(f[n], FlattenSeq(SubSeq(texts, 1, n)))
             T == {n \in 0 .. N : ~Good(n)}
  <1>1. N \in Nat /\ SubSeq(texts, 1, 0) = <<>> /\ SubSeq(texts, 1, N) = texts
    OBVIOUS
  <1>2. Joins(pages, N, f)
    BY <1>1, JoinsExists
  <1>3. JoinPages(pages) = f[N]
    BY DEF JoinPages, Joins
  <1> HIDE DEF f, N
  <1>4. ASSUME T # {} PROVE FALSE
    <2>1. T \in SUBSET Nat
      BY <1>1
    <2>2. PICK n \in T : \A k \in T : n <= k
      BY <1>4, <2>1, Least
    <2>3. f[n] = IF n = 0 THEN <<>> ELSE JoinRuns(f[n - 1], pages[n])
      BY <1>2, <2>2 DEF Joins
    <2>4. CASE n = 0
      <3>1. f[n] = <<>> /\ FlattenSeq(SubSeq(texts, 1, n)) = <<>>
        BY <1>1, <2>3, <2>4, FlattenEmpty
      <3>2. Good(n)
        BY <3>1, NoBytes
      <3> QED BY <3>2
    <2>5. CASE n # 0
      <3>1. n \in 1 .. N /\ n - 1 \in 0 .. N /\ n - 1 \notin T
        BY <1>1, <2>1, <2>2, <2>5
      <3>2. PICK a, x : /\ a = f[n - 1]
                        /\ x = FlattenSeq(SubSeq(texts, 1, n - 1))
        OBVIOUS
      <3>3. a \in Seq(RunsOver(S)) /\ IsRunLengthOf(a, x)
        BY <3>1, <3>2
      <3>4. PICK b, y : b = pages[n] /\ y = texts[n]
        OBVIOUS
      <3>5. b \in Seq(RunsOver(S)) /\ IsRunLengthOf(b, y)
        BY <3>1, <3>4 DEF N
      <3>6. f[n] = JoinRuns(a, b)
        BY <2>3, <2>5, <3>2, <3>4
      <3>7. FlattenSeq(SubSeq(texts, 1, n)) = x \o y
        <4>1. n \in 1 .. Len(texts)
          BY <3>1 DEF N
        <4> QED BY <3>2, <3>4, <4>1, FlattenSubSeq
      <3>8. /\ JoinRuns(a, b) \in Seq(RunsOver(S))
            /\ IsRunLengthOf(JoinRuns(a, b), x \o y)
        BY <3>3, <3>5, JoinRunsLemma
      <3>9. Good(n)
        BY <3>6, <3>7, <3>8
      <3> QED BY <3>9
    <2> QED BY <2>4, <2>5
  <1>5. Good(N)
    <2>1. N \in 0 .. N
      BY <1>1
    <2> QED BY <1>4, <2>1
  <1> QED BY <1>1, <1>3, <1>5

-----------------------------------------------------------------------------
(* Writing one run after the other.                                        *)

LEMMA OneRun ==
    ASSUME NEW S, NEW r \in RunsOver(S)
    PROVE  <<r>> \in Seq(RunsOver(S)) /\ IsRunLengthOf(<<r>>, Stretch(r))
  <1>1. PICK s : s = <<r>>
    OBVIOUS
  <1>2. s \in Seq(RunsOver(S)) /\ Len(s) = 1 /\ s[1] = r
    BY <1>1
  <1>3. Expand(s) = Stretch(r)
    BY <1>1, ExpandOne
  <1>4. \A k \in 1 .. Len(s) : s[k].count > 0
    BY <1>2, RunsHaveBytes
  <1>5. \A k \in 1 .. Len(s) - 1 : s[k].char # s[k + 1].char
    BY <1>2
  <1> QED BY <1>1, <1>2, <1>3, <1>4, <1>5 DEF IsRunLengthOf

\* A run of another character than the last one.
LEMMA AnotherRun ==
    ASSUME NEW S, NEW runs \in Seq(RunsOver(S)), NEW r \in RunsOver(S),
           NEW x, IsRunLengthOf(runs, x),
           runs = <<>> \/ Last(runs).char # r.char
    PROVE  /\ Append(runs, r) \in Seq(RunsOver(S))
           /\ IsRunLengthOf(Append(runs, r), x \o Stretch(r))
  <1>1. PICK s : s = <<r>>
    OBVIOUS
  <1>2. /\ s \in Seq(RunsOver(S)) /\ IsRunLengthOf(s, Stretch(r))
        /\ Head(s) = r
    BY <1>1, OneRun
  <1>3. JoinRuns(runs, s) = runs \o s
    BY <1>2 DEF JoinRuns
  <1>4. runs \o s = Append(runs, r)
    <2>1. PICK U : U = RunsOver(S)
      OBVIOUS
    <2>2. runs \in Seq(U) /\ r \in U
      BY <2>1
    <2>3. runs \o <<r>> = Append(runs, r)
      BY <2>2
    <2> QED BY <1>1, <2>3
  <1>5. /\ JoinRuns(runs, s) \in Seq(RunsOver(S))
        /\ IsRunLengthOf(JoinRuns(runs, s), x \o Stretch(r))
    <2>1. PICK y : y = Stretch(r)
      OBVIOUS
    <2>2. s \in Seq(RunsOver(S)) /\ IsRunLengthOf(s, y)
      BY <1>2, <2>1
    <2>3. /\ JoinRuns(runs, s) \in Seq(RunsOver(S))
          /\ IsRunLengthOf(JoinRuns(runs, s), x \o y)
      BY <2>2, JoinRunsLemma
    <2> QED BY <2>1, <2>3
  <1> QED BY <1>3, <1>4, <1>5

\* More bytes of the last run.
LEMMA LongerRun ==
    ASSUME NEW S, NEW runs \in Seq(RunsOver(S)),
           NEW m \in Nat \ {0}, NEW n \in Nat \ {0}, NEW c \in S,
           NEW x, IsRunLengthOf(Append(runs, Run(m, c)), x)
    PROVE  /\ Append(runs, Run(m + n, c)) \in Seq(RunsOver(S))
           /\ IsRunLengthOf(Append(runs, Run(m + n, c)),
                            x \o Stretch(Run(n, c)))
  <1>1. PICK p, q, r : p = Run(m, c) /\ q = Run(n, c) /\ r = Run(m + n, c)
    OBVIOUS
  <1>2. /\ p \in RunsOver(S) /\ q \in RunsOver(S) /\ r \in RunsOver(S)
        /\ p.char = c /\ p.count = m /\ q.char = c /\ q.count = n
    <2>1. m + n \in Nat \ {0}
      OBVIOUS
    <2> QED BY <1>1, <2>1, RunLemma
  <1>3. PICK U : U = RunsOver(S)
    OBVIOUS
  <1>4. PICK a, b : a = Append(runs, p) /\ b = <<q>>
    OBVIOUS
  <1>5. /\ a \in Seq(U) /\ a # <<>> /\ a[Len(a)] = p /\ Len(a) = Len(runs) + 1
        /\ b \in Seq(U) /\ b # <<>> /\ Head(b) = q /\ Tail(b) = <<>>
    BY <1>2, <1>3, <1>4
  <1>6. Front(a) = runs
    <2>1. Front(a) = SubSeq(a, 1, Len(a) - 1)
      BY DEF Front
    <2>2. /\ SubSeq(a, 1, Len(a) - 1) \in Seq(U)
          /\ Len(SubSeq(a, 1, Len(a) - 1)) = Len(runs)
          /\ \A k \in 1 .. Len(runs) :
                 SubSeq(a, 1, Len(a) - 1)[k] = runs[k]
      BY <1>2, <1>3, <1>4, <1>5
    <2> QED BY <1>3, <2>1, <2>2, SeqEqual
  <1>7. JoinRuns(a, b) = runs \o <<r>> \o <<>>
    BY <1>1, <1>2, <1>5, <1>6 DEF JoinRuns, Last
  <1>8. runs \o <<r>> \o <<>> = Append(runs, r) /\ Append(runs, r) \in Seq(U)
    <2>1. runs \in Seq(U) /\ r \in U
      BY <1>2, <1>3
    <2>2. Append(runs, r) \in Seq(U)
      BY <2>1
    <2>3. runs \o <<r>> = Append(runs, r)
      BY <2>1
    <2>4. Append(runs, r) \o <<>> = Append(runs, r)
      BY <2>2
    <2> QED BY <2>2, <2>3, <2>4, Zenon
  <1>9. IsRunLengthOf(b, Stretch(q))
    BY <1>2, <1>4, OneRun
  <1>10. IsRunLengthOf(JoinRuns(a, b), x \o Stretch(q))
    BY <1>1, <1>3, <1>4, <1>5, <1>9, JoinRunsLemma
  <1> QED BY <1>1, <1>3, <1>7, <1>8, <1>10

\* One byte more, with the last run still open.
LEMMA NextByte ==
    ASSUME NEW S, NEW runs \in Seq(RunsOver(S)), NEW n \in Nat \ {0},
           NEW c \in S, NEW d \in S, NEW x \in Seq(S),
           IsRunLengthOf(Append(runs, Run(n, c)), x)
    PROVE  /\ Append(runs, Run(n, c)) \in Seq(RunsOver(S))
           /\ c = d => IsRunLengthOf(Append(runs, Run(n + 1, c)), Append(x, d))
           /\ c # d => IsRunLengthOf(Append(Append(runs, Run(n, c)), Run(1, d)),
                                     Append(x, d))
  <1>1. PICK U : U = RunsOver(S)
    OBVIOUS
  <1>2. Stretch(Run(1, d)) = <<d>> /\ x \o <<d>> = Append(x, d)
    <2>1. [k \in 1 .. 1 |-> d] = <<d>>
      OBVIOUS
    <2> QED BY <2>1 DEF Stretch, Run
  <1>3. PICK l, a : l = Run(n, c) /\ a = Append(runs, l)
    OBVIOUS
  <1>4. l \in U /\ l.char = c
    BY <1>1, <1>3, RunLemma
  <1>5. a \in Seq(U) /\ Len(a) \in Nat /\ a[Len(a)] = l
    BY <1>1, <1>3, <1>4
  <1>6. ASSUME c = d
        PROVE  IsRunLengthOf(Append(runs, Run(n + 1, c)), Append(x, d))
    <2>1. 1 \in Nat \ {0}
      OBVIOUS
    <2>2. IsRunLengthOf(Append(runs, Run(n + 1, c)), x \o Stretch(Run(1, c)))
      BY <2>1, LongerRun
    <2> QED BY <1>2, <1>6, <2>2
  <1>7. ASSUME c # d
        PROVE  IsRunLengthOf(Append(a, Run(1, d)), Append(x, d))
    <2>1. PICK r : r = Run(1, d)
      OBVIOUS
    <2>2. r \in RunsOver(S) /\ r.char = d
      <3>1. 1 \in Nat \ {0}
        OBVIOUS
      <3> QED BY <2>1, <3>1, RunLemma
    <2>3. Last(a).char # r.char
      BY <1>4, <1>5, <1>7, <2>2 DEF Last
    <2>4. IsRunLengthOf(a, x)
      BY <1>3
    <2>5. IsRunLengthOf(Append(a, r), x \o Stretch(r))
      BY <1>1, <1>5, <2>2, <2>3, <2>4, AnotherRun
    <2> QED BY <1>2, <2>1, <2>5
  <1> QED BY <1>1, <1>3, <1>5, <1>6, <1>7

-----------------------------------------------------------------------------
(* Lists after lists.                                                      *)

\* A name for a list after another one: the provers do not use a fact about
\* lists with \o in them, but one with this.
Cat(s, t) == s \o t

LEMMA Associative ==
    ASSUME NEW U, NEW a \in Seq(U), NEW b \in Seq(U), NEW c \in Seq(U)
    PROVE  /\ Cat(Cat(a, b), c) = Cat(a, Cat(b, c))
           /\ Cat(a, b) \in Seq(U)
  <1>1. (a \o b) \o c = a \o (b \o c)
    BY SMTT(30)
  <1>2. a \o b \in Seq(U)
    OBVIOUS
  <1> QED BY <1>1, <1>2 DEF Cat

\* The end of two lists.
LEMMA ConcatTail ==
    ASSUME NEW U, NEW a \in Seq(U), NEW b \in Seq(U), b # <<>>
    PROVE  /\ a \o b \in Seq(U) /\ a \o b # <<>>
           /\ Last(a \o b) = Last(b) /\ Front(a \o b) = a \o Front(b)
  <1>1. PICK x, y : x = a \o b /\ y = SubSeq(b, 1, Len(b) - 1)
    OBVIOUS
  <1>2. /\ x \in Seq(U) /\ Len(x) = Len(a) + Len(b) /\ Len(b) > 0
        /\ \A k \in 1 .. Len(x) :
               x[k] = IF k <= Len(a) THEN a[k] ELSE b[k - Len(a)]
    BY <1>1, ConcatIs
  <1>3. Last(x) = Last(b)
    <2>1. /\ Len(x) \in 1 .. Len(x) /\ ~(Len(x) <= Len(a))
          /\ Len(x) - Len(a) = Len(b)
      BY <1>2
    <2> QED BY <1>2, <2>1 DEF Last
  <1>4. Front(x) = a \o y
    <2>1. PICK f, g : f = SubSeq(x, 1, Len(x) - 1) /\ g = a \o y
      OBVIOUS
    <2>2. /\ f \in Seq(U) /\ Len(f) = Len(x) - 1
          /\ \A k \in 1 .. Len(x) - 1 : f[k] = x[k]
      BY <1>2, <2>1
    <2>3. /\ y \in Seq(U) /\ Len(y) = Len(b) - 1
          /\ \A k \in 1 .. Len(b) - 1 : y[k] = b[k]
      <3>1. PICK n \in Nat : n = Len(b) - 1
        <4>1. Len(b) \in Nat /\ Len(b) > 0
          BY <1>2
        <4>2. Len(b) - 1 \in Nat
          BY <4>1
        <4> QED BY <4>2
      <3>2. n <= Len(b) /\ y = SubSeq(b, 1, n)
        BY <1>1, <3>1
      <3>3. y \in Seq(U) /\ Len(y) = n /\ \A k \in 1 .. n : y[k] = b[k]
        BY <3>2
      <3> QED BY <3>1, <3>3
    <2>4. /\ g \in Seq(U) /\ Len(g) = Len(a) + Len(y)
          /\ \A k \in 1 .. Len(g) :
                 g[k] = IF k <= Len(a) THEN a[k] ELSE y[k - Len(a)]
      BY <2>1, <2>3, ConcatIs
    <2>5. Len(f) = Len(g)
      BY <1>2, <2>2, <2>3, <2>4
    <2>6. ASSUME NEW k \in 1 .. Len(f) PROVE f[k] = g[k]
      <3>1. k \in 1 .. Len(x) /\ k \in 1 .. Len(x) - 1 /\ k \in 1 .. Len(g)
        BY <1>2, <2>2, <2>5
      <3>2. CASE k <= Len(a)
        BY <1>2, <2>2, <2>4, <3>1, <3>2
      <3>3. CASE ~(k <= Len(a))
        <4>1. k - Len(a) \in 1 .. Len(b) - 1
          BY <1>2, <3>1, <3>3
        <4> QED BY <1>2, <2>2, <2>3, <2>4, <3>1, <3>3, <4>1
      <3> QED BY <3>2, <3>3
    <2>7. f = g
      BY <2>2, <2>4, <2>5, <2>6, SeqEqual
    <2> QED BY <2>1, <2>7 DEF Front
  <1>5. x # <<>>
    BY <1>2
  <1> QED BY <1>1, <1>2, <1>3, <1>4, <1>5 DEF Front

\* A stretch of a list.
LEMMA PieceType ==
    ASSUME NEW U, NEW b \in Seq(U), NEW m \in Nat, NEW n \in Nat, n <= Len(b)
    PROVE  /\ SubSeq(b, m + 1, n) \in Seq(U)
           /\ m <= n => /\ Len(SubSeq(b, m + 1, n)) = n - m
                        /\ \A k \in 1 .. n - m :
                               SubSeq(b, m + 1, n)[k] = b[m + k]
  <1>1. PICK p \in Nat : p = m + 1
    OBVIOUS
  <1>2. PICK y : y = SubSeq(b, p, n)
    OBVIOUS
  <1>3. y \in Seq(U)
    <2>1. \A i \in p .. n : i \in 1 .. Len(b)
      BY <1>1
    <2>2. \A i \in p .. n : b[i] \in U
      BY <2>1
    <2> QED BY <1>1, <1>2, <2>2
  <1>4. ASSUME m <= n
        PROVE  Len(y) = n - m /\ \A k \in 1 .. n - m : y[k] = b[m + k]
    <2>1. Len(y) = n - m
      BY <1>1, <1>2, <1>4
    <2>2. ASSUME NEW k \in 1 .. n - m PROVE y[k] = b[m + k]
      <3>1. k \in 1 .. Len(y) /\ p + k - 1 = m + k
        BY <1>1, <2>1
      <3>2. y[k] = b[p + k - 1]
        BY <1>1, <1>2, <3>1
      <3> QED BY <3>1, <3>2
    <2> QED BY <2>1, <2>2
  <1> QED BY <1>1, <1>2, <1>3, <1>4

\* A list that is cut in two.
LEMMA SplitAt ==
    ASSUME NEW U, NEW b \in Seq(U), NEW m \in Nat, NEW n \in Nat,
           m <= n, n <= Len(b)
    PROVE  Cat(SubSeq(b, 1, m), SubSeq(b, m + 1, n)) = SubSeq(b, 1, n)
  <1>1. PICK x, y, z, c : /\ x = SubSeq(b, 1, m) /\ y = SubSeq(b, m + 1, n)
                          /\ z = SubSeq(b, 1, n) /\ c = x \o y
    OBVIOUS
  <1>2. x \in Seq(U) /\ Len(x) = m /\ \A k \in 1 .. m : x[k] = b[k]
    BY <1>1
  <1>3. y \in Seq(U) /\ Len(y) = n - m /\ \A k \in 1 .. n - m : y[k] = b[m + k]
    BY <1>1, PieceType
  <1>4. z \in Seq(U) /\ Len(z) = n /\ \A k \in 1 .. n : z[k] = b[k]
    BY <1>1
  <1>5. /\ c \in Seq(U) /\ Len(c) = n
        /\ \A k \in 1 .. n : c[k] = IF k <= m THEN x[k] ELSE y[k - m]
    <2>1. /\ c \in Seq(U) /\ Len(c) = Len(x) + Len(y)
          /\ \A k \in 1 .. Len(c) :
                 c[k] = IF k <= Len(x) THEN x[k] ELSE y[k - Len(x)]
      <3>1. c = x \o y /\ x \in Seq(U) /\ y \in Seq(U)
        BY <1>1, <1>2, <1>3
      <3> QED BY <3>1, ConcatIs
    <2>2. Len(c) = n
      BY <1>2, <1>3, <2>1
    <2> QED BY <1>2, <2>1, <2>2
  <1>6. ASSUME NEW k \in 1 .. n PROVE c[k] = z[k]
    <2>1. CASE k <= m
      BY <1>2, <1>4, <1>5, <2>1
    <2>2. CASE ~(k <= m)
      <3>1. k - m \in 1 .. n - m /\ m + (k - m) = k
        BY <2>2
      <3> QED BY <1>3, <1>4, <1>5, <2>2, <3>1
    <2> QED BY <2>1, <2>2
  <1>7. c = z
    BY <1>4, <1>5, <1>6, SeqEqual
  <1> QED BY <1>1, <1>7 DEF Cat
=============================================================================
