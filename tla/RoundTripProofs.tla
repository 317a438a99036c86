-------------------------- MODULE RoundTripProofs --------------------------
(***************************************************************************)
(* Proofs about the zips and wunzip of RoundTrip, for any number of        *)
(* workers, any command line and any size of a chunk.                      *)
(*                                                                         *)
(* ZipsInv is inductive.  Its parts, and the sections that prove them:     *)
(*   - Inv, of pzip2's threads: how much of the list is filled, counted    *)
(*     and taken, and why the program may have ended;                      *)
(*   - OutInv, of pzip2's data: the chunks on the list hold the files read *)
(*     so far, each result is the compression of its chunk, and what       *)
(*     output joins is the compression of all of them;                     *)
(*   - PzipInv and WzipInv: the same for the two other zips.               *)
(* UnzipInv, of the three calls of wunzip, is inductive together with it.  *)
(* What the data of each step is, rests on lemmas about the operators:     *)
(* CompressIs, FilesLemma, OutputOfIs, DatazipIs, AllJoinedIs, ChunksAre   *)
(* and RecordsAre.                                                         *)
(***************************************************************************)
EXTENDS RoundTrip, SequenceLemmas

-----------------------------------------------------------------------------
(* What compress computes.                                                 *)

RunType == [count : Nat, char : Nat]

StateType == [result : Seq(RunType), char_count : Nat, current_char : Nat]

StartState == [result |-> <<>>, char_count |-> 0, current_char |-> 0]

LEMMA StartType == StartState \in StateType
  <1>1. <<>> \in Seq(RunType)
    OBVIOUS
  <1> QED BY <1>1 DEF StartState, StateType

LEMMA CompressByteType ==
    ASSUME NEW s \in StateType, NEW c \in Nat
    PROVE  CompressByte(s, c) \in StateType
  <1>1. /\ s.result \in Seq(RunType) /\ s.char_count \in Nat
        /\ s.current_char \in Nat
    BY DEF StateType
  <1>2. CASE c = s.current_char
    <2>1. CompressByte(s, c) = [s EXCEPT !.char_count = s.char_count + 1]
      BY <1>2 DEF CompressByte
    <2>2. s.char_count + 1 \in Nat
      BY <1>1
    <2> QED BY <2>1, <2>2 DEF StateType
  <1>3. CASE c # s.current_char
    <2>1. Run(s.char_count, s.current_char) \in RunType
      BY <1>1 DEF Run, RunType
    <2>2. PICK runs :
              runs = IF s.char_count > 0
                     THEN Append(s.result, Run(s.char_count, s.current_char))
                     ELSE s.result
      OBVIOUS
    <2>3. runs \in Seq(RunType)
      BY <1>1, <2>1, <2>2
    <2>4. CompressByte(s, c) = [result |-> runs, char_count |-> 1,
                                current_char |-> c]
      BY <1>3, <2>2 DEF CompressByte
    <2> QED BY <2>3, <2>4 DEF StateType
  <1> QED BY <1>2, <1>3

\* The values of the recursive function in compress.
Compressed(bytes, g) ==
    g = [i \in 0 .. Len(bytes) |-> IF i = 0 THEN StartState
                                   ELSE CompressByte(g[i - 1], bytes[i])]

LEMMA CompressedExists ==
    ASSUME NEW bytes \in Seq(Nat)
    PROVE  \E g \in [0 .. Len(bytes) -> StateType] :
               /\ Compressed(bytes, g)
               /\ compress(bytes) =
                      Append(g[Len(bytes)].result,
                             Run(g[Len(bytes)].char_count,
                                 g[Len(bytes)].current_char))
  <1>1. PICK n \in Nat : n = Len(bytes)
    OBVIOUS
  <1> DEFINE Is(g) == g = [i \in 0 .. n |->
                              IF i = 0 THEN StartState
                              ELSE CompressByte(g[i - 1], bytes[i])]
  <1>2. \A i \in 1 .. n : bytes[i] \in Nat
    BY <1>1
  <1>3. \E g : Is(g)
    <2>1. PICK go : go = [is \in (1 .. n) \X StateType |->
                                 CompressByte(is[2], bytes[is[1]])]
      OBVIOUS
    <2>2. go \in [(1 .. n) \X StateType -> StateType]
      BY <1>2, <2>1, CompressByteType
    <2>3. PICK f : Recurs(f, n, StateType, StartState, go)
      BY <1>1, <2>2, StartType, RecursionExists
    <2>4. ASSUME NEW i \in 1 .. n
          PROVE  f[i] = CompressByte(f[i - 1], bytes[i])
      <3>1. i - 1 \in 0 .. n
        BY <1>1
      <3>2. f[i - 1] \in StateType
        BY <2>3, <3>1 DEF Recurs
      <3>3. <<i, f[i - 1]>> \in (1 .. n) \X StateType
        BY <3>2
      <3> QED BY <2>1, <2>3, <3>3 DEF Recurs
    <2>5. PICK h : h = [i \in 0 .. n |->
                           IF i = 0 THEN StartState
                           ELSE CompressByte(f[i - 1], bytes[i])]
      OBVIOUS
    <2>6. f = [i \in 0 .. n |-> f[i]] /\ h = [i \in 0 .. n |-> h[i]]
      BY <2>3, <2>5 DEF Recurs
    <2>7. \A i \in 0 .. n : f[i] = h[i]
      BY <1>1, <2>3, <2>4, <2>5 DEF Recurs
    <2>8. f = h
      BY <2>6, <2>7, SameValues, Zenon
    <2> QED BY <2>5, <2>8
  <1>4. PICK g : /\ Is(g)
                 /\ compress(bytes) =
                        Append(g[n].result,
                               Run(g[n].char_count, g[n].current_char))
    <2> DEFINE g == CHOOSE f : Is(f)
    <2>1. Is(g)
      BY <1>3
    <2>2. compress(bytes) = Append(g[n].result,
                               Run(g[n].char_count, g[n].current_char))
      BY <1>1 DEF compress, StartState
    <2> QED BY <2>1, <2>2
  <1> DEFINE T == {i \in 0 .. n : g[i] \notin StateType}
  <1>5. ASSUME T # {} PROVE FALSE
    <2>1. T \in SUBSET Nat
      BY <1>1
    <2>2. PICK i \in T : \A k \in T : i <= k
      BY <1>5, <2>1, Least
    <2>3. i # 0
      BY <1>4, StartType
    <2>4. i - 1 \in 0 .. n /\ i - 1 \notin T /\ i \in 1 .. n
      BY <1>1, <2>2, <2>3
    <2>5. g[i - 1] \in StateType /\ g[i] = CompressByte(g[i - 1], bytes[i])
      BY <1>4, <2>3, <2>4
    <2> QED BY <1>2, <2>4, <2>5, CompressByteType
  <1>6. g \in [0 .. n -> StateType]
    <2>1. \A i \in 0 .. n : g[i] \in StateType
      BY <1>5
    <2>2. g = [i \in 0 .. n |-> g[i]]
      BY <1>4
    <2> QED BY <2>1, <2>2
  <1> QED BY <1>1, <1>4, <1>6 DEF Compressed

\* The runs written and the one that is open are those of the bytes.
OpenIs(s, bytes) ==
    /\ s.result \in Seq(RunsOver(Nat))
    /\ s.char_count \in Nat \ {0} /\ s.current_char \in Nat
    /\ IsRunLengthOf(Append(s.result, Run(s.char_count, s.current_char)),
                     bytes)

LEMMA FirstByte ==
    ASSUME NEW c \in Nat PROVE OpenIs(CompressByte(StartState, c), <<c>>)
  <1>1. PICK s : s = CompressByte(StartState, c)
    OBVIOUS
  <1>2. s.result = <<>> /\ s.char_count = 1 /\ s.current_char = c
    <2>1. CASE c = 0
      BY <1>1, <2>1 DEF CompressByte, StartState
    <2>2. CASE c # 0
      BY <1>1, <2>2 DEF CompressByte, StartState
    <2> QED BY <2>1, <2>2
  <1>3. PICK r : r = Run(1, c)
    OBVIOUS
  <1>4. Append(<<>>, r) = <<r>> /\ <<>> \in Seq(RunsOver(Nat))
    OBVIOUS
  <1>5. IsRunLengthOf(<<r>>, <<c>>)
    BY <1>3, OneByte
  <1> QED BY <1>1, <1>2, <1>3, <1>4, <1>5 DEF OpenIs

LEMMA AnotherByte ==
    ASSUME NEW s \in StateType, NEW c \in Nat, NEW bytes \in Seq(Nat),
           OpenIs(s, bytes)
    PROVE  OpenIs(CompressByte(s, c), Append(bytes, c))
  <1>1. PICK runs \in Seq(RunsOver(Nat)), n \in Nat \ {0}, d \in Nat :
            /\ runs = s.result /\ n = s.char_count /\ d = s.current_char
            /\ IsRunLengthOf(Append(runs, Run(n, d)), bytes)
    BY DEF OpenIs
  <1>2. /\ Append(runs, Run(n, d)) \in Seq(RunsOver(Nat))
        /\ d = c => IsRunLengthOf(Append(runs, Run(n + 1, d)),
                                  Append(bytes, c))
        /\ d # c => IsRunLengthOf(Append(Append(runs, Run(n, d)), Run(1, c)),
                                  Append(bytes, c))
    BY <1>1, NextByte
  <1>3. CASE c = d
    <2>1. PICK t : t = CompressByte(s, c)
      OBVIOUS
    <2>2. t = [s EXCEPT !.char_count = n + 1]
      BY <1>1, <1>3, <2>1 DEF CompressByte
    <2>3. t.result = runs /\ t.char_count = n + 1 /\ t.current_char = d
      BY <1>1, <2>2 DEF StateType
    <2>4. n + 1 \in Nat \ {0}
      OBVIOUS
    <2> QED BY <1>2, <1>3, <2>1, <2>3, <2>4 DEF OpenIs
  <1>4. CASE c # d
    <2>1. PICK t : t = CompressByte(s, c)
      OBVIOUS
    <2>2. /\ t.result = Append(runs, Run(n, d)) /\ t.char_count = 1
          /\ t.current_char = c
      BY <1>1, <1>4, <2>1 DEF CompressByte
    <2> QED BY <1>2, <1>4, <2>1, <2>2 DEF OpenIs
  <1> QED BY <1>3, <1>4

\* What compress returns for a chunk is a list of runs, and not an empty one;
\* and it is the compression of the chunk if that is not empty.
LEMMA CompressIs ==
    ASSUME NEW bytes \in Seq(Nat)
    PROVE  /\ compress(bytes) \in Seq(RunType) /\ compress(bytes) # <<>>
           /\ bytes # <<>> => /\ compress(bytes) \in Seq(RunsOver(Nat))
                              /\ IsRunLengthOf(compress(bytes), bytes)
  <1>1. PICK n \in Nat : n = Len(bytes)
    OBVIOUS
  <1>2. PICK g \in [0 .. n -> StateType] :
            /\ Compressed(bytes, g)
            /\ compress(bytes) =
                   Append(g[n].result,
                          Run(g[n].char_count, g[n].current_char))
    BY <1>1, CompressedExists
  <1>3. PICK runs \in Seq(RunType), r \in RunType :
            compress(bytes) = Append(runs, r)
    <2>1. g[n] \in StateType
      BY <1>2
    <2>2. PICK runs, m, d : /\ runs = g[n].result /\ m = g[n].char_count
                            /\ d = g[n].current_char
      OBVIOUS
    <2>3. runs \in Seq(RunType) /\ m \in Nat /\ d \in Nat
      BY <2>1, <2>2 DEF StateType
    <2>4. Run(m, d) \in RunType
      BY <2>3 DEF Run, RunType
    <2> QED BY <1>2, <2>2, <2>3, <2>4
  <1>4. Append(runs, r) \in Seq(RunType) /\ Append(runs, r) # <<>>
    <2>1. PICK S : S = RunType
      OBVIOUS
    <2>2. runs \in Seq(S) /\ r \in S
      BY <2>1
    <2>3. Append(runs, r) \in Seq(S) /\ Len(Append(runs, r)) # Len(<<>>)
      BY <2>2
    <2> QED BY <2>1, <2>3
  <1>5. ASSUME bytes # <<>>
        PROVE  /\ compress(bytes) \in Seq(RunsOver(Nat))
               /\ IsRunLengthOf(compress(bytes), bytes)
    <2> DEFINE T == {i \in 1 .. n : ~OpenIs(g[i], SubSeq(bytes, 1, i))}
    <2>1. \A i \in 1 .. n : g[i] = CompressByte(g[i - 1], bytes[i])
      <3>1. g = [i \in 0 .. n |-> IF i = 0 THEN StartState
                                  ELSE CompressByte(g[i - 1], bytes[i])]
        BY <1>1, <1>2 DEF Compressed
      <3>2. \A i \in 1 .. n : i \in 0 .. n /\ i # 0
        OBVIOUS
      <3> QED BY <3>1, <3>2
    <2>2. ASSUME T # {} PROVE FALSE
      <3>1. T \in SUBSET Nat
        OBVIOUS
      <3>2. PICK i \in T : \A k \in T : i <= k
        BY <2>2, <3>1, Least
      <3>3. PICK c \in Nat : c = bytes[i]
        BY <1>1
      <3>4. CASE i = 1
        <4>1. SubSeq(bytes, 1, 1) = <<c>>
          BY <1>1, <3>2, <3>3, <3>4
        <4>2. 0 \in 0 .. n /\ 1 \in 1 .. n /\ 1 - 1 = 0
          BY <3>4
        <4>3. g[0] = StartState
          BY <1>1, <1>2, <4>2 DEF Compressed
        <4>4. g[1] = CompressByte(StartState, c)
          BY <2>1, <3>3, <3>4, <4>2, <4>3
        <4> QED BY <3>2, <3>4, <4>1, <4>4, FirstByte
      <3>5. CASE i # 1
        <4>1. PICK k : k = i - 1
          OBVIOUS
        <4>2. k \in 1 .. n /\ k + 1 = i /\ k \notin T
          BY <3>2, <3>5, <4>1
        <4>3. PICK x : x = SubSeq(bytes, 1, k)
          OBVIOUS
        <4>4. x \in Seq(Nat) /\ SubSeq(bytes, 1, i) = Append(x, c)
          BY <1>1, <3>2, <3>3, <4>2, <4>3
        <4>5. OpenIs(g[k], x) /\ g[k] \in StateType
          BY <4>2, <4>3
        <4>6. OpenIs(CompressByte(g[k], c), Append(x, c))
          BY <4>4, <4>5, AnotherByte
        <4>7. g[i] = CompressByte(g[k], c)
          BY <2>1, <3>2, <3>3, <4>1
        <4> QED BY <3>2, <4>4, <4>6, <4>7
      <3> QED BY <3>4, <3>5
    <2>3. n \in 1 .. n /\ SubSeq(bytes, 1, n) = bytes
      BY <1>1, <1>5
    <2>4. OpenIs(g[n], bytes)
      BY <2>2, <2>3
    <2>5. PICK runs2 \in Seq(RunsOver(Nat)), m \in Nat \ {0}, d \in Nat :
              /\ compress(bytes) = Append(runs2, Run(m, d))
              /\ IsRunLengthOf(Append(runs2, Run(m, d)), bytes)
      BY <1>2, <2>4 DEF OpenIs
    <2>6. Append(runs2, Run(m, d)) \in Seq(RunsOver(Nat))
      <3>1. PICK U : U = RunsOver(Nat)
        OBVIOUS
      <3>2. runs2 \in Seq(U) /\ Run(m, d) \in U
        BY <3>1, RunLemma
      <3>3. Append(runs2, Run(m, d)) \in Seq(U)
        BY <3>2
      <3> QED BY <3>1, <3>3
    <2> QED BY <2>5, <2>6
  <1> QED BY <1>3, <1>4, <1>5

-----------------------------------------------------------------------------
(* Files and their chunks.                                                 *)

\* The first file is there.
Opens(fs) == Len(fs) > 0 /\ fs[1].access # "missing"

\* st_size after stat of the files up to the n-th.
LastSize(fs, n) ==
    Len(fs[Max({m \in 1 .. n : fs[m].access # "missing"})].content)

\* The chunks of the files up to the n-th.
Total(fs) ==
    LET t[n \in 0 .. Len(fs)] ==
            IF n = 0 THEN 0 ELSE t[n - 1] + NumOfBuffer(LastSize(fs, n))
    IN  t

LEMMA NumOfBufferLemma ==
    ASSUME NEW n \in Nat
    PROVE  /\ NumOfBuffer(n) \in Nat
           /\ \A k \in Nat : k < NumOfBuffer(n) => k * BUFFER_SIZE < n
  <1>1. BUFFER_SIZE \in Nat \ {0}
    BY SizesAssumption
  <1>2. PICK q, r : q = n \div BUFFER_SIZE /\ r = n % BUFFER_SIZE
    OBVIOUS
  <1>3. /\ q \in Nat /\ r \in 0 .. BUFFER_SIZE - 1
        /\ n = BUFFER_SIZE * q + r
    BY <1>1, <1>2
  <1>4. NumOfBuffer(n) = IF r > 0 THEN q + 1 ELSE q
    BY <1>2, <1>3 DEF NumOfBuffer
  <1>5. ASSUME NEW k \in Nat, k < NumOfBuffer(n) PROVE k * BUFFER_SIZE < n
    <2>1. PICK B \in Nat : B = BUFFER_SIZE /\ B > 0
      BY <1>1
    <2>2. ASSUME NEW i \in Nat, NEW m \in Nat, i <= m PROVE i * B <= m * B
      BY <2>1, <2>2
    <2>3. CASE r > 0
      <3>1. k <= q
        BY <1>3, <1>4, <1>5, <2>3
      <3>2. k * B <= q * B
        BY <1>3, <2>2, <3>1
      <3> QED BY <1>3, <2>1, <2>3, <3>2
    <2>4. CASE ~(r > 0)
      <3>1. k + 1 <= q
        BY <1>3, <1>4, <1>5, <2>4
      <3>2. (k + 1) * B <= q * B
        BY <1>3, <2>2, <3>1
      <3> QED BY <1>3, <2>1, <2>4, <3>2
    <2> QED BY <2>3, <2>4
  <1> QED BY <1>3, <1>4, <1>5

LEMMA FileLemma ==
    ASSUME NEW fs \in Seq(FileType), NEW n \in 1 .. Len(fs)
    PROVE  fs[n].content \in Seq(Nat) /\ Len(fs[n].content) \in Nat
  <1>1. fs[n] \in FileType
    OBVIOUS
  <1>2. fs[n].content \in Seq(Nat)
    BY <1>1 DEF FileType
  <1> QED BY <1>2

LEMMA LastSizeLemma ==
    ASSUME NEW fs \in Seq(FileType), Opens(fs), NEW n \in 1 .. Len(fs)
    PROVE  /\ LastSize(fs, n) \in Nat
           /\ fs[n].access # "missing" =>
                  LastSize(fs, n) = Len(fs[n].content)
           /\ fs[n].access = "missing" =>
                  n > 1 /\ LastSize(fs, n) = LastSize(fs, n - 1)
  <1>1. PICK T : T = {m \in 1 .. n : fs[m].access # "missing"}
    OBVIOUS
  <1>2. n \in Nat /\ T \in SUBSET (0 .. n) /\ 1 \in T
    BY <1>1 DEF Opens
  <1>3. Max(T) \in T /\ \A m \in T : m <= Max(T)
    BY <1>2, MaxIsGreatest
  <1>4. LastSize(fs, n) = Len(fs[Max(T)].content)
    BY <1>1 DEF LastSize
  <1>5. Max(T) \in 1 .. Len(fs)
    BY <1>1, <1>3
  <1>6. LastSize(fs, n) \in Nat
    BY <1>4, <1>5, FileLemma
  <1>7. ASSUME fs[n].access # "missing"
        PROVE  LastSize(fs, n) = Len(fs[n].content)
    <2>1. n \in T
      BY <1>1, <1>7
    <2>2. Max(T) = n
      BY <1>1, <1>3, <1>5, <2>1
    <2> QED BY <1>4, <2>2
  <1>8. ASSUME fs[n].access = "missing"
        PROVE  n > 1 /\ LastSize(fs, n) = LastSize(fs, n - 1)
    <2>1. n > 1
      BY <1>8 DEF Opens
    <2>2. {m \in 1 .. n : fs[m].access # "missing"}
              = {m \in 1 .. n - 1 : fs[m].access # "missing"}
      BY <1>8
    <2> QED BY <2>1, <2>2 DEF LastSize
  <1> QED BY <1>6, <1>7, <1>8

LEMMA TotalLemma ==
    ASSUME NEW fs \in Seq(FileType), Opens(fs)
    PROVE  /\ Total(fs)[0] = 0
           /\ \A n \in 1 .. Len(fs) :
                  Total(fs)[n] = Total(fs)[n - 1] + NumOfBuffer(LastSize(fs, n))
           /\ \A n \in 0 .. Len(fs) : /\ Total(fs)[n] \in Nat
                                      /\ Total(fs)[n] <= Total(fs)[Len(fs)]
  <1>1. PICK N \in Nat : N = Len(fs)
    OBVIOUS
  <1>2. PICK b : b = [n \in 1 .. N |-> NumOfBuffer(LastSize(fs, n))]
    OBVIOUS
  <1>3. \A n \in 1 .. N : /\ b[n] \in Nat
                          /\ b[n] = NumOfBuffer(LastSize(fs, n))
    BY <1>1, <1>2, LastSizeLemma, NumOfBufferLemma
  <1> DEFINE Is(g) == g = [n \in 0 .. N |->
                              IF n = 0 THEN 0
                              ELSE g[n - 1] + NumOfBuffer(LastSize(fs, n))]
  <1>4. \E g : Is(g)
    <2>1. PICK go : go = [is \in (1 .. N) \X Nat |-> is[2] + b[is[1]]]
      OBVIOUS
    <2>2. go \in [(1 .. N) \X Nat -> Nat]
      BY <1>3, <2>1
    <2>3. PICK f : Recurs(f, N, Nat, 0, go)
      BY <2>2, RecursionExists
    <2>4. ASSUME NEW n \in 1 .. N PROVE f[n] = f[n - 1] + b[n]
      <3>1. n - 1 \in 0 .. N
        OBVIOUS
      <3>2. f[n - 1] \in Nat
        BY <2>3, <3>1 DEF Recurs
      <3>3. <<n, f[n - 1]>> \in (1 .. N) \X Nat
        BY <3>2
      <3> QED BY <2>1, <2>3, <3>3 DEF Recurs
    <2>5. PICK h : h = [n \in 0 .. N |->
                           IF n = 0 THEN 0
                           ELSE f[n - 1] + NumOfBuffer(LastSize(fs, n))]
      OBVIOUS
    <2>6. f = [n \in 0 .. N |-> f[n]] /\ h = [n \in 0 .. N |-> h[n]]
      BY <2>3, <2>5 DEF Recurs
    <2>7. \A n \in 0 .. N : f[n] = h[n]
      <3>1. f[0] = 0 /\ h[0] = 0
        BY <2>3, <2>5 DEF Recurs
      <3>2. \A n \in 1 .. N : h[n] = f[n - 1] + b[n]
        BY <1>3, <2>5
      <3> QED BY <2>4, <3>1, <3>2
    <2>8. f = h
      BY <2>6, <2>7, SameValues, Zenon
    <2> QED BY <2>5, <2>8
  <1>5. PICK t : t = Total(fs)
    OBVIOUS
  <1>6. Is(t)
    <2> DEFINE g == CHOOSE f : Is(f)
    <2>1. Is(g)
      BY <1>4
    <2>2. t = g
      BY <1>1, <1>5 DEF Total
    <2> QED BY <2>1, <2>2
  <1>7. t[0] = 0 /\ \A n \in 1 .. N : t[n] = t[n - 1] + b[n]
    BY <1>3, <1>6
  <1>8. \A n \in 0 .. N : t[n] \in Nat
    <2> DEFINE T == {n \in 0 .. N : t[n] \notin Nat}
    <2>1. ASSUME T # {} PROVE FALSE
      <3>1. T \in SUBSET Nat
        OBVIOUS
      <3>2. PICK i \in T : \A k \in T : i <= k
        BY <2>1, <3>1, Least
      <3>3. i \in 1 .. N /\ i - 1 \in 0 .. N
        BY <1>7
      <3>4. i - 1 \notin T
        BY <3>2, <3>3
      <3>5. t[i - 1] \in Nat /\ b[i] \in Nat /\ t[i] = t[i - 1] + b[i]
        BY <1>3, <1>7, <3>3, <3>4
      <3> QED BY <3>2, <3>5
    <2> QED BY <2>1
  <1>9. \A n \in 0 .. N : t[n] <= t[N]
    <2> DEFINE T == {d \in 0 .. N : ~(t[N - d] <= t[N])}
    <2>1. ASSUME T # {} PROVE FALSE
      <3>1. T \in SUBSET Nat
        OBVIOUS
      <3>2. PICK d \in T : \A k \in T : d <= k
        BY <2>1, <3>1, Least
      <3>3. d # 0
        <4> SUFFICES ASSUME d = 0 PROVE FALSE
          OBVIOUS
        <4>1. N - d = N /\ N \in 0 .. N
          OBVIOUS
        <4>2. t[N] \in Nat
          BY <1>8, <4>1
        <4> QED BY <4>1, <4>2
      <3>4. d - 1 \in 0 .. N /\ d - 1 \notin T
        BY <3>2, <3>3
      <3>5. PICK m : m = N - d
        OBVIOUS
      <3>6. m + 1 \in 1 .. N /\ m \in 0 .. N /\ m + 1 = N - (d - 1)
        BY <3>4, <3>5
      <3>7. t[m + 1] <= t[N]
        BY <3>4, <3>6
      <3>8. t[m + 1] = t[m] + b[m + 1]
        <4>1. (m + 1) - 1 = m
          BY <3>6
        <4> QED BY <1>7, <3>6, <4>1
      <3>9. t[m] \in Nat /\ b[m + 1] \in Nat /\ t[N] \in Nat
        BY <1>3, <1>8, <3>6
      <3>10. t[m] <= t[N]
        BY <3>7, <3>8, <3>9
      <3> QED BY <3>2, <3>5, <3>10
    <2>2. ASSUME NEW n \in 0 .. N PROVE t[n] <= t[N]
      <3>1. N - n \in 0 .. N /\ N - (N - n) = n
        OBVIOUS
      <3> QED BY <2>1, <3>1
    <2> QED BY <2>2
  <1> QED BY <1>1, <1>3, <1>5, <1>7, <1>8, <1>9

\* What the command line names is a list of files.
LEMMA FilesLemma ==
    ASSUME args \in Commands, memory \in Memories
    PROVE  Files \in Seq(FileType)
  <1>1. /\ args \in Seq({a \in ArgType : ~a.dir => Len(a.entries) = 1})
        /\ memory \in MemoryType
    BY ArgsAssumption
  <1>2. ASSUME NEW n \in 1 .. Len(args)
        PROVE  FoundIn(args[n]) \in Seq(FileType)
    <2>1. PICK a : a = args[n]
      OBVIOUS
    <2>2. /\ a.entries \in Seq([regular : BOOLEAN, file : FileType])
          /\ ~a.dir => Len(a.entries) = 1
      <3>1. a \in ArgType /\ (~a.dir => Len(a.entries) = 1)
        <4>1. PICK A : A = {x \in ArgType : ~x.dir => Len(x.entries) = 1}
          OBVIOUS
        <4>2. a \in A
          BY <1>1, <2>1, <4>1
        <4> QED BY <4>1, <4>2
      <3> QED BY <3>1 DEF ArgType
    <2>3. \A k \in 1 .. Len(a.entries) : a.entries[k].file \in FileType
      <3>1. PICK E : E = [regular : BOOLEAN, file : FileType]
        OBVIOUS
      <3>2. a.entries \in Seq(E)
        BY <2>2, <3>1
      <3>3. \A k \in 1 .. Len(a.entries) : a.entries[k] \in E
        BY <3>2
      <3> QED BY <3>1, <3>3
    <2>4. CASE ~a.dir
      BY <2>1, <2>2, <2>3, <2>4 DEF FoundIn
    <2>5. CASE a.dir
      <3>1. ASSUME NEW f \in FileType PROVE Found(f) \in FileType
        BY DEF Found, FileType
      <3>2. PICK seqs : seqs = [k \in 1 .. Len(a.entries) |->
                                   IF a.entries[k].regular
                                   THEN <<Found(a.entries[k].file)>> ELSE <<>>]
        OBVIOUS
      <3>3. ASSUME NEW k \in 1 .. Len(a.entries)
            PROVE  (IF a.entries[k].regular
                    THEN <<Found(a.entries[k].file)>> ELSE <<>>)
                       \in Seq(FileType)
        BY <2>3, <3>1
      <3>4. PICK S : S = Seq(FileType)
        OBVIOUS
      <3>5. seqs \in Seq(S)
        BY <2>2, <3>2, <3>3, <3>4
      <3>6. FlattenSeq(seqs) \in Seq(FileType)
        BY <3>4, <3>5, FlattenType
      <3> QED BY <2>1, <2>5, <3>2, <3>6 DEF FoundIn
    <2> QED BY <2>4, <2>5
  <1>3. PICK S : S = Seq(FileType)
    OBVIOUS
  <1>4. PICK seqs : seqs = [n \in 1 .. Len(args) |-> FoundIn(args[n])]
    OBVIOUS
  <1>5. seqs \in Seq(S)
    BY <1>1, <1>2, <1>3, <1>4
  <1>6. FlattenSeq(seqs) \in Seq(FileType)
    BY <1>3, <1>5, FlattenType
  <1> QED BY <1>4, <1>6 DEF Files, PathsOf

LEMMA FilesStay ==
    ASSUME args' = args, memory' = memory PROVE Files' = Files
  BY DEF Files, PathsOf, FoundIn, Found

-----------------------------------------------------------------------------
(* The inductive invariant.                                                *)

\* Where the thread of handleFile is, and what that means.
Stages ==
    /\ hpc = "none" => file = 1 /\ listsize = 0
    /\ hpc # "none" => Allpaths = Files
    /\ hpc \in {"none", "sizes"} => count = 0 /\ DOMAIN bufferlist = {}
    /\ hpc \notin {"none", "sizes"} => DOMAIN bufferlist = 0 .. listsize - 1
    /\ hpc \in {"store", "count"} =>
           /\ file <= Len(Allpaths)
           /\ Allpaths[file].access # "missing" =>
                  size = Len(Allpaths[file].content)
    /\ hpc = "store" => chunk <= NumOfBuffer(size)
    /\ hpc = "count" => chunk < NumOfBuffer(size) /\ count < listsize

\* A chunk of a file; if the file can be read, it has a byte at least.
IsChunk(c) ==
    /\ c \in [file : 1 .. Len(Allpaths), chunk : Nat]
    /\ Allpaths[c.file].access = "ok" =>
           c.chunk * BUFFER_SIZE < Len(Allpaths[c.file].content)

\* What has been stored in the list.
Listed ==
    \A n \in 0 .. listsize - 1 :
        n < count \/ (n = count /\ hpc = "count") => IsChunk(bufferlist[n])

\* A chunk that was taken is compressed, or a worker has it; and while chunks
\* are left, a worker that does not only wait for the end will be back.
Taken ==
    /\ \A w \in Workers : wpc[w] = "compress" => do_index[w] < index_cthread
    /\ \A n \in 0 .. index_cthread - 1 :
           \/ result[n] # <<>>
           \/ \E w \in Workers : wpc[w] = "compress" /\ do_index[w] = n
    /\ index_cthread > 0 =>
           \/ index_cthread = listsize
           \/ \E w \in Workers : wpc[w] \in {"claim", "compress", "test"}

\* If the first file is there, stat finds the same sizes in both passes.
Counted ==
    Opens(Files) =>
        /\ hpc = "sizes" => listsize = Total(Files)[file - 1]
        /\ hpc \notin {"none", "sizes"} =>
               listsize = Total(Files)[Len(Files)]
        /\ hpc \in {"sizes", "map"} /\ file > 1 =>
               size = LastSize(Files, file - 1)
        /\ hpc = "map" => count = Total(Files)[file - 1]
        /\ hpc \in {"store", "count"} =>
               /\ size = LastSize(Files, file)
               /\ count = Total(Files)[file - 1] + chunk

\* Why the program has failed, if it has.
Reasons ==
    /\ status = "crashed" => ~AllReadable
    /\ status = "undefined" => \/ Len(Files) > MaxPaths
                               \/ Files[1].access = "missing"
                               \/ index_cthread = 0
                               \/ \E w \in Workers :
                                      /\ wpc[w] = "compress"
                                      /\ do_index[w] \in arriving

Inv == TypeOK /\ Stages /\ Listed /\ Taken /\ Counted /\ Reasons

-----------------------------------------------------------------------------
(* The initial states.                                                     *)

LEMMA EmptyList == Len(<<>>) = 0 /\ DOMAIN <<>> = {}
  OBVIOUS

LEMMA InitInv == Init => Inv
  <1> SUFFICES ASSUME Init PROVE Inv
    OBVIOUS
  <1>1. /\ args \in Commands /\ memory \in Memories /\ Allpaths = <<>>
        /\ hpc = "none" /\ file = 1 /\ chunk = 0 /\ size = memory.size
        /\ listsize = 0 /\ bufferlist = <<>> /\ count = 0 /\ arriving = {}
        /\ handleFile_finish = FALSE /\ index_cthread = 0
        /\ wpc = [w \in Workers |-> "none"]
        /\ do_index = [w \in Workers |-> 0]
        /\ result = <<>> /\ status = "running"
    BY DEF Init
  <1>2. memory.size \in Nat
    BY <1>1, ArgsAssumption DEF MemoryType
  <1>3. TypeOK
    <2>1. file \in 1 .. Len(Allpaths) + 1 /\ chunk \in Nat /\ size \in Nat
      BY <1>1, <1>2, EmptyList
    <2>2. DOMAIN bufferlist = {} /\ DOMAIN result = {}
      BY <1>1, EmptyList
    <2>3. /\ count \in 0 .. listsize /\ index_cthread \in 0 .. count
          /\ arriving \subseteq 0 .. count
      BY <1>1
    <2>4. do_index \in [Workers -> 0 .. listsize]
      BY <1>1
    <2> QED BY <1>1, <2>1, <2>2, <2>3, <2>4 DEF TypeOK
  <1>4. Stages
    BY <1>1, EmptyList DEF Stages
  <1>5. Listed /\ Taken /\ Counted /\ Reasons
    BY <1>1 DEF Listed, Taken, Counted, Reasons
  <1> QED BY <1>3, <1>4, <1>5 DEF Inv

-----------------------------------------------------------------------------
(* The steps of the thread that runs handleFile.                           *)

\* What is known of the files.
LEMMA Known ==
    ASSUME TypeOK
    PROVE  /\ Files \in Seq(FileType) /\ Len(Files) \in Nat
           /\ Len(Allpaths) \in Nat
           /\ Opens(Files) => \A n \in 0 .. Len(Files) : Total(Files)[n] \in Nat
  <1>1. Files \in Seq(FileType)
    BY FilesLemma DEF TypeOK
  <1>2. Len(Files) \in Nat
    BY <1>1
  <1>3. Len(Allpaths) \in Nat
    BY <1>2, EmptyList DEF TypeOK
  <1> QED BY <1>1, <1>2, <1>3, TotalLemma

LEMMA StatType ==
    ASSUME TypeOK, Allpaths = Files, file <= Len(Allpaths)
    PROVE  /\ Stat(Allpaths[file]) \in Nat
           /\ Allpaths[file].access # "missing" =>
                  Stat(Allpaths[file]) = Len(Allpaths[file].content)
           /\ Opens(Files) /\ (file > 1 => size = LastSize(Files, file - 1)) =>
                  Stat(Allpaths[file]) = LastSize(Files, file)
  <1>1. Files \in Seq(FileType) /\ Len(Allpaths) \in Nat
    BY Known
  <1>2. file \in 1 .. Len(Files) /\ size \in Nat
    BY <1>1 DEF TypeOK
  <1>3. Len(Files[file].content) \in Nat
    BY <1>1, <1>2, FileLemma
  <1>4. Opens(Files) =>
            /\ Files[file].access # "missing" =>
                   LastSize(Files, file) = Len(Files[file].content)
            /\ Files[file].access = "missing" =>
                   file > 1 /\ LastSize(Files, file) = LastSize(Files, file - 1)
    BY <1>1, <1>2, LastSizeLemma
  <1> QED BY <1>2, <1>3, <1>4 DEF Stat

\* The workers' part, when handleFile takes a step.
LEMMA HandleTaken ==
    ASSUME Taken, TypeOK, UNCHANGED <<index_cthread, wpc, do_index>>,
           (result' = result /\ listsize' = listsize) \/ count = 0
    PROVE  Taken'
  <1>1. CASE result' = result /\ listsize' = listsize
    BY <1>1 DEF Taken
  <1>2. CASE count = 0
    <2>1. index_cthread = 0
      BY <1>2 DEF TypeOK
    <2> QED BY <2>1 DEF Taken
  <1> QED BY <1>1, <1>2

\* A step after which the program runs on.
LEMMA StillRunning == ASSUME status' = "running" PROVE Reasons'
  BY DEF Reasons

LEMMA StartInv == ASSUME Inv, status = "running", Start PROVE Inv'
  <1>1. TypeOK /\ Stages /\ Listed /\ Taken /\ Counted
    BY DEF Inv
  <1>2. /\ hpc = "none"
        /\ UNCHANGED <<args, memory, file, chunk, size, listsize, bufferlist,
                       count, arriving, handleFile_finish, index_cthread,
                       do_index, result>>
        /\ \/ /\ Len(Files) > MaxPaths /\ status' = "undefined"
              /\ UNCHANGED <<Allpaths, hpc, wpc>>
           \/ /\ Allpaths' = Files /\ hpc' = "sizes"
              /\ wpc' = [w \in Workers |-> "claim"] /\ status' = status
    BY DEF Start, list, Files
  <1>3. Files' = Files /\ Len(Files) \in Nat
    BY <1>1, <1>2, FilesStay, Known
  <1>4. file = 1 /\ listsize = 0 /\ count = 0 /\ DOMAIN bufferlist = {}
    BY <1>1, <1>2 DEF Stages
  <1>5. index_cthread = 0
    BY <1>1, <1>4 DEF TypeOK
  <1>6. TypeOK'
    <2>1. Allpaths' \in {<<>>, Files'}
      BY <1>1, <1>2, <1>3 DEF TypeOK
    <2>2. file' \in 1 .. Len(Allpaths') + 1
      BY <1>2, <1>3, <1>4, <2>1, EmptyList
    <2>3. /\ hpc' \in {"none", "sizes"}
          /\ status' \in {"running", "undefined"}
      BY <1>2
    <2>4. wpc' \in [Workers -> {"none", "claim", "compress", "test", "finish",
                                "returned"}]
      BY <1>1, <1>2 DEF TypeOK
    <2>5. \A n \in DOMAIN bufferlist' : bufferlist'[n] \in Chunks'
      BY <1>2, <1>4
    <2> QED BY <1>1, <1>2, <2>1, <2>2, <2>3, <2>4, <2>5 DEF TypeOK
  <1>7. Stages'
    BY <1>2, <1>3, <1>4 DEF Stages
  <1>8. Listed'
    BY <1>2, <1>4 DEF Listed
  <1>9. Taken'
    <2>1. \A w \in Workers : wpc'[w] = "compress" => wpc[w] = "compress"
      BY <1>2
    <2> QED BY <1>1, <1>2, <1>5, <2>1 DEF Taken
  <1>10. Counted'
    <2> SUFFICES ASSUME Opens(Files), hpc' = "sizes"
                 PROVE  listsize' = Total(Files)[file' - 1]
      BY <1>2, <1>3, <1>4 DEF Counted
    <2>1. Total(Files)[0] = 0
      BY <1>1, Known, TotalLemma
    <2> QED BY <1>2, <1>4, <2>1
  <1>11. Reasons'
    BY <1>2, <1>3 DEF Reasons
  <1> QED BY <1>6, <1>7, <1>8, <1>9, <1>10, <1>11 DEF Inv

LEMMA SizeFileInv ==
    ASSUME Inv, status = "running", handleFile, SizeFile PROVE Inv'
  <1>1. TypeOK /\ Stages /\ Listed /\ Taken /\ Counted
    BY DEF Inv
  <1>2. /\ hpc = "sizes" /\ file <= Len(Allpaths)
        /\ size' = Stat(Allpaths[file])
        /\ listsize' = listsize + NumOfBuffer(size')
        /\ file' = file + 1
        /\ UNCHANGED <<args, memory, Allpaths, hpc, chunk, bufferlist, count,
                       arriving, handleFile_finish, index_cthread, wpc,
                       do_index, result, status>>
    BY DEF handleFile, SizeFile
  <1>3. Files' = Files /\ Files \in Seq(FileType) /\ Len(Files) \in Nat
    BY <1>1, <1>2, FilesStay, Known
  <1>4. /\ Allpaths = Files /\ count = 0 /\ DOMAIN bufferlist = {}
        /\ file \in 1 .. Len(Files) /\ listsize \in Nat
    BY <1>1, <1>2, <1>3 DEF Stages, TypeOK
  <1>5. /\ size' \in Nat /\ NumOfBuffer(size') \in Nat /\ listsize' \in Nat
        /\ listsize' >= listsize
    <2>1. size' \in Nat
      BY <1>1, <1>2, <1>4, StatType
    <2>2. NumOfBuffer(size') \in Nat
      BY <2>1, NumOfBufferLemma
    <2> QED BY <1>2, <1>4, <2>1, <2>2
  <1>6. TypeOK'
    <2>1. file' \in 1 .. Len(Allpaths') + 1
      BY <1>2, <1>3, <1>4
    <2>2. do_index' \in [Workers -> 0 .. listsize']
      <3>1. do_index \in [Workers -> 0 .. listsize]
        BY <1>1 DEF TypeOK
      <3>2. \A n \in 0 .. listsize : n \in 0 .. listsize'
        BY <1>4, <1>5
      <3> QED BY <1>2, <3>1, <3>2
    <2>3. /\ count' \in 0 .. listsize' /\ index_cthread' \in 0 .. count'
          /\ arriving' \subseteq 0 .. count'
      BY <1>1, <1>2, <1>4, <1>5 DEF TypeOK
    <2>4. \A n \in DOMAIN bufferlist' : bufferlist'[n] \in Chunks'
      BY <1>2, <1>4
    <2>5. Allpaths' \in {<<>>, Files'} /\ DOMAIN bufferlist' = {}
      BY <1>2, <1>3, <1>4
    <2> QED BY <1>1, <1>2, <1>5, <2>1, <2>2, <2>3, <2>4, <2>5 DEF TypeOK
  <1>7. Stages'
    BY <1>2, <1>3, <1>4 DEF Stages
  <1>8. Listed'
    BY <1>2, <1>4, <1>5 DEF Listed
  <1>9. Taken'
    BY <1>1, <1>2, <1>4, HandleTaken
  <1>10. Counted'
    <2> SUFFICES ASSUME Opens(Files)
                 PROVE  /\ listsize' = Total(Files)[file' - 1]
                        /\ size' = LastSize(Files, file' - 1)
      BY <1>2, <1>3 DEF Counted
    <2>1. /\ listsize = Total(Files)[file - 1]
          /\ file > 1 => size = LastSize(Files, file - 1)
      BY <1>1, <1>2 DEF Counted
    <2>2. size' = LastSize(Files, file)
      BY <1>1, <1>2, <1>4, <2>1, StatType
    <2>3. Total(Files)[file] = Total(Files)[file - 1]
                               + NumOfBuffer(LastSize(Files, file))
      BY <1>3, <1>4, TotalLemma
    <2>4. file' - 1 = file
      BY <1>2, <1>4
    <2> QED BY <1>2, <2>1, <2>2, <2>3, <2>4
  <1>11. Reasons'
    BY <1>2, StillRunning
  <1> QED BY <1>6, <1>7, <1>8, <1>9, <1>10, <1>11 DEF Inv

LEMMA BufferlistInitInv ==
    ASSUME Inv, status = "running", handleFile, bufferlist_init PROVE Inv'
  <1>1. TypeOK /\ Stages /\ Listed /\ Taken /\ Counted
    BY DEF Inv
  <1>2. /\ hpc = "sizes" /\ file > Len(Allpaths)
        /\ bufferlist' = [n \in 0 .. listsize - 1 |-> NoChunk]
        /\ result' = [n \in 0 .. listsize - 1 |-> <<>>]
        /\ hpc' = "map" /\ file' = 1
        /\ UNCHANGED <<args, memory, Allpaths, chunk, size, listsize, count,
                       arriving, handleFile_finish, index_cthread, wpc,
                       do_index, status>>
    BY DEF handleFile, bufferlist_init
  <1>3. Files' = Files /\ Files \in Seq(FileType) /\ Len(Files) \in Nat
    BY <1>1, <1>2, FilesStay, Known
  <1>4. /\ Allpaths = Files /\ count = 0 /\ listsize \in Nat
        /\ file = Len(Files) + 1
    BY <1>1, <1>2, <1>3 DEF Stages, TypeOK
  <1>5. TypeOK'
    <2>1. file' \in 1 .. Len(Allpaths') + 1
      BY <1>2, <1>3, <1>4
    <2>2. \A n \in DOMAIN bufferlist' : bufferlist'[n] \in Chunks'
      BY <1>2 DEF Chunks
    <2>3. /\ DOMAIN bufferlist' = 0 .. listsize' - 1
          /\ DOMAIN result' = DOMAIN bufferlist'
      BY <1>2
    <2>4. Allpaths' \in {<<>>, Files'}
      BY <1>2, <1>3, <1>4
    <2> QED BY <1>1, <1>2, <2>1, <2>2, <2>3, <2>4 DEF TypeOK
  <1>6. Stages'
    BY <1>2, <1>3, <1>4 DEF Stages
  <1>7. Listed'
    <2> SUFFICES ASSUME NEW n \in 0 .. listsize - 1, n < count PROVE FALSE
      BY <1>2 DEF Listed
    <2> QED BY <1>4
  <1>8. Taken'
    BY <1>1, <1>2, <1>4, HandleTaken
  <1>9. Counted'
    <2> SUFFICES ASSUME Opens(Files)
                 PROVE  /\ listsize = Total(Files)[Len(Files)]
                        /\ count = Total(Files)[0]
      BY <1>2, <1>3 DEF Counted
    <2>1. listsize = Total(Files)[file - 1] /\ file - 1 = Len(Files)
      BY <1>1, <1>2, <1>3, <1>4 DEF Counted
    <2>2. Total(Files)[0] = 0
      BY <1>3, TotalLemma
    <2> QED BY <1>4, <2>1, <2>2
  <1>10. Reasons'
    BY <1>2, StillRunning
  <1> QED BY <1>5, <1>6, <1>7, <1>8, <1>9, <1>10 DEF Inv

LEMMA MapFileInv ==
    ASSUME Inv, status = "running", handleFile, MapFile PROVE Inv'
  <1>1. TypeOK /\ Stages /\ Listed /\ Taken /\ Counted
    BY DEF Inv
  <1>2. /\ hpc = "map" /\ file <= Len(Allpaths)
        /\ size' = Stat(Allpaths[file]) /\ chunk' = 0 /\ hpc' = "store"
        /\ UNCHANGED <<args, memory, Allpaths, file, listsize, bufferlist,
                       count, arriving, handleFile_finish, index_cthread, wpc,
                       do_index, result, status>>
    BY DEF handleFile, MapFile, list
  <1>3. Files' = Files /\ Len(Files) \in Nat
    BY <1>1, <1>2, FilesStay, Known
  <1>4. Allpaths = Files /\ DOMAIN bufferlist = 0 .. listsize - 1
    BY <1>1, <1>2 DEF Stages
  <1>5. /\ size' \in Nat /\ NumOfBuffer(size') \in Nat
        /\ Allpaths[file].access # "missing" =>
               size' = Len(Allpaths[file].content)
    <2>1. /\ size' \in Nat
          /\ Allpaths[file].access # "missing" =>
                 size' = Len(Allpaths[file].content)
      BY <1>1, <1>2, <1>4, StatType
    <2> QED BY <2>1, NumOfBufferLemma
  <1>6. TypeOK'
    BY <1>1, <1>2, <1>3, <1>5 DEF TypeOK, Chunks
  <1>7. Stages'
    BY <1>2, <1>3, <1>4, <1>5 DEF Stages
  <1>8. Listed'
    BY <1>1, <1>2 DEF Listed, IsChunk
  <1>9. Taken'
    BY <1>1, <1>2, HandleTaken
  <1>10. Counted'
    <2> SUFFICES ASSUME Opens(Files)
                 PROVE  /\ listsize = Total(Files)[Len(Files)]
                        /\ size' = LastSize(Files, file)
                        /\ count = Total(Files)[file - 1] + 0
      BY <1>2, <1>3 DEF Counted
    <2>1. /\ listsize = Total(Files)[Len(Files)]
          /\ count = Total(Files)[file - 1]
          /\ file > 1 => size = LastSize(Files, file - 1)
      BY <1>1, <1>2 DEF Counted
    <2>2. size' = LastSize(Files, file)
      BY <1>1, <1>2, <1>4, <2>1, StatType
    <2>3. count \in Nat
      BY <1>1 DEF TypeOK
    <2> QED BY <2>1, <2>2, <2>3
  <1>11. Reasons'
    BY <1>2, StillRunning
  <1> QED BY <1>6, <1>7, <1>8, <1>9, <1>10, <1>11 DEF Inv

\* The list has room for every chunk, if the first file is there.
LEMMA RoomLemma ==
    ASSUME TypeOK, Stages, Counted, hpc = "store", chunk < NumOfBuffer(size),
           Opens(Files)
    PROVE  count < listsize
  <1>1. Files \in Seq(FileType) /\ Len(Files) \in Nat
    BY Known
  <1>2. file \in 1 .. Len(Files) /\ chunk \in Nat /\ size \in Nat
    BY <1>1 DEF TypeOK, Stages
  <1>3. /\ listsize = Total(Files)[Len(Files)]
        /\ size = LastSize(Files, file)
        /\ count = Total(Files)[file - 1] + chunk
    BY DEF Counted
  <1>4. /\ Total(Files)[file] = Total(Files)[file - 1] + NumOfBuffer(size)
        /\ Total(Files)[file] <= Total(Files)[Len(Files)]
        /\ Total(Files)[file - 1] \in Nat /\ Total(Files)[file] \in Nat
        /\ Total(Files)[Len(Files)] \in Nat
    <2>1. file \in 0 .. Len(Files) /\ file - 1 \in 0 .. Len(Files)
      BY <1>1, <1>2
    <2>2. Len(Files) \in 0 .. Len(Files)
      BY <1>1
    <2> QED BY <1>1, <1>2, <1>3, <2>1, <2>2, TotalLemma
  <1>5. NumOfBuffer(size) \in Nat
    BY <1>2, NumOfBufferLemma
  <1> QED BY <1>2, <1>3, <1>4, <1>5

LEMMA StoreChunkInv ==
    ASSUME Inv, status = "running", handleFile, StoreChunk PROVE Inv'
  <1>1. TypeOK /\ Stages /\ Listed /\ Taken /\ Counted
    BY DEF Inv
  <1>2. /\ hpc = "store" /\ chunk < NumOfBuffer(size)
        /\ UNCHANGED <<args, memory, Allpaths, file, chunk, size, listsize,
                       count, handleFile_finish, index_cthread, wpc, do_index,
                       result>>
    BY DEF handleFile, StoreChunk
  <1>3. Files' = Files /\ Len(Files) \in Nat
    BY <1>1, <1>2, FilesStay, Known
  <1>4. /\ Allpaths = Files /\ DOMAIN bufferlist = 0 .. listsize - 1
        /\ file \in 1 .. Len(Files) /\ chunk \in Nat /\ size \in Nat
        /\ Allpaths[file].access # "missing" =>
               size = Len(Allpaths[file].content)
        /\ count \in 0 .. listsize /\ listsize \in Nat
    BY <1>1, <1>2, <1>3 DEF Stages, TypeOK
  <1>5. Taken'
    BY <1>1, <1>2, HandleTaken
  <1>6. CASE count < listsize
    <2>1. PICK c : c = [file |-> file, chunk |-> chunk]
      OBVIOUS
    <2>2. /\ bufferlist' = [bufferlist EXCEPT ![count] = c]
          /\ arriving' \subseteq arriving \cup {count}
          /\ hpc' = "count" /\ status' = status
      BY <1>6, <2>1 DEF StoreChunk
    <2>3. c.file = file /\ c.chunk = chunk
      BY <2>1
    <2>4. IsChunk(c)
      <3>1. c \in [file : 1 .. Len(Allpaths), chunk : Nat]
        BY <1>4, <2>1
      <3>2. ASSUME Allpaths[file].access = "ok"
            PROVE  chunk * BUFFER_SIZE < Len(Allpaths[file].content)
        <4>1. size = Len(Allpaths[file].content)
          BY <1>4, <3>2
        <4> QED BY <1>2, <1>4, <4>1, NumOfBufferLemma
      <3> QED BY <2>3, <3>1, <3>2 DEF IsChunk
    <2>5. /\ DOMAIN bufferlist' = 0 .. listsize - 1
          /\ bufferlist'[count] = c
          /\ \A n \in 0 .. listsize - 1 :
                 n # count => bufferlist'[n] = bufferlist[n]
      BY <1>4, <1>6, <2>2
    <2>6. TypeOK'
      <3>1. \A n \in DOMAIN bufferlist' : bufferlist'[n] \in Chunks'
        <4>1. Chunks' = Chunks
          BY <1>2 DEF Chunks
        <4>2. c \in Chunks
          BY <2>4 DEF IsChunk, Chunks
        <4>3. \A n \in 0 .. listsize - 1 : bufferlist[n] \in Chunks
          BY <1>1, <1>4 DEF TypeOK
        <4> QED BY <2>5, <4>1, <4>2, <4>3
      <3>2. arriving' \subseteq 0 .. count'
        BY <1>1, <1>2, <1>4, <2>2 DEF TypeOK
      <3>3. DOMAIN result' = DOMAIN bufferlist'
        BY <1>1, <1>2, <1>4, <2>5 DEF TypeOK
      <3> QED BY <1>1, <1>2, <1>3, <2>2, <2>5, <3>1, <3>2, <3>3 DEF TypeOK
    <2>7. Stages'
      BY <1>2, <1>3, <1>4, <1>6, <2>2, <2>5 DEF Stages
    <2>8. Listed'
      <3>1. ASSUME NEW n \in 0 .. listsize - 1, n < count \/ n = count
            PROVE  IsChunk(bufferlist'[n])
        <4>1. CASE n = count
          BY <2>4, <2>5, <4>1
        <4>2. CASE n # count
          <5>1. n < count
            BY <1>4, <3>1, <4>2
          <5> QED BY <1>1, <2>5, <4>2, <5>1 DEF Listed
        <4> QED BY <4>1, <4>2
      <3> QED BY <1>2, <3>1 DEF Listed, IsChunk
    <2>9. Counted'
      BY <1>1, <1>2, <1>3, <2>2 DEF Counted
    <2>10. Reasons'
      BY <2>2, StillRunning
    <2> QED BY <1>5, <2>6, <2>7, <2>8, <2>9, <2>10 DEF Inv
  <1>7. CASE ~(count < listsize)
    <2>1. /\ status' = "undefined"
          /\ UNCHANGED <<bufferlist, arriving, hpc>>
      BY <1>7 DEF StoreChunk
    <2>2. Files[1].access = "missing"
      <3>1. ~Opens(Files)
        BY <1>1, <1>2, <1>7, RoomLemma
      <3> QED BY <1>3, <1>4, <3>1 DEF Opens
    <2>3. TypeOK'
      BY <1>1, <1>2, <1>3, <2>1 DEF TypeOK, Chunks
    <2>4. Stages'
      BY <1>1, <1>2, <1>3, <2>1 DEF Stages
    <2>5. Listed'
      BY <1>1, <1>2, <2>1 DEF Listed, IsChunk
    <2>6. Counted'
      BY <1>1, <1>2, <1>3, <2>1 DEF Counted
    <2>7. Reasons'
      BY <1>3, <2>1, <2>2 DEF Reasons
    <2> QED BY <1>5, <2>3, <2>4, <2>5, <2>6, <2>7 DEF Inv
  <1> QED BY <1>6, <1>7

LEMMA CountChunkInv ==
    ASSUME Inv, status = "running", handleFile, CountChunk PROVE Inv'
  <1>1. TypeOK /\ Stages /\ Listed /\ Taken /\ Counted
    BY DEF Inv
  <1>2. /\ hpc = "count" /\ count' = count + 1 /\ chunk' = chunk + 1
        /\ hpc' = "store"
        /\ UNCHANGED <<args, memory, Allpaths, file, size, listsize,
                       bufferlist, arriving, handleFile_finish, index_cthread,
                       wpc, do_index, result, status>>
    BY DEF handleFile, CountChunk
  <1>3. Files' = Files /\ Len(Files) \in Nat
    BY <1>1, <1>2, FilesStay, Known
  <1>4. /\ count < listsize /\ chunk < NumOfBuffer(size) /\ chunk \in Nat
        /\ size \in Nat /\ count \in 0 .. listsize /\ listsize \in Nat
        /\ NumOfBuffer(size) \in Nat /\ file \in 1 .. Len(Allpaths) + 1
    <2>1. size \in Nat
      BY <1>1 DEF TypeOK
    <2> QED BY <1>1, <1>2, <2>1, NumOfBufferLemma DEF Stages, TypeOK
  <1>5. TypeOK'
    <2>1. /\ count' \in 0 .. listsize' /\ arriving' \subseteq 0 .. count'
          /\ index_cthread' \in 0 .. count' /\ chunk' \in Nat
      BY <1>1, <1>2, <1>4 DEF TypeOK
    <2> QED BY <1>1, <1>2, <1>3, <2>1 DEF TypeOK, Chunks
  <1>6. Stages'
    <2>1. chunk' <= NumOfBuffer(size)
      BY <1>2, <1>4
    <2> QED BY <1>1, <1>2, <1>3, <2>1 DEF Stages
  <1>7. Listed'
    <2>1. ASSUME NEW n \in 0 .. listsize - 1, n < count + 1
          PROVE  IsChunk(bufferlist[n])
      <3>1. n < count \/ n = count
        BY <1>4, <2>1
      <3> QED BY <1>1, <1>2, <3>1 DEF Listed
    <2> QED BY <1>2, <2>1 DEF Listed, IsChunk
  <1>8. Taken'
    BY <1>1, <1>2, HandleTaken
  <1>9. Counted'
    <2> SUFFICES ASSUME Opens(Files)
                 PROVE  /\ listsize = Total(Files)[Len(Files)]
                        /\ size = LastSize(Files, file)
                        /\ count + 1 = Total(Files)[file - 1] + (chunk + 1)
      BY <1>2, <1>3 DEF Counted
    <2>1. /\ listsize = Total(Files)[Len(Files)]
          /\ size = LastSize(Files, file)
          /\ count = Total(Files)[file - 1] + chunk
      BY <1>1, <1>2 DEF Counted
    <2>2. Total(Files)[file - 1] \in Nat
      <3>1. Allpaths = Files /\ file <= Len(Files)
        BY <1>1, <1>2 DEF Stages
      <3>2. file - 1 \in 0 .. Len(Files)
        BY <1>3, <1>4, <3>1
      <3> QED BY <1>1, <3>2, Known
    <2>3. PICK t \in Nat : t = Total(Files)[file - 1]
      BY <2>2
    <2>4. count + 1 = t + (chunk + 1)
      <3>1. count = t + chunk
        BY <2>1, <2>3
      <3>2. t \in Nat /\ chunk \in Nat
        BY <1>4
      <3> QED BY <3>1, <3>2
    <2> QED BY <2>1, <2>3, <2>4
  <1>10. Reasons'
    BY <1>2, StillRunning
  <1> QED BY <1>5, <1>6, <1>7, <1>8, <1>9, <1>10 DEF Inv

LEMMA ArriveInv ==
    ASSUME Inv, status = "running", handleFile, Arrive PROVE Inv'
  <1>1. TypeOK /\ Stages /\ Listed /\ Taken /\ Counted
    BY DEF Inv
  <1>2. /\ arriving' \subseteq arriving
        /\ UNCHANGED <<args, memory, Allpaths, hpc, file, chunk, size,
                       listsize, bufferlist, count, handleFile_finish,
                       index_cthread, wpc, do_index, result, status>>
    BY DEF handleFile, Arrive, hvars
  <1>3. Files' = Files
    BY <1>2, FilesStay
  <1>4. TypeOK'
    BY <1>1, <1>2, <1>3 DEF TypeOK, Chunks
  <1>5. Stages'
    BY <1>1, <1>2, <1>3 DEF Stages
  <1>6. Listed'
    BY <1>1, <1>2 DEF Listed, IsChunk
  <1>7. Taken'
    BY <1>1, <1>2, HandleTaken
  <1>8. Counted'
    BY <1>1, <1>2, <1>3 DEF Counted
  <1>9. Reasons'
    BY <1>2, StillRunning
  <1> QED BY <1>4, <1>5, <1>6, <1>7, <1>8, <1>9 DEF Inv

LEMMA NextFileInv ==
    ASSUME Inv, status = "running", handleFile, NextFile PROVE Inv'
  <1>1. TypeOK /\ Stages /\ Listed /\ Taken /\ Counted
    BY DEF Inv
  <1>2. /\ hpc = "store" /\ chunk = NumOfBuffer(size) /\ file' = file + 1
        /\ hpc' = "map"
        /\ UNCHANGED <<args, memory, Allpaths, chunk, size, listsize,
                       bufferlist, count, arriving, handleFile_finish,
                       index_cthread, wpc, do_index, result, status>>
    BY DEF handleFile, NextFile, list
  <1>3. Files' = Files /\ Files \in Seq(FileType) /\ Len(Files) \in Nat
    BY <1>1, <1>2, FilesStay, Known
  <1>4. Allpaths = Files /\ file \in 1 .. Len(Files)
    BY <1>1, <1>2, <1>3 DEF Stages, TypeOK
  <1>5. TypeOK'
    <2>1. file' \in 1 .. Len(Allpaths') + 1
      BY <1>2, <1>3, <1>4
    <2> QED BY <1>1, <1>2, <1>3, <2>1 DEF TypeOK, Chunks
  <1>6. Stages'
    BY <1>1, <1>2, <1>3 DEF Stages
  <1>7. Listed'
    BY <1>1, <1>2 DEF Listed, IsChunk
  <1>8. Taken'
    BY <1>1, <1>2, HandleTaken
  <1>9. Counted'
    <2> SUFFICES ASSUME Opens(Files)
                 PROVE  /\ listsize = Total(Files)[Len(Files)]
                        /\ size = LastSize(Files, file' - 1)
                        /\ count = Total(Files)[file' - 1]
      BY <1>2, <1>3 DEF Counted
    <2>1. /\ listsize = Total(Files)[Len(Files)]
          /\ size = LastSize(Files, file)
          /\ count = Total(Files)[file - 1] + NumOfBuffer(size)
      BY <1>1, <1>2 DEF Counted
    <2>2. Total(Files)[file] = Total(Files)[file - 1]
                               + NumOfBuffer(LastSize(Files, file))
      BY <1>3, <1>4, TotalLemma
    <2>3. file' - 1 = file
      BY <1>2, <1>4
    <2> QED BY <2>1, <2>2, <2>3
  <1>10. Reasons'
    BY <1>2, StillRunning
  <1> QED BY <1>5, <1>6, <1>7, <1>8, <1>9, <1>10 DEF Inv

LEMMA FinishInv ==
    ASSUME Inv, status = "running", handleFile, Finish PROVE Inv'
  <1>1. TypeOK /\ Stages /\ Listed /\ Taken /\ Counted
    BY DEF Inv
  <1>2. /\ hpc = "map" /\ hpc' = "done" /\ handleFile_finish' = TRUE
        /\ UNCHANGED <<args, memory, Allpaths, file, chunk, size, listsize,
                       bufferlist, count, arriving, index_cthread, wpc,
                       do_index, result, status>>
    BY DEF handleFile, Finish
  <1>3. Files' = Files
    BY <1>2, FilesStay
  <1>4. TypeOK'
    BY <1>1, <1>2, <1>3 DEF TypeOK, Chunks
  <1>5. Stages'
    BY <1>1, <1>2, <1>3 DEF Stages
  <1>6. Listed'
    BY <1>1, <1>2 DEF Listed, IsChunk
  <1>7. Taken'
    BY <1>1, <1>2, HandleTaken
  <1>8. Counted'
    BY <1>1, <1>2, <1>3 DEF Counted
  <1>9. Reasons'
    BY <1>2, StillRunning
  <1> QED BY <1>4, <1>5, <1>6, <1>7, <1>8, <1>9 DEF Inv

-----------------------------------------------------------------------------
(* The steps of the workers.                                               *)

\* What a worker's step leaves alone.
WorkerFrame ==
    UNCHANGED <<args, memory, Allpaths, hpc, file, chunk, size, listsize,
                bufferlist, count, arriving, handleFile_finish>>

LEMMA WorkerKeeps ==
    ASSUME Stages, Listed, Counted, WorkerFrame
    PROVE  /\ Files' = Files /\ Stages' /\ Listed' /\ Counted'
           /\ Chunks' = Chunks
  <1>1. Files' = Files
    BY FilesStay DEF WorkerFrame
  <1> QED BY <1>1 DEF WorkerFrame, Stages, Listed, IsChunk, Counted, Chunks

\* Once a chunk is counted, the list keeps its length.
LEMMA ClaimInv ==
    ASSUME Inv, status = "running", NEW w \in Workers, Claim(w), WorkerFrame
    PROVE  Inv'
  <1>1. TypeOK /\ Stages /\ Listed /\ Taken /\ Counted
    BY DEF Inv
  <1>2. /\ Files' = Files /\ Stages' /\ Listed' /\ Counted'
        /\ Chunks' = Chunks
    BY <1>1, WorkerKeeps
  <1>3. /\ wpc[w] = "claim" /\ result' = result /\ status' = status
        /\ \/ /\ index_cthread < count
              /\ do_index' = [do_index EXCEPT ![w] = index_cthread]
              /\ index_cthread' = index_cthread + 1
              /\ wpc' = [wpc EXCEPT ![w] = "compress"]
           \/ /\ ~(index_cthread < count)
              /\ wpc' = [wpc EXCEPT ![w] = "test"]
              /\ do_index' = do_index /\ index_cthread' = index_cthread
    BY DEF Claim
  <1>4. /\ index_cthread \in 0 .. count /\ count \in 0 .. listsize
        /\ listsize \in Nat
        /\ do_index \in [Workers -> 0 .. listsize]
        /\ wpc \in [Workers -> {"none", "claim", "compress", "test", "finish",
                                "returned"}]
    BY <1>1 DEF TypeOK
  <1>5. /\ index_cthread' \in 0 .. count
        /\ do_index' \in [Workers -> 0 .. listsize]
        /\ wpc' \in [Workers -> {"none", "claim", "compress", "test", "finish",
                                 "returned"}]
    BY <1>3, <1>4
  <1>6. TypeOK'
    BY <1>1, <1>2, <1>3, <1>5 DEF TypeOK, WorkerFrame
  <1>7. Taken'
    <2>1. CASE index_cthread < count
      <3>1. ASSUME NEW v \in Workers, wpc'[v] = "compress"
            PROVE  do_index'[v] < index_cthread'
        <4>1. CASE v = w
          BY <1>3, <1>4, <2>1, <4>1
        <4>2. CASE v # w
          <5>1. wpc[v] = "compress" /\ do_index'[v] = do_index[v]
            BY <1>3, <1>4, <2>1, <3>1, <4>2
          <5>2. do_index[v] < index_cthread /\ do_index[v] \in Nat
            BY <1>1, <1>4, <5>1 DEF Taken
          <5> QED BY <1>3, <1>4, <2>1, <5>1, <5>2
        <4> QED BY <4>1, <4>2
      <3>2. ASSUME NEW n \in 0 .. index_cthread' - 1
            PROVE  \/ result'[n] # <<>>
                   \/ \E v \in Workers : /\ wpc'[v] = "compress"
                                         /\ do_index'[v] = n
        <4>1. CASE n = index_cthread
          BY <1>3, <1>4, <2>1, <4>1
        <4>2. CASE n # index_cthread
          <5>1. n \in 0 .. index_cthread - 1
            BY <1>3, <1>4, <2>1, <4>2
          <5>2. ASSUME NEW v \in Workers, wpc[v] = "compress", do_index[v] = n
                PROVE  wpc'[v] = "compress" /\ do_index'[v] = n
            BY <1>3, <1>4, <2>1, <5>2
          <5> QED BY <1>1, <1>3, <5>1, <5>2 DEF Taken
        <4> QED BY <4>1, <4>2
      <3>3. wpc'[w] = "compress"
        BY <1>3, <1>4, <2>1
      <3> QED BY <3>1, <3>2, <3>3 DEF Taken
    <2>2. CASE ~(index_cthread < count)
      <3>1. /\ \A v \in Workers : wpc'[v] = "compress" <=> wpc[v] = "compress"
            /\ wpc'[w] = "test"
        BY <1>3, <1>4, <2>2
      <3>2. /\ do_index' = do_index /\ index_cthread' = index_cthread
            /\ result' = result /\ listsize' = listsize
        BY <1>3, <2>2 DEF WorkerFrame
      <3> QED BY <1>1, <3>1, <3>2 DEF Taken
    <2> QED BY <2>1, <2>2
  <1>8. Reasons'
    BY <1>3, StillRunning
  <1> QED BY <1>2, <1>6, <1>7, <1>8 DEF Inv

LEMMA CompressInv ==
    ASSUME Inv, status = "running", NEW w \in Workers, Compress(w), WorkerFrame
    PROVE  Inv'
  <1>1. TypeOK /\ Stages /\ Listed /\ Taken /\ Counted
    BY DEF Inv
  <1>2. /\ Files' = Files /\ Stages' /\ Listed' /\ Counted'
        /\ Chunks' = Chunks
    BY <1>1, WorkerKeeps
  <1>3. PICK n, c : n = do_index[w] /\ c = bufferlist[n]
    OBVIOUS
  <1>4. /\ wpc[w] = "compress"
        /\ index_cthread' = index_cthread /\ do_index' = do_index
        /\ \/ /\ n \notin arriving /\ Allpaths[c.file].access = "ok"
              /\ result' = [result EXCEPT ![n] = compress(Bytes(c))]
              /\ wpc' = [wpc EXCEPT ![w] = "test"]
              /\ status' = status
           \/ /\ ~(n \notin arriving /\ Allpaths[c.file].access = "ok")
              /\ status' = IF n \in arriving THEN "undefined" ELSE "crashed"
              /\ result' = result /\ wpc' = wpc
    BY <1>3 DEF Compress
  <1>5. /\ index_cthread \in 0 .. count /\ count \in 0 .. listsize
        /\ listsize \in Nat
        /\ do_index \in [Workers -> 0 .. listsize]
        /\ wpc \in [Workers -> {"none", "claim", "compress", "test", "finish",
                                "returned"}]
        /\ DOMAIN result = DOMAIN bufferlist
    BY <1>1 DEF TypeOK
  <1>6. n < index_cthread /\ n \in 0 .. listsize
    BY <1>1, <1>3, <1>4, <1>5 DEF Taken
  <1>7. /\ n \in 0 .. listsize - 1 /\ n < count /\ count > 0
        /\ IsChunk(c)
    <2>1. n \in 0 .. listsize - 1 /\ n < count /\ count > 0
      BY <1>5, <1>6
    <2> QED BY <1>1, <1>3, <2>1 DEF Listed
  <1>8. Allpaths = Files /\ DOMAIN result = 0 .. listsize - 1
    BY <1>1, <1>5, <1>7 DEF Stages
  <1>9. TypeOK'
    <2>1. wpc' \in [Workers -> {"none", "claim", "compress", "test", "finish",
                                "returned"}]
      BY <1>4, <1>5
    <2>2. DOMAIN result' = DOMAIN result
      BY <1>4
    <2>3. status' \in {"running", "printed", "undefined", "crashed"}
      BY <1>4
    <2> QED BY <1>1, <1>2, <1>4, <2>1, <2>2, <2>3 DEF TypeOK, WorkerFrame
  <1>10. CASE n \notin arriving /\ Allpaths[c.file].access = "ok"
    <2>1. compress(Bytes(c)) # <<>>
      <3>1. PICK f \in FileType : f = Allpaths[c.file]
        BY <1>1, <1>7, <1>8, Known DEF IsChunk
      <3>2. f.content \in Seq(Nat) /\ Len(f.content) \in Nat
        BY <3>1 DEF FileType
      <3>3. PICK a, b : /\ a = c.chunk * BUFFER_SIZE + 1
                        /\ b = IF (c.chunk + 1) * BUFFER_SIZE < Len(f.content)
                               THEN (c.chunk + 1) * BUFFER_SIZE
                               ELSE Len(f.content)
        OBVIOUS
      <3>4. c.chunk \in Nat /\ BUFFER_SIZE \in Nat
        BY <1>7, SizesAssumption DEF IsChunk
      <3>5. c.chunk * BUFFER_SIZE \in Nat /\ (c.chunk + 1) * BUFFER_SIZE \in Nat
        BY <3>4
      <3>6. a \in Int /\ b \in Int /\ a >= 1 /\ b <= Len(f.content)
        BY <3>2, <3>3, <3>5
      <3>7. \A i \in a .. b : f.content[i] \in Nat
        BY <3>2, <3>6
      <3>8. SubSeq(f.content, a, b) \in Seq(Nat)
        BY <3>6, <3>7, SubSeqProperties
      <3>9. Bytes(c) = SubSeq(f.content, a, b)
        BY <3>1, <3>3 DEF Bytes
      <3> QED BY <3>8, <3>9, CompressIs
    <2>2. /\ result'[n] = compress(Bytes(c))
          /\ \A k \in 0 .. listsize - 1 : k # n => result'[k] = result[k]
          /\ wpc'[w] = "test"
          /\ \A v \in Workers : v # w => wpc'[v] = wpc[v]
          /\ status' = status
      BY <1>4, <1>5, <1>7, <1>8, <1>10
    <2>3. Taken'
      <3>1. ASSUME NEW v \in Workers, wpc'[v] = "compress"
            PROVE  do_index'[v] < index_cthread'
        <4>1. wpc[v] = "compress"
          BY <2>2, <3>1
        <4> QED BY <1>1, <1>4, <4>1 DEF Taken
      <3>2. ASSUME NEW k \in 0 .. index_cthread - 1
            PROVE  \/ result'[k] # <<>>
                   \/ \E v \in Workers : /\ wpc'[v] = "compress"
                                         /\ do_index'[v] = k
        <4>1. CASE k = n
          BY <2>1, <2>2, <4>1
        <4>2. CASE k # n
          <5>1. k \in 0 .. listsize - 1
            BY <1>5
          <5>2. result'[k] = result[k]
            BY <2>2, <4>2, <5>1
          <5>3. ASSUME NEW v \in Workers, wpc[v] = "compress", do_index[v] = k
                PROVE  wpc'[v] = "compress" /\ do_index'[v] = k
            BY <1>3, <1>4, <2>2, <4>2, <5>3
          <5> QED BY <1>1, <5>2, <5>3 DEF Taken
        <4> QED BY <4>1, <4>2
      <3> QED BY <1>4, <2>2, <3>1, <3>2 DEF Taken
    <2>4. Reasons'
      BY <2>2, StillRunning
    <2> QED BY <1>2, <1>9, <2>3, <2>4 DEF Inv
  <1>11. CASE ~(n \notin arriving /\ Allpaths[c.file].access = "ok")
    <2>1. /\ status' = IF n \in arriving THEN "undefined" ELSE "crashed"
          /\ result' = result /\ wpc' = wpc
      BY <1>4, <1>11
    <2>2. Taken'
      BY <1>1, <1>4, <2>1 DEF Taken, WorkerFrame
    <2>3. Reasons'
      <3>1. CASE n \in arriving
        BY <1>3, <1>4, <2>1, <3>1 DEF Reasons, WorkerFrame
      <3>2. CASE n \notin arriving
        <4>1. c.file \in 1 .. Len(Files) /\ Files[c.file].access # "ok"
          BY <1>7, <1>8, <1>11, <3>2 DEF IsChunk
        <4>2. ~AllReadable
          BY <4>1 DEF AllReadable
        <4>3. ~AllReadable'
          BY <1>2, <4>2 DEF AllReadable
        <4> QED BY <2>1, <3>2, <4>3 DEF Reasons
      <3> QED BY <3>1, <3>2
    <2> QED BY <1>2, <1>9, <2>2, <2>3 DEF Inv
  <1> QED BY <1>10, <1>11

LEMMA TestInv ==
    ASSUME Inv, status = "running", NEW w \in Workers,
           TestIndex(w) \/ TestFinish(w), WorkerFrame
    PROVE  Inv'
  <1>1. TypeOK /\ Stages /\ Listed /\ Taken /\ Counted
    BY DEF Inv
  <1>2. /\ Files' = Files /\ Stages' /\ Listed' /\ Counted'
        /\ Chunks' = Chunks
    BY <1>1, WorkerKeeps
  <1>3. PICK to \in {"finish", "claim", "returned"} :
            /\ wpc' = [wpc EXCEPT ![w] = to]
            /\ \/ /\ wpc[w] = "test"
                  /\ to \in {"finish", "claim"}
                  /\ to = "finish" => index_cthread = listsize
               \/ wpc[w] = "finish"
    BY DEF TestIndex, TestFinish
  <1>4. UNCHANGED <<index_cthread, do_index, result, status, listsize>>
    BY DEF TestIndex, TestFinish, WorkerFrame
  <1>5. wpc \in [Workers -> {"none", "claim", "compress", "test", "finish",
                             "returned"}]
    BY <1>1 DEF TypeOK
  <1>6. /\ wpc' \in [Workers -> {"none", "claim", "compress", "test", "finish",
                                 "returned"}]
        /\ \A v \in Workers : v # w => wpc'[v] = wpc[v]
        /\ wpc'[w] = to
    BY <1>3, <1>5
  <1>7. TypeOK'
    BY <1>1, <1>2, <1>4, <1>6 DEF TypeOK, WorkerFrame
  <1>8. Taken'
    <2>1. \A v \in Workers : wpc'[v] = "compress" <=> wpc[v] = "compress"
      BY <1>3, <1>6
    <2>2. ASSUME index_cthread > 0, index_cthread # listsize
          PROVE  \E v \in Workers : wpc'[v] \in {"claim", "compress", "test"}
      <3>1. PICK v \in Workers : wpc[v] \in {"claim", "compress", "test"}
        BY <1>1, <2>2 DEF Taken
      <3>2. CASE v # w
        BY <1>6, <3>1, <3>2
      <3>3. CASE v = w
        BY <1>3, <1>6, <2>2, <3>1, <3>3
      <3> QED BY <3>2, <3>3
    <2> QED BY <1>1, <1>4, <2>1, <2>2 DEF Taken
  <1>9. Reasons'
    BY <1>4, StillRunning
  <1> QED BY <1>2, <1>7, <1>8, <1>9 DEF Inv

-----------------------------------------------------------------------------
(* The end of the program.                                                 *)

\* When all have returned, all chunks are compressed or none was taken.
LEMMA ReturnedLemma ==
    ASSUME Taken, \A w \in Workers : wpc[w] = "returned", TypeOK
    PROVE  (\A n \in 0 .. listsize - 1 : result[n] # <<>>) \/ index_cthread = 0
  <1>1. index_cthread > 0 => index_cthread = listsize
    BY DEF Taken
  <1>2. \A n \in 0 .. index_cthread - 1 : result[n] # <<>>
    BY DEF Taken
  <1>3. index_cthread \in Nat
    BY DEF TypeOK
  <1> QED BY <1>1, <1>2, <1>3

LEMMA OutputInv == ASSUME Inv, status = "running", output PROVE Inv'
  <1>1. TypeOK /\ Stages /\ Listed /\ Taken /\ Counted
    BY DEF Inv
  <1>2. /\ WorkerFrame
        /\ UNCHANGED <<index_cthread, wpc, do_index, result>>
    BY DEF output, WorkerFrame, hvars, list, work
  <1>3. /\ Files' = Files /\ Stages' /\ Listed' /\ Counted'
        /\ Chunks' = Chunks
    BY <1>1, <1>2, WorkerKeeps
  <1>4. \/ status' = "printed"
        \/ /\ status' = "undefined"
           /\ \E n \in 0 .. listsize - 1 : result[n] = <<>>
    BY DEF output
  <1>5. TypeOK'
    BY <1>1, <1>2, <1>3, <1>4 DEF TypeOK, WorkerFrame
  <1>6. Taken'
    BY <1>1, <1>2 DEF Taken, WorkerFrame
  <1>7. Reasons'
    <2>1. CASE status' = "printed"
      BY <2>1 DEF Reasons
    <2>2. CASE \E n \in 0 .. listsize - 1 : result[n] = <<>>
      <3>1. index_cthread = 0
        BY <1>1, <2>2, ReturnedLemma DEF output
      <3> QED BY <1>2, <1>4, <3>1 DEF Reasons
    <2> QED BY <1>4, <2>1, <2>2
  <1> QED BY <1>3, <1>5, <1>6, <1>7 DEF Inv

LEMMA StutterInv == ASSUME Inv, UNCHANGED vars PROVE Inv'
  <1>1. TypeOK /\ Stages /\ Listed /\ Taken /\ Counted /\ Reasons
    BY DEF Inv
  <1>2. /\ WorkerFrame
        /\ UNCHANGED <<index_cthread, wpc, do_index, result, status>>
    BY DEF vars, WorkerFrame, hvars, list, work
  <1>3. /\ Files' = Files /\ Stages' /\ Listed' /\ Counted'
        /\ Chunks' = Chunks
    BY <1>1, <1>2, WorkerKeeps
  <1>4. TypeOK'
    BY <1>1, <1>2, <1>3 DEF TypeOK, WorkerFrame
  <1>5. Taken'
    BY <1>1, <1>2 DEF Taken, WorkerFrame
  <1>6. Reasons'
    BY <1>1, <1>2, <1>3 DEF Reasons, AllReadable, WorkerFrame
  <1> QED BY <1>3, <1>4, <1>5, <1>6 DEF Inv

LEMMA NextInv == Inv /\ [Next]_vars => Inv'
  <1> SUFFICES ASSUME Inv, [Next]_vars PROVE Inv'
    OBVIOUS
  <1>1. CASE UNCHANGED vars
    BY <1>1, StutterInv
  <1>2. ASSUME status = "running", Start PROVE Inv'
    BY <1>2, StartInv
  <1>3. ASSUME status = "running", handleFile PROVE Inv'
    <2>1. \/ SizeFile \/ bufferlist_init \/ MapFile \/ StoreChunk
          \/ CountChunk \/ Arrive \/ NextFile \/ Finish
      BY <1>3 DEF handleFile
    <2> QED BY <1>3, <2>1, SizeFileInv, BufferlistInitInv, MapFileInv,
               StoreChunkInv, CountChunkInv, ArriveInv, NextFileInv, FinishInv
  <1>4. ASSUME status = "running", NEW w \in Workers, compressText(w)
        PROVE  Inv'
    <2>1. WorkerFrame
      BY <1>4 DEF compressText, WorkerFrame, hvars, list
    <2>2. Claim(w) \/ Compress(w) \/ TestIndex(w) \/ TestFinish(w)
      BY <1>4 DEF compressText
    <2> QED BY <1>4, <2>1, <2>2, ClaimInv, CompressInv, TestInv
  <1>5. ASSUME status = "running", output PROVE Inv'
    BY <1>5, OutputInv
  <1> QED BY <1>1, <1>2, <1>3, <1>4, <1>5 DEF Next

LEMMA Invariance == Spec => []Inv
  BY InitInv, NextInv, PTL DEF Spec

-----------------------------------------------------------------------------
(* What output computes.                                                   *)

\* The text of a list of runs up to the k-th.
LEMMA ExpandPrefix ==
    ASSUME NEW S, NEW runs \in Seq(RunsOver(S)), NEW k \in 1 .. Len(runs)
    PROVE  /\ Expand(SubSeq(runs, 1, k - 1)) \in Seq(S)
           /\ Stretch(runs[k]) \in Seq(S)
           /\ Expand(SubSeq(runs, 1, k))
                = Cat(Expand(SubSeq(runs, 1, k - 1)), Stretch(runs[k]))
  <1>1. PICK U : U = RunsOver(S)
    OBVIOUS
  <1>2. PICK a, r : a = SubSeq(runs, 1, k - 1) /\ r = runs[k]
    OBVIOUS
  <1>3. runs \in Seq(U)
    BY <1>1
  <1>4. a \in Seq(U) /\ r \in U /\ SubSeq(runs, 1, k) = a \o <<r>>
    BY <1>2, <1>3
  <1>5. PICK b : b = <<r>>
    OBVIOUS
  <1>6. b \in Seq(U) /\ Expand(b) = Stretch(r)
    BY <1>1, <1>4, <1>5, ExpandOne
  <1>7. Expand(a \o b) = Expand(a) \o Expand(b)
    BY <1>1, <1>4, <1>6, ExpandConcat
  <1>8. Expand(a) \in Seq(S) /\ Stretch(r) \in Seq(S)
    BY <1>1, <1>4, ExpandType, StretchType
  <1> QED BY <1>2, <1>4, <1>5, <1>6, <1>7, <1>8 DEF Cat

OutType == [out : Seq(RunType), num_temp : Nat, char_temp : Nat]

StartOut == [out |-> <<>>, num_temp |-> 0, char_temp |-> 0]

LEMMA StartOutType == StartOut \in OutType
  <1>1. <<>> \in Seq(RunType)
    OBVIOUS
  <1> QED BY <1>1 DEF StartOut, OutType


\* What OutputRun does: a run that was held back and does not go on is written
\* (m); then its own run is held back, or written with what of it was.
LEMMA OutputRunIs ==
    ASSUME NEW s \in OutType, NEW i, NEW k, NEW r \in RunType,
           r = result[i][k]
    PROVE  \E m \in BOOLEAN, n \in Nat, o \in Seq(RunType) :
        /\ m <=> i > 0 /\ k = 1 /\ s.char_temp # r.char
        /\ o = IF m THEN Append(s.out, Run(s.num_temp, s.char_temp)) ELSE s.out
        /\ n = IF m THEN 0 ELSE s.num_temp
        /\ OutputRun(s, i, k) =
             IF k = Len(result[i]) /\ i # listsize - 1
             THEN [out |-> o, num_temp |-> n + r.count, char_temp |-> r.char]
             ELSE IF s.char_temp = r.char
             THEN [out |-> Append(o, Run(r.count + n, r.char)),
                   num_temp |-> 0, char_temp |-> s.char_temp]
             ELSE [out |-> Append(o, Run(r.count, r.char)),
                   num_temp |-> n, char_temp |-> s.char_temp]
  <1>a. PICK m \in BOOLEAN : m <=> i > 0 /\ k = 1 /\ s.char_temp # r.char
    OBVIOUS
  <1>b. PICK o, n :
            /\ o = IF m THEN Append(s.out, Run(s.num_temp, s.char_temp))
                   ELSE s.out
            /\ n = IF m THEN 0 ELSE s.num_temp
    OBVIOUS
  <1>1. PICK S : S = RunType
    OBVIOUS
  <1>2. /\ s.out \in Seq(S) /\ s.num_temp \in Nat /\ s.char_temp \in Nat
        /\ s = [out |-> s.out, num_temp |-> s.num_temp,
                char_temp |-> s.char_temp]
    BY <1>1 DEF OutType
  <1>3. Run(s.num_temp, s.char_temp) \in S
    BY <1>1, <1>2 DEF Run, RunType
  <1>4. o \in Seq(S) /\ n \in Nat
    <2>1. Append(s.out, Run(s.num_temp, s.char_temp)) \in Seq(S)
      BY <1>2, <1>3
    <2> QED BY <1>b, <1>2, <2>1
  <1>5. PICK t :
            t = IF m
                THEN [Emit(s, s.num_temp, s.char_temp) EXCEPT !.num_temp = 0]
                ELSE s
    OBVIOUS
  <1>6. t = [out |-> o, num_temp |-> n, char_temp |-> s.char_temp]
    <2>1. CASE m
      BY <1>b, <1>2, <1>5, <2>1 DEF Emit
    <2>2. CASE ~m
      BY <1>b, <1>2, <1>5, <2>2
    <2> QED BY <2>1, <2>2
  <1>7. OutputRun(s, i, k) =
            IF k = Len(result[i]) /\ i # listsize - 1
            THEN [t EXCEPT !.num_temp = @ + r.count, !.char_temp = r.char]
            ELSE IF t.char_temp = r.char
            THEN [Emit(t, r.count + t.num_temp, t.char_temp)
                     EXCEPT !.num_temp = 0]
            ELSE Emit(t, r.count, r.char)
    <2>1. CASE m
      <3>1. i > 0 /\ k = 1 /\ s.char_temp # r.char
        BY <1>a, <2>1
      <3>2. t = [Emit(s, s.num_temp, s.char_temp) EXCEPT !.num_temp = 0]
        BY <1>5, <2>1
      <3> QED BY <3>1, <3>2 DEF OutputRun
    <2>2. CASE ~m
      <3>1. ~(i > 0 /\ k = 1 /\ s.char_temp # r.char)
        BY <1>a, <2>2
      <3>2. t = s
        BY <1>5, <2>2
      <3> QED BY <3>1, <3>2 DEF OutputRun
    <2> QED BY <2>1, <2>2
  <1>8. PICK w : w = s.char_temp
    OBVIOUS
  <1>9. /\ t.out = o /\ t.num_temp = n /\ t.char_temp = s.char_temp
    BY <1>6
  <1>10. \A x, y : Emit(t, x, y) = [t EXCEPT !.out = Append(o, Run(x, y))]
    BY <1>9 DEF Emit
  <1>11. ASSUME NEW x PROVE [t EXCEPT !.out = x]
                              = [out |-> x, num_temp |-> n, char_temp |-> w]
    BY <1>6, <1>8
  <1>12. [t EXCEPT !.num_temp = @ + r.count, !.char_temp = r.char]
            = [out |-> o, num_temp |-> n + r.count, char_temp |-> r.char]
    <2>1. PICK y, z : y = n + r.count /\ z = r.char
      OBVIOUS
    <2>2. [t EXCEPT !.num_temp = y, !.char_temp = z]
              = [out |-> o, num_temp |-> y, char_temp |-> z]
      <3>1. /\ t = [out |-> o, num_temp |-> n, char_temp |-> w]
            /\ t = [f \in {"out", "num_temp", "char_temp"} |-> t[f]]
        BY <1>6, <1>8
      <3>2. PICK u : u = [t EXCEPT !.num_temp = y, !.char_temp = z]
        OBVIOUS
      <3>3. u = [f \in {"out", "num_temp", "char_temp"} |-> u[f]]
        BY <3>1, <3>2
      <3>4. u.out = o
        BY <3>1, <3>2
      <3>5. u.num_temp = y
        BY <3>1, <3>2
      <3>6. u.char_temp = z
        BY <3>1, <3>2
      <3>7. PICK v : v = [out |-> o, num_temp |-> y, char_temp |-> z]
        OBVIOUS
      <3>8. /\ v = [f \in {"out", "num_temp", "char_temp"} |-> v[f]]
            /\ v.out = o /\ v.num_temp = y /\ v.char_temp = z
        BY <3>7
      <3>9. u = v
        BY <3>3, <3>4, <3>5, <3>6, <3>8
      <3> QED BY <3>2, <3>7, <3>9
    <2> QED BY <1>9, <2>1, <2>2
  <1>13. s.char_temp = r.char =>
            [Emit(t, r.count + n, r.char) EXCEPT !.num_temp = 0]
              = [out |-> Append(o, Run(r.count + n, r.char)),
                 num_temp |-> 0, char_temp |-> s.char_temp]
    <2>1. PICK x : x = Append(o, Run(r.count + n, r.char))
      OBVIOUS
    <2>2. Emit(t, r.count + n, r.char) = [t EXCEPT !.out = x]
      BY <1>10, <2>1
    <2>3. Emit(t, r.count + n, r.char)
              = [out |-> x, num_temp |-> n, char_temp |-> w]
      BY <1>11, <2>2
    <2>4. [Emit(t, r.count + n, r.char) EXCEPT !.num_temp = 0]
              = [out |-> x, num_temp |-> 0, char_temp |-> w]
      BY <2>3
    <2> QED BY <1>8, <2>1, <2>4
  <1>14. Emit(t, r.count, r.char)
            = [out |-> Append(o, Run(r.count, r.char)),
               num_temp |-> n, char_temp |-> s.char_temp]
    <2>1. PICK x : x = Append(o, Run(r.count, r.char))
      OBVIOUS
    <2>2. Emit(t, r.count, r.char) = [t EXCEPT !.out = x]
      BY <1>10, <2>1
    <2> QED BY <1>8, <1>11, <2>1, <2>2
  <1>15. OutputRun(s, i, k) =
             IF k = Len(result[i]) /\ i # listsize - 1
             THEN [out |-> o, num_temp |-> n + r.count, char_temp |-> r.char]
             ELSE IF s.char_temp = r.char
             THEN [out |-> Append(o, Run(r.count + n, r.char)),
                   num_temp |-> 0, char_temp |-> s.char_temp]
             ELSE [out |-> Append(o, Run(r.count, r.char)),
                   num_temp |-> n, char_temp |-> s.char_temp]
    <2>1. CASE k = Len(result[i]) /\ i # listsize - 1
      BY <1>7, <1>12, <2>1
    <2>2. CASE ~(k = Len(result[i]) /\ i # listsize - 1) /\ s.char_temp = r.char
      BY <1>7, <1>9, <1>13, <2>2
    <2>3. CASE ~(k = Len(result[i]) /\ i # listsize - 1) /\ s.char_temp # r.char
      BY <1>7, <1>9, <1>14, <2>3
    <2> QED BY <2>1, <2>2, <2>3
  <1>16. o \in Seq(RunType) /\ n \in Nat
    BY <1>1, <1>4
  <1> QED BY <1>a, <1>b, <1>15, <1>16

LEMMA OutputRunType ==
    ASSUME NEW s \in OutType, NEW i, NEW k, result[i][k] \in RunType
    PROVE  OutputRun(s, i, k) \in OutType
  <1>1. PICK r \in RunType : r = result[i][k]
    OBVIOUS
  <1>5. PICK m \in BOOLEAN, n \in Nat, o \in Seq(RunType) :
            OutputRun(s, i, k) =
              IF k = Len(result[i]) /\ i # listsize - 1
              THEN [out |-> o, num_temp |-> n + r.count, char_temp |-> r.char]
              ELSE IF s.char_temp = r.char
              THEN [out |-> Append(o, Run(r.count + n, r.char)),
                    num_temp |-> 0, char_temp |-> s.char_temp]
              ELSE [out |-> Append(o, Run(r.count, r.char)),
                    num_temp |-> n, char_temp |-> s.char_temp]
    BY <1>1, OutputRunIs, SMTT(30)
  <1>6. r.count \in Nat /\ r.char \in Nat /\ s.char_temp \in Nat
    BY DEF RunType, OutType
  <1>7. /\ Append(o, Run(r.count + n, r.char)) \in Seq(RunType)
        /\ Append(o, Run(r.count, r.char)) \in Seq(RunType)
    <2>1. PICK S : S = RunType
      OBVIOUS
    <2>2. o \in Seq(S)
      BY <1>5, <2>1
    <2>3. Run(r.count + n, r.char) \in S /\ Run(r.count, r.char) \in S
      BY <1>5, <1>6, <2>1 DEF Run, RunType
    <2>4. /\ Append(o, Run(r.count + n, r.char)) \in Seq(S)
          /\ Append(o, Run(r.count, r.char)) \in Seq(S)
      BY <2>2, <2>3
    <2> QED BY <2>1, <2>4
  <1>8. n + r.count \in Nat
    BY <1>5, <1>6
  <1> QED BY <1>5, <1>6, <1>7, <1>8 DEF OutType

\* What has been written, with the run that is held back.
Joined(s) == IF s.num_temp > 0 THEN Append(s.out, Run(s.num_temp, s.char_temp))
             ELSE s.out

\* It is the compression of the bytes.
Sound(s, x) == /\ s \in OutType /\ s.out \in Seq(RunsOver(Nat))
               /\ IsRunLengthOf(Joined(s), x)

\* Before run k of chunk i a run is held back if that is the first of a chunk
\* that follows another.  Otherwise none is, and the last that was written is
\* of another character.
Before(s, i, k) ==
    IF i > 0 /\ k = 1 THEN s.num_temp > 0
    ELSE /\ s.num_temp = 0
         /\ s.out = <<>> \/ Last(s.out).char # result[i][k].char

\* After it that run is held back if it is the last of a chunk that another
\* follows.
After(s, i, k) ==
    IF k = Len(result[i]) /\ i # listsize - 1 THEN s.num_temp > 0
    ELSE /\ s.num_temp = 0 /\ s.out # <<>>
         /\ Last(s.out).char = result[i][k].char

LEMMA OutputRunSound ==
    ASSUME NEW s, NEW i, NEW k, NEW r \in RunsOver(Nat), r = result[i][k],
           NEW x, Sound(s, x), Before(s, i, k)
    PROVE  /\ Sound(OutputRun(s, i, k), Cat(x, Stretch(r)))
           /\ After(OutputRun(s, i, k), i, k)
  <1>4. r \in RunType /\ r.count \in Nat \ {0} /\ r.char \in Nat
    BY DEF RunType, RunsOver
  <1>5. PICK u : u = OutputRun(s, i, k)
    OBVIOUS
  <1>6. PICK m \in BOOLEAN, n \in Nat, o \in Seq(RunType) :
        /\ m <=> i > 0 /\ k = 1 /\ s.char_temp # r.char
        /\ o = IF m THEN Append(s.out, Run(s.num_temp, s.char_temp)) ELSE s.out
        /\ n = IF m THEN 0 ELSE s.num_temp
        /\ u = IF k = Len(result[i]) /\ i # listsize - 1
               THEN [out |-> o, num_temp |-> n + r.count, char_temp |-> r.char]
               ELSE IF s.char_temp = r.char
               THEN [out |-> Append(o, Run(r.count + n, r.char)),
                     num_temp |-> 0, char_temp |-> s.char_temp]
               ELSE [out |-> Append(o, Run(r.count, r.char)),
                     num_temp |-> n, char_temp |-> s.char_temp]
    <2>1. s \in OutType /\ r \in RunType
      BY <1>4 DEF Sound
    <2> QED BY <1>5, <2>1, OutputRunIs, SMTT(30)
  <1>7. /\ s.out \in Seq(RunsOver(Nat)) /\ s.num_temp \in Nat
        /\ s.char_temp \in Nat /\ IsRunLengthOf(Joined(s), x)
    BY DEF Sound, OutType
  <1> DEFINE whole == Append(o, Run(n + r.count, r.char))
  <1>8. /\ o \in Seq(RunsOver(Nat))
        /\ n > 0 => s.char_temp = r.char
        /\ whole \in Seq(RunsOver(Nat))
        /\ IsRunLengthOf(whole, Cat(x, Stretch(r)))
    <2>1. CASE i > 0 /\ k = 1 /\ s.char_temp = r.char
      <3>1. o = s.out /\ n = s.num_temp /\ s.num_temp \in Nat \ {0}
        BY <1>6, <1>7, <2>1 DEF Before
      <3>2. IsRunLengthOf(Append(o, Run(n, r.char)), x)
        BY <1>7, <2>1, <3>1 DEF Joined
      <3>3. PICK a, b, c : a = n /\ b = r.count /\ c = r.char
        OBVIOUS
      <3>4. a \in Nat \ {0} /\ b \in Nat \ {0} /\ c \in Nat
        BY <1>4, <3>1, <3>3
      <3>5. o \in Seq(RunsOver(Nat)) /\ IsRunLengthOf(Append(o, Run(a, c)), x)
        BY <1>7, <3>1, <3>2, <3>3
      <3>6. /\ Append(o, Run(a + b, c)) \in Seq(RunsOver(Nat))
            /\ IsRunLengthOf(Append(o, Run(a + b, c)),
                             x \o Stretch(Run(b, c)))
        BY <3>4, <3>5, LongerRun
      <3>7. r = Run(b, c)
        BY <3>3, SameRun
      <3> QED BY <2>1, <3>3, <3>5, <3>6, <3>7 DEF Cat
    <2>2. CASE ~(i > 0 /\ k = 1 /\ s.char_temp = r.char)
      <3>1. /\ n = 0 /\ o = Joined(s) /\ o \in Seq(RunsOver(Nat))
            /\ o = <<>> \/ Last(o).char # r.char
        <4>1. CASE m
          <5>1. s.num_temp \in Nat \ {0} /\ s.char_temp # r.char
            BY <1>6, <1>7, <4>1 DEF Before
          <5>2. PICK l : l = Run(s.num_temp, s.char_temp)
            OBVIOUS
          <5>3. l \in RunsOver(Nat) /\ l.char = s.char_temp
            BY <1>7, <5>1, <5>2, RunLemma
          <5>4. o = Append(s.out, l)
            BY <1>6, <4>1, <5>2
          <5>5. o \in Seq(RunsOver(Nat)) /\ o[Len(o)] = l
            <6>1. PICK U : U = RunsOver(Nat)
              OBVIOUS
            <6>2. s.out \in Seq(U) /\ l \in U
              BY <1>7, <5>3, <6>1
            <6>3. o \in Seq(U) /\ o[Len(o)] = l
              BY <5>4, <6>2
            <6> QED BY <6>1, <6>3
          <5>6. n = 0 /\ o = Joined(s)
            BY <1>6, <4>1, <5>1, <5>2, <5>4 DEF Joined
          <5> QED BY <5>1, <5>3, <5>5, <5>6 DEF Last
        <4>2. CASE ~m
          <5>1. ~(i > 0 /\ k = 1)
            BY <1>6, <2>2, <4>2
          <5>2. s.num_temp = 0 /\ (s.out = <<>> \/ Last(s.out).char # r.char)
            BY <5>1 DEF Before
          <5> QED BY <1>6, <1>7, <4>2, <5>2 DEF Joined
        <4> QED BY <4>1, <4>2
      <3>2. /\ Append(o, r) \in Seq(RunsOver(Nat))
            /\ IsRunLengthOf(Append(o, r), x \o Stretch(r))
        BY <1>7, <3>1, AnotherRun
      <3>3. whole = Append(o, r)
        <4>1. n + r.count = r.count
          BY <1>4, <3>1
        <4> QED BY <4>1, SameRun
      <3> QED BY <3>1, <3>2, <3>3 DEF Cat
    <2> QED BY <2>1, <2>2
  <1>9. CASE k = Len(result[i]) /\ i # listsize - 1
    <2>1. u.out = o /\ u.num_temp = n + r.count /\ u.char_temp = r.char
      BY <1>6, <1>9
    <2>2. u.num_temp > 0 /\ Joined(u) = whole
      <3>1. n + r.count > 0
        BY <1>4, <1>6
      <3>2. u.num_temp > 0
        BY <2>1, <3>1
      <3> QED BY <2>1, <3>2 DEF Joined
    <2> QED BY <1>4, <1>5, <1>8, <1>9, <2>1, <2>2, OutputRunType
            DEF Sound, After
  <1>10. CASE ~(k = Len(result[i]) /\ i # listsize - 1)
    <2>1. u.num_temp = 0 /\ u.out = whole
      <3>1. CASE s.char_temp = r.char
        <4>1. n + r.count = r.count + n
          BY <1>4, <1>6
        <4> QED BY <1>6, <1>10, <3>1, <4>1
      <3>2. CASE s.char_temp # r.char
        <4>1. n = 0 /\ n + r.count = r.count
          BY <1>4, <1>6, <1>8, <3>2
        <4> QED BY <1>6, <1>10, <3>2, <4>1
      <3> QED BY <3>1, <3>2
    <2>2. Joined(u) = whole
      BY <2>1 DEF Joined
    <2>3. whole # <<>> /\ Last(whole).char = r.char
      <3>1. PICK U, l : U = RunsOver(Nat) /\ l = Run(n + r.count, r.char)
        OBVIOUS
      <3>2. l \in U /\ l.char = r.char /\ o \in Seq(U)
        <4>1. n + r.count \in Nat \ {0}
          BY <1>4, <1>6
        <4> QED BY <1>4, <1>8, <3>1, <4>1, RunLemma
      <3>3. Append(o, l) # <<>> /\ Append(o, l)[Len(Append(o, l))] = l
        BY <3>2
      <3> QED BY <3>1, <3>2, <3>3 DEF Last
    <2> QED BY <1>4, <1>5, <1>8, <1>10, <2>1, <2>2, <2>3, OutputRunType
            DEF Sound, After
  <1> QED BY <1>9, <1>10

\* The values of the recursive function in OutputChunk.
Outputs(s, i, g) ==
    g = [k \in 0 .. Len(result[i]) |-> IF k = 0 THEN s
                                       ELSE OutputRun(g[k - 1], i, k)]

LEMMA OutputsExists ==
    ASSUME NEW s \in OutType, NEW i, result[i] \in Seq(RunType)
    PROVE  \E g \in [0 .. Len(result[i]) -> OutType] :
               Outputs(s, i, g) /\ OutputChunk(s, i) = g[Len(result[i])]
  <1>1. PICK L \in Nat : L = Len(result[i])
    OBVIOUS
  <1>2. ASSUME NEW t \in OutType, NEW k \in 1 .. L
        PROVE  OutputRun(t, i, k) \in OutType
    <2>1. result[i][k] \in RunType
      BY <1>1
    <2> QED BY <2>1, OutputRunType
  <1> DEFINE Is(g) == g = [k \in 0 .. L |-> IF k = 0 THEN s
                                           ELSE OutputRun(g[k - 1], i, k)]
  <1>3. \E g : Is(g) /\ g \in [0 .. L -> OutType]
    <2>1. PICK next : next = [kt \in (1 .. L) \X OutType |->
                                 OutputRun(kt[2], i, kt[1])]
      OBVIOUS
    <2>2. next \in [(1 .. L) \X OutType -> OutType]
      BY <1>2, <2>1
    <2>3. PICK f : Recurs(f, L, OutType, s, next)
      BY <2>2, RecursionExists
    <2>4. ASSUME NEW k \in 1 .. L PROVE f[k] = OutputRun(f[k - 1], i, k)
      <3>1. k - 1 \in 0 .. L
        BY <1>1
      <3>2. f[k - 1] \in OutType
        BY <2>3, <3>1 DEF Recurs
      <3>3. <<k, f[k - 1]>> \in (1 .. L) \X OutType
        BY <3>2
      <3> QED BY <2>1, <2>3, <3>3 DEF Recurs
    <2>5. PICK h : h = [k \in 0 .. L |-> IF k = 0 THEN s
                                        ELSE OutputRun(f[k - 1], i, k)]
      OBVIOUS
    <2>6. f = [k \in 0 .. L |-> f[k]] /\ h = [k \in 0 .. L |-> h[k]]
      BY <2>3, <2>5 DEF Recurs
    <2>7. \A k \in 0 .. L : f[k] = h[k]
      BY <1>1, <2>3, <2>4, <2>5 DEF Recurs
    <2>8. f = h
      BY <2>6, <2>7, SameValues, Zenon
    <2>9. f \in [0 .. L -> OutType]
      BY <2>3 DEF Recurs
    <2> QED BY <2>5, <2>8, <2>9
  <1> DEFINE g == CHOOSE f : Is(f)
  <1>4. Is(g)
    BY <1>3
  <1>5. OutputChunk(s, i) = g[L]
    BY <1>1 DEF OutputChunk
  <1>6. g \in [0 .. L -> OutType]
    <2> DEFINE T == {k \in 0 .. L : g[k] \notin OutType}
    <2>1. ASSUME T # {} PROVE FALSE
      <3>1. T \in SUBSET Nat
        BY <1>1
      <3>2. PICK k \in T : \A n \in T : k <= n
        BY <2>1, <3>1, Least
      <3>3. k # 0
        BY <1>4
      <3>4. k - 1 \in 0 .. L /\ k - 1 \notin T /\ k \in 1 .. L
        BY <1>1, <3>2, <3>3
      <3>5. g[k - 1] \in OutType /\ g[k] = OutputRun(g[k - 1], i, k)
        BY <1>4, <3>3, <3>4
      <3> QED BY <1>2, <3>2, <3>4, <3>5
    <2>2. \A k \in 0 .. L : g[k] \in OutType
      BY <2>1
    <2>3. g = [k \in 0 .. L |-> g[k]]
      BY <1>4
    <2> QED BY <2>2, <2>3
  <1> QED BY <1>1, <1>4, <1>5, <1>6 DEF Outputs

\* Before a chunk the last run of the one before is held back.
Between(s, i) == IF i = 0 THEN s = StartOut ELSE s.num_temp > 0

LEMMA OutputChunkSound ==
    ASSUME NEW s, NEW i \in Nat, NEW runs \in Seq(RunsOver(Nat)),
           runs = result[i], runs # <<>>, NEW y, IsRunLengthOf(runs, y),
           NEW x \in Seq(Nat), Sound(s, x), Between(s, i)
    PROVE  /\ Sound(OutputChunk(s, i), Cat(x, y))
           /\ IF i # listsize - 1 THEN OutputChunk(s, i).num_temp > 0
              ELSE OutputChunk(s, i).num_temp = 0
  <1>1. PICK L \in Nat \ {0} : L = Len(runs)
    <2>1. Len(runs) \in Nat \ {0}
      <3>1. PICK U : U = RunsOver(Nat)
        OBVIOUS
      <3>2. runs \in Seq(U)
        BY <3>1
      <3> QED BY <3>2
    <2> QED BY <2>1
  <1>2. ASSUME NEW k \in 1 .. L PROVE runs[k] \in RunsOver(Nat)
    BY <1>1
  <1>3. PICK g \in [0 .. L -> OutType] :
            Outputs(s, i, g) /\ OutputChunk(s, i) = g[L]
    <2>1. result[i] \in Seq(RunType)
      <3>1. PICK U, V : U = RunsOver(Nat) /\ V = RunType
        OBVIOUS
      <3>2. U \subseteq V
        BY <3>1 DEF RunsOver, RunType
      <3>3. runs \in Seq(V)
        BY <3>1, <3>2
      <3> QED BY <3>1, <3>3
    <2> QED BY <1>1, <2>1, OutputsExists DEF Sound
  <1>4. g[0] = s /\ \A k \in 1 .. L : g[k] = OutputRun(g[k - 1], i, k)
    <2>1. g = [k \in 0 .. L |-> IF k = 0 THEN s
                               ELSE OutputRun(g[k - 1], i, k)]
      BY <1>1, <1>3 DEF Outputs
    <2>2. 0 \in 0 .. L /\ \A k \in 1 .. L : k \in 0 .. L /\ k # 0
      BY <1>1
    <2> QED BY <2>1, <2>2
  <1> DEFINE Sofar(k) == Expand(SubSeq(runs, 1, k))
             T == {k \in 1 .. L : ~(/\ Sound(g[k], Cat(x, Sofar(k)))
                                    /\ After(g[k], i, k))}
  <1>5. ASSUME T # {} PROVE FALSE
    <2>1. T \in SUBSET Nat
      BY <1>1
    <2>2. PICK k \in T : \A n \in T : k <= n
      BY <1>5, <2>1, Least
    <2>3. PICK m : m = k - 1
      OBVIOUS
    <2>4. m \in 0 .. L /\ m + 1 = k /\ k \in 1 .. L /\ m \notin T
      <3>1. k \in 1 .. L
        BY <2>2
      <3>2. m \in 0 .. L /\ m + 1 = k /\ ~(k <= m)
        BY <1>1, <2>3, <3>1
      <3>3. m \notin T
        BY ONLY <2>2, <3>2
      <3> QED BY <3>1, <3>2, <3>3
    <2>5. PICK r \in RunsOver(Nat) : r = runs[k]
      BY <1>2, <2>4
    <2>6. PICK z : z = Sofar(m)
      OBVIOUS
    <2>7. z \in Seq(Nat) /\ Sofar(k) = Cat(z, Stretch(r))
          /\ Stretch(r) \in Seq(Nat)
      BY <1>1, <2>3, <2>4, <2>5, <2>6, ExpandPrefix
    <2>8. Sound(g[m], Cat(x, z)) /\ Before(g[m], i, k)
      <3>1. CASE k = 1
        <4>1. m = 0
          BY <2>3, <3>1
        <4>2. z = <<>>
          <5>1. SubSeq(runs, 1, 0) = <<>>
            <6>1. PICK U : U = RunsOver(Nat)
              OBVIOUS
            <6>2. runs \in Seq(U)
              BY <6>1
            <6> QED BY <6>2
          <5> QED BY <2>6, <4>1, <5>1, ExpandNone
        <4>3. Cat(x, z) = x
          BY <4>2 DEF Cat
        <4>4. Before(s, i, 1)
          <5>1. CASE i = 0
            BY <5>1 DEF Between, Before, StartOut
          <5>2. CASE i # 0
            BY <5>2 DEF Between, Before
          <5> QED BY <5>1, <5>2
        <4> QED BY <1>4, <3>1, <4>1, <4>3, <4>4
      <3>2. CASE k # 1
        <4>1. m \in 1 .. L /\ m # L /\ m \in 1 .. L - 1
          BY <1>1, <2>4, <3>2
        <4>2. Sound(g[m], Cat(x, z)) /\ After(g[m], i, m)
          BY <2>4, <2>6, <4>1
        <4>3. /\ g[m].num_temp = 0 /\ g[m].out # <<>>
              /\ Last(g[m].out).char = runs[m].char
          BY <1>1, <4>1, <4>2 DEF After
        <4>4. runs[m].char # runs[k].char
          BY <1>1, <2>4, <4>1 DEF IsRunLengthOf
        <4> QED BY <3>2, <4>2, <4>3, <4>4 DEF Before
      <3> QED BY <3>1, <3>2
    <2>9. PICK w : w = Cat(x, z)
      OBVIOUS
    <2>10. /\ Sound(OutputRun(g[m], i, k), Cat(w, Stretch(r)))
           /\ After(OutputRun(g[m], i, k), i, k)
      BY <2>5, <2>8, <2>9, OutputRunSound
    <2>11. Cat(w, Stretch(r)) = Cat(x, Sofar(k))
      BY <2>7, <2>9, Associative
    <2>12. g[k] = OutputRun(g[m], i, k)
      BY <1>4, <2>3, <2>4
    <2> QED BY <2>2, <2>10, <2>11, <2>12
  <1>6. Sound(g[L], Cat(x, Sofar(L))) /\ After(g[L], i, L)
    <2>1. L \in 1 .. L
      BY <1>1
    <2> QED BY <1>5, <2>1
  <1>7. Sofar(L) = y
    <2>1. SubSeq(runs, 1, L) = runs
      <3>1. PICK U : U = RunsOver(Nat)
        OBVIOUS
      <3>2. runs \in Seq(U)
        BY <3>1
      <3> QED BY <1>1, <3>2
    <2> QED BY <2>1 DEF IsRunLengthOf
  <1> QED BY <1>1, <1>3, <1>6, <1>7 DEF After

\* The chunks have been compressed, and these are their bytes.
AllCompressed(texts) ==
    /\ texts \in Seq(Seq(Nat)) /\ Len(texts) = listsize
    /\ \A i \in 0 .. listsize - 1 :
           /\ result[i] \in Seq(RunsOver(Nat)) /\ result[i] # <<>>
           /\ IsRunLengthOf(result[i], texts[i + 1])

LEMMA OutputOfExists ==
    ASSUME listsize \in Nat,
           \A i \in 0 .. listsize - 1 : result[i] \in Seq(RunType)
    PROVE  \E g \in [0 .. listsize -> OutType] :
               /\ g[0] = StartOut
               /\ \A i \in 1 .. listsize : g[i] = OutputChunk(g[i - 1], i - 1)
               /\ OutputOf = g[listsize].out
  <1>1. PICK N \in Nat : N = listsize
    OBVIOUS
  <1>2. ASSUME NEW t \in OutType, NEW i \in 1 .. N
        PROVE  OutputChunk(t, i - 1) \in OutType
    <2>1. PICK k : k = i - 1
      OBVIOUS
    <2>2. k \in 0 .. N - 1
      BY <2>1
    <2>3. result[k] \in Seq(RunType)
      BY <1>1, <2>2
    <2>4. PICK L \in Nat : L = Len(result[k])
      BY <2>3
    <2>5. PICK g \in [0 .. L -> OutType] : OutputChunk(t, k) = g[L]
      BY <2>3, <2>4, OutputsExists
    <2>6. L \in 0 .. L
      OBVIOUS
    <2> QED BY <2>1, <2>5, <2>6
  <1> DEFINE Is(g) == g = [i \in 0 .. N |-> IF i = 0 THEN StartOut
                                           ELSE OutputChunk(g[i - 1], i - 1)]
  <1>3. \E g : Is(g)
    <2>1. PICK next : next = [it \in (1 .. N) \X OutType |->
                                 OutputChunk(it[2], it[1] - 1)]
      OBVIOUS
    <2>2. next \in [(1 .. N) \X OutType -> OutType]
      BY <1>2, <2>1
    <2>3. PICK f : Recurs(f, N, OutType, StartOut, next)
      BY <2>2, StartOutType, RecursionExists
    <2>4. ASSUME NEW i \in 1 .. N PROVE f[i] = OutputChunk(f[i - 1], i - 1)
      <3>1. i - 1 \in 0 .. N
        BY <1>1
      <3>2. f[i - 1] \in OutType
        BY <2>3, <3>1 DEF Recurs
      <3>3. <<i, f[i - 1]>> \in (1 .. N) \X OutType
        BY <3>2
      <3> QED BY <2>1, <2>3, <3>3 DEF Recurs
    <2>5. PICK h : h = [i \in 0 .. N |-> IF i = 0 THEN StartOut
                                        ELSE OutputChunk(f[i - 1], i - 1)]
      OBVIOUS
    <2>6. f = [i \in 0 .. N |-> f[i]] /\ h = [i \in 0 .. N |-> h[i]]
      BY <2>3, <2>5 DEF Recurs
    <2>7. \A i \in 0 .. N : f[i] = h[i]
      BY <1>1, <2>3, <2>4, <2>5 DEF Recurs
    <2>8. f = h
      BY <2>6, <2>7, SameValues, Zenon
    <2> QED BY <2>5, <2>8
  <1> DEFINE g == CHOOSE f : Is(f)
  <1>4. Is(g)
    BY <1>3
  <1>5. OutputOf = g[N].out
    BY <1>1 DEF OutputOf, StartOut
  <1>6. g[0] = StartOut /\ \A i \in 1 .. N : g[i] = OutputChunk(g[i - 1], i - 1)
    <2>1. 0 \in 0 .. N /\ \A i \in 1 .. N : i \in 0 .. N /\ i # 0
      OBVIOUS
    <2> QED BY <1>4, <2>1
  <1>7. g \in [0 .. N -> OutType]
    <2> DEFINE T == {k \in 0 .. N : g[k] \notin OutType}
    <2>1. ASSUME T # {} PROVE FALSE
      <3>1. T \in SUBSET Nat
        BY <1>1
      <3>2. PICK k \in T : \A n \in T : k <= n
        BY <2>1, <3>1, Least
      <3>3. k # 0
        BY <1>6, StartOutType
      <3>4. k - 1 \in 0 .. N /\ k - 1 \notin T /\ k \in 1 .. N
        BY <1>1, <3>2, <3>3
      <3>5. g[k - 1] \in OutType /\ g[k] = OutputChunk(g[k - 1], k - 1)
        BY <1>6, <3>4
      <3> QED BY <1>2, <3>2, <3>4, <3>5
    <2>2. \A k \in 0 .. N : g[k] \in OutType
      BY <2>1
    <2>3. g = [k \in 0 .. N |-> g[k]]
      BY <1>4
    <2> QED BY <2>2, <2>3
  <1> QED BY <1>1, <1>5, <1>6, <1>7

LEMMA OutputOfIs ==
    ASSUME listsize \in Nat, NEW texts, AllCompressed(texts)
    PROVE  /\ OutputOf \in Seq(RunsOver(Nat))
           /\ IsRunLengthOf(OutputOf, FlattenSeq(texts))
  <1>1. PICK N \in Nat : N = listsize
    OBVIOUS
  <1>2. texts \in Seq(Seq(Nat)) /\ Len(texts) = N
    BY <1>1 DEF AllCompressed
  <1>3. \A i \in 0 .. N - 1 : result[i] \in Seq(RunType)
    <2>1. PICK U, V : U = RunsOver(Nat) /\ V = RunType
      OBVIOUS
    <2>2. U \subseteq V
      BY <2>1 DEF RunsOver, RunType
    <2>3. \A i \in 0 .. N - 1 : result[i] \in Seq(U)
      BY <1>1, <2>1 DEF AllCompressed
    <2>4. \A i \in 0 .. N - 1 : result[i] \in Seq(V)
      BY <2>2, <2>3
    <2> QED BY <2>1, <2>4
  <1>4. PICK g \in [0 .. N -> OutType] :
               /\ g[0] = StartOut
               /\ \A i \in 1 .. N : g[i] = OutputChunk(g[i - 1], i - 1)
               /\ OutputOf = g[N].out
    BY <1>1, <1>3, OutputOfExists
  <1> DEFINE Sofar(i) == FlattenSeq(SubSeq(texts, 1, i))
             Good(i) == /\ Sound(g[i], Sofar(i))
                        /\ IF i = 0 THEN g[i] = StartOut
                           ELSE IF i # N THEN g[i].num_temp > 0
                           ELSE g[i].num_temp = 0
             T == {i \in 0 .. N : ~Good(i)}
  <1>5. ASSUME T # {} PROVE FALSE
    <2>1. T \in SUBSET Nat
      OBVIOUS
    <2>2. PICK i \in T : \A n \in T : i <= n
      BY <1>5, <2>1, Least
    <2>3. i # 0
      <3> SUFFICES ASSUME i = 0 PROVE Good(0)
        BY <2>2
      <3>1. SubSeq(texts, 1, 0) = <<>>
        <4>1. PICK U : U = Seq(Nat)
          OBVIOUS
        <4>2. texts \in Seq(U)
          BY <1>2, <4>1
        <4> QED BY <4>2
      <3>2. Sofar(0) = <<>>
        BY <3>1, FlattenEmpty
      <3>3. /\ StartOut.out = <<>> /\ StartOut.num_temp = 0
            /\ Joined(StartOut) = <<>>
        BY DEF StartOut, Joined
      <3>4. Sound(StartOut, <<>>)
        BY <3>3, NoBytes, StartOutType DEF Sound
      <3> QED BY <1>4, <3>2, <3>4
    <2>4. PICK k : k = i - 1
      OBVIOUS
    <2>5. k \in 0 .. N - 1 /\ k + 1 = i /\ i \in 1 .. N /\ k # N
      BY <2>2, <2>3, <2>4
    <2>6. Good(k)
      <3>1. k \in 0 .. N /\ ~(i <= k)
        BY <2>5
      <3>2. k \notin T
        BY ONLY <2>2, <3>1
      <3> QED BY <3>1, <3>2
    <2>7. PICK x : x = Sofar(k)
      OBVIOUS
    <2>8. x \in Seq(Nat) /\ texts[i] \in Seq(Nat)
          /\ Sofar(i) = Cat(x, texts[i])
      <3>1. SubSeq(texts, 1, k) \in Seq(Seq(Nat))
        <4>1. PICK U : U = Seq(Nat)
          OBVIOUS
        <4>2. texts \in Seq(U)
          BY <1>2, <4>1
        <4>3. SubSeq(texts, 1, k) \in Seq(U)
          BY <1>2, <2>5, <4>2
        <4> QED BY <4>1, <4>3
      <3>2. Sofar(i) = Sofar(k) \o texts[i]
        BY <1>2, <2>4, <2>5, FlattenSubSeq
      <3>3. Sofar(k) \in Seq(Nat)
        BY <3>1, FlattenType
      <3>4. texts[i] \in Seq(Nat)
        BY <1>2, <2>5
      <3> QED BY <2>7, <3>2, <3>3, <3>4 DEF Cat
    <2>9. PICK runs \in Seq(RunsOver(Nat)) :
              /\ runs = result[k] /\ runs # <<>>
              /\ IsRunLengthOf(runs, texts[i])
      BY <1>1, <2>5 DEF AllCompressed
    <2>10. Sound(g[k], x) /\ Between(g[k], k) /\ k \in Nat
      BY <2>5, <2>6, <2>7 DEF Between
    <2>11. /\ Sound(OutputChunk(g[k], k), Cat(x, texts[i]))
           /\ IF k # listsize - 1 THEN OutputChunk(g[k], k).num_temp > 0
              ELSE OutputChunk(g[k], k).num_temp = 0
      BY <2>8, <2>9, <2>10, OutputChunkSound
    <2>12. g[i] = OutputChunk(g[k], k) /\ (k # listsize - 1 <=> i # N)
      BY <1>1, <1>4, <2>4, <2>5
    <2> QED BY <2>2, <2>3, <2>8, <2>11, <2>12
  <1>6. Good(N)
    <2>1. N \in 0 .. N
      OBVIOUS
    <2> QED BY <1>5, <2>1
  <1>7. Joined(g[N]) = g[N].out
    BY <1>6 DEF Joined, StartOut
  <1>8. Sofar(N) = FlattenSeq(texts)
    <2>1. PICK U : U = Seq(Nat)
      OBVIOUS
    <2>2. texts \in Seq(U)
      BY <1>2, <2>1
    <2>3. SubSeq(texts, 1, N) = texts
      BY <1>2, <2>2
    <2> QED BY <2>3
  <1> QED BY <1>4, <1>6, <1>7, <1>8 DEF Sound

-----------------------------------------------------------------------------
(* Chunks and files, one after the other.                                  *)

\* The first m of a list of lists.
UpTo(f, m) == FlattenSeq([n \in 1 .. m |-> f[n]])

LEMMA UpToSame ==
    ASSUME NEW f, NEW g, NEW m, \A n \in 1 .. m : f[n] = g[n]
    PROVE  UpTo(f, m) = UpTo(g, m)
  <1>1. [n \in 1 .. m |-> f[n]] = [n \in 1 .. m |-> g[n]]
    OBVIOUS
  <1> QED BY <1>1 DEF UpTo

LEMMA UpToNone == \A f : UpTo(f, 0) = <<>>
  <1> SUFFICES ASSUME NEW f PROVE UpTo(f, 0) = <<>>
    OBVIOUS
  <1>1. [n \in 1 .. 0 |-> f[n]] = <<>>
    OBVIOUS
  <1> QED BY <1>1, FlattenEmpty DEF UpTo

LEMMA UpToType ==
    ASSUME NEW S, NEW f, NEW m \in Nat, \A n \in 1 .. m : f[n] \in Seq(S)
    PROVE  /\ [n \in 1 .. m |-> f[n]] \in Seq(Seq(S))
           /\ UpTo(f, m) \in Seq(S)
  <1>1. PICK U : U = Seq(S)
    OBVIOUS
  <1>2. [n \in 1 .. m |-> f[n]] \in Seq(U)
    BY <1>1
  <1> QED BY <1>1, <1>2, FlattenType DEF UpTo

LEMMA UpToNext ==
    ASSUME NEW S, NEW f, NEW m \in Nat, NEW k, k = m + 1,
           \A n \in 1 .. k : f[n] \in Seq(S)
    PROVE  UpTo(f, k) = Cat(UpTo(f, m), f[k])
  <1>1. PICK ss, tt : ss = [n \in 1 .. m |-> f[n]]
                      /\ tt = [n \in 1 .. k |-> f[n]]
    OBVIOUS
  <1>2. /\ ss \in Seq(Seq(S)) /\ Len(ss) = m /\ \A n \in 1 .. m : ss[n] = f[n]
        /\ tt \in Seq(Seq(S)) /\ Len(tt) = k /\ \A n \in 1 .. k : tt[n] = f[n]
    <2>1. \A n \in 1 .. m : n \in 1 .. k
      OBVIOUS
    <2>2. ss \in Seq(Seq(S)) /\ tt \in Seq(Seq(S))
      BY <1>1, <2>1, UpToType
    <2>3. Len(ss) = m /\ Len(tt) = k
      BY <1>1
    <2> QED BY <1>1, <2>2, <2>3
  <1>3. f[k] \in Seq(S) /\ k \in 1 .. k
    BY <1>2
  <1>4. tt = Append(ss, f[k])
    <2>1. PICK U, x : U = Seq(S) /\ x = f[k]
      OBVIOUS
    <2>2. ss \in Seq(U) /\ tt \in Seq(U) /\ x \in U
      BY <1>2, <1>3, <2>1
    <2>3. /\ Len(tt) = Len(ss) + 1 /\ tt[Len(ss) + 1] = x
          /\ \A n \in 1 .. Len(ss) : ss[n] = tt[n]
      <3>1. Len(ss) = m /\ Len(ss) + 1 = k
        BY <1>2
      <3>2. tt[k] = x
        BY <1>2, <1>3, <2>1
      <3>3. ASSUME NEW n \in 1 .. m PROVE ss[n] = tt[n]
        <4>1. n \in 1 .. k
          OBVIOUS
        <4> QED BY <1>2, <4>1
      <3> QED BY <1>2, <3>1, <3>2, <3>3
    <2>4. tt = Append(ss, x)
      BY <2>2, <2>3, SameAppend
    <2> QED BY <2>1, <2>4
  <1>5. FlattenSeq(Append(ss, f[k])) = FlattenSeq(ss) \o f[k]
    BY <1>2, <1>3, FlattenAppend
  <1> QED BY <1>1, <1>4, <1>5 DEF UpTo, Cat

-----------------------------------------------------------------------------
(* What is on the list, compressed and printed.                            *)

\* The bytes of a chunk if its file can be read.
ChunkText(c) == IF Allpaths[c.file].access = "ok" THEN Bytes(c) ELSE <<>>

ListTexts == [n \in 1 .. listsize |-> ChunkText(bufferlist[n - 1])]

FileTexts == [n \in 1 .. Len(Files) |-> Text(Files[n])]

\* The first n chunks of a file.
FirstChunks(f, n) ==
    SubSeq(f, 1, IF n * BUFFER_SIZE < Len(f) THEN n * BUFFER_SIZE ELSE Len(f))

\* What of the current file is on the list.
Mapped == IF hpc \in {"store", "count"} THEN FirstChunks(FileTexts[file], chunk)
          ELSE <<>>

\* The chunks that are counted are the files up to there.
Covered ==
    /\ hpc \notin {"none", "sizes"} =>
           UpTo(ListTexts, count) = Cat(UpTo(FileTexts, file - 1), Mapped)
    /\ hpc = "count" => bufferlist[count] = [file |-> file, chunk |-> chunk]
    /\ hpc = "done" => file = Len(Files) + 1

\* A chunk that is compressed has been counted, and is compressed well.
ResultsRight ==
    \A n \in DOMAIN result :
        result[n] # <<>> => /\ n < count
                            /\ Allpaths[bufferlist[n].file].access = "ok"
                            /\ result[n] = compress(Bytes(bufferlist[n]))

PrintedWell ==
    status = "printed" => /\ printed \in Seq(RunsOver(Nat))
                          /\ IsRunLengthOf(printed, Everything)

OutInv == Covered /\ ResultsRight /\ PrintedWell

-----------------------------------------------------------------------------
(* The steps.                                                              *)

LEMMA PathsType ==
    ASSUME Inv PROVE Allpaths \in Seq(FileType) /\ Files \in Seq(FileType)
  <1>1. Files \in Seq(FileType) /\ Allpaths \in {<<>>, Files}
    BY Known DEF Inv, TypeOK
  <1>2. <<>> \in Seq(FileType)
    OBVIOUS
  <1> QED BY <1>1, <1>2

LEMMA OneMore == \A k, n \in Nat : k * n \in Nat /\ (k + 1) * n = k * n + n
  OBVIOUS

\* A chunk of a file that can be read goes on where the ones before end.
LEMMA BytesAre ==
    ASSUME Allpaths \in Seq(FileType), NEW c, IsChunk(c),
           Allpaths[c.file].access = "ok",
           NEW f, f = Allpaths[c.file].content, NEW next, next = c.chunk + 1
    PROVE  /\ f \in Seq(Nat)
           /\ Bytes(c) \in Seq(Nat) /\ Bytes(c) # <<>>
           /\ FirstChunks(f, c.chunk) \in Seq(Nat)
           /\ FirstChunks(f, next) = Cat(FirstChunks(f, c.chunk), Bytes(c))
  <1>1. c.file \in 1 .. Len(Allpaths) /\ c.chunk \in Nat
    BY DEF IsChunk
  <1>2. f \in Seq(Nat) /\ Len(f) \in Nat
    BY <1>1, FileLemma
  <1>3. PICK B \in Nat : B = BUFFER_SIZE /\ B > 0
    BY SizesAssumption
  <1>4. PICK L \in Nat, k \in Nat : L = Len(f) /\ k = c.chunk
    BY <1>1, <1>2
  <1>5. k * B \in Nat /\ (k + 1) * B = k * B + B
    BY <1>3, <1>4, OneMore
  <1>6. PICK m \in Nat : m = k * B
    BY <1>5
  <1>7. (k + 1) * B = m + B /\ m < L
    <2>1. m < L
      BY <1>3, <1>4, <1>6 DEF IsChunk
    <2> QED BY <1>5, <1>6, <2>1
  <1>8. PICK n \in Nat : n = (IF m + B < L THEN m + B ELSE L)
    BY <1>3
  <1>9. m < n /\ n <= L
    BY <1>3, <1>7, <1>8
  <1>10. Bytes(c) = SubSeq(f, m + 1, n)
    BY <1>3, <1>4, <1>6, <1>7, <1>8 DEF Bytes
  <1>11. FirstChunks(f, c.chunk) = SubSeq(f, 1, m)
    BY <1>3, <1>4, <1>6, <1>7 DEF FirstChunks
  <1>12. FirstChunks(f, next) = SubSeq(f, 1, n)
    BY <1>3, <1>4, <1>6, <1>7, <1>8 DEF FirstChunks
  <1>13. SubSeq(f, m + 1, n) \in Seq(Nat) /\ SubSeq(f, m + 1, n) # <<>>
    <2>1. PICK s : s = SubSeq(f, m + 1, n)
      OBVIOUS
    <2>2. f \in Seq(Nat) /\ n <= Len(f) /\ m <= n
      BY <1>2, <1>4, <1>9
    <2>3. s \in Seq(Nat) /\ Len(s) = n - m
      <3>1. /\ SubSeq(f, m + 1, n) \in Seq(Nat)
            /\ Len(SubSeq(f, m + 1, n)) = n - m
        BY <2>2, PieceType
      <3> QED BY <2>1, <3>1
    <2>4. Len(s) # 0
      BY <1>9, <2>3
    <2> QED BY <2>1, <2>3, <2>4
  <1>14. SubSeq(f, 1, m) \in Seq(Nat)
    <2>1. m \in Nat /\ m <= Len(f) /\ 0 \in Nat /\ 0 + 1 = 1
      <3>1. m < L
        BY <1>7
      <3> QED BY <1>4, <1>6, <3>1
    <2>2. SubSeq(f, 0 + 1, m) \in Seq(Nat)
      BY <1>2, <2>1, PieceType
    <2> QED BY <2>1, <2>2
  <1>15. Cat(SubSeq(f, 1, m), SubSeq(f, m + 1, n)) = SubSeq(f, 1, n)
    <2>1. m <= n /\ n <= Len(f)
      BY <1>4, <1>9
    <2> QED BY <1>2, <2>1, SplitAt
  <1> QED BY <1>2, <1>10, <1>11, <1>12, <1>13, <1>14, <1>15

LEMMA ChunkTextType ==
    ASSUME Allpaths \in Seq(FileType), NEW c, IsChunk(c)
    PROVE  ChunkText(c) \in Seq(Nat)
  <1>1. <<>> \in Seq(Nat)
    OBVIOUS
  <1> QED BY <1>1, BytesAre DEF ChunkText

LEMMA FileTextsAre ==
    ASSUME Inv
    PROVE  \A n \in 1 .. Len(Files) : /\ FileTexts[n] = Text(Files[n])
                                      /\ FileTexts[n] \in Seq(Nat)
  <1> SUFFICES ASSUME NEW n \in 1 .. Len(Files)
               PROVE  Text(Files[n]) \in Seq(Nat)
    BY DEF FileTexts
  <1>1. Files[n].content \in Seq(Nat)
    BY PathsType, FileLemma
  <1>2. <<>> \in Seq(Nat)
    OBVIOUS
  <1> QED BY <1>1, <1>2 DEF Text

LEMMA ListTextsAre ==
    ASSUME Inv
    PROVE  /\ count \in Nat /\ listsize \in Nat /\ count <= listsize
           /\ \A n \in 1 .. count :
                  /\ IsChunk(bufferlist[n - 1])
                  /\ ListTexts[n] = ChunkText(bufferlist[n - 1])
                  /\ ListTexts[n] \in Seq(Nat)
  <1>1. count \in Nat /\ listsize \in Nat /\ count <= listsize
    BY DEF Inv, TypeOK
  <1>2. ASSUME NEW n \in 1 .. count
        PROVE  /\ IsChunk(bufferlist[n - 1])
               /\ ListTexts[n] = ChunkText(bufferlist[n - 1])
    <2>1. n \in 1 .. listsize /\ n - 1 \in 0 .. listsize - 1 /\ n - 1 < count
      BY <1>1
    <2> QED BY <2>1 DEF Inv, Listed, ListTexts
  <1> QED BY <1>1, <1>2, PathsType, ChunkTextType

LEMMA OutInitInv == Init => OutInv
  BY EmptyList DEF Init, OutInv, Covered, ResultsRight, PrintedWell

\* What OutInv is about.
OutFrame == UNCHANGED <<args, memory, Allpaths, hpc, file, chunk, listsize,
                        bufferlist, count, result>>

LEMMA OutStays ==
    ASSUME OutInv, OutFrame,
           status' # "printed" \/ UNCHANGED <<status, printed>>
    PROVE  OutInv'
  <1>1. /\ args' = args /\ memory' = memory /\ Allpaths' = Allpaths
        /\ hpc' = hpc /\ file' = file /\ chunk' = chunk
        /\ listsize' = listsize /\ bufferlist' = bufferlist /\ count' = count
        /\ result' = result
    BY DEF OutFrame
  <1>2. Files' = Files
    BY <1>1, FilesStay
  <1>3. \A c : ChunkText(c)' = ChunkText(c) /\ Bytes(c)' = Bytes(c)
    BY <1>1 DEF ChunkText, Bytes
  <1>4. ListTexts' = ListTexts
    BY <1>1 DEF ListTexts, ChunkText, Bytes
  <1>5. FileTexts' = FileTexts
    BY <1>2 DEF FileTexts
  <1>6. Mapped' = Mapped
    BY <1>1, <1>5 DEF Mapped
  <1>7. Covered'
    BY <1>1, <1>2, <1>4, <1>5, <1>6 DEF OutInv, Covered
  <1>8. ResultsRight'
    BY <1>1 DEF OutInv, ResultsRight, Bytes
  <1>9. Everything' = Everything
    BY <1>2 DEF Everything
  <1>10. PrintedWell'
    BY <1>9 DEF OutInv, PrintedWell
  <1> QED BY <1>7, <1>8, <1>10 DEF OutInv

\* Before the list is made.
LEMMA EarlyOut ==
    ASSUME hpc' \in {"none", "sizes"}, DOMAIN result' = {},
           status' # "printed"
    PROVE  OutInv'
  BY DEF OutInv, Covered, ResultsRight, PrintedWell

LEMMA StartOutInv ==
    ASSUME Inv, OutInv, status = "running", Start PROVE OutInv'
  <1>1. /\ hpc' \in {"none", "sizes"} /\ DOMAIN result' = {}
        /\ status' # "printed"
    BY DEF Start, Inv, TypeOK, Stages
  <1> QED BY <1>1, EarlyOut

LEMMA SizeFileOut ==
    ASSUME Inv, OutInv, status = "running", SizeFile PROVE OutInv'
  <1>1. /\ hpc' = "sizes" /\ DOMAIN result' = {} /\ status' # "printed"
    BY DEF SizeFile, Inv, TypeOK, Stages
  <1> QED BY <1>1, EarlyOut

LEMMA BufferlistInitOut ==
    ASSUME Inv, OutInv, status = "running", handleFile, bufferlist_init
    PROVE  OutInv'
  <1>1. /\ hpc = "sizes" /\ hpc' = "map" /\ file' = 1 /\ count' = count
        /\ result' = [n \in 0 .. listsize - 1 |-> <<>>] /\ status' = status
    BY DEF bufferlist_init, handleFile
  <1>2. count = 0
    BY <1>1 DEF Inv, Stages
  <1>3. UpTo(ListTexts', 0) = <<>> /\ UpTo(FileTexts', 0) = <<>>
    BY UpToNone
  <1>4. Mapped' = <<>>
    BY <1>1 DEF Mapped
  <1>5. Cat(<<>>, <<>>) = <<>>
    BY DEF Cat
  <1>6. Covered'
    <2>1. file' - 1 = 0
      BY <1>1
    <2> QED BY <1>1, <1>2, <1>3, <1>4, <1>5, <2>1 DEF Covered
  <1> QED BY <1>1, <1>6 DEF OutInv, ResultsRight, PrintedWell

\* Before its first chunk nothing of a file is on the list.
LEMMA MapFileOut ==
    ASSUME Inv, OutInv, status = "running", handleFile, MapFile PROVE OutInv'
  <1>1. /\ hpc = "map" /\ hpc' = "store" /\ chunk' = 0 /\ file <= Len(Allpaths)
        /\ UNCHANGED <<args, memory, Allpaths, file, listsize, bufferlist,
                       count, result, status>>
    BY DEF MapFile, handleFile, list
  <1>2. Files' = Files
    BY <1>1, FilesStay
  <1>3. ListTexts' = ListTexts /\ FileTexts' = FileTexts
    BY <1>1, <1>2 DEF ListTexts, FileTexts, ChunkText, Bytes
  <1>4. Mapped = <<>>
    BY <1>1 DEF Mapped
  <1>5. Mapped' = <<>>
    <2>1. file \in 1 .. Len(Files)
      BY <1>1, PathsType DEF Inv, TypeOK, Stages
    <2>2. PICK f \in Seq(Nat) : f = FileTexts[file]
      BY <2>1, FileTextsAre
    <2>3. FirstChunks(f, 0) = <<>>
      <3>1. 0 * BUFFER_SIZE = 0
        BY SizesAssumption
      <3>2. (IF 0 * BUFFER_SIZE < Len(f) THEN 0 * BUFFER_SIZE ELSE Len(f)) = 0
        BY <3>1
      <3>3. SubSeq(f, 1, 0) = <<>>
        OBVIOUS
      <3> QED BY <3>2, <3>3 DEF FirstChunks
    <2> QED BY <1>1, <1>3, <2>2, <2>3 DEF Mapped
  <1>6. Covered'
    BY <1>1, <1>3, <1>4, <1>5 DEF OutInv, Covered
  <1>7. ResultsRight'
    BY <1>1 DEF OutInv, ResultsRight, Bytes
  <1> QED BY <1>1, <1>6, <1>7 DEF OutInv, PrintedWell

LEMMA StoreChunkOut ==
    ASSUME Inv, OutInv, status = "running", handleFile, StoreChunk
    PROVE  OutInv'
  <1>1. /\ hpc = "store"
        /\ UNCHANGED <<args, memory, Allpaths, file, chunk, size, listsize,
                       count, result>>
    BY DEF handleFile, StoreChunk
  <1>2. CASE ~(count < listsize)
    <2>1. status' = "undefined" /\ UNCHANGED <<bufferlist, hpc>>
      BY <1>2 DEF StoreChunk
    <2>2. OutFrame
      BY <1>1, <2>1 DEF OutFrame
    <2> QED BY <2>1, <2>2, OutStays
  <1>3. CASE count < listsize
    <2>1. /\ bufferlist' = [bufferlist EXCEPT ![count] =
                               [file |-> file, chunk |-> chunk]]
          /\ hpc' = "count" /\ status' = status
      BY <1>3 DEF StoreChunk
    <2>2. /\ DOMAIN bufferlist = 0 .. listsize - 1
          /\ count \in 0 .. listsize - 1
          /\ DOMAIN result = DOMAIN bufferlist
      BY <1>1, <1>3 DEF Inv, TypeOK, Stages
    <2>3. /\ bufferlist'[count] = [file |-> file, chunk |-> chunk]
          /\ \A n \in 0 .. listsize - 1 :
                 n # count => bufferlist'[n] = bufferlist[n]
      BY <2>1, <2>2
    <2>4. Files' = Files /\ FileTexts' = FileTexts
      BY <1>1, FilesStay DEF FileTexts
    <2>5. Mapped' = Mapped
      BY <1>1, <2>1, <2>4 DEF Mapped
    <2>6. ASSUME NEW n \in 1 .. count PROVE ListTexts'[n] = ListTexts[n]
      <3>1. n \in 1 .. listsize /\ n - 1 \in 0 .. listsize - 1 /\ n - 1 # count
        <4>1. count \in Nat /\ listsize \in Nat
          BY DEF Inv, TypeOK
        <4> QED BY <2>2, <4>1
      <3> QED BY <1>1, <2>3, <3>1 DEF ListTexts, ChunkText, Bytes
    <2>7. UpTo(ListTexts', count) = UpTo(ListTexts, count)
      BY <2>6, UpToSame
    <2>8. Covered'
      BY <1>1, <2>1, <2>3, <2>4, <2>5, <2>7 DEF OutInv, Covered
    <2>9. ResultsRight'
      <3>1. ASSUME NEW n \in 0 .. listsize - 1, result[n] # <<>>
            PROVE  /\ n < count
                   /\ Allpaths[bufferlist'[n].file].access = "ok"
                   /\ result[n] = compress(Bytes(bufferlist[n]))
                   /\ bufferlist'[n] = bufferlist[n]
        <4>1. /\ n < count /\ Allpaths[bufferlist[n].file].access = "ok"
              /\ result[n] = compress(Bytes(bufferlist[n]))
          BY <2>2, <3>1 DEF OutInv, ResultsRight
        <4>2. n # count
          BY <2>2, <4>1
        <4> QED BY <2>3, <4>1, <4>2
      <3> QED BY <1>1, <2>2, <3>1 DEF ResultsRight, Bytes
    <2> QED BY <1>1, <2>1, <2>8, <2>9 DEF OutInv, PrintedWell
  <1> QED BY <1>2, <1>3

LEMMA NoChunks == \A n \in Nat : FirstChunks(<<>>, n) = <<>>
  <1> SUFFICES ASSUME NEW n \in Nat PROVE FirstChunks(<<>>, n) = <<>>
    OBVIOUS
  <1>1. PICK m \in Nat : m = n * BUFFER_SIZE
    BY SizesAssumption
  <1>2. SubSeq(<<>>, 1, 0) = <<>> /\ Len(<<>>) = 0
    OBVIOUS
  <1> QED BY <1>1, <1>2 DEF FirstChunks

LEMMA FilesUpTo ==
    ASSUME Inv
    PROVE  \A k \in 0 .. Len(Files) : UpTo(FileTexts, k) \in Seq(Nat)
  <1> SUFFICES ASSUME NEW k \in 0 .. Len(Files)
               PROVE  UpTo(FileTexts, k) \in Seq(Nat)
    OBVIOUS
  <1>1. Len(Files) \in Nat
    BY Known DEF Inv
  <1>2. k \in Nat /\ \A n \in 1 .. k : n \in 1 .. Len(Files)
    BY <1>1
  <1>3. \A n \in 1 .. k : FileTexts[n] \in Seq(Nat)
    BY <1>2, FileTextsAre
  <1> QED BY <1>2, <1>3, UpToType

\* The chunk that is about to be counted follows what of its file is there.
LEMMA ChunkFollows ==
    ASSUME Inv, Covered, hpc = "count",
           NEW next, next = chunk + 1, NEW c, c = bufferlist[count]
    PROVE  /\ IsChunk(c) /\ ChunkText(c) \in Seq(Nat)
           /\ FirstChunks(FileTexts[file], chunk) \in Seq(Nat)
           /\ FirstChunks(FileTexts[file], next)
                = Cat(FirstChunks(FileTexts[file], chunk), ChunkText(c))
  <1>1. c.file = file /\ c.chunk = chunk
    BY DEF Covered
  <1>2. /\ Allpaths \in Seq(FileType) /\ Allpaths = Files
        /\ file \in 1 .. Len(Files) /\ chunk \in Nat /\ count < listsize
        /\ count \in Nat /\ listsize \in Nat
    BY PathsType DEF Inv, TypeOK, Stages
  <1>3. IsChunk(c)
    <2>1. count \in 0 .. listsize - 1
      BY <1>2
    <2> QED BY <2>1 DEF Inv, Listed
  <1>4. ChunkText(c) \in Seq(Nat)
    BY <1>2, <1>3, ChunkTextType
  <1>5. FileTexts[file] = Text(Files[file])
    BY <1>2, FileTextsAre
  <1>6. CASE Files[file].access = "ok"
    <2>1. PICK f : f = Allpaths[c.file].content
      OBVIOUS
    <2>2. FileTexts[file] = f
      BY <1>1, <1>2, <1>5, <1>6, <2>1 DEF Text
    <2>3. ChunkText(c) = Bytes(c) /\ Allpaths[c.file].access = "ok"
      BY <1>1, <1>2, <1>6 DEF ChunkText
    <2>4. next = c.chunk + 1
      BY <1>1
    <2>5. /\ FirstChunks(f, c.chunk) \in Seq(Nat)
          /\ FirstChunks(f, next) = Cat(FirstChunks(f, c.chunk), Bytes(c))
      BY <1>2, <1>3, <2>1, <2>3, <2>4, BytesAre
    <2> QED BY <1>1, <1>3, <1>4, <2>2, <2>3, <2>5
  <1>7. CASE Files[file].access # "ok"
    <2>1. FileTexts[file] = <<>> /\ ChunkText(c) = <<>>
      BY <1>1, <1>2, <1>5, <1>7 DEF Text, ChunkText
    <2>2. FirstChunks(<<>>, chunk) = <<>> /\ FirstChunks(<<>>, next) = <<>>
      <3>1. next \in Nat
        BY <1>2
      <3> QED BY <1>2, <3>1, NoChunks
    <2>3. Cat(<<>>, <<>>) = <<>> /\ <<>> \in Seq(Nat)
      BY DEF Cat
    <2> QED BY <1>3, <1>4, <2>1, <2>2, <2>3
  <1> QED BY <1>6, <1>7

LEMMA CountChunkOut ==
    ASSUME Inv, OutInv, status = "running", handleFile, CountChunk
    PROVE  OutInv'
  <1>1. /\ hpc = "count" /\ hpc' = "store" /\ count' = count + 1
        /\ chunk' = chunk + 1
        /\ UNCHANGED <<args, memory, Allpaths, file, listsize, bufferlist,
                       result, status>>
    BY DEF CountChunk, handleFile
  <1>2. Files' = Files
    BY <1>1, FilesStay
  <1>3. ListTexts' = ListTexts /\ FileTexts' = FileTexts
    BY <1>1, <1>2 DEF ListTexts, FileTexts, ChunkText, Bytes
  <1>4. PICK next, c, k : next = chunk + 1 /\ c = bufferlist[count]
                          /\ k = count + 1
    OBVIOUS
  <1>5. /\ count \in Nat /\ listsize \in Nat /\ count < listsize
        /\ file \in 1 .. Len(Files) /\ Len(Files) \in Nat
    BY <1>1, PathsType, Known DEF Inv, TypeOK, Stages
  <1>6. PICK x, y, z : /\ x = UpTo(FileTexts, file - 1)
                       /\ y = FirstChunks(FileTexts[file], chunk)
                       /\ z = ChunkText(c)
    OBVIOUS
  <1>7. /\ z \in Seq(Nat) /\ y \in Seq(Nat)
        /\ FirstChunks(FileTexts[file], next) = Cat(y, z)
    BY <1>1, <1>4, <1>6, ChunkFollows DEF OutInv
  <1>8. x \in Seq(Nat)
    <2>1. file - 1 \in 0 .. Len(Files)
      BY <1>5
    <2> QED BY <1>6, <2>1, FilesUpTo
  <1>9. UpTo(ListTexts, count) = Cat(x, y)
    BY <1>1, <1>6 DEF OutInv, Covered, Mapped
  <1>10. UpTo(ListTexts, k) = Cat(UpTo(ListTexts, count), z)
    <2>1. k \in 1 .. listsize /\ k - 1 = count
      BY <1>4, <1>5
    <2>2. ListTexts[k] = z
      BY <1>4, <1>6, <2>1 DEF ListTexts
    <2>3. ASSUME NEW n \in 1 .. k PROVE ListTexts[n] \in Seq(Nat)
      <3>1. n \in 1 .. count \/ n = k
        BY <1>4, <1>5
      <3> QED BY <1>7, <2>2, <3>1, ListTextsAre
    <2> QED BY <1>4, <1>5, <2>2, <2>3, UpToNext
  <1>11. UpTo(ListTexts, k) = Cat(x, Cat(y, z))
    BY <1>7, <1>8, <1>9, <1>10, Associative
  <1>12. Covered'
    <2>1. Mapped' = Cat(y, z)
      BY <1>1, <1>3, <1>4, <1>7 DEF Mapped
    <2> QED BY <1>1, <1>3, <1>4, <1>6, <1>11, <2>1 DEF Covered
  <1>13. ResultsRight'
    <2>1. ASSUME NEW n \in DOMAIN result, result[n] # <<>>
          PROVE  /\ n < count + 1
                 /\ Allpaths[bufferlist[n].file].access = "ok"
                 /\ result[n] = compress(Bytes(bufferlist[n]))
      <3>1. DOMAIN result = 0 .. listsize - 1
        BY <1>1 DEF Inv, TypeOK, Stages
      <3>2. n < count
        BY <2>1 DEF OutInv, ResultsRight
      <3>3. n < count + 1
        BY <1>5, <3>1, <3>2
      <3> QED BY <2>1, <3>3 DEF OutInv, ResultsRight
    <2> QED BY <1>1, <2>1 DEF ResultsRight, Bytes
  <1> QED BY <1>1, <1>12, <1>13 DEF OutInv, PrintedWell

LEMMA ArriveOut ==
    ASSUME Inv, OutInv, status = "running", handleFile, Arrive PROVE OutInv'
  <1>1. OutFrame /\ status' = status
    BY DEF handleFile, Arrive, hvars, OutFrame
  <1> QED BY <1>1, OutStays

\* The chunks of a file hold all of it.
LEMMA AllChunks ==
    ASSUME NEW f \in Seq(Nat), NEW n, n = NumOfBuffer(Len(f))
    PROVE  FirstChunks(f, n) = f
  <1>1. PICK L \in Nat, B \in Nat \ {0} : L = Len(f) /\ B = BUFFER_SIZE
    BY SizesAssumption
  <1>2. PICK q, r : q = L \div B /\ r = L % B
    OBVIOUS
  <1>3. q \in Nat /\ r \in Nat /\ L = B * q + r /\ r < B
    BY <1>1, <1>2
  <1>4. n = q + (IF r > 0 THEN 1 ELSE 0)
    BY <1>1, <1>2 DEF NumOfBuffer
  <1>5. ~(n * B < L)
    <2>1. CASE r > 0
      <3>1. n = q + 1
        BY <1>4, <2>1
      <3>2. (q + 1) * B = B * q + B /\ B * q \in Nat
        BY <1>1, <1>3
      <3>3. PICK t \in Nat : t = B * q
        BY <3>2
      <3>4. n * B = t + B /\ L = t + r
        BY <1>3, <3>1, <3>2, <3>3
      <3>5. ~(t + B < t + r)
        BY <1>1, <1>3
      <3> QED BY <3>4, <3>5
    <2>2. CASE ~(r > 0)
      <3>1. n = q /\ r = 0
        BY <1>3, <1>4, <2>2
      <3>2. q * B = B * q /\ B * q \in Nat
        BY <1>1, <1>3
      <3>3. PICK t \in Nat : t = B * q
        BY <3>2
      <3>4. n * B = t /\ L = t
        BY <1>3, <3>1, <3>2, <3>3
      <3> QED BY <3>4
    <2> QED BY <2>1, <2>2
  <1>6. SubSeq(f, 1, Len(f)) = f
    OBVIOUS
  <1> QED BY <1>1, <1>5, <1>6 DEF FirstChunks

LEMMA NextFileOut ==
    ASSUME Inv, OutInv, status = "running", handleFile, NextFile PROVE OutInv'
  <1>1. /\ hpc = "store" /\ hpc' = "map" /\ file' = file + 1
        /\ chunk = NumOfBuffer(size)
        /\ UNCHANGED <<args, memory, Allpaths, listsize, bufferlist, count,
                       result, status>>
    BY DEF NextFile, handleFile, list
  <1>2. Files' = Files
    BY <1>1, FilesStay
  <1>3. ListTexts' = ListTexts /\ FileTexts' = FileTexts
    BY <1>1, <1>2 DEF ListTexts, FileTexts, ChunkText, Bytes
  <1>4. /\ Allpaths = Files /\ file \in 1 .. Len(Files) /\ Len(Files) \in Nat
        /\ size \in Nat
        /\ Files[file].access # "missing" => size = Len(Files[file].content)
    BY <1>1, Known DEF Inv, TypeOK, Stages
  <1>5. FileTexts[file] \in Seq(Nat) /\ FileTexts[file] = Text(Files[file])
    BY <1>4, FileTextsAre
  <1>6. FirstChunks(FileTexts[file], chunk) = FileTexts[file]
    <2>1. CASE Files[file].access = "ok"
      <3>1. FileTexts[file] = Files[file].content
        BY <1>5, <2>1 DEF Text
      <3>2. chunk = NumOfBuffer(Len(FileTexts[file]))
        BY <1>1, <1>4, <2>1, <3>1
      <3> QED BY <1>5, <3>2, AllChunks
    <2>2. CASE Files[file].access # "ok"
      <3>1. chunk \in Nat
        BY DEF Inv, TypeOK
      <3> QED BY <1>5, <2>2, <3>1, NoChunks DEF Text
    <2> QED BY <2>1, <2>2
  <1>7. PICK m \in Nat : m = file - 1
    BY <1>4
  <1>8. UpTo(FileTexts, file) = Cat(UpTo(FileTexts, m), FileTexts[file])
    <2>1. file = m + 1
      BY <1>4, <1>7
    <2>2. ASSUME NEW n \in 1 .. file PROVE FileTexts[n] \in Seq(Nat)
      <3>1. n \in 1 .. Len(Files)
        BY <1>4
      <3> QED BY <3>1, FileTextsAre
    <2> QED BY <2>1, <2>2, UpToNext
  <1>9. UpTo(ListTexts, count) = UpTo(FileTexts, file)
    BY <1>1, <1>6, <1>7, <1>8 DEF OutInv, Covered, Mapped
  <1>10. Covered'
    <2>1. file' - 1 = file
      BY <1>1, <1>4
    <2>2. Mapped' = <<>>
      BY <1>1 DEF Mapped
    <2>3. Cat(UpTo(FileTexts, file), <<>>) = UpTo(FileTexts, file)
      <3>1. file \in 0 .. Len(Files)
        BY <1>4
      <3>2. PICK x \in Seq(Nat) : x = UpTo(FileTexts, file)
        BY <3>1, FilesUpTo
      <3>3. x \o <<>> = x
        OBVIOUS
      <3> QED BY <3>2, <3>3 DEF Cat
    <2> QED BY <1>1, <1>3, <1>9, <2>1, <2>2, <2>3 DEF Covered
  <1>11. ResultsRight'
    BY <1>1 DEF OutInv, ResultsRight, Bytes
  <1> QED BY <1>1, <1>10, <1>11 DEF OutInv, PrintedWell

LEMMA FinishOut ==
    ASSUME Inv, OutInv, status = "running", handleFile, Finish PROVE OutInv'
  <1>1. /\ hpc = "map" /\ hpc' = "done" /\ file > Len(Allpaths)
        /\ UNCHANGED <<args, memory, Allpaths, file, listsize, bufferlist,
                       count, result, status>>
    BY DEF Finish, handleFile
  <1>2. Files' = Files
    BY <1>1, FilesStay
  <1>3. ListTexts' = ListTexts /\ FileTexts' = FileTexts
    BY <1>1, <1>2 DEF ListTexts, FileTexts, ChunkText, Bytes
  <1>4. Mapped = <<>> /\ Mapped' = <<>>
    BY <1>1 DEF Mapped
  <1>5. file = Len(Files) + 1
    <2>1. /\ Allpaths = Files /\ file \in 1 .. Len(Allpaths) + 1
          /\ Len(Files) \in Nat
      BY <1>1, Known DEF Inv, TypeOK, Stages
    <2> QED BY <1>1, <2>1
  <1>6. Covered'
    BY <1>1, <1>2, <1>3, <1>4, <1>5 DEF OutInv, Covered
  <1>7. ResultsRight'
    BY <1>1 DEF OutInv, ResultsRight, Bytes
  <1> QED BY <1>1, <1>6, <1>7 DEF OutInv, PrintedWell

\* The steps of the workers that compress nothing.
LEMMA WorkerOut ==
    ASSUME OutInv, NEW w \in Workers, WorkerFrame,
           Claim(w) \/ TestIndex(w) \/ TestFinish(w), printed' = printed
    PROVE  OutInv'
  <1>1. result' = result /\ status' = status
    BY DEF Claim, TestIndex, TestFinish
  <1>2. OutFrame
    BY <1>1 DEF WorkerFrame, OutFrame
  <1> QED BY <1>1, <1>2, OutStays

LEMMA CompressOut ==
    ASSUME Inv, OutInv, status = "running", NEW w \in Workers, Compress(w),
           WorkerFrame, printed' = printed
    PROVE  OutInv'
  <1>1. PICK n, c : n = do_index[w] /\ c = bufferlist[n]
    OBVIOUS
  <1>2. CASE ~(n \notin arriving /\ Allpaths[c.file].access = "ok")
    <2>1. result' = result /\ status' # "printed"
      BY <1>1, <1>2 DEF Compress
    <2>2. OutFrame
      BY <2>1 DEF OutFrame, WorkerFrame
    <2> QED BY <2>1, <2>2, OutStays
  <1>3. CASE n \notin arriving /\ Allpaths[c.file].access = "ok"
    <2>1. /\ result' = [result EXCEPT ![n] = compress(Bytes(c))]
          /\ status' = status
      BY <1>1, <1>3 DEF Compress
    <2>2. /\ args' = args /\ memory' = memory /\ Allpaths' = Allpaths
          /\ hpc' = hpc /\ file' = file /\ chunk' = chunk
          /\ listsize' = listsize /\ bufferlist' = bufferlist
          /\ count' = count
      BY DEF WorkerFrame
    <2>3. Files' = Files
      BY <2>2, FilesStay
    <2>4. Covered'
      <3>1. ListTexts' = ListTexts /\ FileTexts' = FileTexts
        BY <2>2, <2>3 DEF ListTexts, FileTexts, ChunkText, Bytes
      <3>2. Mapped' = Mapped
        BY <2>2, <3>1 DEF Mapped
      <3> QED BY <2>2, <2>3, <3>1, <3>2 DEF OutInv, Covered
    <2>5. n < count
      <3>1. n < index_cthread /\ n \in Nat
        BY <1>1 DEF Inv, Taken, TypeOK, Compress
      <3>2. index_cthread \in 0 .. count /\ count \in Nat
        BY DEF Inv, TypeOK
      <3> QED BY <3>1, <3>2
    <2>6. ResultsRight'
      <3>1. ASSUME NEW k \in DOMAIN result, result'[k] # <<>>
            PROVE  /\ k < count /\ Allpaths[bufferlist[k].file].access = "ok"
                   /\ result'[k] = compress(Bytes(bufferlist[k]))
        <4>1. CASE k = n
          BY <1>1, <1>3, <2>1, <2>5, <4>1
        <4>2. CASE k # n
          <5>1. result'[k] = result[k]
            BY <2>1, <4>2
          <5> QED BY <3>1, <5>1 DEF OutInv, ResultsRight
        <4> QED BY <4>1, <4>2
      <3>2. DOMAIN result' = DOMAIN result
        BY <2>1
      <3> QED BY <2>2, <3>1, <3>2 DEF ResultsRight, Bytes
    <2>7. PrintedWell'
      BY <2>1 DEF PrintedWell
    <2> QED BY <2>4, <2>6, <2>7 DEF OutInv
  <1> QED BY <1>2, <1>3

\* main prints what the chunks compress to, and they are all there.
LEMMA OutputOut ==
    ASSUME Inv, OutInv, status = "running", output PROVE OutInv'
  <1>1. OutFrame /\ hpc = "done"
    BY DEF output, OutFrame, hvars, list, work
  <1>2. CASE \E n \in 0 .. listsize - 1 : result[n] = <<>>
    <2>1. status' # "printed"
      BY <1>2 DEF output
    <2> QED BY <1>1, <2>1, OutStays
  <1>3. CASE \A n \in 0 .. listsize - 1 : result[n] # <<>>
    <2>1. /\ status' = "printed" /\ printed' = OutputOf
          /\ UNCHANGED <<args, memory, Allpaths, hvars, list, work>>
      BY <1>3 DEF output
    <2>2. PICK N \in Nat : N = listsize
      BY DEF Inv, TypeOK
    <2>3. /\ DOMAIN result = 0 .. N - 1 /\ count \in 0 .. N
          /\ Allpaths \in Seq(FileType)
      BY <1>1, <2>2, PathsType DEF Inv, TypeOK, Stages
    <2>4. \A n \in 0 .. N - 1 :
              /\ n < count
              /\ Allpaths[bufferlist[n].file].access = "ok"
              /\ result[n] = compress(Bytes(bufferlist[n]))
      BY <1>3, <2>2, <2>3 DEF OutInv, ResultsRight
    <2>5. count = N
      <3>1. CASE N = 0
        BY <2>3, <3>1
      <3>2. CASE N # 0
        <4>1. N - 1 \in 0 .. N - 1
          BY <3>2
        <4>2. N - 1 < count
          BY <2>4, <4>1
        <4> QED BY <2>3, <4>2
      <3> QED BY <3>1, <3>2
    <2>6. PICK texts : texts = [n \in 1 .. N |-> ListTexts[n]]
      OBVIOUS
    <2>7. \A n \in 1 .. N : /\ IsChunk(bufferlist[n - 1])
                            /\ ListTexts[n] = ChunkText(bufferlist[n - 1])
                            /\ ListTexts[n] \in Seq(Nat)
      BY <2>5, ListTextsAre
    <2>8. texts \in Seq(Seq(Nat)) /\ Len(texts) = N
      <3>1. texts \in Seq(Seq(Nat))
        BY <2>6, <2>7, UpToType
      <3> QED BY <2>6, <3>1
    <2>9. ASSUME NEW i \in 0 .. N - 1
          PROVE  /\ result[i] \in Seq(RunsOver(Nat)) /\ result[i] # <<>>
                 /\ IsRunLengthOf(result[i], texts[i + 1])
      <3>1. PICK c, k : c = bufferlist[i] /\ k = i + 1
        OBVIOUS
      <3>2. k \in 1 .. N /\ k - 1 = i
        BY <3>1
      <3>3. IsChunk(c) /\ texts[k] = ChunkText(c)
        BY <2>6, <2>7, <3>1, <3>2
      <3>4. Allpaths[c.file].access = "ok" /\ result[i] = compress(Bytes(c))
        BY <2>4, <3>1
      <3>5. texts[k] = Bytes(c)
        BY <3>3, <3>4 DEF ChunkText
      <3>6. Bytes(c) \in Seq(Nat) /\ Bytes(c) # <<>>
        <4>1. PICK f, next : f = Allpaths[c.file].content
                             /\ next = c.chunk + 1
          OBVIOUS
        <4> QED BY <2>3, <3>3, <3>4, <4>1, BytesAre
      <3>7. /\ compress(Bytes(c)) \in Seq(RunsOver(Nat))
            /\ compress(Bytes(c)) # <<>>
            /\ IsRunLengthOf(compress(Bytes(c)), Bytes(c))
        BY <3>6, CompressIs
      <3> QED BY <3>1, <3>4, <3>5, <3>7
    <2>10. AllCompressed(texts)
      BY <2>2, <2>8, <2>9 DEF AllCompressed
    <2>11. /\ OutputOf \in Seq(RunsOver(Nat))
           /\ IsRunLengthOf(OutputOf, FlattenSeq(texts))
      BY <2>2, <2>10, OutputOfIs
    <2>12. FlattenSeq(texts) = UpTo(ListTexts, count)
      BY <2>5, <2>6 DEF UpTo
    <2>13. UpTo(ListTexts, count) = Everything
      <3>1. file = Len(Files) + 1 /\ Len(Files) \in Nat
        BY <1>1, Known DEF OutInv, Covered, Inv
      <3>2. file - 1 = Len(Files)
        BY <3>1
      <3>3. UpTo(ListTexts, count) = Cat(UpTo(FileTexts, Len(Files)), <<>>)
        BY <1>1, <3>2 DEF OutInv, Covered, Mapped
      <3>4. PICK x \in Seq(Nat) : x = UpTo(FileTexts, Len(Files))
        <4>1. Len(Files) \in 0 .. Len(Files)
          BY <3>1
        <4> QED BY <4>1, FilesUpTo
      <3>5. x \o <<>> = x
        OBVIOUS
      <3>6. x = Everything
        <4>1. [n \in 1 .. Len(Files) |-> FileTexts[n]] = FileTexts
          BY DEF FileTexts
        <4> QED BY <3>4, <4>1 DEF UpTo, FileTexts, Everything
      <3> QED BY <3>3, <3>4, <3>5, <3>6 DEF Cat
    <2>14. Everything' = Everything
      <3>1. Files' = Files
        BY <2>1, FilesStay
      <3> QED BY <3>1 DEF Everything
    <2>15. PrintedWell'
      BY <2>1, <2>11, <2>12, <2>13, <2>14 DEF PrintedWell
    <2>16. Covered' /\ ResultsRight'
      <3>1. /\ args' = args /\ memory' = memory /\ Allpaths' = Allpaths
            /\ hpc' = hpc /\ file' = file /\ chunk' = chunk
            /\ listsize' = listsize /\ bufferlist' = bufferlist
            /\ count' = count /\ result' = result
        BY <1>1 DEF OutFrame
      <3>2. Files' = Files
        BY <3>1, FilesStay
      <3>3. ListTexts' = ListTexts /\ FileTexts' = FileTexts
        BY <3>1, <3>2 DEF ListTexts, FileTexts, ChunkText, Bytes
      <3>4. Mapped' = Mapped
        BY <3>1, <3>3 DEF Mapped
      <3> QED BY <3>1, <3>2, <3>3, <3>4
              DEF OutInv, Covered, ResultsRight, Bytes
    <2> QED BY <2>15, <2>16 DEF OutInv
  <1> QED BY <1>2, <1>3

LEMMA OutNext == Inv /\ OutInv /\ [Next]_vars => OutInv'
  <1> SUFFICES ASSUME Inv, OutInv, [Next]_vars PROVE OutInv'
    OBVIOUS
  <1>1. CASE UNCHANGED vars
    <2>1. OutFrame /\ UNCHANGED <<status, printed>>
      BY <1>1 DEF vars, OutFrame, hvars, list, work
    <2> QED BY <2>1, OutStays
  <1>2. ASSUME status = "running", Start PROVE OutInv'
    BY <1>2, StartOutInv
  <1>3. ASSUME status = "running", handleFile PROVE OutInv'
    <2>1. \/ SizeFile \/ bufferlist_init \/ MapFile \/ StoreChunk
          \/ CountChunk \/ Arrive \/ NextFile \/ Finish
      BY <1>3 DEF handleFile
    <2> QED BY <1>3, <2>1, SizeFileOut, BufferlistInitOut, MapFileOut,
               StoreChunkOut, CountChunkOut, ArriveOut, NextFileOut, FinishOut
  <1>4. ASSUME status = "running", NEW w \in Workers, compressText(w)
        PROVE  OutInv'
    <2>1. WorkerFrame /\ printed' = printed
      BY <1>4 DEF compressText, WorkerFrame, hvars, list
    <2>2. Claim(w) \/ Compress(w) \/ TestIndex(w) \/ TestFinish(w)
      BY <1>4 DEF compressText
    <2> QED BY <1>4, <2>1, <2>2, WorkerOut, CompressOut
  <1>5. ASSUME status = "running", output PROVE OutInv'
    BY <1>5, OutputOut
  <1> QED BY <1>1, <1>2, <1>3, <1>4, <1>5 DEF Next

LEMMA OutSaysSo == OutInv => PrintedIsCompressed
  BY DEF OutInv, PrintedWell, PrintedIsCompressed

-----------------------------------------------------------------------------
(* Pzip: the strings of the files.                                         *)

NoZero(bytes) == \A n \in 1 .. Len(bytes) : bytes[n] # 0

\* A string is as long as its bytes at most, and is them if there is no 0.
LEMMA StringIs ==
    ASSUME NEW bytes \in Seq(Nat)
    PROVE  /\ FourChunks!StringOf(bytes) \in Seq(Nat)
           /\ Len(FourChunks!StringOf(bytes)) <= Len(bytes)
           /\ FourChunks!StringOf(bytes) = bytes <=> NoZero(bytes)
  <1>1. CASE NoZero(bytes)
    <2>1. FourChunks!StringOf(bytes) = bytes
      BY <1>1 DEF FourChunks!StringOf, NoZero
    <2>2. Len(bytes) <= Len(bytes)
      OBVIOUS
    <2> QED BY <1>1, <2>1, <2>2
  <1>2. CASE ~NoZero(bytes)
    <2> DEFINE I == {i \in 1 .. Len(bytes) : bytes[i] = 0}
    <2>1. I # {}
      BY <1>2 DEF NoZero
    <2>2. PICK m \in I : \A k \in I : m <= k
      <3>1. I \in SUBSET Nat
        OBVIOUS
      <3> QED BY <2>1, <3>1, Least
    <2>3. FourChunks!Min(I) \in I
      BY <2>2 DEF FourChunks!Min
    <2>4. FourChunks!SelectInSeq(bytes, LAMBDA c : c = 0) = FourChunks!Min(I)
      BY <2>1 DEF FourChunks!SelectInSeq
    <2>5. PICK n \in 1 .. Len(bytes) : n = FourChunks!Min(I)
      BY <2>3
    <2>6. FourChunks!StringOf(bytes) = SubSeq(bytes, 1, n - 1)
      BY <1>2, <2>4, <2>5 DEF FourChunks!StringOf, NoZero
    <2>7. /\ SubSeq(bytes, 1, n - 1) \in Seq(Nat)
          /\ Len(SubSeq(bytes, 1, n - 1)) = n - 1 /\ n - 1 < Len(bytes)
      <3> HIDE DEF I
      <3> QED BY <2>5
    <2>8. n - 1 <= Len(bytes) /\ Len(bytes) \in Nat /\ n - 1 # Len(bytes)
      <3> HIDE DEF I
      <3> QED BY <2>5
    <2> HIDE DEF I
    <2> QED BY <1>2, <2>6, <2>7, <2>8
  <1> QED BY <1>1, <1>2

AppendState == [file_len : Nat, total_len : Nat, buffer : Seq(Nat)]

NothingYet == [file_len |-> 0, total_len |-> 0, buffer |-> <<>>]

LEMMA NothingYetType == NothingYet \in AppendState
  <1>1. <<>> \in Seq(Nat)
    OBVIOUS
  <1> QED BY <1>1 DEF NothingYet, AppendState

LEMMA AppendIs ==
    ASSUME NEW s \in AppendState, NEW f \in Seq(Nat)
    PROVE  /\ FourChunks!AppendFile(s, f) \in AppendState
           /\ FourChunks!AppendFile(s, f).total_len = s.total_len + Len(f)
           /\ FourChunks!AppendFile(s, f).buffer
                = s.buffer \o FourChunks!StringOf(f)
  <1>1. f # CannotOpen
    BY CommandsAssumption
  <1>2. PICK str, b : str = FourChunks!StringOf(f) /\ b = s.buffer \o str
    OBVIOUS
  <1>3. FourChunks!AppendFile(s, f) =
            [file_len |-> Len(f), total_len |-> s.total_len + Len(f),
             buffer |-> b]
    BY <1>1, <1>2 DEF FourChunks!AppendFile
  <1>4. str \in Seq(Nat)
    BY <1>2, StringIs
  <1>5. b \in Seq(Nat)
    BY <1>2, <1>4 DEF AppendState
  <1>6. Len(f) \in Nat /\ s.total_len \in Nat
    BY DEF AppendState
  <1>7. s.total_len + Len(f) \in Nat
    BY <1>6
  <1> QED BY <1>2, <1>3, <1>5, <1>6, <1>7 DEF AppendState

\* The values of the recursive function in AllAppended.
Appends(g) == g = [n \in 0 .. Len(mmapped) |->
                      IF n = 0 THEN NothingYet
                      ELSE FourChunks!AppendFile(g[n - 1], mmapped[n])]

LEMMA AppendsExists ==
    ASSUME mmapped \in Seq(Seq(Nat)) PROVE \E g : Appends(g)
  <1>1. PICK N, m : N = Len(mmapped) /\ m = mmapped
    OBVIOUS
  <1>2. N \in Nat /\ \A n \in 1 .. N : m[n] \in Seq(Nat)
    BY <1>1
  <1>3. PICK go : go = [is \in (1 .. N) \X AppendState |->
                           FourChunks!AppendFile(is[2], m[is[1]])]
    OBVIOUS
  <1>4. go \in [(1 .. N) \X AppendState -> AppendState]
    BY <1>2, <1>3, AppendIs
  <1>5. PICK f : Recurs(f, N, AppendState, NothingYet, go)
    BY <1>2, <1>4, NothingYetType, RecursionExists
  <1>6. ASSUME NEW n \in 1 .. N
        PROVE  f[n] = FourChunks!AppendFile(f[n - 1], m[n])
    <2>1. n - 1 \in 0 .. N
      BY <1>2
    <2>2. f[n - 1] \in AppendState
      BY <1>5, <2>1 DEF Recurs
    <2>3. <<n, f[n - 1]>> \in (1 .. N) \X AppendState
      BY <2>2
    <2> QED BY <1>3, <1>5, <2>3 DEF Recurs
  <1>7. PICK h : h = [n \in 0 .. N |->
                         IF n = 0 THEN NothingYet
                         ELSE FourChunks!AppendFile(f[n - 1], m[n])]
    OBVIOUS
  <1>8. f = [n \in 0 .. N |-> f[n]] /\ h = [n \in 0 .. N |-> h[n]]
    BY <1>5, <1>7 DEF Recurs
  <1>9. \A n \in 0 .. N : f[n] = h[n]
    BY <1>2, <1>5, <1>6, <1>7 DEF Recurs
  <1>10. f = h
    BY <1>8, <1>9, SameValues, Zenon
  <1> QED BY <1>1, <1>7, <1>10 DEF Appends

LEMMA AppendedIs ==
    ASSUME mmapped \in Seq(Seq(Nat))
    PROVE  \E s \in AppendState :
               /\ FourChunks!AllAppended = s
               /\ s.total_len = Len(FlattenSeq(mmapped))
               /\ Len(s.buffer) <= s.total_len
               /\ NoZero(FlattenSeq(mmapped)) => s.buffer = FlattenSeq(mmapped)
  <1>1. PICK N, m : N = Len(mmapped) /\ m = mmapped
    OBVIOUS
  <1>2. /\ N \in Nat /\ N = Len(m) /\ m \in Seq(Seq(Nat))
        /\ \A n \in 1 .. N : m[n] \in Seq(Nat)
    BY <1>1
  <1>3. PICK g : Appends(g) /\ FourChunks!AllAppended = g[N]
    <2> DEFINE g == CHOOSE f : Appends(f)
    <2>1. Appends(g)
      BY AppendsExists
    <2>2. FourChunks!AllAppended = g[N]
      BY <1>1 DEF FourChunks!AllAppended, Appends, NothingYet
    <2> QED BY <2>1, <2>2
  <1> DEFINE Flat(n) == FlattenSeq(SubSeq(m, 1, n))
             Good(n) == /\ g[n] \in AppendState
                        /\ g[n].total_len = Len(Flat(n))
                        /\ Len(g[n].buffer) <= g[n].total_len
                        /\ NoZero(Flat(n)) => g[n].buffer = Flat(n)
             T == {n \in 0 .. N : ~Good(n)}
  <1>4. SubSeq(m, 1, 0) = <<>> /\ SubSeq(m, 1, N) = m
    BY <1>2
  <1>5. ASSUME T # {} PROVE FALSE
    <2>1. T \in SUBSET Nat
      BY <1>2
    <2>2. PICK n \in T : \A k \in T : n <= k
      BY <1>5, <2>1, Least
    <2>3. n # 0
      <3> SUFFICES ASSUME n = 0 PROVE FALSE
        OBVIOUS
      <3>1. g[0] = NothingYet
        BY <1>1, <1>2, <1>3 DEF Appends
      <3>2. Flat(0) = <<>>
        BY <1>4, FlattenEmpty
      <3>3. Len(<<>>) = 0
        OBVIOUS
      <3>4. Good(0)
        BY <3>1, <3>2, <3>3, NothingYetType DEF NothingYet
      <3> QED BY <3>4
    <2>4. n \in 1 .. N /\ n - 1 \in 0 .. N
      BY <1>2, <2>3
    <2>5. n - 1 \notin T
      BY <2>2, <2>4
    <2>6. g[n] = FourChunks!AppendFile(g[n - 1], m[n])
      BY <1>1, <1>3, <2>3, <2>4 DEF Appends
    <2>7. PICK s, f, x : s = g[n - 1] /\ f = m[n] /\ x = Flat(n - 1)
      OBVIOUS
    <2>8. Flat(n) = x \o f
      BY <1>2, <2>4, <2>7, FlattenSubSeq
    <2>9. f \in Seq(Nat) /\ x \in Seq(Nat)
      <3>1. SubSeq(m, 1, n - 1) \in Seq(Seq(Nat))
        BY <1>2, <2>4
      <3> QED BY <1>2, <2>4, <2>7, <3>1, FlattenType
    <2>10. /\ s \in AppendState /\ s.total_len = Len(x)
           /\ Len(s.buffer) <= s.total_len
           /\ NoZero(x) => s.buffer = x
      BY <2>4, <2>5, <2>7
    <2> HIDE DEF Flat, T
    <2>11. PICK str : str = FourChunks!StringOf(f)
      OBVIOUS
    <2>12. /\ str \in Seq(Nat) /\ Len(str) <= Len(f)
           /\ str = f <=> NoZero(f)
      BY <2>9, <2>11, StringIs
    <2>13. /\ g[n] \in AppendState
           /\ g[n].total_len = Len(x) + Len(f)
           /\ g[n].buffer = s.buffer \o str
      <3>1. PICK a : a = FourChunks!AppendFile(s, f)
        OBVIOUS
      <3>2. s \in AppendState /\ f \in Seq(Nat) /\ s.total_len = Len(x)
        BY <2>9, <2>10
      <3>3. /\ a \in AppendState /\ a.total_len = s.total_len + Len(f)
            /\ a.buffer = s.buffer \o str
        BY <2>11, <3>1, <3>2, AppendIs
      <3>4. g[n] = a
        BY <2>6, <2>7, <3>1
      <3> QED BY <3>2, <3>3, <3>4
    <2>14. s.buffer \in Seq(Nat) /\ s.total_len \in Nat
      BY <2>10 DEF AppendState
    <2>15. Len(s.buffer \o str) <= Len(x) + Len(f)
      BY <2>9, <2>10, <2>12, <2>14
    <2>16. Len(x \o f) = Len(x) + Len(f)
      BY <2>9
    <2>17. ASSUME NoZero(x \o f) PROVE s.buffer \o str = x \o f
      <3>1. NoZero(x) /\ NoZero(f)
        <4>1. \A k \in 1 .. Len(x) : /\ (x \o f)[k] = x[k]
                                     /\ k \in 1 .. Len(x \o f)
          BY <2>9
        <4>2. \A k \in 1 .. Len(f) : /\ (x \o f)[Len(x) + k] = f[k]
                                     /\ Len(x) + k \in 1 .. Len(x \o f)
          BY <2>9
        <4> QED BY <2>17, <4>1, <4>2 DEF NoZero
      <3> QED BY <2>10, <2>12, <3>1
    <2>18. Good(n)
      BY <2>8, <2>13, <2>15, <2>16, <2>17
    <2> QED BY <2>2, <2>18 DEF T
  <1>6. Good(N)
    <2>1. N \in 0 .. N
      BY <1>2
    <2> QED BY <1>5, <2>1
  <1> QED BY <1>1, <1>3, <1>4, <1>6

-----------------------------------------------------------------------------
(* datazip.                                                                *)

LEMMA SameRunLength ==
    /\ \A n, c : FourChunks!Run(n, c) = Run(n, c)
    /\ \A runs, bytes :
           FourChunks!IsRunLengthOf(runs, bytes) <=> IsRunLengthOf(runs, bytes)
    /\ \A s : FourChunks!FlattenSeq(s) = FlattenSeq(s)
  BY DEF FourChunks!Run, Run, FourChunks!IsRunLengthOf, IsRunLengthOf,
         FourChunks!Expand, Expand, FourChunks!Stretch, Stretch,
         FourChunks!FlattenSeq, FlattenSeq

ZipState == [runs : Seq(RunsOver(Nat)), count : Nat \ {0}]

NoRuns == [runs |-> <<>>, count |-> 1]

LEMMA NoRunsType == NoRuns \in ZipState
  <1>1. <<>> \in Seq(RunsOver(Nat))
    OBVIOUS
  <1> QED BY <1>1 DEF NoRuns, ZipState

\* The runs are those of the bytes but for the last, which is open.
ZipIs(s, c, bytes) == IsRunLengthOf(Append(s.runs, Run(s.count, c)), bytes)

LEMMA CompareType ==
    ASSUME NEW s \in ZipState, NEW c \in Nat, NEW d \in Nat
    PROVE  FourChunks!CompareBytes(s, c, d) \in ZipState
  <1>1. s.runs \in Seq(RunsOver(Nat)) /\ s.count \in Nat \ {0}
    BY DEF ZipState
  <1>2. CASE c = d
    <2>1. FourChunks!CompareBytes(s, c, d) = [s EXCEPT !.count = s.count + 1]
      BY <1>2 DEF FourChunks!CompareBytes
    <2>2. s.count + 1 \in Nat \ {0}
      BY <1>1
    <2> QED BY <2>1, <2>2 DEF ZipState
  <1>3. CASE c # d
    <2>1. PICK U, r : U = RunsOver(Nat) /\ r = Run(s.count, c)
      OBVIOUS
    <2>2. r \in U
      BY <1>1, <2>1, RunLemma
    <2>3. PICK rs : rs = Append(s.runs, r)
      OBVIOUS
    <2>4. rs \in Seq(U)
      BY <1>1, <2>1, <2>2, <2>3
    <2>5. FourChunks!CompareBytes(s, c, d) = [runs |-> rs, count |-> 1]
      BY <1>3, <2>1, <2>3, SameRunLength DEF FourChunks!CompareBytes
    <2> QED BY <2>1, <2>4, <2>5 DEF ZipState
  <1> QED BY <1>2, <1>3

LEMMA CompareIs ==
    ASSUME NEW s \in ZipState, NEW c \in Nat, NEW d \in Nat,
           NEW x \in Seq(Nat), ZipIs(s, c, x)
    PROVE  ZipIs(FourChunks!CompareBytes(s, c, d), d, Append(x, d))
  <1>1. s.runs \in Seq(RunsOver(Nat)) /\ s.count \in Nat \ {0}
    BY DEF ZipState
  <1>2. CASE c = d
    <2>1. PICK t : t = FourChunks!CompareBytes(s, c, d)
      OBVIOUS
    <2>2. t.runs = s.runs /\ t.count = s.count + 1
      BY <1>2, <2>1 DEF FourChunks!CompareBytes, ZipState
    <2>3. IsRunLengthOf(Append(s.runs, Run(s.count + 1, c)), Append(x, d))
      BY <1>1, <1>2, NextByte DEF ZipIs
    <2> QED BY <1>2, <2>1, <2>2, <2>3 DEF ZipIs
  <1>3. CASE c # d
    <2>1. PICK t : t = FourChunks!CompareBytes(s, c, d)
      OBVIOUS
    <2>2. t.runs = Append(s.runs, Run(s.count, c)) /\ t.count = 1
      BY <1>3, <2>1, SameRunLength DEF FourChunks!CompareBytes
    <2>3. IsRunLengthOf(Append(Append(s.runs, Run(s.count, c)), Run(1, d)),
                        Append(x, d))
      BY <1>1, <1>3, NextByte DEF ZipIs
    <2> QED BY <2>1, <2>2, <2>3 DEF ZipIs
  <1> QED BY <1>2, <1>3

LEMMA DatazipIs ==
    ASSUME NEW bytes \in Seq(Nat), bytes # <<>>
    PROVE  /\ FourChunks!datazip(bytes) \in Seq(RunsOver(Nat))
           /\ FourChunks!datazip(bytes) # <<>>
           /\ IsRunLengthOf(FourChunks!datazip(bytes), bytes)
  <1>1. PICK N \in Nat : N = Len(bytes) - 1
    OBVIOUS
  <1>2. Len(bytes) = N + 1 /\ \A n \in 1 .. N + 1 : bytes[n] \in Nat
    BY <1>1
  <1> DEFINE Is(g) == g = [n \in 0 .. N |->
                              IF n = 0 THEN NoRuns
                              ELSE FourChunks!CompareBytes(g[n - 1], bytes[n],
                                                           bytes[n + 1])]
  <1>3. \E g : Is(g)
    <2>1. PICK go : go = [is \in (1 .. N) \X ZipState |->
                             FourChunks!CompareBytes(is[2], bytes[is[1]],
                                                     bytes[is[1] + 1])]
      OBVIOUS
    <2>2. go \in [(1 .. N) \X ZipState -> ZipState]
      <3>1. ASSUME NEW is \in (1 .. N) \X ZipState
            PROVE  FourChunks!CompareBytes(is[2], bytes[is[1]],
                                           bytes[is[1] + 1]) \in ZipState
        <4>1. bytes[is[1]] \in Nat /\ bytes[is[1] + 1] \in Nat
          BY <1>2
        <4> QED BY <4>1, CompareType
      <3> QED BY <2>1, <3>1
    <2>3. PICK f : Recurs(f, N, ZipState, NoRuns, go)
      BY <2>2, NoRunsType, RecursionExists
    <2>4. ASSUME NEW n \in 1 .. N
          PROVE  f[n] = FourChunks!CompareBytes(f[n - 1], bytes[n],
                                                bytes[n + 1])
      <3>1. n - 1 \in 0 .. N
        OBVIOUS
      <3>2. f[n - 1] \in ZipState
        BY <2>3, <3>1 DEF Recurs
      <3>3. <<n, f[n - 1]>> \in (1 .. N) \X ZipState
        BY <3>2
      <3> QED BY <2>1, <2>3, <3>3 DEF Recurs
    <2>5. PICK h : h = [n \in 0 .. N |->
                           IF n = 0 THEN NoRuns
                           ELSE FourChunks!CompareBytes(f[n - 1], bytes[n],
                                                        bytes[n + 1])]
      OBVIOUS
    <2>6. f = [n \in 0 .. N |-> f[n]] /\ h = [n \in 0 .. N |-> h[n]]
      BY <2>3, <2>5 DEF Recurs
    <2>7. \A n \in 0 .. N : f[n] = h[n]
      BY <2>3, <2>4, <2>5 DEF Recurs
    <2>8. f = h
      BY <2>6, <2>7, SameValues, Zenon
    <2> QED BY <2>5, <2>8
  <1>4. PICK g : /\ Is(g)
                 /\ FourChunks!datazip(bytes) =
                        Append(g[N].runs, Run(g[N].count, bytes[N + 1]))
    <2> DEFINE g == CHOOSE f : Is(f)
    <2>1. Is(g)
      BY <1>3
    <2>2. FourChunks!datazip(bytes) =
              Append(g[N].runs, Run(g[N].count, bytes[N + 1]))
      BY <1>1, <1>2, SameRunLength DEF FourChunks!datazip, NoRuns
    <2> QED BY <2>1, <2>2
  <1> DEFINE Good(n) == /\ g[n] \in ZipState
                        /\ ZipIs(g[n], bytes[n + 1], SubSeq(bytes, 1, n + 1))
             T == {n \in 0 .. N : ~Good(n)}
  <1>5. ASSUME T # {} PROVE FALSE
    <2>1. T \in SUBSET Nat
      OBVIOUS
    <2>2. PICK n \in T : \A k \in T : n <= k
      BY <1>5, <2>1, Least
    <2>3. n # 0
      <3> SUFFICES ASSUME n = 0 PROVE FALSE
        OBVIOUS
      <3>1. g[0] = NoRuns
        BY <1>4
      <3>2. PICK c \in Nat : c = bytes[1]
        BY <1>2
      <3>3. SubSeq(bytes, 1, 1) = <<c>>
        <4>1. PICK s : s = SubSeq(bytes, 1, 1)
          OBVIOUS
        <4>2. s \in Seq(Nat) /\ Len(s) = 1 /\ s[1] = bytes[1]
          BY <1>2, <4>1
        <4>3. s = <<c>>
          BY <3>2, <4>2
        <4> QED BY <4>1, <4>3
      <3>4. Append(<<>>, Run(1, c)) = <<Run(1, c)>>
        OBVIOUS
      <3>5. ZipIs(NoRuns, c, <<c>>)
        BY <3>4, OneByte DEF ZipIs, NoRuns
      <3>6. Good(0)
        <4>1. 0 + 1 = 1
          OBVIOUS
        <4> HIDE DEF Is
        <4> QED BY <3>1, <3>2, <3>3, <3>5, <4>1, NoRunsType
      <3> QED BY <3>6
    <2>4. n \in 1 .. N /\ n - 1 \in 0 .. N
      BY <2>3
    <2>5. n - 1 \notin T
      BY <2>2, <2>4
    <2>6. PICK s, c, d, x : /\ s = g[n - 1] /\ c = bytes[n] /\ d = bytes[n + 1]
                            /\ x = SubSeq(bytes, 1, n)
      OBVIOUS
    <2>7. g[n] = FourChunks!CompareBytes(s, c, d)
      BY <1>4, <2>3, <2>4, <2>6
    <2>8. (n - 1) + 1 = n /\ n \in 1 .. N + 1 /\ n + 1 \in 1 .. N + 1
      BY <2>4
    <2>9. s \in ZipState /\ ZipIs(s, c, x)
      BY <2>4, <2>5, <2>6, <2>8
    <2>10. c \in Nat /\ d \in Nat /\ x \in Seq(Nat)
      BY <1>2, <2>6, <2>8
    <2>11. SubSeq(bytes, 1, n + 1) = Append(x, d)
      BY <1>2, <2>6, <2>8
    <2> HIDE DEF T, Is
    <2>12. Good(n)
      BY <2>6, <2>7, <2>9, <2>10, <2>11, CompareType, CompareIs
    <2> QED BY <2>2, <2>12 DEF T
  <1>6. Good(N)
    <2>1. N \in 0 .. N
      OBVIOUS
    <2> QED BY <1>5, <2>1
  <1>7. SubSeq(bytes, 1, N + 1) = bytes
    BY <1>2
  <1>8. PICK U, rs, r : /\ U = RunsOver(Nat) /\ rs = g[N].runs
                        /\ r = Run(g[N].count, bytes[N + 1])
    OBVIOUS
  <1>9. rs \in Seq(U) /\ r \in U
    <2>1. g[N].runs \in Seq(RunsOver(Nat)) /\ g[N].count \in Nat \ {0}
      BY <1>6 DEF ZipState
    <2>2. N + 1 \in 1 .. N + 1
      OBVIOUS
    <2> QED BY <1>2, <1>8, <2>1, <2>2, RunLemma
  <1>10. Append(rs, r) \in Seq(U) /\ Append(rs, r) # <<>>
    BY <1>9
  <1> HIDE DEF Is
  <1> QED BY <1>4, <1>6, <1>7, <1>8, <1>10 DEF ZipIs

-----------------------------------------------------------------------------
(* Joining the chunks.                                                     *)

\* Only the last list that is not empty matters for what is joined to it.
LEMMA JoinTail ==
    ASSUME NEW S, NEW a \in Seq(RunsOver(S)), NEW b \in Seq(RunsOver(S)),
           b # <<>>, NEW c \in Seq(RunsOver(S))
    PROVE  JoinRuns(Cat(a, b), c) = Cat(a, JoinRuns(b, c))
  <1>1. PICK U, ab : U = RunsOver(S) /\ ab = a \o b
    OBVIOUS
  <1>2. /\ ab \in Seq(U) /\ ab # <<>> /\ Last(ab) = Last(b)
        /\ Front(ab) = a \o Front(b)
    BY <1>1, ConcatTail
  <1>3. CASE c # <<>> /\ Last(b).char = Head(c).char
    <2>1. PICK f, r, t :
              /\ f = Front(b) /\ t = Tail(c)
              /\ r = Run(Last(b).count + Head(c).count, Head(c).char)
      OBVIOUS
    <2>2. JoinRuns(ab, c) = ((a \o f) \o <<r>>) \o t
      BY <1>2, <1>3, <2>1 DEF JoinRuns
    <2>3. JoinRuns(b, c) = (f \o <<r>>) \o t
      BY <1>3, <2>1 DEF JoinRuns
    <2>4. f \in Seq(U) /\ r \in U /\ t \in Seq(U)
      <3>1. f \in Seq(U) /\ t \in Seq(U)
        BY <1>1, <1>3, <2>1 DEF Front
      <3>2. Last(b) \in RunsOver(S) /\ Head(c) \in RunsOver(S)
        BY <1>3 DEF Last
      <3>3. r \in RunsOver(S)
        BY <2>1, <3>2 DEF RunsOver, Run
      <3> QED BY <1>1, <3>1, <3>3
    <2>5. PICK rr : rr = <<r>>
      OBVIOUS
    <2>6. rr \in Seq(U) /\ f \o rr \in Seq(U) /\ a \in Seq(U)
      BY <1>1, <2>4, <2>5
    <2>7. Cat(Cat(Cat(a, f), rr), t) = Cat(Cat(a, Cat(f, rr)), t)
      BY <2>4, <2>6, Associative
    <2>8. Cat(Cat(a, Cat(f, rr)), t) = Cat(a, Cat(Cat(f, rr), t))
      BY <2>4, <2>6, Associative
    <2> QED BY <1>1, <2>2, <2>3, <2>5, <2>7, <2>8 DEF Cat
  <1>4. CASE ~(c # <<>> /\ Last(b).char = Head(c).char)
    <2>1. JoinRuns(ab, c) = ab \o c /\ JoinRuns(b, c) = b \o c
      BY <1>2, <1>4 DEF JoinRuns
    <2>2. Cat(Cat(a, b), c) = Cat(a, Cat(b, c))
      BY Associative
    <2> QED BY <1>1, <2>1, <2>2 DEF Cat
  <1> QED BY <1>1, <1>3, <1>4 DEF Cat

\* y is z with the lists t and u joined.
JoinedAt(z, t, u, y) ==
    /\ FourChunks!JoinNext(z, t) = y
    /\ \A k \in 1 .. 4 : k # t /\ k # u => y[k] = z[k]
    /\ Cat(y[t], y[u]) = JoinRuns(z[t], z[u])
    /\ y[u] # <<>>

\* JoinNext does it where the two lists are.
LEMMA JoinNextIs ==
    ASSUME NEW S, NEW z \in [1 .. 4 -> Seq(RunsOver(S))],
           NEW t \in 1 .. 3, NEW u \in 1 .. 4, u = t + 1,
           z[t] # <<>>, z[u] # <<>>
    PROVE  \E y \in [1 .. 4 -> Seq(RunsOver(S))] : JoinedAt(z, t, u, y)
  <1>1. PICK U, a, b : U = RunsOver(S) /\ a = z[t] /\ b = z[u]
    OBVIOUS
  <1>2. /\ t \in 1 .. 4 /\ u \in 1 .. 4 /\ t # u
        /\ a \in Seq(U) /\ b \in Seq(U) /\ a # <<>> /\ b # <<>>
    BY <1>1
  <1>3. Last(a) \in U /\ b[1] \in U /\ Head(b) = b[1]
    BY <1>2 DEF Last
  <1>4. \A s : FourChunks!Last(s) = Last(s) /\ FourChunks!Front(s) = Front(s)
    BY DEF FourChunks!Last, Last, FourChunks!Front, Front
  <1>5. CASE Last(a).char = b[1].char
    <2>1. PICK r : r = Run(Last(a).count + b[1].count, b[1].char)
      OBVIOUS
    <2>2. r \in U
      <3>1. PICK l, h : l = Last(a) /\ h = b[1]
        OBVIOUS
      <3>2. /\ l.count \in Nat \ {0} /\ h.count \in Nat \ {0}
            /\ h.char \in S
        BY <1>1, <1>3, <3>1 DEF RunsOver
      <3>3. l.count + h.count \in Nat \ {0}
        <4>1. \A k, n \in Nat \ {0} : k + n \in Nat \ {0}
          OBVIOUS
        <4> QED BY <3>2, <4>1
      <3> QED BY <1>1, <2>1, <3>1, <3>2, <3>3 DEF RunsOver, Run
    <2>3. [b EXCEPT ![1].count = @ + Last(a).count] = [b EXCEPT ![1] = r]
      <3>1. [b[1] EXCEPT !.count = b[1].count + Last(a).count] = r
        <4>1. PICK h, l : h = b[1] /\ l = Last(a)
          OBVIOUS
        <4>2. h \in RunsOver(S) /\ l.count \in Nat
          BY <1>1, <1>3, <4>1 DEF RunsOver
        <4>3. PICK n : n = h.count + l.count
          OBVIOUS
        <4>4. n = l.count + h.count
          BY <4>2, <4>3 DEF RunsOver
        <4>5. [h EXCEPT !.count = n] = Run(n, h.char)
          <5>1. h = Run(h.count, h.char)
            BY <4>2, SameRun
          <5>2. \A k, c : [Run(k, c) EXCEPT !.count = n] = Run(n, c)
            BY DEF Run
          <5> QED BY <5>1, <5>2
        <4> QED BY <2>1, <4>1, <4>3, <4>4, <4>5
      <3> QED BY <3>1
    <2>4. PICK f, c : f = Front(a) /\ c = [b EXCEPT ![1] = r]
      OBVIOUS
    <2>5. f \in Seq(U) /\ c \in Seq(U) /\ c # <<>>
      BY <1>2, <2>2, <2>4 DEF Front
    <2>6. c = <<r>> \o Tail(b)
      <3>1. PICK d : d = <<r>> \o Tail(b)
        OBVIOUS
      <3>2. /\ d \in Seq(U) /\ Len(d) = Len(b)
            /\ \A k \in 1 .. Len(b) : d[k] = c[k]
        BY <1>2, <2>2, <2>4, <3>1
      <3>3. Len(c) = Len(b)
        BY <1>2, <2>2, <2>4
      <3> QED BY <2>5, <3>1, <3>2, <3>3, SeqEqual
    <2>7. PICK y : y = [z EXCEPT ![u] = c, ![t] = f]
      OBVIOUS
    <2>8. FourChunks!JoinNext(z, t) = y
      BY <1>1, <1>2, <1>4, <1>5, <2>3, <2>4, <2>7 DEF FourChunks!JoinNext
    <2>9. /\ y \in [1 .. 4 -> Seq(U)] /\ y[t] = f /\ y[u] = c
          /\ \A k \in 1 .. 4 : k # t /\ k # u => y[k] = z[k]
      BY <1>1, <1>2, <2>5, <2>7
    <2>10. JoinRuns(a, b) = (f \o <<r>>) \o Tail(b)
      BY <1>2, <1>3, <1>5, <2>1, <2>4 DEF JoinRuns
    <2>11. (f \o <<r>>) \o Tail(b) = f \o c
      <3>1. PICK rr, v : rr = <<r>> /\ v = Tail(b)
        OBVIOUS
      <3>2. rr \in Seq(U) /\ v \in Seq(U)
        BY <1>2, <2>2, <3>1
      <3>3. (f \o rr) \o v = f \o (rr \o v)
        BY <2>5, <3>2, SMTT(30)
      <3> QED BY <2>6, <3>1, <3>3
    <2> QED BY <1>1, <2>5, <2>8, <2>9, <2>10, <2>11 DEF Cat, JoinedAt
  <1>6. CASE Last(a).char # b[1].char
    <2>1. FourChunks!JoinNext(z, t) = z
      BY <1>1, <1>2, <1>4, <1>6 DEF FourChunks!JoinNext
    <2>2. JoinRuns(a, b) = a \o b
      BY <1>2, <1>3, <1>6 DEF JoinRuns
    <2> QED BY <1>1, <1>2, <2>1, <2>2 DEF Cat, JoinedAt
  <1> QED BY <1>5, <1>6

LEMMA FlattenFour ==
    ASSUME NEW S, NEW z \in [1 .. 4 -> Seq(S)]
    PROVE  FlattenSeq(z) = Cat(Cat(Cat(z[1], z[2]), z[3]), z[4])
  <1>1. z \in Seq(Seq(S)) /\ Len(z) = 4
    <2>1. PICK U : U = Seq(S)
      OBVIOUS
    <2>2. z \in [1 .. 4 -> U]
      BY <2>1
    <2>3. z = [n \in 1 .. 4 |-> z[n]] /\ \A n \in 1 .. 4 : z[n] \in U
      BY <2>2
    <2>4. PICK s : s = [n \in 1 .. 4 |-> z[n]]
      OBVIOUS
    <2>5. s \in Seq(U) /\ Len(s) = 4
      BY <2>3, <2>4
    <2> QED BY <2>1, <2>3, <2>4, <2>5
  <1>2. ASSUME NEW n \in 1 .. 4
        PROVE  FlattenSeq(SubSeq(z, 1, n))
                 = FlattenSeq(SubSeq(z, 1, n - 1)) \o z[n]
    BY <1>1, FlattenSubSeq
  <1> DEFINE Flat(n) == FlattenSeq(SubSeq(z, 1, n))
  <1>3. Flat(0) = <<>> /\ Flat(4) = FlattenSeq(z)
    <2>1. SubSeq(z, 1, 0) = <<>> /\ SubSeq(z, 1, 4) = z
      BY <1>1
    <2> QED BY <2>1, FlattenEmpty
  <1>4. /\ 1 - 1 = 0 /\ 2 - 1 = 1 /\ 3 - 1 = 2 /\ 4 - 1 = 3
        /\ 1 \in 1 .. 4 /\ 2 \in 1 .. 4 /\ 3 \in 1 .. 4 /\ 4 \in 1 .. 4
    OBVIOUS
  <1>5. /\ Flat(1) = Flat(0) \o z[1] /\ Flat(2) = Flat(1) \o z[2]
        /\ Flat(3) = Flat(2) \o z[3] /\ Flat(4) = Flat(3) \o z[4]
    BY <1>2, <1>4
  <1>6. <<>> \o z[1] = z[1]
    OBVIOUS
  <1> HIDE DEF Flat
  <1> QED BY <1>3, <1>5, <1>6 DEF Cat

\* Of four lists, x2 has been joined to x1, giving a and b1, then x3 to b1,
\* giving b2 and c1, and then x4 to c1, giving c2 and d.
JoinedInTurn(S, x1, x2, x3, x4, a, b1, b2, c1, c2, d) ==
    /\ {x1, x2, x3, x4, a, b1, b2, c1, c2, d} \subseteq Seq(RunsOver(S))
    /\ b1 # <<>> /\ c1 # <<>>
    /\ Cat(a, b1) = JoinRuns(x1, x2)
    /\ Cat(b2, c1) = JoinRuns(b1, x3)
    /\ Cat(c2, d) = JoinRuns(c1, x4)

\* Joining list after list is joining at each of the places.
LEMMA JoinFour ==
    ASSUME NEW S, NEW x1, NEW x2, NEW x3, NEW x4, NEW a, NEW b1, NEW b2,
           NEW c1, NEW c2, NEW d,
           JoinedInTurn(S, x1, x2, x3, x4, a, b1, b2, c1, c2, d)
    PROVE  Cat(Cat(Cat(a, b2), c2), d)
             = JoinRuns(JoinRuns(JoinRuns(x1, x2), x3), x4)
  <1> USE DEF JoinedInTurn
  <1>1. PICK p, q : p = Cat(a, b1) /\ q = Cat(a, b2)
    OBVIOUS
  <1>2. /\ a \in Seq(RunsOver(S)) /\ b1 \in Seq(RunsOver(S))
        /\ b2 \in Seq(RunsOver(S)) /\ c1 \in Seq(RunsOver(S))
        /\ c2 \in Seq(RunsOver(S)) /\ d \in Seq(RunsOver(S))
        /\ x3 \in Seq(RunsOver(S)) /\ x4 \in Seq(RunsOver(S))
    OBVIOUS
  <1>5. p \in Seq(RunsOver(S)) /\ q \in Seq(RunsOver(S))
    BY <1>1, <1>2, Associative
  <1>3. JoinRuns(p, x3) = Cat(q, c1)
    <2>1. JoinRuns(Cat(a, b1), x3) = Cat(a, JoinRuns(b1, x3))
      BY <1>2, JoinTail
    <2>2. Cat(Cat(a, b2), c1) = Cat(a, Cat(b2, c1))
      BY <1>2, Associative
    <2> QED BY <1>1, <2>1, <2>2
  <1>4. JoinRuns(Cat(q, c1), x4) = Cat(Cat(q, c2), d)
    <2>1. JoinRuns(Cat(q, c1), x4) = Cat(q, JoinRuns(c1, x4))
      BY <1>2, <1>5, JoinTail
    <2>2. Cat(Cat(q, c2), d) = Cat(q, Cat(c2, d))
      BY <1>2, <1>5, Associative
    <2> QED BY <2>1, <2>2
  <1> QED BY <1>1, <1>3, <1>4

\* So the runs of the four chunks are joined one chunk after the other.
LEMMA AllJoinedIs ==
    ASSUME zipped \in [1 .. 4 -> Seq(RunsOver(Nat))],
           NEW pieces \in [1 .. 4 -> Seq(Nat)],
           \A t \in 1 .. 4 : /\ zipped[t] # <<>>
                             /\ IsRunLengthOf(zipped[t], pieces[t])
    PROVE  /\ FlattenSeq(FourChunks!AllJoined) \in Seq(RunsOver(Nat))
           /\ IsRunLengthOf(FlattenSeq(FourChunks!AllJoined),
                            FlattenSeq(pieces))
  <1>1. PICK z : z = zipped
    OBVIOUS
  <1>2. z \in [1 .. 4 -> Seq(RunsOver(Nat))]
    BY <1>1
  <1>3. /\ 1 \in 1 .. 3 /\ 2 \in 1 .. 3 /\ 3 \in 1 .. 3
        /\ 1 \in 1 .. 4 /\ 2 \in 1 .. 4 /\ 3 \in 1 .. 4 /\ 4 \in 1 .. 4
        /\ 2 = 1 + 1 /\ 3 = 2 + 1 /\ 4 = 3 + 1
    OBVIOUS
  <1>4. PICK w : \A t \in 1 .. 4 : w[t] = z[t] /\ w[t] # <<>>
    BY <1>1
  <1>5. PICK y1 \in [1 .. 4 -> Seq(RunsOver(Nat))] :
            JoinedAt(z, 1, 2, y1)
    <2>1. z[1] # <<>> /\ z[2] # <<>>
      BY <1>1, <1>3
    <2> QED BY <1>2, <1>3, <2>1, JoinNextIs, Zenon
  <1>6. y1[3] = z[3] /\ y1[4] = z[4]
    <2>1. \A k \in 1 .. 4 : k # 1 /\ k # 2 => y1[k] = z[k]
      BY <1>5 DEF JoinedAt
    <2> QED BY <2>1
  <1>7. PICK y2 \in [1 .. 4 -> Seq(RunsOver(Nat))] :
            JoinedAt(y1, 2, 3, y2)
    <2>1. y1[2] # <<>> /\ y1[3] # <<>>
      BY <1>1, <1>3, <1>5, <1>6 DEF JoinedAt
    <2> QED BY <1>3, <2>1, JoinNextIs, Zenon
  <1>8. y2[1] = y1[1] /\ y2[4] = z[4]
    <2>1. \A k \in 1 .. 4 : k # 2 /\ k # 3 => y2[k] = y1[k]
      BY <1>7 DEF JoinedAt
    <2>2. y2[1] = y1[1] /\ y2[4] = y1[4]
      BY <2>1
    <2> QED BY <1>6, <2>2
  <1>9. PICK y3 \in [1 .. 4 -> Seq(RunsOver(Nat))] :
            JoinedAt(y2, 3, 4, y3)
    <2>1. y2[3] # <<>> /\ y2[4] # <<>>
      BY <1>1, <1>3, <1>7, <1>8 DEF JoinedAt
    <2> QED BY <1>3, <2>1, JoinNextIs, Zenon
  <1>10. y3[1] = y1[1] /\ y3[2] = y2[2]
    <2>1. \A k \in 1 .. 4 : k # 3 /\ k # 4 => y3[k] = y2[k]
      BY <1>9 DEF JoinedAt
    <2>2. y3[1] = y2[1] /\ y3[2] = y2[2]
      BY <2>1
    <2> QED BY <1>8, <2>2
  <1>11. FourChunks!AllJoined = y3
    BY <1>1, <1>5, <1>7, <1>9 DEF FourChunks!AllJoined, JoinedAt
  <1>12. FlattenSeq(y3)
           = JoinRuns(JoinRuns(JoinRuns(z[1], z[2]), z[3]), z[4])
    <2>1. FlattenSeq(y3) = Cat(Cat(Cat(y3[1], y3[2]), y3[3]), y3[4])
      BY FlattenFour
    <2>2. /\ Cat(y1[1], y1[2]) = JoinRuns(z[1], z[2])
          /\ Cat(y2[2], y2[3]) = JoinRuns(y1[2], z[3])
          /\ Cat(y3[3], y3[4]) = JoinRuns(y2[3], z[4])
          /\ y1[2] # <<>> /\ y2[3] # <<>>
      BY <1>5, <1>6, <1>7, <1>8, <1>9 DEF JoinedAt
    <2>3. /\ z[1] \in Seq(RunsOver(Nat)) /\ z[2] \in Seq(RunsOver(Nat))
          /\ z[3] \in Seq(RunsOver(Nat)) /\ z[4] \in Seq(RunsOver(Nat))
          /\ y1[1] \in Seq(RunsOver(Nat)) /\ y1[2] \in Seq(RunsOver(Nat))
          /\ y2[2] \in Seq(RunsOver(Nat)) /\ y2[3] \in Seq(RunsOver(Nat))
          /\ y3[3] \in Seq(RunsOver(Nat)) /\ y3[4] \in Seq(RunsOver(Nat))
      BY <1>2, <1>3
    <2>4. Cat(Cat(Cat(y1[1], y2[2]), y3[3]), y3[4])
            = JoinRuns(JoinRuns(JoinRuns(z[1], z[2]), z[3]), z[4])
      <3>1. JoinedInTurn(Nat, z[1], z[2], z[3], z[4], y1[1], y1[2], y2[2],
                         y2[3], y3[3], y3[4])
        BY <2>2, <2>3 DEF JoinedInTurn
      <3> QED BY <3>1, JoinFour
    <2> QED BY <1>10, <2>1, <2>4
  <1>13. /\ JoinRuns(z[1], z[2]) \in Seq(RunsOver(Nat))
         /\ IsRunLengthOf(JoinRuns(z[1], z[2]), pieces[1] \o pieces[2])
    <2>1. /\ z[1] \in Seq(RunsOver(Nat)) /\ z[2] \in Seq(RunsOver(Nat))
          /\ IsRunLengthOf(z[1], pieces[1]) /\ IsRunLengthOf(z[2], pieces[2])
      BY <1>1, <1>2, <1>3
    <2> QED BY <2>1, JoinRunsLemma
  <1>14. PICK r2, p2 : r2 = JoinRuns(z[1], z[2]) /\ p2 = pieces[1] \o pieces[2]
    OBVIOUS
  <1>15. /\ JoinRuns(r2, z[3]) \in Seq(RunsOver(Nat))
         /\ IsRunLengthOf(JoinRuns(r2, z[3]), p2 \o pieces[3])
    <2>1. z[3] \in Seq(RunsOver(Nat)) /\ IsRunLengthOf(z[3], pieces[3])
      BY <1>1, <1>2, <1>3
    <2> QED BY <1>13, <1>14, <2>1, JoinRunsLemma
  <1>16. PICK r3, p3 : r3 = JoinRuns(r2, z[3]) /\ p3 = p2 \o pieces[3]
    OBVIOUS
  <1>17. /\ JoinRuns(r3, z[4]) \in Seq(RunsOver(Nat))
         /\ IsRunLengthOf(JoinRuns(r3, z[4]), p3 \o pieces[4])
    <2>1. z[4] \in Seq(RunsOver(Nat)) /\ IsRunLengthOf(z[4], pieces[4])
      BY <1>1, <1>2, <1>3
    <2> QED BY <1>15, <1>16, <2>1, JoinRunsLemma
  <1>18. FlattenSeq(pieces) = p3 \o pieces[4]
    BY <1>14, <1>16, FlattenFour DEF Cat
  <1> QED BY <1>11, <1>12, <1>14, <1>16, <1>17, <1>18

-----------------------------------------------------------------------------
(* The chunks.                                                             *)

LEMMA SeparateIs ==
    ASSUME NEW n \in Nat, NEW q, q = (n + 3) \div 4
    PROVE  /\ q \in Nat
           /\ n - 3 * q < 0 => n \in {1, 2, 5}
           /\ n - 3 * q > 0 => q > 0
  <1>1. q \in Nat /\ 4 * q <= n + 3 /\ n + 3 < 4 * q + 4
    OBVIOUS
  <1>2. ASSUME n - 3 * q < 0 PROVE n \in {1, 2, 5}
    <2>1. n < 9
      BY <1>1, <1>2
    <2>2. n \in {0, 1, 2, 3, 4, 5, 6, 7, 8}
      BY <2>1
    <2> QED BY <1>1, <1>2, <2>2
  <1>3. ASSUME n - 3 * q > 0 PROVE q > 0
    BY <1>1, <1>3
  <1> QED BY <1>1, <1>2, <1>3

\* If there is something left for the last chunk, there is for all of them,
\* and they are the buffer.
LEMMA ChunksAre ==
    ASSUME NEW b \in Seq(Nat), b = buffer, total_len = Len(b),
           FourChunks!final_len > 0
    PROVE  \E pieces \in [1 .. 4 -> Seq(Nat)] :
               /\ \A t \in 1 .. 4 : /\ pieces[t] = FourChunks!ChunkOf(t)
                                    /\ pieces[t] # <<>>
               /\ FlattenSeq(pieces) = b
  <1>1. PICK N \in Nat : N = Len(b)
    OBVIOUS
  <1>2. PICK q : q = (N + 3) \div 4
    OBVIOUS
  <1>3. FourChunks!seperate_len = q
    BY <1>1, <1>2 DEF FourChunks!seperate_len, FourChunks!core_number
  <1>4. FourChunks!final_len = N - 3 * q
    <2>1. (4 - 1) * q = 3 * q
      OBVIOUS
    <2> QED BY <1>1, <1>3, <2>1
            DEF FourChunks!final_len, FourChunks!core_number
  <1>5. q \in Nat /\ q > 0 /\ 3 * q < N
    <2>1. q \in Nat /\ N - 3 * q > 0
      BY <1>2, <1>4, SeparateIs
    <2> QED BY <1>2, <2>1, SeparateIs
  <1>6. /\ FourChunks!ChunkOf(1) = SubSeq(b, 1, q)
        /\ FourChunks!ChunkOf(2) = SubSeq(b, q + 1, 2 * q)
        /\ FourChunks!ChunkOf(3) = SubSeq(b, 2 * q + 1, 3 * q)
        /\ FourChunks!ChunkOf(4) = SubSeq(b, 3 * q + 1, N)
    <2>1. ASSUME NEW t \in 1 .. 3, NEW f \in Nat, f = (t - 1) * q,
                 NEW n \in Nat, n = f + q, n < N
          PROVE  FourChunks!ChunkOf(t) = SubSeq(b, f + 1, n)
      <3>1. t < 4
        OBVIOUS
      <3> QED BY <1>1, <1>3, <2>1, <3>1
              DEF FourChunks!ChunkOf, FourChunks!core_number
    <2>2. FourChunks!ChunkOf(1) = SubSeq(b, 1, q)
      <3>1. 0 = (1 - 1) * q /\ q = 0 + q /\ q < N /\ 1 \in 1 .. 3 /\ 0 + 1 = 1
        BY <1>5
      <3>2. FourChunks!ChunkOf(1) = SubSeq(b, 0 + 1, q)
        BY <1>5, <2>1, <3>1
      <3> QED BY <3>1, <3>2
    <2>3. FourChunks!ChunkOf(2) = SubSeq(b, q + 1, 2 * q)
      <3>1. q = (2 - 1) * q /\ 2 * q = q + q /\ 2 * q < N /\ 2 \in 1 .. 3
        BY <1>5
      <3>2. 2 * q \in Nat
        BY <1>5
      <3> QED BY <1>5, <2>1, <3>1, <3>2
    <2>4. FourChunks!ChunkOf(3) = SubSeq(b, 2 * q + 1, 3 * q)
      <3>1. /\ 2 * q = (3 - 1) * q /\ 3 * q = 2 * q + q
            /\ 3 * q < N /\ 3 \in 1 .. 3
        BY <1>5
      <3>2. 2 * q \in Nat /\ 3 * q \in Nat
        BY <1>5
      <3> QED BY <1>5, <2>1, <3>1, <3>2
    <2>5. FourChunks!ChunkOf(4) = SubSeq(b, 3 * q + 1, N)
      <3>1. (4 - 1) * q = 3 * q /\ 3 * q + (N - 3 * q) = N /\ ~(N < N)
        BY <1>5
      <3>2. PICK f, l : f = 3 * q /\ l = N - 3 * q
        OBVIOUS
      <3>3. FourChunks!ChunkOf(4) =
                SubSeq(b, f + 1, IF f + l < Len(b) THEN f + l ELSE Len(b))
        BY <1>3, <1>4, <3>1, <3>2
           DEF FourChunks!ChunkOf, FourChunks!core_number
      <3>4. f + l = N /\ Len(b) = N
        BY <1>1, <3>1, <3>2
      <3> QED BY <3>1, <3>2, <3>3, <3>4
    <2> QED BY <2>2, <2>3, <2>4, <2>5
  <1>7. PICK p : p = [t \in 1 .. 4 |-> FourChunks!ChunkOf(t)]
    OBVIOUS
  <1>8. /\ p[1] = SubSeq(b, 1, q) /\ p[2] = SubSeq(b, q + 1, 2 * q)
        /\ p[3] = SubSeq(b, 2 * q + 1, 3 * q) /\ p[4] = SubSeq(b, 3 * q + 1, N)
    BY <1>6, <1>7
  <1>9. \A t \in 1 .. 4 : p[t] \in Seq(Nat) /\ p[t] # <<>>
    <2>1. ASSUME NEW f \in Nat, NEW n \in Nat, f < n, n <= N
          PROVE  SubSeq(b, f + 1, n) \in Seq(Nat) /\ SubSeq(b, f + 1, n) # <<>>
      <3>1. PICK s : s = SubSeq(b, f + 1, n)
        OBVIOUS
      <3>2. s \in Seq(Nat) /\ Len(s) = n - f
        <4>1. f <= n /\ n <= Len(b)
          BY <1>1, <2>1
        <4> QED BY <3>1, <4>1, PieceType
      <3>3. s # <<>>
        BY <2>1, <3>2
      <3> QED BY <3>1, <3>2, <3>3
    <2>2. /\ 2 * q \in Nat /\ 3 * q \in Nat /\ 0 < q /\ q < 2 * q
          /\ 2 * q < 3 * q /\ 3 * q < N /\ q <= N /\ 2 * q <= N /\ 3 * q <= N
          /\ N <= N /\ 0 + 1 = 1 /\ 0 \in Nat
      BY <1>5
    <2>3. p[1] \in Seq(Nat) /\ p[1] # <<>>
      BY <1>5, <1>8, <2>1, <2>2
    <2>4. p[2] \in Seq(Nat) /\ p[2] # <<>>
      BY <1>5, <1>8, <2>1, <2>2
    <2>5. p[3] \in Seq(Nat) /\ p[3] # <<>>
      BY <1>5, <1>8, <2>1, <2>2
    <2>6. p[4] \in Seq(Nat) /\ p[4] # <<>>
      BY <1>5, <1>8, <2>1, <2>2
    <2>7. \A t \in 1 .. 4 : t = 1 \/ t = 2 \/ t = 3 \/ t = 4
      OBVIOUS
    <2> QED BY <2>3, <2>4, <2>5, <2>6, <2>7
  <1>10. p \in [1 .. 4 -> Seq(Nat)]
    BY <1>7, <1>9
  <1>11. FlattenSeq(p) = b
    <2>1. /\ 2 * q \in Nat /\ 3 * q \in Nat /\ q <= 2 * q /\ 2 * q <= 3 * q
          /\ 3 * q <= N /\ N <= N /\ 2 * q <= N
      BY <1>5
    <2>2. PICK q2 \in Nat, q3 \in Nat : q2 = 2 * q /\ q3 = 3 * q
      BY <2>1
    <2>3. /\ q <= q2 /\ q2 <= q3 /\ q3 <= N /\ N <= N /\ q2 <= N
          /\ N = Len(b) /\ q \in Nat
      BY <1>1, <1>5, <2>1, <2>2
    <2>4. /\ Cat(SubSeq(b, 1, q), SubSeq(b, q + 1, q2)) = SubSeq(b, 1, q2)
          /\ Cat(SubSeq(b, 1, q2), SubSeq(b, q2 + 1, q3)) = SubSeq(b, 1, q3)
          /\ Cat(SubSeq(b, 1, q3), SubSeq(b, q3 + 1, N)) = SubSeq(b, 1, N)
      <3>1. ASSUME NEW m \in Nat, NEW n \in Nat, m <= n, n <= N
            PROVE  Cat(SubSeq(b, 1, m), SubSeq(b, m + 1, n)) = SubSeq(b, 1, n)
        <4>1. n <= Len(b)
          BY <2>3, <3>1
        <4> QED BY <3>1, <4>1, SplitAt
      <3> QED BY <2>3, <3>1
    <2>5. SubSeq(b, 1, N) = b
      BY <1>1
    <2>6. Cat(Cat(Cat(p[1], p[2]), p[3]), p[4]) = b
      BY <1>8, <2>2, <2>4, <2>5
    <2> QED BY <1>10, <2>6, FlattenFour
  <1>12. \A t \in 1 .. 4 : p[t] = FourChunks!ChunkOf(t)
    BY <1>7
  <1> QED BY <1>9, <1>10, <1>11, <1>12

-----------------------------------------------------------------------------
(* The invariant of Pzip.                                                  *)

PzipBytes == FlattenSeq(mmapped)

\* What main knows after it has read the files.
PzipRead ==
    step \in {"cut", "zip", "written"} =>
        /\ total_len = Len(PzipBytes)
        /\ NoZero(PzipBytes) => buffer = PzipBytes

\* What the threads are given, and give back.
PzipCut ==
    /\ step \in {"read", "cut"} =>
           zipped = [t \in FourChunks!Threads |-> <<>>]
    /\ step = "zip" =>
           /\ data = [t \in FourChunks!Threads |-> FourChunks!ChunkOf(t)]
           /\ zipped = [t \in FourChunks!Threads |-> zipped[t]]
           /\ \A t \in FourChunks!Threads :
                  zipped[t] \in {<<>>, FourChunks!datazip(data[t])}

\* What is written, and why nothing is.
PzipEnds ==
    /\ step = "written" /\ FourChunks!final_len > 0 /\ NoZero(PzipBytes) =>
           /\ stream \in Seq(RunsOver(Nat))
           /\ IsRunLengthOf(stream, PzipBytes)
    /\ step \in {"crashed", "undefined"} =>
           \/ \E n \in 1 .. Len(mmapped) : mmapped[n] = <<>>
           \/ Len(PzipBytes) \in {1, 2, 5}

PzipInv ==
    /\ program = "pzip" => mmapped \in PzipCommands
    /\ program # "pzip" => step = "read"
    /\ step \in {"read", "cut", "zip", "written", "crashed", "undefined"}
    /\ PzipCut
    /\ program = "pzip" /\ FourChunks!AllOpened => PzipRead /\ PzipEnds

LEMMA OpenedType ==
    ASSUME mmapped \in PzipCommands, FourChunks!AllOpened
    PROVE  /\ mmapped \in Seq(Seq(Nat)) /\ Len(mmapped) > 0
           /\ mmapped[1] # CannotOpen
           /\ PzipBytes \in Seq(Nat)
  <1>1. PICK U : U = Seq(Nat)
    OBVIOUS
  <1>2. mmapped \in Seq(U \cup {CannotOpen}) /\ mmapped # <<>>
    BY <1>1, CommandsAssumption
  <1>3. \A n \in 1 .. Len(mmapped) : mmapped[n] \in U
    BY <1>2 DEF FourChunks!AllOpened
  <1>4. mmapped \in Seq(U) /\ Len(mmapped) > 0
    BY <1>2, <1>3
  <1>5. mmapped[1] # CannotOpen
    <2>1. 1 \in 1 .. Len(mmapped)
      BY <1>4
    <2> QED BY <2>1 DEF FourChunks!AllOpened
  <1>6. PzipBytes \in Seq(Nat)
    BY <1>1, <1>4, FlattenType DEF PzipBytes
  <1> QED BY <1>1, <1>4, <1>5, <1>6

LEMMA PzipInitInv ==
    ASSUME RoundTripInit PROVE PzipInv
  <1>1. /\ mmapped \in IF program = "pzip" THEN PzipCommands ELSE {NoFiles}
        /\ zipped = [t \in FourChunks!Threads |-> <<>>] /\ step = "read"
    BY DEF RoundTripInit, FourChunks!PzipInit
  <1> QED BY <1>1 DEF PzipInv, PzipCut, PzipRead, PzipEnds

LEMMA PzipStays ==
    ASSUME PzipInv, UNCHANGED <<program, pvars>> PROVE PzipInv'
  BY DEF PzipInv, PzipCut, PzipRead, PzipEnds, PzipBytes, pvars, NoZero,
         FourChunks!AllOpened, FourChunks!ChunkOf, FourChunks!final_len,
         FourChunks!seperate_len

LEMMA ReadFilesInv ==
    ASSUME PzipInv, program = "pzip", program' = program, FourChunks!ReadFiles
    PROVE  PzipInv'
  <1>1. /\ step = "read" /\ mmapped \in PzipCommands
        /\ zipped = [t \in FourChunks!Threads |-> <<>>]
        /\ UNCHANGED <<mmapped, data, zipped, stream>>
        /\ step' \in {"undefined", "crashed", "cut"}
    BY DEF PzipInv, PzipCut, FourChunks!ReadFiles
  <1>2. PzipCut'
    BY <1>1 DEF PzipCut
  <1>3. ASSUME FourChunks!AllOpened PROVE PzipRead' /\ PzipEnds'
    <2>1. /\ mmapped \in Seq(Seq(Nat)) /\ mmapped[1] # CannotOpen
          /\ PzipBytes \in Seq(Nat)
      BY <1>1, <1>3, OpenedType
    <2>2. PICK s \in AppendState :
              /\ FourChunks!AllAppended = s
              /\ s.total_len = Len(PzipBytes)
              /\ Len(s.buffer) <= s.total_len
              /\ NoZero(PzipBytes) => s.buffer = PzipBytes
      BY <2>1, AppendedIs DEF PzipBytes
    <2>3. Len(s.buffer) \in Nat /\ s.total_len \in Nat
      BY DEF AppendState
    <2>4. ~(mmapped[1] = CannotOpen \/ Len(s.buffer) > s.total_len)
      BY <2>1, <2>2, <2>3
    <2>5. \/ /\ step' = "crashed"
             /\ \E n \in 1 .. Len(mmapped) : mmapped[n] = <<>>
          \/ step' = "cut" /\ buffer' = s.buffer /\ total_len' = s.total_len
      BY <2>2, <2>4 DEF FourChunks!ReadFiles
    <2>6. PzipBytes' = PzipBytes
      BY <1>1 DEF PzipBytes
    <2> QED BY <1>1, <2>2, <2>5, <2>6 DEF PzipRead, PzipEnds, NoZero
  <1>4. FourChunks!AllOpened' => FourChunks!AllOpened
    BY <1>1 DEF FourChunks!AllOpened
  <1> QED BY <1>1, <1>2, <1>3, <1>4 DEF PzipInv

LEMMA CutInv ==
    ASSUME PzipInv, program = "pzip", program' = program, FourChunks!Cut
    PROVE  PzipInv'
  <1>1. /\ step = "cut" /\ mmapped \in PzipCommands
        /\ zipped = [t \in FourChunks!Threads |-> <<>>]
        /\ UNCHANGED <<mmapped, buffer, total_len, zipped, stream>>
        /\ \/ FourChunks!final_len < 0 /\ step' = "crashed"
           \/ /\ data' = [t \in FourChunks!Threads |-> FourChunks!ChunkOf(t)]
              /\ step' = "zip"
    BY DEF PzipInv, PzipCut, FourChunks!Cut
  <1>2. PzipCut'
    <2>1. \A t : FourChunks!ChunkOf(t)' = FourChunks!ChunkOf(t)
      BY <1>1 DEF FourChunks!ChunkOf, FourChunks!seperate_len,
                  FourChunks!final_len
    <2>2. /\ zipped = [t \in FourChunks!Threads |-> zipped[t]]
          /\ \A t \in FourChunks!Threads : zipped[t] = <<>>
      BY <1>1
    <2> QED BY <1>1, <2>1, <2>2 DEF PzipCut
  <1>3. ASSUME FourChunks!AllOpened PROVE PzipRead' /\ PzipEnds'
    <2>1. PzipBytes' = PzipBytes /\ PzipBytes \in Seq(Nat)
      BY <1>1, <1>3, OpenedType DEF PzipBytes
    <2>2. total_len = Len(PzipBytes) /\ PzipRead
      BY <1>1, <1>3 DEF PzipInv, PzipRead
    <2>3. PzipRead'
      BY <1>1, <2>1, <2>2 DEF PzipRead, NoZero
    <2>4. ASSUME FourChunks!final_len < 0 PROVE Len(PzipBytes) \in {1, 2, 5}
      <3>1. PICK n \in Nat : n = total_len
        BY <2>1, <2>2
      <3>2. PICK q : q = (n + 3) \div 4
        OBVIOUS
      <3>3. FourChunks!seperate_len = q
        BY <3>1, <3>2 DEF FourChunks!seperate_len, FourChunks!core_number
      <3>4. FourChunks!final_len = n - 3 * q
        <4>1. (4 - 1) * q = 3 * q
          OBVIOUS
        <4> QED BY <3>1, <3>3, <4>1
                DEF FourChunks!final_len, FourChunks!core_number
      <3> QED BY <2>2, <2>4, <3>1, <3>2, <3>4, SeparateIs
    <2> QED BY <1>1, <2>1, <2>3, <2>4 DEF PzipEnds
  <1>4. FourChunks!AllOpened' => FourChunks!AllOpened
    BY <1>1 DEF FourChunks!AllOpened
  <1> QED BY <1>1, <1>2, <1>3, <1>4 DEF PzipInv

LEMMA CompressChunkInv ==
    ASSUME PzipInv, program = "pzip", program' = program,
           NEW t \in FourChunks!Threads, FourChunks!CompressChunk(t)
    PROVE  PzipInv'
  <1>1. /\ step = "zip" /\ step' = "zip" /\ mmapped \in PzipCommands
        /\ UNCHANGED <<mmapped, buffer, total_len, data, stream>>
        /\ zipped' = [zipped EXCEPT ![t] = FourChunks!datazip(data[t])]
    BY DEF PzipInv, FourChunks!CompressChunk
  <1>2. PzipCut'
    <2>1. /\ data = [u \in FourChunks!Threads |-> FourChunks!ChunkOf(u)]
          /\ zipped = [u \in FourChunks!Threads |-> zipped[u]]
          /\ \A u \in FourChunks!Threads :
                 zipped[u] \in {<<>>, FourChunks!datazip(data[u])}
      BY <1>1 DEF PzipInv, PzipCut
    <2>2. \A u : FourChunks!ChunkOf(u)' = FourChunks!ChunkOf(u)
      BY <1>1 DEF FourChunks!ChunkOf, FourChunks!seperate_len,
                  FourChunks!final_len
    <2>3. \A x : FourChunks!datazip(x)' = FourChunks!datazip(x)
      OBVIOUS
    <2>4. \A u \in FourChunks!Threads :
              zipped'[u] = IF u = t THEN FourChunks!datazip(data[t])
                           ELSE zipped[u]
      BY <1>1, <2>1
    <2>5. zipped' = [u \in FourChunks!Threads |-> zipped'[u]]
      BY <1>1, <2>1
    <2> QED BY <1>1, <2>1, <2>2, <2>4, <2>5 DEF PzipCut
  <1>3. PzipBytes' = PzipBytes
    BY <1>1 DEF PzipBytes
  <1>4. FourChunks!AllOpened' => FourChunks!AllOpened
    BY <1>1 DEF FourChunks!AllOpened
  <1> QED BY <1>1, <1>2, <1>3, <1>4 DEF PzipInv, PzipRead, PzipEnds, NoZero

LEMMA WriteInv ==
    ASSUME PzipInv, program = "pzip", program' = program, FourChunks!Write
    PROVE  PzipInv'
  <1>1. /\ step = "zip" /\ step' = "written" /\ mmapped \in PzipCommands
        /\ UNCHANGED <<mmapped, buffer, total_len, data, zipped>>
        /\ stream' = FlattenSeq(FourChunks!AllJoined)
        /\ \A t \in FourChunks!Threads : zipped[t] # <<>>
    BY SameRunLength DEF PzipInv, FourChunks!Write
  <1>2. PzipCut'
    BY <1>1 DEF PzipCut
  <1>3. PzipBytes' = PzipBytes /\ FourChunks!final_len' = FourChunks!final_len
    BY <1>1 DEF PzipBytes, FourChunks!final_len, FourChunks!seperate_len
  <1>4. ASSUME FourChunks!AllOpened, FourChunks!final_len > 0,
               NoZero(PzipBytes)
        PROVE  /\ stream' \in Seq(RunsOver(Nat))
               /\ IsRunLengthOf(stream', PzipBytes)
    <2>1. PICK b : b = PzipBytes
      OBVIOUS
    <2>2. /\ b \in Seq(Nat) /\ b = buffer /\ total_len = Len(b)
      BY <1>1, <1>4, <2>1, OpenedType DEF PzipInv, PzipRead
    <2>3. PICK pieces \in [1 .. 4 -> Seq(Nat)] :
              /\ \A t \in 1 .. 4 : /\ pieces[t] = FourChunks!ChunkOf(t)
                                   /\ pieces[t] # <<>>
              /\ FlattenSeq(pieces) = b
      BY <1>4, <2>2, ChunksAre
    <2>4. FourChunks!Threads = 1 .. 4
      BY DEF FourChunks!Threads, FourChunks!core_number
    <2>5. /\ zipped = [t \in 1 .. 4 |-> zipped[t]]
          /\ \A t \in 1 .. 4 : zipped[t] = FourChunks!datazip(pieces[t])
      BY <1>1, <2>3, <2>4 DEF PzipInv, PzipCut
    <2>6. \A t \in 1 .. 4 : /\ zipped[t] \in Seq(RunsOver(Nat))
                            /\ zipped[t] # <<>>
                            /\ IsRunLengthOf(zipped[t], pieces[t])
      BY <2>3, <2>5, DatazipIs
    <2>7. zipped \in [1 .. 4 -> Seq(RunsOver(Nat))]
      BY <2>5, <2>6
    <2> QED BY <1>1, <2>1, <2>3, <2>6, <2>7, AllJoinedIs
  <1>5. FourChunks!AllOpened' => FourChunks!AllOpened
    BY <1>1 DEF FourChunks!AllOpened
  <1>6. FourChunks!AllOpened => PzipRead' /\ PzipEnds'
    BY <1>1, <1>3, <1>4 DEF PzipInv, PzipRead, PzipEnds, NoZero
  <1> QED BY <1>1, <1>2, <1>5, <1>6 DEF PzipInv

LEMMA PzipNextInv ==
    ASSUME PzipInv, program = "pzip", program' = program, FourChunks!PzipNext
    PROVE  PzipInv'
  BY ReadFilesInv, CutInv, CompressChunkInv, WriteInv DEF FourChunks!PzipNext

\* The invariant says what the property does.
LEMMA PzipSaysSo == PzipInv => FourChunks!PzipWritesWhatItRead
  <1> SUFFICES ASSUME PzipInv, FourChunks!AllOpened
               PROVE  /\ step = "written" /\ FourChunks!final_len > 0
                         /\ FourChunks!StringOf(PzipBytes) = PzipBytes =>
                             IsRunLengthOf(stream, PzipBytes)
                      /\ step \in {"crashed", "undefined"} =>
                             \/ \E n \in 1 .. Len(mmapped) : mmapped[n] = <<>>
                             \/ Len(PzipBytes) \in {1, 2, 5}
    BY SameRunLength DEF FourChunks!PzipWritesWhatItRead, PzipBytes
  <1>1. CASE program = "pzip"
    <2>1. PzipEnds /\ PzipBytes \in Seq(Nat)
      BY <1>1, OpenedType DEF PzipInv
    <2>2. FourChunks!StringOf(PzipBytes) = PzipBytes => NoZero(PzipBytes)
      BY <2>1, StringIs
    <2> QED BY <2>1, <2>2 DEF PzipEnds
  <1>2. CASE program # "pzip"
    BY <1>2 DEF PzipInv
  <1> QED BY <1>1, <1>2

-----------------------------------------------------------------------------
(* Wzip: the bytes that have been read.                                    *)

\* What has been read of each of the files so far.
Pieces ==
    [n \in 1 .. w_file |->
        IF n < w_file THEN w_files[n]
        ELSE IF n <= Len(w_files) /\ w_files[n] # CannotOpen
             THEN SubSeq(w_files[n], 1, w_pos) ELSE <<>>]

ReadSoFar == FlattenSeq(Pieces)

\* Where wzip is.
WzipPlace ==
    /\ w_files \in Seq(Seq(Nat) \cup {CannotOpen})
    /\ w_file \in 1 .. Len(w_files) + 1
    /\ \A n \in 1 .. Len(w_files) : n < w_file => w_files[n] # CannotOpen
    /\ w_pos \in Nat
    /\ w_file <= Len(w_files) /\ w_files[w_file] # CannotOpen =>
           w_pos <= Len(w_files[w_file])

\* What it has written, and the run that is open; and at the end, when that
\* may be a run of no bytes.
WzipWritten ==
    /\ last_read \in Nat /\ w_count \in Nat
    /\ w_status # "done" =>
           /\ written \in Seq(RunsOver(Nat))
           /\ w_count = 0 => written = <<>> /\ ReadSoFar = <<>>
           /\ w_count > 0 =>
                  IsRunLengthOf(Append(written, Run(w_count, last_read)),
                                ReadSoFar)
    /\ w_status = "done" =>
           /\ w_files \in Seq(Seq(Nat))
           /\ written \in Seq([count : Nat, char : Nat])
           /\ Expand(written) = FlattenSeq(w_files)

WzipInv == WzipPlace /\ WzipWritten

LEMMA OpenFile ==
    ASSUME WzipPlace, NEW n \in 1 .. Len(w_files), w_files[n] # CannotOpen
    PROVE  w_files[n] \in Seq(Nat)
  BY DEF WzipPlace

LEMMA PiecesType ==
    ASSUME WzipPlace
    PROVE  /\ Pieces \in Seq(Seq(Nat)) /\ Len(Pieces) = w_file
           /\ Pieces # <<>> /\ ReadSoFar \in Seq(Nat)
  <1>1. PICK U, N : U = Seq(Nat) /\ N = w_file
    OBVIOUS
  <1>2. N \in Nat /\ N > 0
    BY <1>1 DEF WzipPlace
  <1>3. ASSUME NEW n \in 1 .. N PROVE Pieces[n] \in U
    <2>1. n \in 1 .. w_file
      BY <1>1
    <2>2. CASE n < w_file
      <3>1. n \in 1 .. Len(w_files) /\ w_files[n] # CannotOpen
        BY <1>1, <2>2 DEF WzipPlace
      <3> QED BY <1>1, <2>1, <2>2, <3>1, OpenFile DEF Pieces
    <2>3. CASE ~(n < w_file) /\ n <= Len(w_files) /\ w_files[n] # CannotOpen
      <3>1. n \in 1 .. Len(w_files) /\ n = w_file
        BY <1>1, <1>2, <2>1, <2>3 DEF WzipPlace
      <3>2. PICK f : f = w_files[n]
        OBVIOUS
      <3>3. f \in Seq(Nat) /\ w_pos \in Nat /\ w_pos <= Len(f)
        BY <2>3, <3>1, <3>2, OpenFile DEF WzipPlace
      <3>4. SubSeq(f, 1, w_pos) \in Seq(Nat)
        BY <3>3
      <3> QED BY <1>1, <2>1, <2>3, <3>2, <3>4 DEF Pieces
    <2>4. CASE ~(n < w_file) /\ ~(n <= Len(w_files) /\ w_files[n] # CannotOpen)
      <3>1. <<>> \in Seq(Nat)
        OBVIOUS
      <3> QED BY <1>1, <2>1, <2>4, <3>1 DEF Pieces
    <2> QED BY <2>2, <2>3, <2>4
  <1>4. PICK p : p = [n \in 1 .. N |-> Pieces[n]]
    OBVIOUS
  <1>5. p \in Seq(U) /\ Len(p) = N /\ p # <<>>
    BY <1>2, <1>3, <1>4
  <1>6. Pieces = p
    BY <1>1, <1>4 DEF Pieces
  <1> QED BY <1>1, <1>5, <1>6, FlattenType DEF ReadSoFar

LEMMA SameNames ==
    /\ Sequential!ReadSoFar = ReadSoFar
    /\ \A n, c : Sequential!Run(n, c) = Run(n, c)
    /\ \A runs, bytes :
           Sequential!IsRunLengthOf(runs, bytes) <=> IsRunLengthOf(runs, bytes)
  BY DEF Sequential!Run, Run, Sequential!IsRunLengthOf, IsRunLengthOf,
         Sequential!Expand, Expand, Sequential!Stretch, Stretch,
         Sequential!FlattenSeq, FlattenSeq, Sequential!ReadSoFar, ReadSoFar,
         Pieces

-----------------------------------------------------------------------------
(* The steps of Wzip.                                                      *)

LEMMA WzipInitInv ==
    ASSUME RoundTripInit PROVE WzipInv
  <1>1. /\ w_files \in WzipCommands \cup {NoFiles}
        /\ w_file = 1 /\ w_pos = 0 /\ last_read = 0 /\ w_count = 0
        /\ written = <<>> /\ w_status = "running"
    BY DEF RoundTripInit, Sequential!Init
  <1>2. PICK V : V = Seq(Nat) \cup {CannotOpen}
    OBVIOUS
  <1>3. w_files \in Seq(V)
    <2>1. <<>> \in Seq(V)
      OBVIOUS
    <2>2. WzipCommands \subseteq Seq(V)
      BY <1>2, CommandsAssumption
    <2> QED BY <1>1, <2>1, <2>2 DEF NoFiles
  <1>4. WzipPlace
    <2>1. w_file \in 1 .. Len(w_files) + 1
      BY <1>1, <1>3
    <2>2. w_file <= Len(w_files) /\ w_files[w_file] # CannotOpen =>
              w_pos <= Len(w_files[w_file])
      <3> SUFFICES ASSUME 1 <= Len(w_files), w_files[1] # CannotOpen
                   PROVE  0 <= Len(w_files[1])
        BY <1>1
      <3>1. w_files[1] \in Seq(Nat)
        BY <1>2, <1>3
      <3> QED BY <3>1
    <2>3. \A n \in 1 .. Len(w_files) : ~(n < w_file)
      BY <1>1
    <2> QED BY <1>1, <1>2, <1>3, <2>1, <2>2, <2>3 DEF WzipPlace
  <1>5. ReadSoFar = <<>>
    <2>1. \A n \in 1 .. Len(Pieces) : Pieces[n] = <<>>
      <3> SUFFICES ASSUME NEW n \in 1 .. Len(Pieces) PROVE Pieces[n] = <<>>
        OBVIOUS
      <3>1. n = 1 /\ n \in 1 .. w_file /\ ~(n < w_file)
        <4>1. Len(Pieces) = 1
          BY <1>1, <1>4, PiecesType
        <4> QED BY <1>1, <4>1
      <3>2. CASE n <= Len(w_files) /\ w_files[n] # CannotOpen
        <4>1. n \in 1 .. Len(w_files)
          BY <1>3, <3>1, <3>2
        <4>2. PICK f : f = w_files[n]
          OBVIOUS
        <4>3. f \in Seq(Nat)
          BY <1>4, <3>2, <4>1, <4>2, OpenFile
        <4>4. SubSeq(f, 1, 0) = <<>>
          BY <4>3
        <4> QED BY <1>1, <3>1, <3>2, <4>2, <4>4 DEF Pieces
      <3>3. CASE ~(n <= Len(w_files) /\ w_files[n] # CannotOpen)
        BY <3>1, <3>3 DEF Pieces
      <3> QED BY <3>2, <3>3
    <2> QED BY <1>4, <2>1, PiecesType, FlattenNothing DEF ReadSoFar
  <1>6. <<>> \in Seq(RunsOver(Nat))
    OBVIOUS
  <1> QED BY <1>1, <1>4, <1>5, <1>6 DEF WzipInv, WzipWritten

LEMMA WzipStays == ASSUME WzipInv, UNCHANGED wvars PROVE WzipInv'
  BY DEF WzipInv, WzipPlace, WzipWritten, ReadSoFar, Pieces, wvars

LEMMA OpenFailsInv == ASSUME WzipInv, Sequential!OpenFails PROVE WzipInv'
  BY DEF WzipInv, WzipPlace, WzipWritten, ReadSoFar, Pieces,
         Sequential!OpenFails

\* The runs that are written when a byte ends the open run, and the open run.
LEMMA ReadByteInv ==
    ASSUME WzipInv, Sequential!ReadByte PROVE WzipInv'
  <1>1. /\ w_status = "running" /\ w_status' = "running"
        /\ w_file <= Len(w_files) /\ w_files[w_file] # CannotOpen
        /\ w_pos < Len(w_files[w_file]) /\ w_pos' = w_pos + 1
        /\ UNCHANGED <<w_files, w_file>>
    BY DEF Sequential!ReadByte
  <1>2. WzipPlace
    BY DEF WzipInv
  <1>3. w_file \in 1 .. Len(w_files)
    <2>1. PICK N : N = Len(w_files)
      OBVIOUS
    <2>2. N \in Nat /\ w_file \in 1 .. N + 1
      BY <1>2, <2>1 DEF WzipPlace
    <2> QED BY <1>1, <2>1, <2>2
  <1>4. PICK f \in Seq(Nat) : f = w_files[w_file]
    BY <1>1, <1>2, <1>3, OpenFile
  <1>5. PICK k \in Nat : k = w_pos /\ k < Len(f)
    BY <1>1, <1>2, <1>4 DEF WzipPlace
  <1>6. PICK c \in Nat : c = f[k + 1]
    BY <1>5
  <1>7. WzipPlace'
    <2>1. w_pos' \in Nat /\ w_pos' <= Len(f)
      BY <1>1, <1>5
    <2> QED BY <1>1, <1>2, <1>4, <2>1 DEF WzipPlace
  <1>8. PICK p \in Seq(Seq(Nat)) : p = Pieces /\ Len(p) = w_file /\ p # <<>>
    BY <1>2, PiecesType
  <1>9. ReadSoFar' = Append(ReadSoFar, c)
    <2>1. SubSeq(f, 1, k + 1) = Append(SubSeq(f, 1, k), c)
      BY <1>5, <1>6
    <2>2. p[w_file] = SubSeq(f, 1, k)
      <3>1. /\ w_file \in 1 .. w_file /\ ~(w_file < w_file)
            /\ w_file <= Len(w_files) /\ w_files[w_file] # CannotOpen
        BY <1>1, <1>3
      <3>2. p[w_file] = SubSeq(w_files[w_file], 1, w_pos)
        BY <1>8, <3>1 DEF Pieces
      <3> QED BY <1>4, <1>5, <3>2
    <2>3. Pieces'[w_file] = SubSeq(f, 1, k + 1)
      BY <1>1, <1>3, <1>4, <1>5 DEF Pieces
    <2>4. PICK q : q = [p EXCEPT ![w_file] = Append(@, c)]
      OBVIOUS
    <2>5. /\ q = [n \in 1 .. w_file |-> q[n]]
          /\ q[w_file] = Append(p[w_file], c)
          /\ \A n \in 1 .. w_file : n # w_file => q[n] = p[n]
      <3>1. PICK U, D : U = Seq(Nat) /\ D = 1 .. w_file
        OBVIOUS
      <3>2. p \in Seq(U) /\ DOMAIN p = D /\ w_file \in D
        <4>1. DOMAIN p = 1 .. Len(p)
          BY <1>8
        <4> QED BY <1>3, <1>8, <3>1, <4>1
      <3>3. /\ q = [n \in D |-> q[n]]
            /\ q[w_file] = Append(p[w_file], c)
            /\ \A n \in D : n # w_file => q[n] = p[n]
        BY <2>4, <3>2
      <3> QED BY <3>1, <3>3
    <2>6. \A n \in 1 .. w_file : n # w_file => Pieces'[n] = p[n]
      BY <1>1, <1>3, <1>8 DEF Pieces
    <2>7. Pieces' = [n \in 1 .. w_file |-> Pieces'[n]]
      BY <1>1 DEF Pieces
    <2>8. q = Pieces'
      <3>1. \A n \in 1 .. w_file : q[n] = Pieces'[n]
        BY <2>1, <2>2, <2>3, <2>5, <2>6
      <3> QED BY <2>5, <2>7, <3>1, SameValues
    <2>9. FlattenSeq(q) = Append(FlattenSeq(p), c)
      BY <1>8, <2>4, FlattenGrow
    <2> QED BY <1>8, <2>8, <2>9 DEF ReadSoFar
  <1>10. PICK x \in Seq(Nat) : x = ReadSoFar
    BY <1>2, PiecesType
  <1>11. /\ last_read \in Nat /\ w_count \in Nat
         /\ written \in Seq(RunsOver(Nat))
         /\ w_count = 0 => written = <<>> /\ x = <<>>
         /\ w_count > 0 =>
                IsRunLengthOf(Append(written, Run(w_count, last_read)), x)
    BY <1>1, <1>10 DEF WzipInv, WzipWritten
  <1>12. IF c = last_read
         THEN w_count' = w_count + 1 /\ UNCHANGED <<written, last_read>>
         ELSE /\ written' = IF w_count > 0
                            THEN Append(written, Run(w_count, last_read))
                            ELSE written
              /\ w_count' = 1 /\ last_read' = c
    BY <1>4, <1>5, <1>6, SameNames DEF Sequential!ReadByte, Sequential!diwrite
  <1>13. /\ last_read' = c /\ w_count' \in Nat /\ w_count' > 0
         /\ written' \in Seq(RunsOver(Nat))
         /\ IsRunLengthOf(Append(written', Run(w_count', last_read')),
                          Append(x, c))
    <2>1. CASE w_count = 0
      <3>1. /\ w_count' = 1 /\ last_read' = c /\ written' = <<>>
        BY <1>11, <1>12, <2>1
      <3>2. /\ Append(written', Run(w_count', last_read')) = <<Run(1, c)>>
            /\ Append(x, c) = <<c>>
        BY <1>11, <2>1, <3>1
      <3>3. <<>> \in Seq(RunsOver(Nat))
        OBVIOUS
      <3>4. PICK r : r = <<Run(1, c)>>
        OBVIOUS
      <3>5. IsRunLengthOf(r, <<c>>)
        BY <3>4, OneByte
      <3>6. IsRunLengthOf(Append(written', Run(w_count', last_read')),
                          Append(x, c))
        BY <3>2, <3>4, <3>5
      <3> QED BY <3>1, <3>3, <3>6
    <2>2. CASE w_count # 0
      <3>1. PICK n \in Nat \ {0}, d \in Nat : n = w_count /\ d = last_read
        BY <1>11, <2>2
      <3>2. PICK runs \in Seq(RunsOver(Nat)) : runs = written
        BY <1>11
      <3>3. IsRunLengthOf(Append(runs, Run(n, d)), x)
        BY <1>11, <3>1, <3>2
      <3>4. /\ Append(runs, Run(n, d)) \in Seq(RunsOver(Nat))
            /\ d = c => IsRunLengthOf(Append(runs, Run(n + 1, d)),
                                      Append(x, c))
            /\ d # c => IsRunLengthOf(Append(Append(runs, Run(n, d)),
                                             Run(1, c)), Append(x, c))
        BY <3>3, NextByte
      <3>5. CASE c = last_read
        <4>1. w_count' = n + 1 /\ written' = runs /\ last_read' = d /\ d = c
          BY <1>12, <3>1, <3>2, <3>5
        <4> QED BY <3>4, <4>1
      <3>6. CASE c # last_read
        <4>1. /\ w_count' = 1 /\ written' = Append(runs, Run(n, d))
              /\ last_read' = c /\ d # c
          BY <1>12, <3>1, <3>2, <3>6
        <4> QED BY <3>4, <4>1
      <3> QED BY <3>5, <3>6
    <2> QED BY <2>1, <2>2
  <1>14. WzipWritten'
    <2>1. w_count' # 0 /\ w_status' # "done"
      BY <1>1, <1>13
    <2> QED BY <1>9, <1>10, <1>13, <2>1 DEF WzipWritten
  <1> QED BY <1>7, <1>14 DEF WzipInv

LEMMA WzipNextFileInv ==
    ASSUME WzipInv, Sequential!NextFile PROVE WzipInv'
  <1>1. /\ w_status = "running" /\ w_status' = "running"
        /\ w_file <= Len(w_files) /\ w_files[w_file] # CannotOpen
        /\ w_pos = Len(w_files[w_file])
        /\ w_file' = w_file + 1 /\ w_pos' = 0
        /\ UNCHANGED <<w_files, last_read, w_count, written>>
    BY DEF Sequential!NextFile
  <1>2. WzipPlace
    BY DEF WzipInv
  <1>3. PICK N \in Nat : N = Len(w_files)
    BY <1>2 DEF WzipPlace
  <1>4. PICK m \in 1 .. N : m = w_file
    <2>1. w_file \in 1 .. N + 1 /\ w_file <= N
      BY <1>1, <1>2, <1>3 DEF WzipPlace
    <2> QED BY <1>3, <2>1
  <1>5. w_file' = m + 1 /\ m \in 1 .. Len(w_files)
    BY <1>1, <1>3, <1>4
  <1>6. WzipPlace'
    <2>1. w_file' \in 1 .. Len(w_files') + 1
      BY <1>1, <1>3, <1>4
    <2>2. ASSUME NEW n \in 1 .. Len(w_files), n < w_file'
          PROVE  w_files[n] # CannotOpen
      <3>1. n < w_file \/ n = w_file
        BY <1>3, <1>4, <1>5, <2>2
      <3> QED BY <1>1, <1>2, <3>1 DEF WzipPlace
    <2>3. w_file' <= Len(w_files) /\ w_files[w_file'] # CannotOpen =>
              0 <= Len(w_files[w_file'])
      <3> SUFFICES ASSUME m + 1 <= Len(w_files), w_files[m + 1] # CannotOpen
                   PROVE  0 <= Len(w_files[m + 1])
        BY <1>5
      <3>1. m + 1 \in 1 .. Len(w_files)
        BY <1>3
      <3>2. w_files[m + 1] \in Seq(Nat)
        BY <1>2, <3>1, OpenFile
      <3> QED BY <3>2
    <2> QED BY <1>1, <1>2, <2>1, <2>2, <2>3 DEF WzipPlace
  <1>7. ReadSoFar' = ReadSoFar
    <2>1. PICK p \in Seq(Seq(Nat)) : p = Pieces /\ Len(p) = m
      BY <1>2, <1>4, PiecesType
    <2>2. PICK q : q = Pieces'
      OBVIOUS
    <2>3. q = [n \in 1 .. m + 1 |-> q[n]]
      BY <1>5, <2>2 DEF Pieces
    <2>4. ASSUME NEW n \in 1 .. m PROVE p[n] = q[n]
      <3>1. n \in 1 .. m + 1 /\ n < m + 1
        OBVIOUS
      <3>2. q[n] = w_files[n]
        BY <1>1, <1>5, <2>2, <3>1 DEF Pieces
      <3>3. CASE n < m
        BY <1>4, <2>1, <3>2, <3>3 DEF Pieces
      <3>4. CASE n = m
        <4>1. p[n] = SubSeq(w_files[m], 1, w_pos)
          BY <1>1, <1>4, <2>1, <3>4 DEF Pieces
        <4>2. PICK f \in Seq(Nat) : f = w_files[m]
          BY <1>1, <1>2, <1>4, <1>5, OpenFile
        <4>3. SubSeq(f, 1, Len(f)) = f
          OBVIOUS
        <4> QED BY <1>1, <1>4, <3>2, <3>4, <4>1, <4>2, <4>3
      <3> QED BY <3>3, <3>4
    <2>5. q[m + 1] = <<>>
      <3>1. m + 1 \in 1 .. w_file' /\ ~(m + 1 < w_file')
        BY <1>5
      <3>2. CASE m + 1 <= Len(w_files) /\ w_files[m + 1] # CannotOpen
        <4>1. m + 1 \in 1 .. Len(w_files)
          BY <1>3, <3>2
        <4>2. PICK f \in Seq(Nat) : f = w_files[m + 1]
          BY <1>2, <3>2, <4>1, OpenFile
        <4>3. SubSeq(f, 1, 0) = <<>>
          OBVIOUS
        <4> QED BY <1>1, <2>2, <3>1, <3>2, <4>2, <4>3 DEF Pieces
      <3>3. CASE ~(m + 1 <= Len(w_files) /\ w_files[m + 1] # CannotOpen)
        BY <1>1, <2>2, <3>1, <3>3 DEF Pieces
      <3> QED BY <3>2, <3>3
    <2>6. q = Append(p, <<>>)
      <3>1. PICK t : t = Append(p, <<>>)
        OBVIOUS
      <3>2. /\ t = [n \in 1 .. m + 1 |-> t[n]] /\ t[m + 1] = <<>>
            /\ \A n \in 1 .. m : t[n] = p[n]
        <4>1. PICK U, e : U = Seq(Nat) /\ e = <<>>
          OBVIOUS
        <4>2. p \in Seq(U) /\ Len(p) = m /\ e \in U /\ m \in Nat
          <5>1. <<>> \in Seq(Nat)
            OBVIOUS
          <5> QED BY <1>3, <1>4, <2>1, <4>1, <5>1
        <4>3. /\ t = [n \in 1 .. m + 1 |-> t[n]] /\ t[m + 1] = e
              /\ \A n \in 1 .. m : t[n] = p[n]
          <5>1. t = Append(p, e)
            BY <3>1, <4>1
          <5>2. t \in Seq(U) /\ Len(t) = m + 1
            BY <4>2, <5>1
          <5>3. DOMAIN t = 1 .. m + 1
            BY <5>2
          <5>4. t = [n \in DOMAIN t |-> t[n]]
            BY <5>2
          <5>5. t[m + 1] = e /\ \A n \in 1 .. m : t[n] = p[n]
            BY <4>2, <5>1
          <5> QED BY <5>3, <5>4, <5>5
        <4> QED BY <4>1, <4>3
      <3>3. \A n \in 1 .. m + 1 : t[n] = q[n]
        <4>1. ASSUME NEW n \in 1 .. m + 1 PROVE n = m + 1 \/ n \in 1 .. m
          BY <1>3, <1>4
        <4> QED BY <2>4, <2>5, <3>2, <4>1
      <3> QED BY <2>3, <3>1, <3>2, <3>3, SameValues
    <2>7. <<>> \in Seq(Nat)
      OBVIOUS
    <2>8. FlattenSeq(q) = FlattenSeq(p) \o <<>>
      BY <2>6, <2>7, FlattenAppend
    <2>9. PICK x \in Seq(Nat) : x = FlattenSeq(p)
      BY FlattenType
    <2>10. x \o <<>> = x
      OBVIOUS
    <2> QED BY <2>1, <2>2, <2>8, <2>9, <2>10 DEF ReadSoFar
  <1>8. WzipWritten'
    BY <1>1, <1>7 DEF WzipInv, WzipWritten
  <1> QED BY <1>6, <1>8 DEF WzipInv

\* At the end all files have been read; no byte at all is a run of none.
LEMMA WriteLastInv ==
    ASSUME WzipInv, Sequential!WriteLast PROVE WzipInv'
  <1>1. /\ w_status = "running" /\ w_status' = "done"
        /\ w_file > Len(w_files)
        /\ written' = Append(written, Run(w_count, last_read))
        /\ UNCHANGED <<w_files, w_file, w_pos, last_read, w_count>>
    BY SameNames DEF Sequential!WriteLast
  <1>2. WzipPlace /\ WzipPlace'
    BY <1>1 DEF WzipInv, WzipPlace
  <1>3. PICK N \in Nat : N = Len(w_files) /\ w_file = N + 1
    <2>1. PICK N : N = Len(w_files)
      OBVIOUS
    <2>2. N \in Nat /\ w_file \in 1 .. N + 1
      BY <1>2, <2>1 DEF WzipPlace
    <2> QED BY <1>1, <2>1, <2>2
  <1>4. PICK U : U = Seq(Nat)
    OBVIOUS
  <1>5. \A n \in 1 .. N : w_files[n] \in U
    BY <1>2, <1>3, <1>4, OpenFile DEF WzipPlace
  <1>6. w_files \in Seq(U)
    <2>1. PICK V : V = U \cup {CannotOpen}
      OBVIOUS
    <2>2. w_files \in Seq(V)
      BY <1>2, <1>4, <2>1 DEF WzipPlace
    <2> QED BY <1>3, <1>5, <2>2
  <1>7. ReadSoFar = FlattenSeq(w_files)
    <2>1. PICK p \in Seq(Seq(Nat)) : p = Pieces /\ Len(p) = N + 1
      BY <1>2, <1>3, PiecesType
    <2>2. ASSUME NEW n \in 1 .. N PROVE w_files[n] = p[n]
      <3>1. n \in 1 .. w_file /\ n < w_file
        BY <1>3
      <3> QED BY <2>1, <3>1 DEF Pieces
    <2>3. p[N + 1] = <<>>
      <3>1. N + 1 \in 1 .. w_file /\ ~(N + 1 < w_file)
            /\ ~(N + 1 <= Len(w_files))
        BY <1>3
      <3> QED BY <2>1, <3>1 DEF Pieces
    <2>4. p = Append(w_files, <<>>)
      BY <1>3, <1>4, <1>6, <2>1, <2>2, <2>3, SameAppend
    <2>5. <<>> \in Seq(Nat)
      OBVIOUS
    <2>6. FlattenSeq(p) = FlattenSeq(w_files) \o <<>>
      BY <1>4, <1>6, <2>4, <2>5, FlattenAppend
    <2>7. PICK x \in Seq(Nat) : x = FlattenSeq(w_files)
      BY <1>4, <1>6, FlattenType
    <2>8. x \o <<>> = x
      OBVIOUS
    <2> QED BY <2>1, <2>6, <2>7, <2>8 DEF ReadSoFar
  <1>8. /\ last_read \in Nat /\ w_count \in Nat
        /\ written \in Seq(RunsOver(Nat))
        /\ w_count = 0 => written = <<>> /\ ReadSoFar = <<>>
        /\ w_count > 0 => IsRunLengthOf(
                              Append(written, Run(w_count, last_read)),
                              ReadSoFar)
    BY <1>1 DEF WzipInv, WzipWritten
  <1>9. written' \in Seq([count : Nat, char : Nat])
    <2>1. PICK R : R = [count : Nat, char : Nat]
      OBVIOUS
    <2>2. RunsOver(Nat) \subseteq R
      BY <2>1 DEF RunsOver
    <2>3. Run(w_count, last_read) \in R
      BY <1>8, <2>1 DEF Run
    <2>4. PICK Q : Q = RunsOver(Nat)
      OBVIOUS
    <2>5. written \in Seq(R)
      BY <1>8, <2>2, <2>4
    <2> QED BY <1>1, <2>1, <2>3, <2>5
  <1>10. Expand(written') = FlattenSeq(w_files)
    <2>1. CASE w_count > 0
      BY <1>1, <1>7, <1>8, <2>1 DEF IsRunLengthOf
    <2>2. CASE ~(w_count > 0)
      <3>1. w_count = 0 /\ written = <<>>
        BY <1>8, <2>2
      <3>2. written' = <<Run(0, last_read)>>
        BY <1>1, <3>1
      <3>3. PICK r : r = Run(0, last_read)
        OBVIOUS
      <3>4. Stretch(r) = <<>>
        BY <3>3 DEF Run, Stretch
      <3>5. [k \in 1 .. Len(<<r>>) |-> Stretch(<<r>>[k])] = << <<>> >>
        BY <3>4
      <3>6. Expand(<<r>>) = FlattenSeq(<< <<>> >>)
        BY <3>5 DEF Expand
      <3>7. <<>> \in Seq(Nat)
        OBVIOUS
      <3>8. FlattenSeq(<< <<>> >>) = <<>>
        BY <3>7, FlattenOne
      <3> QED BY <1>7, <1>8, <3>1, <3>2, <3>3, <3>6, <3>8
    <2> QED BY <2>1, <2>2
  <1>11. WzipWritten'
    BY <1>1, <1>4, <1>6, <1>8, <1>9, <1>10 DEF WzipWritten
  <1> QED BY <1>2, <1>11 DEF WzipInv

LEMMA WzipNextInv == ASSUME WzipInv, Sequential!Next PROVE WzipInv'
  BY OpenFailsInv, ReadByteInv, WzipNextFileInv, WriteLastInv
     DEF Sequential!Next

\* The invariant says what the property does.
LEMMA WzipSaysSo == WzipInv => Sequential!WrittenAndOpenRun
  <1> SUFFICES ASSUME WzipInv, w_status # "done"
               PROVE  IsRunLengthOf(IF w_count = 0 THEN written
                                    ELSE Append(written,
                                                Run(w_count, last_read)),
                                    ReadSoFar)
    BY SameNames DEF Sequential!WrittenAndOpenRun
  <1>1. CASE w_count = 0
    BY <1>1, NoBytes DEF WzipInv, WzipWritten
  <1>2. CASE w_count # 0
    <2>1. w_count > 0
      BY <1>2 DEF WzipInv, WzipWritten
    <2> QED BY <1>2, <2>1 DEF WzipInv, WzipWritten
  <1> QED BY <1>1, <1>2

-----------------------------------------------------------------------------
(* Wunzip: what it prints.                                                 *)

\* The first k records of an archive.
Records(z, k) == UpTo(Stretches(z), k)

LEMMA RecordsAre ==
    ASSUME NEW z \in Seq(RunType)
    PROVE  /\ \A k \in 0 .. Len(z) : Records(z, k) \in Seq(Nat)
           /\ \A k \in 0 .. Len(z) - 1 :
                  Records(z, k + 1) = Cat(Records(z, k), Stretch(z[k + 1]))
           /\ Records(z, 0) = <<>> /\ Records(z, Len(z)) = Expand(z)
  <1>1. PICK N \in Nat : N = Len(z)
    OBVIOUS
  <1>2. PICK ss : ss = Stretches(z)
    OBVIOUS
  <1>3. \A n \in 1 .. N : ss[n] = Stretch(z[n]) /\ ss[n] \in Seq(Nat)
    <2> SUFFICES ASSUME NEW n \in 1 .. N
                 PROVE  ss[n] = Stretch(z[n]) /\ ss[n] \in Seq(Nat)
      OBVIOUS
    <2>1. PICK r : r = z[n]
      OBVIOUS
    <2>2. r.count \in Nat /\ r.char \in Nat
      <3>1. PICK R : R = RunType
        OBVIOUS
      <3>2. z \in Seq(R)
        BY <3>1
      <3>3. r \in R
        BY <1>1, <2>1, <3>2
      <3> QED BY <3>1, <3>3 DEF RunType
    <2>3. Stretch(r) \in Seq(Nat)
      BY <2>2 DEF Stretch
    <2>4. ss[n] = Stretch(r)
      BY <1>1, <1>2, <2>1 DEF Stretches
    <2> QED BY <2>1, <2>3, <2>4
  <1>4. ASSUME NEW k \in 0 .. N PROVE Records(z, k) \in Seq(Nat)
    <2>1. k \in Nat /\ \A n \in 1 .. k : n \in 1 .. N
      BY <1>1
    <2>2. \A n \in 1 .. k : ss[n] \in Seq(Nat)
      BY <1>3, <2>1
    <2> QED BY <1>2, <2>1, <2>2, UpToType DEF Records
  <1>5. ASSUME NEW k \in 0 .. N - 1
        PROVE  Records(z, k + 1) = Cat(Records(z, k), Stretch(z[k + 1]))
    <2>1. PICK n : n = k + 1
      OBVIOUS
    <2>2. k \in Nat /\ n \in 1 .. N /\ \A i \in 1 .. n : i \in 1 .. N
      BY <1>1, <2>1
    <2>3. \A i \in 1 .. n : ss[i] \in Seq(Nat)
      BY <1>3, <2>2
    <2>4. UpTo(ss, n) = Cat(UpTo(ss, k), ss[n])
      BY <2>1, <2>2, <2>3, UpToNext
    <2>5. ss[n] = Stretch(z[n])
      BY <1>3, <2>2
    <2> QED BY <1>2, <2>1, <2>4, <2>5 DEF Records
  <1>6. Records(z, 0) = <<>>
    BY UpToNone DEF Records
  <1>7. Records(z, N) = Expand(z)
    <2>1. [n \in 1 .. N |-> ss[n]] = [n \in 1 .. N |-> Stretch(z[n])]
      BY <1>3
    <2> QED BY <1>1, <1>2, <2>1 DEF Records, UpTo, Expand
  <1> QED BY <1>1, <1>4, <1>5, <1>6, <1>7

\* What has been printed when the n-th archive is opened.
Earlier(z, n) == IF n = 1 THEN <<>>
                 ELSE IF n = 2 THEN Expand(z) ELSE Cat(Expand(z), Expand(z))

\* Where wunzip is, if it was called with z.
UnzipPlace(z) ==
    /\ archives \in {<<z>>, <<z, z>>, <<z, CannotOpen>>}
    /\ archive \in 1 .. Len(archives) + 1
    /\ archive = 3 => archives = <<z, z>>
    /\ record \in 0 .. Len(z)
    /\ record # 0 => archive <= Len(archives) /\ archives[archive] = z
    /\ text = Cat(Earlier(z, archive), Records(z, record))
    /\ unzipping \in {"running", "done", "return1"}
    /\ unzipping = "done" => archive > Len(archives)
    /\ unzipping = "return1" =>
           archive <= Len(archives) /\ archives[archive] = CannotOpen

UnzipInv ==
    /\ unzipping = "waiting" => archive = 1 /\ record = 0 /\ text = <<>>
    /\ unzipping # "waiting" => /\ ZipEndedWell
                                /\ Reliable => UnzipPlace(Zipped)

LEMMA CalledPlace ==
    ASSUME NEW z \in Seq(RunType), unzipping = "waiting", UnzipInv,
           \E files \in {<<z>>, <<z, z>>, <<z, CannotOpen>>} :
               Unzip!Call(files)
    PROVE  UnzipPlace(z)'
  <1>1. /\ archives' \in {<<z>>, <<z, z>>, <<z, CannotOpen>>}
        /\ unzipping' = "running" /\ archive' = 1 /\ record' = 0
        /\ text' = <<>>
    BY DEF Unzip!Call, UnzipInv
  <1>2. Len(archives') \in {1, 2}
    BY <1>1
  <1>3. Cat(Earlier(z, 1), Records(z, 0)) = <<>>
    BY RecordsAre DEF Earlier, Cat
  <1>4. Len(z) \in Nat
    OBVIOUS
  <1> QED BY <1>1, <1>2, <1>3, <1>4 DEF UnzipPlace

LEMMA ExpandedType ==
    ASSUME NEW z \in Seq(RunType)
    PROVE  /\ Expand(z) \in Seq(Nat)
           /\ \A n : Earlier(z, n) \in Seq(Nat)
  <1>1. Expand(z) \in Seq(Nat)
    <2>1. Len(z) \in 0 .. Len(z)
      OBVIOUS
    <2> QED BY <2>1, RecordsAre
  <1>2. Cat(Expand(z), Expand(z)) \in Seq(Nat) /\ <<>> \in Seq(Nat)
    BY <1>1, Associative
  <1> QED BY <1>1, <1>2 DEF Earlier

LEMMA ReadRecordPlace ==
    ASSUME NEW z \in Seq(RunType), UnzipPlace(z), Unzip!ReadRecord
    PROVE  UnzipPlace(z)'
  <1>1. /\ unzipping = "running" /\ archive <= Len(archives)
        /\ archives[archive] # CannotOpen
        /\ record < Len(archives[archive]) /\ record' = record + 1
        /\ UNCHANGED <<archives, archive, unzipping>>
    BY DEF Unzip!ReadRecord
  <1>2. archives[archive] = z
    <2>1. archive \in {1, 2}
      <3>1. Len(archives) \in {1, 2}
        BY DEF UnzipPlace
      <3> QED BY <1>1, <3>1 DEF UnzipPlace
    <2>2. archives[archive] \in {z, CannotOpen}
      BY <1>1, <2>1 DEF UnzipPlace
    <2> QED BY <1>1, <2>2
  <1>3. PICK N \in Nat, k \in Nat : N = Len(z) /\ k = record
    BY DEF UnzipPlace
  <1>4. k \in 0 .. N - 1 /\ k + 1 \in 0 .. N /\ k \in 0 .. N
    BY <1>1, <1>2, <1>3
  <1>5. text' = Cat(text, Stretch(z[k + 1]))
    BY <1>2, <1>3 DEF Unzip!ReadRecord, Cat, Stretch
  <1>6. PICK x, y, s : /\ x = Earlier(z, archive) /\ y = Records(z, k)
                       /\ s = Stretch(z[k + 1])
    OBVIOUS
  <1>7. x \in Seq(Nat) /\ y \in Seq(Nat) /\ Records(z, k + 1) = Cat(y, s)
    BY <1>3, <1>4, <1>6, ExpandedType, RecordsAre
  <1>8. s \in Seq(Nat)
    <2>1. PICK R, r : R = RunType /\ r = z[k + 1]
      OBVIOUS
    <2>2. z \in Seq(R) /\ k + 1 \in 1 .. Len(z)
      BY <1>3, <1>4, <2>1
    <2>3. r \in R
      BY <2>1, <2>2
    <2>4. r.count \in Nat /\ r.char \in Nat
      BY <2>1, <2>3 DEF RunType
    <2>5. Stretch(r) \in Seq(Nat)
      BY <2>4 DEF Stretch
    <2> QED BY <1>6, <2>1, <2>5
  <1>9. text = Cat(x, y)
    BY <1>3, <1>6 DEF UnzipPlace
  <1>10. text' = Cat(x, Records(z, k + 1))
    BY <1>5, <1>6, <1>7, <1>8, <1>9, Associative
  <1> QED BY <1>1, <1>2, <1>3, <1>4, <1>6, <1>10 DEF UnzipPlace

LEMMA NextArchivePlace ==
    ASSUME NEW z \in Seq(RunType), UnzipPlace(z), Unzip!NextArchive
    PROVE  UnzipPlace(z)'
  <1>1. /\ unzipping = "running" /\ archive <= Len(archives)
        /\ archives[archive] # CannotOpen
        /\ record = Len(archives[archive]) /\ record' = 0
        /\ archive' = archive + 1
        /\ UNCHANGED <<archives, text, unzipping>>
    BY DEF Unzip!NextArchive
  <1>2. archive \in {1, 2} /\ Len(archives) \in {1, 2}
    <2>1. Len(archives) \in {1, 2}
      BY DEF UnzipPlace
    <2> QED BY <1>1, <2>1 DEF UnzipPlace
  <1>3. archives[archive] = z
    <2>1. archives[archive] \in {z, CannotOpen}
      BY <1>1, <1>2 DEF UnzipPlace
    <2> QED BY <1>1, <2>1
  <1>4. archive' \in 1 .. Len(archives) + 1
    BY <1>1, <1>2
  <1>5. archive' = 3 => archives = <<z, z>>
    <2> SUFFICES ASSUME archive = 2 PROVE archives = <<z, z>>
      BY <1>1, <1>2
    <2>1. archives \in {<<z, z>>, <<z, CannotOpen>>}
      BY <1>1 DEF UnzipPlace
    <2> QED BY <1>1, <2>1
  <1>6. PICK e \in Seq(Nat) : e = Expand(z)
    BY ExpandedType
  <1>7. text = Cat(Earlier(z, archive), e)
    BY <1>1, <1>3, <1>6, RecordsAre DEF UnzipPlace
  <1>8. text = Earlier(z, archive')
    <2>1. CASE archive = 1
      <3>1. archive' = 2
        BY <1>1, <2>1
      <3>2. Cat(<<>>, e) = e
        BY DEF Cat
      <3> QED BY <1>6, <1>7, <2>1, <3>1, <3>2 DEF Earlier
    <2>2. CASE archive = 2
      <3>1. archive' = 3
        BY <1>1, <2>2
      <3> QED BY <1>6, <1>7, <2>2, <3>1 DEF Earlier
    <2> QED BY <1>2, <2>1, <2>2
  <1>9. text = Cat(Earlier(z, archive'), Records(z, 0))
    <2>1. PICK x \in Seq(Nat) : x = Earlier(z, archive')
      BY ExpandedType
    <2>2. x \o <<>> = x
      OBVIOUS
    <2> QED BY <1>8, <2>1, <2>2, RecordsAre DEF Cat
  <1>10. 0 \in 0 .. Len(z)
    OBVIOUS
  <1> QED BY <1>1, <1>4, <1>5, <1>9, <1>10 DEF UnzipPlace

LEMMA UnzipNextPlace ==
    ASSUME NEW z \in Seq(RunType), UnzipPlace(z), Unzip!UnzipNext
    PROVE  UnzipPlace(z)'
  <1>1. CASE Unzip!OpenArchiveFails
    BY <1>1 DEF Unzip!OpenArchiveFails, UnzipPlace
  <1>2. CASE Unzip!Return
    BY <1>2 DEF Unzip!Return, UnzipPlace
  <1> QED BY <1>1, <1>2, ReadRecordPlace, NextArchivePlace
          DEF Unzip!UnzipNext

-----------------------------------------------------------------------------
(* The zips and wunzip together.                                           *)

ZipsInv == Inv /\ OutInv /\ WzipInv /\ PzipInv

LEMMA RoundTripInitInv == RoundTripInit => ZipsInv
  <1> SUFFICES ASSUME RoundTripInit PROVE ZipsInv
    OBVIOUS
  <1>1. Init
    BY DEF RoundTripInit
  <1> QED BY <1>1, InitInv, OutInitInv, WzipInitInv, PzipInitInv DEF ZipsInv

\* The steps of one program leave alone what the others have done.
LEMMA RoundTripNextInv == ZipsInv /\ [RoundTripNext]_allvars => ZipsInv'
  <1> SUFFICES ASSUME ZipsInv, [RoundTripNext]_allvars PROVE ZipsInv'
    OBVIOUS
  <1>1. Inv /\ OutInv /\ WzipInv /\ PzipInv
    BY DEF ZipsInv
  <1>2. UNCHANGED vars => Inv' /\ OutInv'
    BY <1>1, NextInv, OutNext
  <1>3. UNCHANGED wvars => WzipInv'
    BY <1>1, WzipStays
  <1>4. UNCHANGED <<program, pvars>> => PzipInv'
    BY <1>1, PzipStays
  <1>5. CASE program = "wzip" /\ Sequential!Next
             /\ UNCHANGED <<program, pvars, vars, uvars, rvars>>
    <2>1. WzipInv'
      BY <1>1, <1>5, WzipNextInv
    <2> QED BY <1>2, <1>4, <1>5, <2>1 DEF ZipsInv
  <1>6. CASE program = "pzip" /\ FourChunks!PzipNext
             /\ UNCHANGED <<program, wvars, vars, uvars, rvars>>
    <2>1. PzipInv'
      BY <1>1, <1>6, PzipNextInv
    <2> QED BY <1>2, <1>3, <1>6, <2>1 DEF ZipsInv
  <1>7. CASE program = "pzip2" /\ Next
             /\ UNCHANGED <<program, wvars, pvars, uvars, rvars>>
    <2>1. Inv' /\ OutInv'
      BY <1>1, <1>7, NextInv, OutNext
    <2> QED BY <1>3, <1>4, <1>7, <2>1 DEF ZipsInv
  <1>8. CASE UNCHANGED <<program, wvars, pvars, vars>>
    BY <1>2, <1>3, <1>4, <1>8 DEF ZipsInv
  <1>9. UNCHANGED allvars => UNCHANGED <<program, wvars, pvars, vars>>
    BY DEF allvars
  <1> QED BY <1>5, <1>6, <1>7, <1>8, <1>9 DEF RoundTripNext

LEMMA ZipsInvariance == RoundTripSpec => []ZipsInv
  BY RoundTripInitInv, RoundTripNextInv, PTL DEF RoundTripSpec

-----------------------------------------------------------------------------
(* A zip and wunzip, one after the other.                                  *)

\* What a zip has written holds the bytes that it was given.
LEMMA ZippedIs ==
    ASSUME ZipsInv, ZipEndedWell, Reliable
    PROVE  /\ Zipped \in Seq(RunType) /\ Expand(Zipped) = Original
           /\ Original \in Seq(Nat)
  <1>1. \A runs : runs \in Seq(RunsOver(Nat)) => runs \in Seq(RunType)
    <2>1. PICK U, V : U = RunsOver(Nat) /\ V = RunType
      OBVIOUS
    <2>2. U \subseteq V
      BY <2>1 DEF RunsOver, RunType
    <2>3. \A runs : runs \in Seq(U) => runs \in Seq(V)
      BY <2>2
    <2> QED BY <2>1, <2>3
  <1>2. Zipped \in Seq(RunType) /\ Expand(Zipped) = Original
    <2>1. CASE program = "wzip"
      <3>1. w_status = "done"
        BY <2>1 DEF ZipEndedWell
      <3>2. /\ written \in Seq([count : Nat, char : Nat])
            /\ Expand(written) = FlattenSeq(w_files)
        BY <3>1 DEF ZipsInv, WzipInv, WzipWritten
      <3>3. Zipped = written /\ Original = FlattenSeq(w_files)
        BY <2>1 DEF Zipped, Original
      <3> QED BY <3>2, <3>3 DEF RunType
    <2>2. CASE program = "pzip"
      <3>1. step = "written"
        BY <2>2 DEF ZipEndedWell
      <3>2. Zipped = stream /\ Original = PzipBytes
        BY <2>2 DEF Zipped, Original, PzipBytes
      <3>3. /\ FourChunks!AllOpened /\ FourChunks!final_len > 0
            /\ NoZero(PzipBytes)
        BY <2>2, <3>2 DEF Reliable, NoZero
      <3>4. /\ stream \in Seq(RunsOver(Nat))
            /\ IsRunLengthOf(stream, PzipBytes)
        BY <2>2, <3>1, <3>3 DEF ZipsInv, PzipInv, PzipEnds
      <3> QED BY <1>1, <3>2, <3>4 DEF IsRunLengthOf
    <2>3. CASE program = "pzip2"
      <3>1. status = "printed"
        BY <2>3 DEF ZipEndedWell
      <3>2. Zipped = printed /\ Original = Everything
        BY <2>3 DEF Zipped, Original
      <3>3. /\ printed \in Seq(RunsOver(Nat))
            /\ IsRunLengthOf(printed, Everything)
        BY <3>1 DEF ZipsInv, OutInv, PrintedWell
      <3> QED BY <1>1, <3>2, <3>3 DEF IsRunLengthOf
    <2>4. program \in {"wzip", "pzip", "pzip2"}
      BY DEF ZipEndedWell
    <2> QED BY <2>1, <2>2, <2>3, <2>4
  <1> QED BY <1>2, ExpandedType

\* A zip that has ended does nothing more.
LEMMA ZipsEnd ==
    ASSUME ZipEndedWell, [RoundTripNext]_allvars
    PROVE  /\ UNCHANGED <<program, wvars, pvars, vars>>
           /\ CallWunzip \/ Unzip!UnzipNext \/ UNCHANGED uvars
  <1>1. /\ program = "wzip" => w_status = "done"
        /\ program = "pzip" => step = "written"
        /\ program = "pzip2" => status = "printed"
        /\ program # "reverse"
    BY DEF ZipEndedWell
  <1>2. ~(program = "wzip" /\ Sequential!Next)
    BY <1>1 DEF Sequential!Next, Sequential!OpenFails, Sequential!ReadByte,
                Sequential!NextFile, Sequential!WriteLast
  <1>3. ~(program = "pzip" /\ FourChunks!PzipNext)
    BY <1>1 DEF FourChunks!PzipNext, FourChunks!ReadFiles, FourChunks!Cut,
                FourChunks!CompressChunk, FourChunks!Write
  <1>4. ~(program = "pzip2" /\ Next)
    BY <1>1 DEF Next
  <1>5. UNCHANGED allvars => UNCHANGED <<program, wvars, pvars, vars, uvars>>
    BY DEF allvars
  <1> QED BY <1>1, <1>2, <1>3, <1>4, <1>5 DEF RoundTripNext

LEMMA EndedStays ==
    ASSUME UNCHANGED <<program, wvars, pvars, vars>>
    PROVE  /\ ZipEndedWell' = ZipEndedWell /\ Zipped' = Zipped
           /\ Reliable' = Reliable /\ Original' = Original
  <1>1. /\ program' = program /\ w_status' = w_status /\ written' = written
        /\ w_files' = w_files /\ step' = step /\ stream' = stream
        /\ mmapped' = mmapped /\ total_len' = total_len
        /\ status' = status /\ printed' = printed
        /\ args' = args /\ memory' = memory
    BY DEF wvars, pvars, vars
  <1>2. Everything' = Everything
    <2>1. Files' = Files
      BY <1>1, FilesStay
    <2> QED BY <2>1 DEF Everything
  <1>3. ZipEndedWell' = ZipEndedWell
    BY <1>1 DEF ZipEndedWell
  <1>4. Zipped' = Zipped
    BY <1>1 DEF Zipped
  <1>5. Original' = Original
    BY <1>1, <1>2 DEF Original
  <1>6. Reliable' = Reliable
    BY <1>1, <1>5 DEF Reliable, FourChunks!AllOpened, FourChunks!final_len,
                      FourChunks!seperate_len
  <1> QED BY <1>3, <1>4, <1>5, <1>6

LEMMA UnzipInitInv == RoundTripInit => UnzipInv
  BY DEF RoundTripInit, Unzip!UnzipInit, UnzipInv

LEMMA UnzipNextInv ==
    ZipsInv /\ UnzipInv /\ [RoundTripNext]_allvars => UnzipInv'
  <1> SUFFICES ASSUME ZipsInv, UnzipInv, [RoundTripNext]_allvars
               PROVE  UnzipInv'
    OBVIOUS
  <1>1. CASE ~ZipEndedWell
    <2>1. unzipping = "waiting" /\ archive = 1 /\ record = 0 /\ text = <<>>
      BY <1>1 DEF UnzipInv
    <2>2. ~CallWunzip /\ ~Unzip!UnzipNext
      BY <1>1, <2>1 DEF CallWunzip, Unzip!UnzipNext, Unzip!OpenArchiveFails,
                        Unzip!ReadRecord, Unzip!NextArchive, Unzip!Return
    <2>3. UNCHANGED uvars
      BY <2>2 DEF RoundTripNext, allvars
    <2> QED BY <2>1, <2>3 DEF UnzipInv, uvars
  <1>2. CASE ZipEndedWell
    <2>1. /\ UNCHANGED <<program, wvars, pvars, vars>>
          /\ CallWunzip \/ Unzip!UnzipNext \/ UNCHANGED uvars
      BY <1>2, ZipsEnd
    <2>2. /\ ZipEndedWell' /\ Zipped' = Zipped /\ Reliable' = Reliable
      BY <1>2, <2>1, EndedStays
    <2>3. CASE UNCHANGED uvars
      BY <2>2, <2>3 DEF UnzipInv, UnzipPlace, uvars
    <2>4. CASE CallWunzip \/ Unzip!UnzipNext
      <3>1. unzipping' # "waiting"
        BY <2>4 DEF CallWunzip, Unzip!Call, Unzip!UnzipNext,
                    Unzip!OpenArchiveFails, Unzip!ReadRecord,
                    Unzip!NextArchive, Unzip!Return
      <3>2. ASSUME Reliable PROVE UnzipPlace(Zipped)'
        <4>1. PICK z : z = Zipped
          OBVIOUS
        <4>2. z \in Seq(RunType)
          BY <1>2, <3>2, <4>1, ZippedIs
        <4>3. CASE CallWunzip
          <5>1. /\ unzipping = "waiting"
                /\ \E files \in {<<z>>, <<z, z>>, <<z, CannotOpen>>} :
                       Unzip!Call(files)
            BY <4>1, <4>3 DEF CallWunzip, Unzip!Call
          <5>2. UnzipPlace(z)'
            BY <4>2, <5>1, CalledPlace
          <5> QED BY <2>2, <4>1, <5>2 DEF UnzipPlace
        <4>4. CASE Unzip!UnzipNext
          <5>1. unzipping # "waiting"
            BY <4>4 DEF Unzip!UnzipNext, Unzip!OpenArchiveFails,
                        Unzip!ReadRecord, Unzip!NextArchive, Unzip!Return
          <5>2. UnzipPlace(z)
            BY <3>2, <4>1, <5>1 DEF UnzipInv
          <5>3. UnzipPlace(z)'
            BY <4>2, <4>4, <5>2, UnzipNextPlace
          <5> QED BY <2>2, <4>1, <5>3 DEF UnzipPlace
        <4> QED BY <2>4, <4>3, <4>4
      <3> QED BY <2>2, <3>1, <3>2 DEF UnzipInv
    <2> QED BY <2>1, <2>3, <2>4
  <1> QED BY <1>1, <1>2

LEMMA UnzipSaysSo == ZipsInv /\ UnzipInv => UnzippedIsOriginal
  <1> SUFFICES ASSUME ZipsInv, UnzipInv, unzipping \in {"done", "return1"},
                      Reliable
               PROVE  /\ unzipping = "done" =>
                             text = IF Len(archives) = 1 THEN Original
                                    ELSE Original \o Original
                      /\ unzipping = "return1" => text = Original
    BY DEF UnzippedIsOriginal
  <1>1. ZipEndedWell /\ UnzipPlace(Zipped)
    BY DEF UnzipInv
  <1>2. PICK z : z = Zipped
    OBVIOUS
  <1>3. PICK e \in Seq(Nat) : e = Original
    BY <1>1, ZippedIs
  <1>4. /\ z \in Seq(RunType) /\ Expand(z) = e /\ UnzipPlace(z)
        /\ Records(z, 0) = <<>>
    BY <1>1, <1>2, <1>3, ZippedIs, RecordsAre
  <1>5. z # CannotOpen
    BY <1>4, CommandsAssumption DEF RunType
  <1>6. Cat(e, <<>>) = e /\ Cat(Cat(e, e), <<>>) = e \o e
    <2>1. PICK x \in Seq(Nat) : x = Cat(e, e)
      BY Associative
    <2>2. x \o <<>> = x /\ e \o <<>> = e
      OBVIOUS
    <2> QED BY <2>1, <2>2 DEF Cat
  <1>7. Len(archives) \in {1, 2}
    BY <1>4 DEF UnzipPlace
  <1>8. CASE unzipping = "done"
    <2>1. /\ archive > Len(archives) /\ archive \in 1 .. Len(archives) + 1
          /\ record = 0
      BY <1>4, <1>7, <1>8 DEF UnzipPlace
    <2>2. text = Cat(Earlier(z, archive), <<>>)
      BY <1>4, <2>1 DEF UnzipPlace
    <2>3. CASE Len(archives) = 1
      <3>1. archive = 2
        BY <2>1, <2>3
      <3>2. Earlier(z, archive) = e
        BY <1>4, <3>1 DEF Earlier
      <3> QED BY <1>3, <1>6, <1>8, <2>2, <2>3, <3>2
    <2>4. CASE Len(archives) = 2
      <3>1. archive = 3
        BY <2>1, <2>4
      <3>2. Earlier(z, archive) = Cat(e, e)
        BY <1>4, <3>1 DEF Earlier
      <3> QED BY <1>3, <1>6, <1>8, <2>2, <2>4, <3>2
    <2> QED BY <1>7, <2>3, <2>4
  <1>9. CASE unzipping = "return1"
    <2>1. /\ archive <= Len(archives) /\ archives[archive] = CannotOpen
          /\ archive \in 1 .. Len(archives) + 1
      BY <1>4, <1>9 DEF UnzipPlace
    <2>2. archive \in {1, 2}
      BY <1>7, <2>1
    <2>3. archives[1] = z
      BY <1>4 DEF UnzipPlace
    <2>4. archive = 2
      BY <1>5, <2>1, <2>2, <2>3
    <2>5. record = 0
      BY <1>4, <1>5, <2>1 DEF UnzipPlace
    <2>6. Earlier(z, archive) = e
      BY <1>4, <2>4 DEF Earlier
    <2>7. text = Cat(e, <<>>)
      BY <1>4, <2>5, <2>6 DEF UnzipPlace
    <2> QED BY <1>3, <1>6, <1>9, <2>7
  <1> QED BY <1>8, <1>9

-----------------------------------------------------------------------------
(* The theorems.                                                           *)

\* Every variable of pzip2 keeps its type: no more chunks are counted than the
\* list has room for, and none is taken that has not been counted, although
\* the counts are written without the mutex.
THEOREM TypeCorrect == RoundTripSpec => []TypeOK
  <1>1. ZipsInv => TypeOK
    BY DEF ZipsInv, Inv
  <1> QED BY <1>1, ZipsInvariance, PTL

\* When all workers have returned, every chunk has been compressed or none was
\* taken; and the program fails only for the reasons listed.
THEOREM AllOrNothingIsTaken == RoundTripSpec => []AllOrNothing
  <1>1. ZipsInv => AllOrNothing
    BY ReturnedLemma DEF ZipsInv, Inv, Reasons, AllOrNothing
  <1> QED BY <1>1, ZipsInvariance, PTL

\* What each of the zips writes is the compression of its files, with no run
\* split or joined where files and chunks meet, whatever chunks the workers of
\* pzip2 take and in which order they finish them.
THEOREM TheZipsCompress == RoundTripSpec => []ZipsCompress
  <1>1. ZipsInv => ZipsCompress
    BY WzipSaysSo, PzipSaysSo, OutSaysSo DEF ZipsInv, ZipsCompress
  <1> QED BY <1>1, ZipsInvariance, PTL

\* Whatever zip has written a file, wunzip prints the bytes that were zipped,
\* once for each time it is given the file, and those before a file that it
\* cannot open.
THEOREM WhatIsUnzippedIsOriginal == RoundTripSpec => []UnzippedIsOriginal
  <1>1. RoundTripSpec => []UnzipInv
    BY UnzipInitInv, UnzipNextInv, ZipsInvariance, PTL DEF RoundTripSpec
  <1> QED BY <1>1, ZipsInvariance, UnzipSaysSo, PTL

\* pzip2 on its own, as it is run without the others.
THEOREM Pzip2IsRight ==
    Spec => [](TypeOK /\ AllOrNothing /\ PrintedIsCompressed)
  <1>1. Spec => []OutInv
    BY OutInitInv, OutNext, Invariance, PTL DEF Spec
  <1>2. Inv /\ OutInv => TypeOK /\ AllOrNothing /\ PrintedIsCompressed
    BY ReturnedLemma, OutSaysSo DEF Inv, Reasons, AllOrNothing
  <1> QED BY <1>1, <1>2, Invariance, PTL
=============================================================================
