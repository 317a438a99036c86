--------------------------- MODULE XcheckerProofs ---------------------------
(***************************************************************************)
(* Proofs about Xchecker, for any layout of the image and any images.      *)
(***************************************************************************)
EXTENDS Xchecker, SequenceLemmas

-----------------------------------------------------------------------------
(* What can be reached.                                                    *)

\* within is the function of ReachedFrom.
Within(img, directories, within) ==
    within = [n \in 0 .. ninodes |->
                 IF n = 0 THEN directories
                 ELSE within[n - 1] \cup
                      UNION {Subdirectories(img, d) : d \in within[n - 1]}]

LEMMA SubdirectoriesType ==
    \A img, d : /\ Subdirectories(img, d) \subseteq Inodes
                /\ \A n \in Subdirectories(img, d) : n > 1
  BY DEF Subdirectories

LEMMA WithinExists ==
    ASSUME NEW img, NEW D \in SUBSET Inodes
    PROVE  \E within : /\ Within(img, D, within)
                       /\ ReachedFrom(img, D) = within[ninodes]
  <1> DEFINE More(S) == S \cup UNION {Subdirectories(img, d) : d \in S}
             V == SUBSET Inodes
  <1>0. PICK N : N = ninodes
    OBVIOUS
  <1>1. N \in Nat
    BY <1>0, LayoutAssumption
  <1>2. \A S \in V : More(S) \in V
    BY SubdirectoriesType
  <1> HIDE DEF More, V
  <1>3. PICK step : step = [is \in (1 .. N) \X V |-> More(is[2])]
    OBVIOUS
  <1>4. step \in [(1 .. N) \X V -> V]
    BY <1>2, <1>3
  <1>5. D \in V
    BY DEF V
  <1>6. PICK f : Recurs(f, N, V, D, step)
    BY <1>1, <1>4, <1>5, RecursionExists
  <1>7. ASSUME NEW r \in 1 .. N PROVE f[r] = More(f[r - 1])
    <2>1. r - 1 \in 0 .. N /\ f \in [0 .. N -> V]
      BY <1>1, <1>6 DEF Recurs
    <2>2. <<r, f[r - 1]>> \in (1 .. N) \X V
      BY <2>1
    <2> QED BY <1>3, <1>6, <2>2 DEF Recurs
  <1>8. PICK h : h = [n \in 0 .. N |-> IF n = 0 THEN D ELSE More(f[n - 1])]
    OBVIOUS
  <1>9. f = [n \in 0 .. N |-> f[n]] /\ h = [n \in 0 .. N |-> h[n]]
    BY <1>6, <1>8 DEF Recurs
  <1>10. \A n \in 0 .. N : f[n] = h[n]
    BY <1>1, <1>6, <1>7, <1>8 DEF Recurs
  <1>11. f = h
    BY <1>9, <1>10, SameValues, Zenon
  <1>12. f = [n \in 0 .. N |-> IF n = 0 THEN D ELSE More(f[n - 1])]
    BY <1>8, <1>11, Zenon
  <1>13. Within(img, D, f)
    BY <1>0, <1>12, Zenon DEF Within, More
  <1> DEFINE g == CHOOSE within : Within(img, D, within)
  <1>14. Within(img, D, g)
    BY <1>13, Zenon
  <1>15. ReachedFrom(img, D) = g[ninodes]
    BY Zenon DEF ReachedFrom, Within
  <1> HIDE DEF g
  <1> QED BY <1>14, <1>15

\* The sets grow, up to that of all inodes.
LEMMA WithinGrows ==
    ASSUME NEW img, NEW D \in SUBSET Inodes, NEW f, Within(img, D, f)
    PROVE  /\ f[0] = D
           /\ \A n \in 1 .. ninodes :
                  /\ \A x \in f[n - 1] : x \in f[n]
                  /\ \A d \in f[n - 1] : Subdirectories(img, d) \subseteq f[n]
                  /\ \A x \in f[n] :
                         \/ x \in f[n - 1]
                         \/ \E d \in f[n - 1] : x \in Subdirectories(img, d)
  <1>1. ninodes \in Nat
    BY LayoutAssumption
  <1>2. f[0] = D
    BY <1>1 DEF Within
  <1>3. ASSUME NEW n \in 1 .. ninodes
        PROVE  f[n] = f[n - 1] \cup
                          UNION {Subdirectories(img, d) : d \in f[n - 1]}
    BY <1>1 DEF Within
  <1> QED BY <1>2, <1>3

LEMMA WithinMonotonic ==
    ASSUME NEW img, NEW D \in SUBSET Inodes, NEW f, Within(img, D, f),
           NEW m \in 0 .. ninodes
    PROVE  \A n \in m .. ninodes : \A x \in f[m] : x \in f[n]
  <1> SUFFICES ASSUME NEW x \in f[m]
               PROVE  \A n \in m .. ninodes : x \in f[n]
    OBVIOUS
  <1>0. ninodes \in Nat
    BY LayoutAssumption
  <1> DEFINE T == {n \in m .. ninodes : x \notin f[n]}
  <1> SUFFICES ASSUME T # {} PROVE FALSE
    OBVIOUS
  <1>1. T \in SUBSET Nat
    BY <1>0
  <1>2. PICK n \in T : \A k \in T : n <= k
    BY <1>1, Least
  <1>3. n \in m .. ninodes /\ x \notin f[n]
    OBVIOUS
  <1>4. n # m
    BY <1>3
  <1>5. n - 1 \in m .. ninodes /\ n \in 1 .. ninodes
    BY <1>0, <1>3, <1>4
  <1>6. ~(n <= n - 1)
    BY <1>5
  <1>7. n - 1 \notin T
    BY <1>2, <1>6
  <1>8. x \in f[n - 1]
    BY <1>5, <1>7
  <1> QED BY <1>3, <1>5, <1>8, WithinGrows

\* Nothing is reached that need not be: a set with some directories and the
\* subdirectories of all its directories has all that they reach.
LEMMA ReachLeast ==
    ASSUME NEW img, NEW D \in SUBSET Inodes, NEW S, D \subseteq S,
           \A d \in S : Subdirectories(img, d) \subseteq S
    PROVE  ReachedFrom(img, D) \subseteq S
  <1>0. ninodes \in Nat
    BY LayoutAssumption
  <1>1. PICK f : Within(img, D, f) /\ ReachedFrom(img, D) = f[ninodes]
    BY WithinExists
  <1> DEFINE T == {n \in 0 .. ninodes : \E x \in f[n] : x \notin S}
  <1>2. ASSUME T # {} PROVE FALSE
    <2>1. T \in SUBSET Nat
      BY <1>0
    <2>2. PICK n \in T : \A k \in T : n <= k
      BY <1>2, <2>1, Least
    <2>3. n \in 0 .. ninodes
      OBVIOUS
    <2>4. PICK x \in f[n] : x \notin S
      OBVIOUS
    <2>5. n # 0
      BY <1>1, <2>4, WithinGrows
    <2>6. n - 1 \in 0 .. ninodes /\ n \in 1 .. ninodes /\ ~(n <= n - 1)
      BY <1>0, <2>3, <2>5
    <2>7. n - 1 \notin T
      BY <2>2, <2>6
    <2>8. \A d \in f[n - 1] : d \in S
      BY <2>6, <2>7
    <2>9. \/ x \in f[n - 1]
          \/ \E d \in f[n - 1] : x \in Subdirectories(img, d)
      <3>1. \A k \in 1 .. ninodes : \A y \in f[k] :
                \/ y \in f[k - 1]
                \/ \E d \in f[k - 1] : y \in Subdirectories(img, d)
        BY <1>1, WithinGrows, ZenonT(30)
      <3> QED BY <2>4, <2>6, <3>1
    <2> QED BY <2>4, <2>8, <2>9
  <1>3. ninodes \in 0 .. ninodes
    BY <1>0
  <1>4. \A x \in f[ninodes] : x \in S
    BY <1>2, <1>3
  <1> QED BY <1>1, <1>4

LEMMA ReachType ==
    ASSUME NEW img, NEW D \in SUBSET Inodes
    PROVE  ReachedFrom(img, D) \subseteq Inodes
  BY ReachLeast, SubdirectoriesType

LEMMA ReachStart ==
    ASSUME NEW img, NEW D \in SUBSET Inodes
    PROVE  D \subseteq ReachedFrom(img, D)
  <1>0. ninodes \in Nat /\ 0 \in 0 .. ninodes /\ ninodes \in 0 .. ninodes
    BY LayoutAssumption
  <1>1. PICK f : Within(img, D, f) /\ ReachedFrom(img, D) = f[ninodes]
    BY WithinExists
  <1>2. f[0] = D
    BY <1>1, WithinGrows
  <1>3. \A x \in f[0] : x \in f[ninodes]
    BY <1>0, <1>1, WithinMonotonic
  <1> QED BY <1>1, <1>2, <1>3

\* There are no more than ninodes directories, so ninodes rounds are enough.
LEMMA ReachClosed ==
    ASSUME NEW img, NEW D \in SUBSET Inodes,
           NEW d \in ReachedFrom(img, D)
    PROVE  Subdirectories(img, d) \subseteq ReachedFrom(img, D)
  <1>0. ninodes \in Nat /\ ninodes \in 0 .. ninodes /\ 0 \in 0 .. ninodes
    BY LayoutAssumption
  <1>1. PICK f : Within(img, D, f) /\ ReachedFrom(img, D) = f[ninodes]
    BY WithinExists
  <1> SUFFICES ASSUME NEW x \in Subdirectories(img, d), x \notin f[ninodes]
               PROVE  FALSE
    BY <1>1
  <1>2. d \in f[ninodes]
    BY <1>1
  <1>3. \A n \in 0 .. ninodes : f[n] \subseteq Inodes
    <2>1. \A n \in 0 .. ninodes : \A y \in f[n] : y \in f[ninodes]
      BY <1>0, <1>1, WithinMonotonic
    <2>2. f[ninodes] \subseteq Inodes
      BY <1>1, ReachType
    <2> QED BY <2>1, <2>2
  <1>4. IsFiniteSet(Inodes) /\ Cardinality(Inodes) = ninodes
    BY <1>0, CountUpTo DEF Inodes
  <1>5. \A n \in 0 .. ninodes :
            /\ IsFiniteSet(f[n]) /\ Cardinality(f[n]) \in Nat
            /\ Cardinality(f[n]) <= ninodes
    BY <1>3, <1>4, FS_Subset, FS_CardinalityType
  \* In a round that adds nothing, all that can be reached is there.
  <1>6. ASSUME NEW n \in 1 .. ninodes, f[n] \subseteq f[n - 1]
        PROVE  FALSE
    <2>1. n - 1 \in 0 .. ninodes /\ ninodes \in n - 1 .. ninodes
      BY <1>0
    <2>2. \A y \in f[0] : y \in f[n - 1]
      <3>1. n - 1 \in 0 .. ninodes
        BY <1>0
      <3> QED BY <1>0, <1>1, <3>1, WithinMonotonic
    <2>3. D \subseteq f[n - 1]
      BY <1>1, <2>2, WithinGrows
    <2>4. \A e \in f[n - 1] : Subdirectories(img, e) \subseteq f[n - 1]
      BY <1>1, <1>6, WithinGrows
    <2>5. f[ninodes] \subseteq f[n - 1]
      BY <1>1, <2>3, <2>4, ReachLeast
    <2>6. x \in f[n - 1]
      BY <1>2, <2>4, <2>5
    <2> QED BY <1>1, <2>1, <2>6, WithinMonotonic
  <1> DEFINE T == {n \in 0 .. ninodes : Cardinality(f[n]) < n + 1}
  <1>7. ninodes \in T
    BY <1>0, <1>5
  <1>8. PICK n \in T : \A k \in T : n <= k
    <2>1. T \in SUBSET Nat /\ T # {}
      BY <1>0, <1>7
    <2> QED BY <2>1, Least
  <1>9. n \in 0 .. ninodes /\ Cardinality(f[n]) < n + 1
    OBVIOUS
  <1>10. n # 0
    <2>1. D # {}
      <3> SUFFICES ASSUME D = {} PROVE FALSE
        OBVIOUS
      <3>1. ReachedFrom(img, D) \subseteq {}
        BY ReachLeast
      <3> QED BY <3>1
    <2>2. f[0] # {} /\ IsFiniteSet(f[0]) /\ Cardinality(f[0]) \in Nat
      BY <1>0, <1>1, <1>5, <2>1, WithinGrows
    <2>3. Cardinality(f[0]) # 0
      BY <2>2, FS_EmptySet
    <2> QED BY <1>9, <2>2, <2>3
  <1>11. n - 1 \in 0 .. ninodes /\ n \in 1 .. ninodes /\ ~(n <= n - 1)
    BY <1>0, <1>9, <1>10
  <1>12. ~(Cardinality(f[n - 1]) < n - 1 + 1)
    BY <1>8, <1>11
  <1>13. f[n - 1] \subseteq f[n]
    BY <1>1, <1>11, WithinGrows
  <1>14. /\ Cardinality(f[n - 1]) <= Cardinality(f[n])
         /\ Cardinality(f[n - 1]) = Cardinality(f[n]) => f[n] = f[n - 1]
    <2>1. IsFiniteSet(f[n]) /\ f[n - 1] \in SUBSET f[n]
      BY <1>5, <1>9, <1>13
    <2> QED BY <2>1, FS_Subset
  <1>15. f[n] = f[n - 1]
    BY <1>5, <1>9, <1>11, <1>12, <1>14
  <1> QED BY <1>6, <1>11, <1>15

\* What is reached in one step or more is reached from one of the first
\* directories; and what is reached is that directory or reached from below it.
LEMMA ReachFromOne ==
    ASSUME NEW img, NEW D \in SUBSET Inodes, NEW x \in ReachedFrom(img, D)
    PROVE  \E d \in D : x \in ReachedFrom(img, {d})
  <1> DEFINE S == UNION {ReachedFrom(img, {d}) : d \in D}
  <1>1. \A d \in D : {d} \in SUBSET Inodes
    OBVIOUS
  <1>2. D \subseteq S
    <2>1. \A d \in D : d \in ReachedFrom(img, {d})
      BY <1>1, ReachStart
    <2> QED BY <2>1
  <1>3. \A y \in S : Subdirectories(img, y) \subseteq S
    <2> SUFFICES ASSUME NEW d \in D, NEW y \in ReachedFrom(img, {d})
                 PROVE  Subdirectories(img, y) \subseteq S
      OBVIOUS
    <2>1. Subdirectories(img, y) \subseteq ReachedFrom(img, {d})
      BY <1>1, ReachClosed
    <2> QED BY <2>1
  <1>4. x \in S
    <2> HIDE DEF S
    <2> QED BY <1>2, <1>3, ReachLeast
  <1> QED BY <1>4

LEMMA ReachBelow ==
    ASSUME NEW img, NEW d \in Inodes, NEW x \in ReachedFrom(img, {d})
    PROVE  x = d \/ x \in ReachedFrom(img, Subdirectories(img, d))
  <1> DEFINE R == ReachedFrom(img, Subdirectories(img, d))
             S == {d} \cup R
  <1>1. Subdirectories(img, d) \in SUBSET Inodes
    BY SubdirectoriesType
  <1>2. Subdirectories(img, d) \subseteq R
    BY <1>1, ReachStart
  <1>3. \A y \in R : Subdirectories(img, y) \subseteq R
    BY <1>1, ReachClosed
  <1> HIDE DEF R
  <1>4. \A y \in S : Subdirectories(img, y) \subseteq S
    BY <1>2, <1>3
  <1>5. {d} \in SUBSET Inodes /\ {d} \subseteq S
    OBVIOUS
  <1> HIDE DEF S
  <1>6. x \in S
    BY <1>4, <1>5, ReachLeast
  <1> QED BY <1>6 DEF S, R

LEMMA ReachTransitive ==
    ASSUME NEW img, NEW D \in SUBSET Inodes, NEW C \in SUBSET Inodes,
           C \subseteq ReachedFrom(img, D)
    PROVE  ReachedFrom(img, C) \subseteq ReachedFrom(img, D)
  BY ReachClosed, ReachLeast

\* Where one can come back to, one can come back to from every directory
\* on the way.
LEMMA ReachBack ==
    ASSUME NEW img, NEW d \in Inodes, LeadsToItself(img, d)
    PROVE  \E s \in Subdirectories(img, d) : LeadsToItself(img, s)
  <1>1. Subdirectories(img, d) \in SUBSET Inodes
    BY SubdirectoriesType
  <1>2. PICK s \in Subdirectories(img, d) : d \in ReachedFrom(img, {s})
    BY <1>1, ReachFromOne DEF LeadsToItself
  <1>3. s \in Inodes /\ Subdirectories(img, s) \in SUBSET Inodes
    BY SubdirectoriesType
  <1>4. d = s \/ d \in ReachedFrom(img, Subdirectories(img, s))
    BY <1>2, <1>3, ReachBelow
  <1>5. s \in ReachedFrom(img, Subdirectories(img, s))
    <2>1. CASE d = s
      <3>1. Subdirectories(img, s) \subseteq
                ReachedFrom(img, Subdirectories(img, s))
        BY <1>3, ReachStart
      <3> QED BY <1>2, <2>1, <3>1
    <2>2. CASE d \in ReachedFrom(img, Subdirectories(img, s))
      <3>1. Subdirectories(img, d) \subseteq
                ReachedFrom(img, Subdirectories(img, s))
        BY <1>3, <2>2, ReachClosed
      <3> QED BY <1>2, <3>1
    <2> QED BY <1>4, <2>1, <2>2
  <1> QED BY <1>5 DEF LeadsToItself

-----------------------------------------------------------------------------
(* The addresses of an inode.                                              *)

DirentType == [name : STRING, inum : Nat]

LEMMA ImageTypes ==
    ASSUME NEW img \in Image
    PROVE  /\ \A n \in Inodes : /\ img.type[n] \in Int
                                /\ img.size[n] \in Nat
                                /\ img.addrs[n] \in [1 .. NDIRECT + 1 -> Nat]
           /\ \A b \in Blocks :
                  /\ img.pointers[b] \in [1 .. NINDIRECT -> Nat]
                  /\ img.entries[b] \in [1 .. DIRENTS -> DirentType]
           /\ img.bitmap \subseteq Nat
  <1>1. Address \subseteq Nat
    BY LayoutAssumption DEF Address
  <1>2. \A n \in Inodes : /\ img.type[n] \in Int /\ img.size[n] \in Nat
                          /\ img.addrs[n] \in [1 .. NDIRECT + 1 -> Address]
    BY DEF Image
  <1>3. \A b \in Blocks :
            /\ img.pointers[b] \in [1 .. NINDIRECT -> Address]
            /\ img.entries[b] \in [1 .. DIRENTS -> DirentType]
    BY DEF Image, DirentType
  <1>4. \A N : [N -> Address] \subseteq [N -> Nat]
    BY <1>1
  <1>5. img.bitmap \subseteq Nat
    BY DEF Image
  <1> QED BY <1>2, <1>3, <1>4, <1>5

LEMMA BlockNumType ==
    ASSUME NEW size \in Nat
    PROVE  BlockNum(size) \in Nat /\ (size = 0 => BlockNum(size) = 0)
  <1>1. BSIZE \in Nat /\ BSIZE > 0
    BY LayoutAssumption
  <1>2. size \div BSIZE \in Nat
    BY <1>1
  <1>3. size = 0 => size \div BSIZE = 0 /\ size % BSIZE = 0
    BY <1>1
  <1> QED BY <1>2, <1>3 DEF BlockNum

LEMMA MinOfTwo ==
    ASSUME NEW a \in Nat, NEW b \in Nat
    PROVE  Min({a, b}) = IF a <= b THEN a ELSE b
  BY DEF Min

LEMMA FrontOf ==
    ASSUME NEW S, NEW n \in Nat, NEW s \in [1 .. n -> S], NEW k \in Nat,
           k <= n
    PROVE  /\ SubSeq(s, 1, k) \in Seq(S) /\ Len(SubSeq(s, 1, k)) = k
           /\ \A j \in 1 .. k : SubSeq(s, 1, k)[j] = s[j]
  <1>1. s \in Seq(S) /\ Len(s) = n
    OBVIOUS
  <1> QED BY <1>1

\* How many addresses an inode has, and what they are.
LEMMA AddressesType ==
    ASSUME NEW img \in Image, NEW n \in Inodes
    PROVE  /\ DirectAddresses(img, n) \in Seq(Nat)
           /\ IndirectAddresses(img, n) \in Seq(Nat)
           /\ Addresses(img, n) \in Seq(Nat)
           /\ ContentBlocks(img, n) \in Seq(Nat)
           /\ img.size[n] = 0 => Len(Addresses(img, n)) = 0
           /\ img.size[n] = 0 => /\ Len(DirectAddresses(img, n)) = 0
                                 /\ Len(IndirectAddresses(img, n)) = 0
           /\ Len(DirectAddresses(img, n)) <= NDIRECT + 1
  <1>0. NDIRECT \in Nat /\ NDIRECT > 0 /\ NINDIRECT \in Nat
    BY LayoutAssumption
  <1>1. PICK m \in Nat : /\ m = BlockNum(img.size[n])
                         /\ img.size[n] = 0 => m = 0
    BY ImageTypes, BlockNumType
  <1>2. img.addrs[n] \in [1 .. NDIRECT + 1 -> Nat]
    BY ImageTypes
  <1>3. PICK d : d = DirectAddresses(img, n)
    OBVIOUS
  <1>4. d \in Seq(Nat) /\ Len(d) = (IF m <= NDIRECT THEN m ELSE NDIRECT + 1)
    BY <1>0, <1>1, <1>2, <1>3, FrontOf DEF DirectAddresses
  <1>5. PICK ind : ind = IndirectAddresses(img, n)
    OBVIOUS
  <1>6. ind \in Seq(Nat) /\ (m <= NDIRECT => Len(ind) = 0)
    <2>1. CASE m <= NDIRECT \/ img.addrs[n][NDIRECT + 1] \notin Blocks
      BY <1>1, <1>5, <2>1 DEF IndirectAddresses
    <2>2. CASE /\ ~(m <= NDIRECT)
               /\ img.addrs[n][NDIRECT + 1] \in Blocks
      <3>1. PICK p : p = img.pointers[img.addrs[n][NDIRECT + 1]]
        OBVIOUS
      <3>2. p \in [1 .. NINDIRECT -> Nat]
        BY <2>2, <3>1, ImageTypes
      <3>3. PICK k \in Nat : k = Min({m - NDIRECT, NINDIRECT})
                             /\ k <= NINDIRECT
        <4>1. m - NDIRECT \in Nat
          BY <1>0, <2>2
        <4>2. Min({m - NDIRECT, NINDIRECT}) =
                  IF m - NDIRECT <= NINDIRECT THEN m - NDIRECT ELSE NINDIRECT
          BY <1>0, <4>1, MinOfTwo
        <4> QED BY <1>0, <4>1, <4>2
      <3>4. ind = SubSeq(p, 1, k)
        BY <1>1, <1>5, <2>2, <3>1, <3>3 DEF IndirectAddresses
      <3> QED BY <1>0, <2>2, <3>2, <3>3, <3>4, FrontOf
    <2> QED BY <2>1, <2>2
  <1>7. Addresses(img, n) = d \o ind
    BY <1>3, <1>5 DEF Addresses
  <1>8. PICK c : c = SubSeq(img.addrs[n], 1, Min({m, NDIRECT}))
    OBVIOUS
  <1>9. c \in Seq(Nat)
    <2>1. PICK k \in Nat : k = Min({m, NDIRECT}) /\ k <= NDIRECT
      BY <1>0, MinOfTwo
    <2>2. k <= NDIRECT + 1 /\ NDIRECT + 1 \in Nat
      BY <1>0, <2>1
    <2> QED BY <1>2, <1>8, <2>1, <2>2, FrontOf
  <1>10. ContentBlocks(img, n) = c \o ind
    BY <1>1, <1>5, <1>8 DEF ContentBlocks
  <1>11. Addresses(img, n) \in Seq(Nat) /\ ContentBlocks(img, n) \in Seq(Nat)
    BY <1>4, <1>6, <1>7, <1>9, <1>10
  <1>12. img.size[n] = 0 => Len(d) = 0 /\ Len(ind) = 0
    BY <1>0, <1>1, <1>4, <1>6
  <1>13. img.size[n] = 0 => Len(Addresses(img, n)) = 0
    BY <1>4, <1>6, <1>7, <1>12
  <1> QED BY <1>0, <1>3, <1>4, <1>5, <1>6, <1>11, <1>12, <1>13

LEMMA InToSet ==
    ASSUME NEW S, NEW s \in Seq(S)
    PROVE  /\ ToSet(s) \subseteq S
           /\ \A x : x \in ToSet(s) <=> \E n \in 1 .. Len(s) : s[n] = x
           /\ DOMAIN s = 1 .. Len(s)
  BY DEF ToSet

LEMMA ConcatToSet ==
    ASSUME NEW S, NEW s \in Seq(S), NEW t \in Seq(S)
    PROVE  ToSet(s \o t) = ToSet(s) \cup ToSet(t)
  <1>1. PICK u : u = s \o t
    OBVIOUS
  <1>2. /\ u \in Seq(S) /\ Len(u) = Len(s) + Len(t)
        /\ \A k \in 1 .. Len(u) :
               u[k] = IF k <= Len(s) THEN s[k] ELSE t[k - Len(s)]
    BY <1>1
  <1>3. ASSUME NEW x \in ToSet(u) PROVE x \in ToSet(s) \cup ToSet(t)
    <2>1. PICK k \in 1 .. Len(u) : u[k] = x
      BY <1>2, InToSet
    <2>2. CASE k <= Len(s)
      <3>1. k \in 1 .. Len(s) /\ s[k] = x
        BY <1>2, <2>1, <2>2
      <3> QED BY <3>1, InToSet
    <2>3. CASE ~(k <= Len(s))
      <3>1. k - Len(s) \in 1 .. Len(t) /\ t[k - Len(s)] = x
        BY <1>2, <2>1, <2>3
      <3> QED BY <3>1, InToSet
    <2> QED BY <2>2, <2>3
  <1>4. ASSUME NEW x \in ToSet(s) PROVE x \in ToSet(u)
    <2>1. PICK k \in 1 .. Len(s) : s[k] = x
      BY InToSet
    <2>2. k \in 1 .. Len(u) /\ u[k] = x
      BY <1>2, <2>1
    <2> QED BY <1>2, <2>2, InToSet
  <1>5. ASSUME NEW x \in ToSet(t) PROVE x \in ToSet(u)
    <2>1. PICK k \in 1 .. Len(t) : t[k] = x
      BY InToSet
    <2>2. k + Len(s) \in 1 .. Len(u) /\ u[k + Len(s)] = x
      BY <1>2, <2>1
    <2> QED BY <1>2, <2>2, InToSet
  <1> QED BY <1>1, <1>3, <1>4, <1>5

\* Rule 2 says of all the addresses of an inode what it says of both parts.
LEMMA ValidAddresses ==
    ASSUME NEW img \in Image, NEW n \in Inodes
    PROVE  ToSet(Addresses(img, n)) =
               ToSet(DirectAddresses(img, n))
                   \cup ToSet(IndirectAddresses(img, n))
  BY AddressesType, ConcatToSet DEF Addresses

-----------------------------------------------------------------------------
(* The inductive invariant.                                                *)

Frame == [inode : Inodes, next : Nat \ {0}]

Typed == TypeOK /\ image \in Image /\ stack \in Seq(Frame)

\* The inodes in use that the loop has been over.
Over == {n \in 1 .. i - 1 : InUse(image, n)}

SelfAndParent(img, n) ==
    /\ [name |-> ".", inum |-> n] \in ToSet(FirstBlock(img, n))
    /\ \E entry \in ToSet(FirstBlock(img, n)) : entry.name = ".."

OnlyOnce(img, m, n) ==
    LET a == Addresses(img, m)
        b == Addresses(img, n)
    IN  \A j \in DOMAIN a, k \in DOMAIN b : a[j] = b[k] => m = n /\ j = k

\* The bits of the bitmap that the addresses of an inode stand for.
Bits(n) == {Bit(address) : address \in ToSet(Addresses(image, n))}

\* The inodes a loop has been over obey the rule, and bitmap, count and
\* messages are what they have left.
LoopInv ==
    /\ check = 1 => \A n \in 1 .. i - 1 : image.type[n] \in 0 .. 3
    /\ check = 2 => \A n \in 1 .. i - 1 :
           ToSet(Addresses(image, n)) \subseteq DataBlocks
    /\ check = 4 => \A n \in 1 .. i - 1 :
           image.type[n] = Directory => SelfAndParent(image, n)
    /\ check = 5 =>
           (messages = 0 <=> \A n \in Over : Bits(n) \subseteq image.bitmap)
    /\ check = 6 => buf = image.bitmap \ UNION {Bits(n) : n \in Over}
    /\ check = 7 =>
           /\ \A n \in Over : ToSet(Addresses(image, n)) \subseteq Blocks
           /\ \A b \in Blocks : address_count[b] > 0 <=>
                  \E n \in Over : b \in ToSet(Addresses(image, n))
           /\ \A m, n \in Over : OnlyOnce(image, m, n)

\* Where an entry of a directory is.
BlockOf(e) == (e - 1) \div DIRENTS + 1

InContent(d, e) ==
    /\ BlockOf(e) <= Len(ContentBlocks(image, d))
    /\ ContentBlocks(image, d)[BlockOf(e)] \in Blocks

EntryOf(d, e) ==
    image.entries[ContentBlocks(image, d)[BlockOf(e)]][((e - 1) % DIRENTS) + 1]

\* A free inode that is referred to, by a directory or by some.
ReportedFrom(d) ==
    \A n \in RefersTo(image, d) :
        n > 1 => n \in Inodes /\ (image.type[n] = 0 => messages > 0)

\* The walk has been over all that can be reached from a directory.
WalkedFrom(d) ==
    \A x \in ReachedFrom(image, {d}) :
        ReportedFrom(x) /\ ~LeadsToItself(image, x)

\* The walk has been over an entry, and all that can be reached through it.
Handled(d, e) ==
    /\ InContent(d, e)
    /\ EntryOf(d, e).inum > 1 =>
           LET n == EntryOf(d, e).inum IN
           /\ n \in Inodes
           /\ image.type[n] = 0 => messages > 0
           /\ image.type[n] = Directory => WalkedFrom(n)

\* A frame's next entry is the one after that of the frame above it.
Called(k) ==
    /\ stack[k].next > 1
    /\ InContent(stack[k].inode, stack[k].next - 1)
    /\ EntryOf(stack[k].inode, stack[k].next - 1).inum = stack[k + 1].inode
    /\ stack[k + 1].inode \in Subdirectories(image, stack[k].inode)

WalkInv ==
    check = 9 =>
        /\ stack # <<>> => stack[1].inode = 1
        /\ \A k \in 1 .. Len(stack) - 1 : Called(k)
        /\ \A k \in 1 .. Len(stack) : \A e \in 1 .. stack[k].next - 1 :
               \/ k < Len(stack) /\ e = stack[k].next - 1
               \/ Handled(stack[k].inode, e)
        /\ messages > 0 =>
               \E d \in ReachedFrom(image, {1}) : \E n \in RefersTo(image, d) :
                   n > 1 /\ image.type[n] = 0
        /\ status = "ok" => WalkedFrom(1)
        /\ status = "overflow" /\ MaxDepth >= ninodes =>
               \E d \in ReachedFrom(image, {1}) \ {1} : LeadsToItself(image, d)

Inv == Typed /\ LoopInv /\ WalkInv /\ AcceptsOnlyGood /\ RejectsOnlyBad

LEMMA InitInv == Init => Inv
  <1> SUFFICES ASSUME Init PROVE Inv
    OBVIOUS
  <1>0. ninodes \in Nat /\ ninodes > 0 /\ MaxDepth \in Nat /\ MaxDepth > 0
    BY LayoutAssumption, DepthAssumption
  <1>1. image \in Image
    BY ImagesAssumption DEF Init
  <1>2. stack \in Seq(Frame) /\ Len(stack) <= 1
    <2>1. [inode |-> 1, next |-> 1] \in Frame
      BY <1>0 DEF Frame, Inodes
    <2>2. PICK U : U = Frame
      OBVIOUS
    <2>3. PICK f \in U : f = [inode |-> 1, next |-> 1]
      BY <2>1, <2>2
    <2>4. stack = <<f>> \/ stack = <<>>
      BY <2>3 DEF Init
    <2>5. <<f>> \in Seq(U) /\ Len(<<f>>) = 1
      OBVIOUS
    <2>6. <<>> \in Seq(U) /\ Len(<<>>) = 0
      OBVIOUS
    <2>7. stack \in Seq(U) /\ Len(stack) <= 1
      <3>1. CASE stack = <<f>>
        BY <2>5, <3>1
      <3>2. CASE stack = <<>>
        BY <2>6, <3>2
      <3> QED BY <2>4, <3>1, <3>2
    <2> QED BY <2>2, <2>7
  <1>3. TypeOK
    <2>1. address_count \in [Blocks -> 0 .. 2]
      BY DEF Init
    <2> QED BY <1>0, <1>2, <2>1 DEF Init, TypeOK
  <1>4. Over = {}
    BY DEF Init, Over
  <1>5. LoopInv
    <2>1. \A b \in Blocks : address_count[b] = 0
      BY DEF Init
    <2>2. i = 1 /\ buf = image.bitmap /\ messages = 0
      BY DEF Init
    <2> QED BY <1>4, <2>1, <2>2 DEF LoopInv
  <1>6. WalkInv
    <2> SUFFICES ASSUME check = 9 PROVE WalkInv
      BY DEF WalkInv
    <2>1. stack = <<[inode |-> 1, next |-> 1]>> /\ messages = 0
          /\ status = "running"
      BY DEF Init
    <2>2. Len(stack) = 1 /\ stack[1].inode = 1 /\ stack[1].next = 1
      BY <2>1
    <2> QED BY <2>1, <2>2 DEF WalkInv
  <1>7. AcceptsOnlyGood /\ RejectsOnlyBad
    BY DEF Init, AcceptsOnlyGood, RejectsOnlyBad
  <1> QED BY <1>1, <1>2, <1>3, <1>5, <1>6, <1>7 DEF Inv, Typed

-----------------------------------------------------------------------------
(* The loops over the inodes.                                              *)

\* Entries are part of the image; what has been handled stays so.
LEMMA SameEntries ==
    ASSUME image' = image
    PROVE  \A d, e : /\ InContent(d, e)' <=> InContent(d, e)
                     /\ EntryOf(d, e)' = EntryOf(d, e)
  BY DEF InContent, EntryOf

LEMMA StaysReported ==
    ASSUME image' = image, messages > 0 => messages' > 0, NEW d,
           ReportedFrom(d)
    PROVE  ReportedFrom(d)'
  BY DEF ReportedFrom

LEMMA StaysWalked ==
    ASSUME image' = image, messages > 0 => messages' > 0, NEW d,
           WalkedFrom(d)
    PROVE  WalkedFrom(d)'
  BY StaysReported DEF WalkedFrom

LEMMA StaysHandled ==
    ASSUME image' = image, messages > 0 => messages' > 0, NEW d, NEW e,
           Handled(d, e)
    PROVE  Handled(d, e)'
  <1>1. InContent(d, e)' /\ EntryOf(d, e)' = EntryOf(d, e)
    BY SameEntries DEF Handled
  <1>2. PICK n : n = EntryOf(d, e).inum
    OBVIOUS
  <1>3. EntryOf(d, e)'.inum = n
    BY <1>1, <1>2
  <1>4. CASE n > 1
    <2>1. /\ n \in Inodes
          /\ image.type[n] = 0 => messages > 0
          /\ image.type[n] = Directory => WalkedFrom(n)
      BY <1>2, <1>4 DEF Handled
    <2>2. image'.type[n] = Directory => WalkedFrom(n)'
      BY <2>1, StaysWalked
    <2> QED BY <1>1, <1>3, <2>1, <2>2 DEF Handled
  <1>5. CASE ~(n > 1)
    BY <1>1, <1>3, <1>5 DEF Handled
  <1> QED BY <1>4, <1>5

\* A frame below two that are the same.
LEMMA StaysCalled ==
    ASSUME image' = image, NEW k, Called(k), stack'[k] = stack[k],
           stack'[k + 1].inode = stack[k + 1].inode
    PROVE  Called(k)'
  BY SameEntries DEF Called

LEMMA StutterInv == Inv /\ UNCHANGED vars => Inv'
  <1> SUFFICES ASSUME Inv, UNCHANGED vars PROVE Inv'
    OBVIOUS
  <1> USE DEF vars
  <1>1. Typed'
    BY DEF Inv, Typed, TypeOK
  <1>2. LoopInv'
    BY DEF Inv, LoopInv, Over, Bits
  <1>3. WalkInv'
    <2> SUFFICES ASSUME check = 9 PROVE WalkInv'
      BY DEF WalkInv
    <2>1. \A k \in 1 .. Len(stack') - 1 : Called(k)'
      BY StaysCalled DEF Inv, WalkInv
    <2>2. \A k \in 1 .. Len(stack') : \A e \in 1 .. stack'[k].next - 1 :
              \/ k < Len(stack') /\ e = stack'[k].next - 1
              \/ Handled(stack[k].inode, e)'
      BY StaysHandled DEF Inv, WalkInv
    <2>3. status' = "ok" => WalkedFrom(1)'
      BY StaysWalked DEF Inv, WalkInv
    <2> QED BY <2>1, <2>2, <2>3 DEF Inv, WalkInv
  <1>4. AcceptsOnlyGood'
    <2>1. /\ \A number : Rule(number)' = Rule(number)
          /\ NoneWraps' = NoneWraps
      BY DEF Rule, Standard, NoneWraps
    <2> QED BY <2>1 DEF Inv, AcceptsOnlyGood
  <1>5. RejectsOnlyBad'
    BY DEF Inv, RejectsOnlyBad, Rule, Standard
  <1> QED BY <1>1, <1>2, <1>3, <1>4, <1>5 DEF Inv

\* What is left alone by all the loops.
LoopFrame == UNCHANGED <<image, check, stack>> /\ check # 9

\* A loop goes on to the next inode: the rule is kept of the ones before it.
LEMMA GoesOn ==
    ASSUME Inv, LoopFrame, status = "running", i <= ninodes, Continue,
           buf' \subseteq image.bitmap, messages' \in Nat,
           address_count' \in [Blocks -> 0 .. 2], LoopInv'
    PROVE  Inv'
  <1>0. ninodes \in Nat
    BY LayoutAssumption
  <1>1. Typed'
    BY <1>0 DEF Inv, Typed, TypeOK, LoopFrame, Continue
  <1>2. WalkInv'
    BY DEF WalkInv, LoopFrame
  <1>3. AcceptsOnlyGood' /\ RejectsOnlyBad'
    BY DEF Continue, AcceptsOnlyGood, RejectsOnlyBad
  <1> QED BY <1>1, <1>2, <1>3 DEF Inv

\* A loop stops at an inode, or after them.
LEMMA Stops ==
    ASSUME Inv, LoopFrame, UNCHANGED <<i, buf, messages, address_count>>,
           status' \in {"ok", "error", "undefined"},
           AcceptsOnlyGood', RejectsOnlyBad'
    PROVE  Inv'
  <1>1. Typed'
    BY DEF Inv, Typed, TypeOK, LoopFrame
  <1>2. WalkInv'
    BY DEF WalkInv, LoopFrame
  <1>3. LoopInv'
    BY DEF Inv, LoopInv, LoopFrame, Over, Bits
  <1> QED BY <1>1, <1>2, <1>3 DEF Inv

LEMMA InUseStays ==
    ASSUME Inv, LoopFrame, i <= ninodes, i' = i + 1
    PROVE  /\ 1 .. i' - 1 = (1 .. i - 1) \cup {i}
           /\ Over' = IF InUse(image, i) THEN Over \cup {i} ELSE Over
           /\ i \in Inodes
           /\ Over \subseteq Inodes
           /\ i \in Nat
  <1>0. ninodes \in Nat /\ i \in 1 .. ninodes + 1
    BY LayoutAssumption DEF Inv, Typed, TypeOK
  <1>1. 1 .. i' - 1 = (1 .. i - 1) \cup {i}
    BY <1>0
  <1>2. Over' = {n \in 1 .. i' - 1 : InUse(image, n)}
    BY DEF Over, LoopFrame
  <1> QED BY <1>0, <1>1, <1>2 DEF Over, Inodes

LEMMA OverInodes ==
    ASSUME Inv
    PROVE  \A n \in Over : n \in Inodes /\ InUse(image, n) /\ n # i
  <1>1. ninodes \in Nat /\ i \in 1 .. ninodes + 1
    BY LayoutAssumption DEF Inv, Typed, TypeOK
  <1> QED BY <1>1 DEF Over, Inodes

\* After the last inode, all have been looked at.
LEMMA AllOver ==
    ASSUME Inv, i > ninodes
    PROVE  1 .. i - 1 = Inodes /\ Over = {n \in Inodes : InUse(image, n)}
  <1>0. ninodes \in Nat /\ i \in 1 .. ninodes + 1
    BY LayoutAssumption DEF Inv, Typed, TypeOK
  <1>1. i - 1 = ninodes
    BY <1>0
  <1> QED BY <1>1 DEF Over, Inodes

LEMMA Check1Inv == ASSUME Inv, inode_detect_1 PROVE Inv'
  <1>1. LoopFrame /\ status = "running" /\ check = 1 /\ i <= ninodes
    BY DEF inode_detect_1, At, LoopFrame
  <1>2. UNCHANGED <<buf, address_count, messages>>
    BY DEF inode_detect_1
  <1>3. CASE image.type[i] \in 0 .. 3
    <2>1. Continue
      BY <1>3 DEF inode_detect_1
    <2>2. 1 .. i' - 1 = (1 .. i - 1) \cup {i}
      BY <1>1, <2>1, InUseStays DEF Continue
    <2>3. LoopInv'
      BY <1>1, <1>3, <2>2 DEF Inv, LoopInv, LoopFrame
    <2> QED BY <1>1, <1>2, <2>1, <2>3, GoesOn DEF Inv, Typed, TypeOK
  <1>4. CASE image.type[i] \notin 0 .. 3
    <2>1. status' = "error" /\ i' = i
      BY <1>4 DEF inode_detect_1, Stop
    <2>2. ~Rule1(image)
      <3>1. i \in Inodes
        BY <1>1, LayoutAssumption DEF Inv, Typed, TypeOK, Inodes
      <3> QED BY <1>4, <3>1 DEF Rule1
    <2>3. AcceptsOnlyGood' /\ RejectsOnlyBad'
      BY <1>1, <2>1, <2>2 DEF AcceptsOnlyGood, RejectsOnlyBad, Rule, LoopFrame
    <2> QED BY <1>1, <1>2, <2>1, <2>3, Stops
  <1> QED BY <1>3, <1>4

LEMMA AddressOf ==
    ASSUME NEW img \in Image, NEW n \in Inodes
    PROVE  /\ \A k \in DOMAIN DirectAddresses(img, n) :
                  /\ DirectAddresses(img, n)[k] \in Nat
                  /\ DirectAddresses(img, n)[k] \in
                         ToSet(DirectAddresses(img, n))
           /\ \A k \in DOMAIN IndirectAddresses(img, n) :
                  /\ IndirectAddresses(img, n)[k] \in Nat
                  /\ IndirectAddresses(img, n)[k] \in
                         ToSet(IndirectAddresses(img, n))
           /\ \A x \in ToSet(DirectAddresses(img, n)) :
                  \E k \in DOMAIN DirectAddresses(img, n) :
                      x = DirectAddresses(img, n)[k]
           /\ \A x \in ToSet(IndirectAddresses(img, n)) :
                  \E k \in DOMAIN IndirectAddresses(img, n) :
                      x = IndirectAddresses(img, n)[k]
  BY AddressesType DEF ToSet

LEMMA BadMeansBad ==
    ASSUME NEW address \in Nat
    PROVE  BadAddress(address) <=> address \notin DataBlocks
  <1>1. FSSIZE \in Nat /\ nblocks \in Nat
    BY LayoutAssumption
  <1> QED BY <1>1 DEF BadAddress, DataBlocks

\* With Rule 2, the addresses of an inode in use are those of data blocks.
LEMMA Rule2Says ==
    ASSUME NEW img \in Image
    PROVE  Rule2(img) <=>
               \A n \in Inodes : InUse(img, n) =>
                   ToSet(Addresses(img, n)) \subseteq DataBlocks
  BY ValidAddresses DEF Rule2

LEMMA Check2Inv == ASSUME Inv, inodeaddr_detect_2 PROVE Inv'
  <1>1. LoopFrame /\ status = "running" /\ check = 2 /\ i <= ninodes
    BY DEF inodeaddr_detect_2, At, LoopFrame
  <1>2. UNCHANGED <<buf, address_count, messages>>
    BY DEF inodeaddr_detect_2
  <1>3. i \in Inodes /\ image \in Image
    BY <1>1, LayoutAssumption DEF Inv, Typed, TypeOK, Inodes
  <1>4. CASE status' = "error" /\ i' = i
             /\ ~(ToSet(Addresses(image, i)) \subseteq DataBlocks)
    <2>1. ~Rule2(image) \/ ~Standard
      <3> SUFFICES ASSUME Standard, Rule2(image) PROVE FALSE
        OBVIOUS
      <3>1. ~InUse(image, i)
        BY <1>3, <1>4, Rule2Says
      <3>2. Len(Addresses(image, i)) = 0 /\ Addresses(image, i) \in Seq(Nat)
        BY <1>3, <3>1, AddressesType DEF Standard, InUse
      <3>3. ToSet(Addresses(image, i)) = {}
        BY <3>2 DEF ToSet
      <3> QED BY <1>4, <3>3
    <2>2. image' = image /\ check' = check /\ (Standard' <=> Standard)
      BY <1>1 DEF LoopFrame, Standard
    <2>3. AcceptsOnlyGood' /\ RejectsOnlyBad'
      BY <1>1, <1>4, <2>1, <2>2 DEF AcceptsOnlyGood, RejectsOnlyBad, Rule
    <2> QED BY <1>1, <1>2, <1>4, <2>3, Stops
  <1>5. CASE status' = "undefined" /\ i' = i
    <2>1. AcceptsOnlyGood' /\ RejectsOnlyBad'
      BY <1>5 DEF AcceptsOnlyGood, RejectsOnlyBad
    <2> QED BY <1>1, <1>2, <1>5, <2>1, Stops
  <1>6. CASE Continue /\ ToSet(Addresses(image, i)) \subseteq DataBlocks
    <2>1. 1 .. i' - 1 = (1 .. i - 1) \cup {i}
      BY <1>1, <1>6, InUseStays DEF Continue
    <2>2. LoopInv'
      BY <1>1, <1>6, <2>1 DEF Inv, LoopInv, LoopFrame
    <2> QED BY <1>1, <1>2, <1>6, <2>2, GoesOn DEF Inv, Typed, TypeOK
  <1>7. \/ status' = "error" /\ i' = i
           /\ ~(ToSet(Addresses(image, i)) \subseteq DataBlocks)
        \/ status' = "undefined" /\ i' = i
        \/ Continue /\ ToSet(Addresses(image, i)) \subseteq DataBlocks
    <2> DEFINE d == DirectAddresses(image, i)
               e == IndirectAddresses(image, i)
    <2>1. ToSet(Addresses(image, i)) = ToSet(d) \cup ToSet(e)
      BY <1>3, ValidAddresses
    <2>2. CASE \E n \in DOMAIN d : BadAddress(d[n])
      <3>1. PICK n \in DOMAIN d : BadAddress(d[n])
        BY <2>2
      <3>2. d[n] \in ToSet(d) /\ d[n] \notin DataBlocks
        BY <1>3, <3>1, AddressOf, BadMeansBad
      <3>3. status' = "error" /\ i' = i
        BY <2>2 DEF inodeaddr_detect_2, Stop
      <3> QED BY <2>1, <3>2, <3>3
    <2>3. CASE /\ \A n \in DOMAIN d : ~BadAddress(d[n])
               /\ \E n \in DOMAIN e : BadAddress(e[n])
      <3>1. PICK n \in DOMAIN e : BadAddress(e[n])
        BY <2>3
      <3>2. e[n] \in ToSet(e) /\ e[n] \notin DataBlocks
        BY <1>3, <3>1, AddressOf, BadMeansBad
      <3>3. status' = "error" /\ i' = i
        BY <2>3 DEF inodeaddr_detect_2, Stop
      <3> QED BY <2>1, <3>2, <3>3
    <2>4. CASE /\ \A n \in DOMAIN d : ~BadAddress(d[n])
               /\ \A n \in DOMAIN e : ~BadAddress(e[n])
      <3>1. ToSet(d) \subseteq DataBlocks
        BY <1>3, <2>4, AddressOf, BadMeansBad
      <3>2. ToSet(e) \subseteq DataBlocks
        BY <1>3, <2>4, AddressOf, BadMeansBad
      <3>3. (status' = "undefined" /\ i' = i) \/ Continue
        BY <2>4 DEF inodeaddr_detect_2, Stop
      <3> QED BY <2>1, <3>1, <3>2, <3>3
    <2> QED BY <2>2, <2>3, <2>4
  <1> QED BY <1>4, <1>5, <1>6, <1>7

LEMMA FirstBlockIs ==
    ASSUME NEW img \in Image, NEW n \in Inodes, img.addrs[n][1] \in Blocks
    PROVE  /\ FirstBlock(img, n) \in [1 .. DIRENTS -> DirentType]
           /\ \A x : x \in ToSet(FirstBlock(img, n)) <=>
                  \E k \in 1 .. DIRENTS : FirstBlock(img, n)[k] = x
           /\ 1 \in 1 .. DIRENTS /\ 2 \in 1 .. DIRENTS
  <1>1. FirstBlock(img, n) \in [1 .. DIRENTS -> DirentType]
    BY ImageTypes DEF FirstBlock
  <1>2. DIRENTS \in Nat /\ DIRENTS > 1
    BY LayoutAssumption
  <1> QED BY <1>1, <1>2 DEF ToSet

LEMMA SameStandard == image' = image => (Standard' <=> Standard)
  BY DEF Standard

LEMMA Check3Inv == ASSUME Inv, root_check_3 PROVE Inv'
  <1>1. LoopFrame /\ status = "running" /\ check = 3 /\ i <= ninodes
    BY DEF root_check_3, At, LoopFrame
  <1>2. UNCHANGED <<buf, address_count, messages, i>>
    BY DEF root_check_3, Stop
  <1>3. 1 \in Inodes /\ image \in Image
    BY LayoutAssumption DEF Inv, Typed, Inodes
  <1>4. /\ image' = image /\ check' = check /\ (Standard' <=> Standard)
        /\ check' # 5 /\ check' # 9
    BY <1>1, SameStandard DEF LoopFrame
  <1>5. CASE image.addrs[1][1] \notin Blocks
    <2>1. status' = "undefined"
      BY <1>5 DEF root_check_3, Stop
    <2>2. AcceptsOnlyGood' /\ RejectsOnlyBad'
      BY <2>1 DEF AcceptsOnlyGood, RejectsOnlyBad
    <2> QED BY <1>1, <1>2, <2>1, <2>2, Stops
  <1>6. CASE image.addrs[1][1] \in Blocks
    <2> DEFINE b == FirstBlock(image, 1)
    <2>1. /\ b \in [1 .. DIRENTS -> DirentType]
          /\ \A x : x \in ToSet(b) <=> \E k \in 1 .. DIRENTS : b[k] = x
          /\ 1 \in 1 .. DIRENTS /\ 2 \in 1 .. DIRENTS
      BY <1>3, <1>6, FirstBlockIs
    <2>2. status' = IF b[2].inum = 1 THEN "ok" ELSE "error"
      BY <1>6 DEF root_check_3, Stop
    <2>3. ASSUME image.type[1] = Directory, Standard
          PROVE  \A k \in 1 .. DIRENTS : b[k].name = ".." <=> k = 2
      BY <1>3, <2>3 DEF Standard
    <2>4. ASSUME image.type[1] = Directory, Standard, b[2].inum = 1
          PROVE  Rule3(image)
      <3>1. b[2].name = ".." /\ b[2] \in DirentType
        BY <2>1, <2>3, <2>4
      <3>2. b[2] = [name |-> "..", inum |-> 1]
        BY <2>4, <3>1 DEF DirentType
      <3>3. [name |-> "..", inum |-> 1] \in ToSet(b)
        BY <2>1, <3>2
      <3> QED BY <2>4, <3>3 DEF Rule3
    <2>5. ASSUME Standard, Rule3(image)
          PROVE  b[2].inum = 1
      <3>1. PICK k \in 1 .. DIRENTS : b[k] = [name |-> "..", inum |-> 1]
        BY <2>1, <2>5 DEF Rule3
      <3>2. b[k].name = ".." /\ b[k].inum = 1
        BY <3>1
      <3> QED BY <2>3, <2>5, <3>2 DEF Rule3
    <2>6. AcceptsOnlyGood'
      BY <1>1, <1>4, <2>2, <2>4 DEF AcceptsOnlyGood, Rule
    <2>7. RejectsOnlyBad'
      BY <1>1, <1>4, <2>2, <2>5 DEF RejectsOnlyBad
    <2> QED BY <1>1, <1>2, <2>2, <2>6, <2>7, Stops
  <1> QED BY <1>5, <1>6

LEMMA Check4Inv == ASSUME Inv, directory_check_4 PROVE Inv'
  <1>1. LoopFrame /\ status = "running" /\ check = 4 /\ i <= ninodes
    BY DEF directory_check_4, At, LoopFrame
  <1>2. UNCHANGED <<buf, address_count, messages>>
    BY DEF directory_check_4
  <1>3. i \in Inodes /\ image \in Image
    BY <1>1, LayoutAssumption DEF Inv, Typed, TypeOK, Inodes
  <1>4. image' = image /\ check' = check /\ (Standard' <=> Standard)
    BY <1>1, SameStandard DEF LoopFrame
  <1>5. ASSUME Continue, image.type[i] = Directory => SelfAndParent(image, i)
        PROVE  Inv'
    <2>1. 1 .. i' - 1 = (1 .. i - 1) \cup {i}
      BY <1>1, <1>5, InUseStays DEF Continue
    <2>2. LoopInv'
      BY <1>1, <1>5, <2>1 DEF Inv, LoopInv, LoopFrame
    <2> QED BY <1>1, <1>2, <1>5, <2>2, GoesOn DEF Inv, Typed, TypeOK
  <1>6. CASE image.type[i] # Directory
    BY <1>5, <1>6 DEF directory_check_4
  <1>7. CASE image.type[i] = Directory /\ image.addrs[i][1] \notin Blocks
    <2>1. status' = "undefined" /\ i' = i
      BY <1>7 DEF directory_check_4, Stop
    <2>2. AcceptsOnlyGood' /\ RejectsOnlyBad'
      BY <2>1 DEF AcceptsOnlyGood, RejectsOnlyBad
    <2> QED BY <1>1, <1>2, <2>1, <2>2, Stops
  <1>8. CASE image.type[i] = Directory /\ image.addrs[i][1] \in Blocks
    <2> DEFINE b == FirstBlock(image, i)
    <2>1. /\ b \in [1 .. DIRENTS -> DirentType]
          /\ \A x : x \in ToSet(b) <=> \E k \in 1 .. DIRENTS : b[k] = x
          /\ 1 \in 1 .. DIRENTS /\ 2 \in 1 .. DIRENTS
      BY <1>3, <1>8, FirstBlockIs
    <2>2. CASE WellFormed(b)
      <3>1. Continue
        BY <1>8, <2>2 DEF directory_check_4
      <3>2. b[1] = [name |-> ".", inum |-> i] /\ b[2].name = ".."
        BY <2>1, <2>2 DEF WellFormed, DirentType
      <3>3. SelfAndParent(image, i)
        BY <2>1, <3>2 DEF SelfAndParent
      <3> QED BY <1>5, <3>1, <3>3
    <2>3. CASE ~WellFormed(b)
      <3>1. status' = "error" /\ i' = i
        BY <1>8, <2>3 DEF directory_check_4, Stop
      <3>2. ASSUME Standard, Rule4(image) PROVE FALSE
        <4>1. [name |-> ".", inum |-> i] \in ToSet(b)
          BY <1>3, <1>8, <3>2 DEF Rule4
        <4>2. PICK k \in 1 .. DIRENTS : b[k] = [name |-> ".", inum |-> i]
          BY <2>1, <4>1
        <4>3. \A n \in 1 .. DIRENTS : /\ b[n].name = "." <=> n = 1
                                      /\ b[n].name = ".." <=> n = 2
          BY <1>3, <1>8, <3>2 DEF Standard
        <4>4. b[k].name = "." /\ b[k].inum = i
          BY <4>2
        <4> QED BY <2>1, <2>3, <4>3, <4>4 DEF WellFormed
      <3>3. AcceptsOnlyGood' /\ RejectsOnlyBad'
        BY <1>1, <1>4, <3>1, <3>2 DEF AcceptsOnlyGood, RejectsOnlyBad, Rule
      <3> QED BY <1>1, <1>2, <3>1, <3>3, Stops
    <2> QED BY <2>2, <2>3
  <1> QED BY <1>6, <1>7, <1>8

LEMMA InodeAddresses ==
    ASSUME NEW img \in Image, NEW n \in Inodes
    PROVE  /\ \A k \in DOMAIN Addresses(img, n) :
                  Addresses(img, n)[k] \in ToSet(Addresses(img, n))
           /\ \A x \in ToSet(Addresses(img, n)) :
                  \E k \in DOMAIN Addresses(img, n) :
                      x = Addresses(img, n)[k]
           /\ DOMAIN Addresses(img, n) = 1 .. Len(Addresses(img, n))
           /\ Len(Addresses(img, n)) \in Nat
  BY AddressesType DEF ToSet

\* How many elements of a sequence are not wanted is a number, 0 if none is.
LEMMA CountOfNone ==
    ASSUME NEW n \in Nat, NEW T \in SUBSET (1 .. n)
    PROVE  /\ IsFiniteSet(T) /\ Cardinality(T) \in Nat
           /\ Cardinality(T) = 0 <=> T = {}
  <1>1. IsFiniteSet(1 .. n)
    BY CountUpTo
  <1>2. IsFiniteSet(T)
    BY <1>1, FS_Subset
  <1> QED BY <1>2, FS_CardinalityType, FS_EmptySet

LEMMA Check5Inv == ASSUME Inv, bitmap_check_5 PROVE Inv'
  <1>1. LoopFrame /\ status = "running" /\ check = 5 /\ i <= ninodes
    BY DEF bitmap_check_5, At, LoopFrame
  <1>2. UNCHANGED <<buf, address_count>> /\ messages \in Nat
    BY DEF bitmap_check_5, Inv, Typed, TypeOK
  <1>3. i \in Inodes /\ image \in Image
    BY <1>1, LayoutAssumption DEF Inv, Typed, TypeOK, Inodes
  <1>4. ASSUME i' = i + 1, status' = status, messages' \in Nat,
               messages' = 0 <=> \A n \in Over' : Bits(n) \subseteq image.bitmap
        PROVE  Inv'
    <2>1. LoopInv'
      BY <1>1, <1>4 DEF LoopInv, LoopFrame, Bits
    <2> QED BY <1>1, <1>2, <1>4, <2>1, GoesOn DEF Inv, Typed, TypeOK, Continue
  <1>5. messages = 0 <=> \A n \in Over : Bits(n) \subseteq image.bitmap
    BY <1>1 DEF Inv, LoopInv
  <1>6. CASE ~InUse(image, i)
    <2>1. Continue /\ messages' = messages
      BY <1>6 DEF bitmap_check_5
    <2>2. Over' = Over
      BY <1>1, <1>6, <2>1, InUseStays DEF Continue
    <2> QED BY <1>2, <1>4, <1>5, <2>1, <2>2 DEF Continue
  <1>7. CASE InUse(image, i) /\ Unmarkable(i)
    <2>1. status' = "undefined" /\ i' = i /\ messages' = messages
      BY <1>7 DEF bitmap_check_5, Stop
    <2>2. AcceptsOnlyGood' /\ RejectsOnlyBad'
      BY <2>1 DEF AcceptsOnlyGood, RejectsOnlyBad
    <2> QED BY <1>1, <1>2, <2>1, <2>2, Stops
  <1>8. CASE InUse(image, i) /\ ~Unmarkable(i)
    <2> DEFINE a == Addresses(image, i)
               unmarked == {n \in DOMAIN a : ~bitmap_exist(a[n])}
    <2>1. Continue /\ messages' = messages + Cardinality(unmarked)
      BY <1>8 DEF bitmap_check_5
    <2>2. /\ Cardinality(unmarked) \in Nat
          /\ Cardinality(unmarked) = 0 <=> unmarked = {}
      <3>1. unmarked \in SUBSET (1 .. Len(a)) /\ Len(a) \in Nat
        BY <1>3, InodeAddresses
      <3> HIDE DEF unmarked, a
      <3> QED BY <3>1, CountOfNone
    <2>3. unmarked = {} <=> Bits(i) \subseteq image.bitmap
      BY <1>3, InodeAddresses DEF bitmap_exist, Bits
    <2>4. Over' = Over \cup {i}
      BY <1>1, <1>8, <2>1, InUseStays DEF Continue
    <2>5. /\ messages' \in Nat
          /\ messages' = 0 <=> messages = 0 /\ Cardinality(unmarked) = 0
      <3> HIDE DEF unmarked, a
      <3> QED BY <1>2, <2>1, <2>2
    <2>6. messages' = 0 <=> \A n \in Over' : Bits(n) \subseteq image.bitmap
      <3> HIDE DEF unmarked
      <3> QED BY <1>5, <2>2, <2>3, <2>4, <2>5
    <2> QED BY <1>4, <2>1, <2>5, <2>6 DEF Continue
  <1> QED BY <1>6, <1>7, <1>8

LEMMA Check6Inv == ASSUME Inv, bitmap_check_6 PROVE Inv'
  <1>1. LoopFrame /\ status = "running" /\ check = 6 /\ i <= ninodes
    BY DEF bitmap_check_6, At, LoopFrame
  <1>2. UNCHANGED <<messages, address_count>> /\ buf \subseteq image.bitmap
    BY DEF bitmap_check_6, Inv, Typed, TypeOK
  <1>3. buf = image.bitmap \ UNION {Bits(n) : n \in Over}
    BY <1>1 DEF Inv, LoopInv
  <1>4. ASSUME Continue, buf' \subseteq image.bitmap,
               buf' = image.bitmap \ UNION {Bits(n) : n \in Over'}
        PROVE  Inv'
    <2>1. LoopInv'
      BY <1>1, <1>4 DEF LoopInv, LoopFrame, Bits
    <2> QED BY <1>1, <1>2, <1>4, <2>1, GoesOn DEF Inv, Typed, TypeOK
  <1>5. CASE ~InUse(image, i)
    <2>1. Continue /\ buf' = buf
      BY <1>5 DEF bitmap_check_6
    <2>2. Over' = Over
      BY <1>1, <1>5, <2>1, InUseStays DEF Continue
    <2> QED BY <1>2, <1>3, <1>4, <2>1, <2>2
  <1>6. CASE InUse(image, i) /\ Unmarkable(i)
    <2>1. status' = "undefined" /\ i' = i /\ buf' = buf
      BY <1>6 DEF bitmap_check_6, Stop
    <2>2. AcceptsOnlyGood' /\ RejectsOnlyBad'
      BY <2>1 DEF AcceptsOnlyGood, RejectsOnlyBad
    <2> QED BY <1>1, <1>2, <2>1, <2>2, Stops
  <1>7. CASE InUse(image, i) /\ ~Unmarkable(i)
    <2>1. Continue /\ buf' = buf \ Bits(i)
      BY <1>7 DEF bitmap_check_6, bitmap_delete, Bits
    <2>2. Over' = Over \cup {i}
      BY <1>1, <1>7, <2>1, InUseStays DEF Continue
    <2>3. buf' = image.bitmap \ UNION {Bits(n) : n \in Over'}
      BY <1>3, <2>1, <2>2
    <2>4. buf' \subseteq image.bitmap
      BY <1>2, <2>1
    <2> QED BY <1>4, <2>1, <2>3, <2>4
  <1> QED BY <1>5, <1>6, <1>7

LEMMA Remainder ==
    ASSUME NEW m \in Nat, NEW q \in Nat, q < m PROVE q % m = q
  OBVIOUS

\* A small address has its own bit.
LEMMA OwnBit ==
    ASSUME NEW address \in Nat, address < 8 * (USHRT_MAX + 1)
    PROVE  /\ Bit(address) = address
           /\ OutsideBitmap(address) <=> address >= 8 * BSIZE
  <1>1. PICK m \in Nat : m = USHRT_MAX + 1
    BY UshortAssumption
  <1>2. PICK q \in Nat : q = address \div 8
    OBVIOUS
  <1>3. q < m /\ address = 8 * q + (address % 8)
    BY <1>1, <1>2
  <1>4. (IF (address + 1) % 8 = 0 THEN (address + 1) \div 8 - 1
                                  ELSE (address + 1) \div 8) = q
    BY <1>2
  <1>5. char_index(address) = q
    BY <1>1, <1>3, <1>4, Remainder DEF char_index
  <1>6. BSIZE \in Nat
    BY LayoutAssumption
  <1>7. q >= BSIZE <=> address >= 8 * BSIZE
    BY <1>2, <1>6
  <1> QED BY <1>3, <1>5, <1>7 DEF Bit, OutsideBitmap

\* So the bits are the addresses, unless some address wraps.
LEMMA OwnBits ==
    ASSUME image \in Image, NoneWraps, NEW n \in Inodes, InUse(image, n)
    PROVE  Bits(n) = ToSet(Addresses(image, n))
  <1>1. ToSet(Addresses(image, n)) \subseteq Nat
    BY AddressesType, InToSet
  <1>2. \A address \in ToSet(Addresses(image, n)) :
            address < 8 * (USHRT_MAX + 1)
    BY DEF NoneWraps, Used
  <1>3. \A address \in ToSet(Addresses(image, n)) : Bit(address) = address
    BY <1>1, <1>2, OwnBit
  <1> QED BY <1>3 DEF Bits

\* Addresses of data blocks do not.
LEMMA DataIsSmall ==
    ASSUME NEW address \in DataBlocks
    PROVE  /\ address \in Nat /\ address \in Blocks
           /\ address < 8 * (USHRT_MAX + 1) /\ ~OutsideBitmap(address)
  <1>1. /\ FSSIZE \in Nat /\ nblocks \in Nat /\ BSIZE \in Nat
        /\ nblocks < FSSIZE /\ FSSIZE <= 8 * BSIZE
    BY LayoutAssumption
  <1>2. USHRT_MAX \in Nat /\ BSIZE <= USHRT_MAX + 1
    BY UshortAssumption
  <1>3. /\ address \in Nat /\ address \in Blocks /\ address < 8 * BSIZE
        /\ address < 8 * (USHRT_MAX + 1)
    BY <1>1, <1>2 DEF DataBlocks, Blocks
  <1> QED BY <1>1, <1>3, OwnBit

LEMMA ByteMonotonic ==
    \A a, b \in Nat : /\ a <= b => Byte(a) <= Byte(b)
                      /\ Byte(a) \in Nat
  BY DEF Byte

LEMMA Check6EndInv == ASSUME Inv, bitmap_check_6_end PROVE Inv'
  <1>1. LoopFrame /\ status = "running" /\ check = 6 /\ i > ninodes
    BY DEF bitmap_check_6_end, LoopFrame
  <1>2. UNCHANGED <<buf, messages, address_count, i>>
    BY DEF bitmap_check_6_end, Stop
  <1>3. /\ image' = image /\ check' = check /\ (Standard' <=> Standard)
        /\ image \in Image /\ image.bitmap \subseteq Nat
        /\ NoneWraps' <=> NoneWraps
    BY <1>1, SameStandard, ImageTypes DEF LoopFrame, Inv, Typed, NoneWraps
  <1>4. /\ start_block \in Nat /\ FSSIZE \in Nat /\ nblocks \in Nat
        /\ start_block <= FSSIZE - nblocks /\ start_block = bmapstart + 1
        /\ bmapstart \in Nat
    BY LayoutAssumption DEF start_block
  <1>5. NoneWraps => buf = image.bitmap \ Used(image)
    <2> SUFFICES ASSUME NoneWraps PROVE buf = image.bitmap \ Used(image)
      OBVIOUS
    <2>1. Over = {n \in Inodes : InUse(image, n)}
      BY <1>1, AllOver
    <2>2. \A n \in Over : Bits(n) = ToSet(Addresses(image, n))
      BY <1>3, <2>1, OwnBits
    <2>3. buf = image.bitmap \ UNION {Bits(n) : n \in Over}
      BY <1>1 DEF Inv, LoopInv
    <2> QED BY <2>1, <2>2, <2>3 DEF Used
  <1> DEFINE left == {bit \in buf : Byte(bit) = Byte(start_block)}
             meta == {bit \in 0 .. start_block - 1 :
                         Byte(bit) = Byte(start_block)}
             good == left = meta
                        /\ \A bit \in buf : Byte(bit) <= Byte(start_block)
  <1>6. status' = IF good THEN "ok" ELSE "error"
    BY DEF bitmap_check_6_end, Stop
  <1>7. ASSUME good, NoneWraps PROVE Rule6(image)
    <2> SUFFICES ASSUME NEW b \in image.bitmap, b \in DataBlocks,
                        b \notin Used(image)
                 PROVE  FALSE
      BY DEF Rule6
    <2>1. b \in buf /\ b \in Nat
      BY <1>3, <1>5, <1>7
    <2>2. b >= start_block
      BY <1>4, <2>1 DEF DataBlocks
    <2>3. Byte(b) <= Byte(start_block)
      BY <1>7, <2>1
    <2>4. Byte(start_block) <= Byte(b)
      BY <1>4, <2>1, <2>2, ByteMonotonic
    <2>5. Byte(b) = Byte(start_block)
      BY <1>4, <2>1, <2>3, <2>4, ByteMonotonic
    <2>6. b \in left
      BY <2>1, <2>5
    <2>7. b \in meta
      BY <1>7, <2>6
    <2>8. b <= start_block - 1
      BY <2>7
    <2> QED BY <1>4, <2>1, <2>2, <2>8
  <1>8. ASSUME Standard, Rule2(image), Rule6(image) PROVE good
    <2>1. Used(image) \subseteq DataBlocks
      BY <1>3, <1>8, Rule2Says DEF Used
    <2>2. image.bitmap \ DataBlocks = 0 .. bmapstart /\ NoneWraps
      BY <1>8, <2>1, DataIsSmall DEF Standard, NoneWraps
    <2>3. buf = 0 .. bmapstart
      BY <1>5, <1>8, <2>1, <2>2 DEF Rule6
    <2>4. \A bit \in buf : Byte(bit) <= Byte(start_block)
      BY <1>4, <2>3, ByteMonotonic
    <2>5. left = meta
      BY <1>4, <2>3
    <2> QED BY <2>4, <2>5
  <1> HIDE DEF good
  <1>9. AcceptsOnlyGood' /\ RejectsOnlyBad'
    BY <1>1, <1>3, <1>6, <1>7, <1>8 DEF AcceptsOnlyGood, RejectsOnlyBad, Rule
  <1>10. status' \in {"ok", "error", "undefined"}
    BY <1>6
  <1> QED BY <1>1, <1>2, <1>9, <1>10, Stops

LEMMA ReturnInv == ASSUME Inv, Return PROVE Inv'
  <1>1. /\ LoopFrame /\ status = "running" /\ check \in {1, 2, 4, 5, 7}
        /\ i > ninodes
    BY DEF Return, LoopFrame
  <1>2. UNCHANGED <<buf, messages, address_count, i>> /\ status' = "ok"
    BY DEF Return, Stop
  <1>3. /\ image' = image /\ check' = check /\ image \in Image
        /\ NoneWraps' <=> NoneWraps
    BY <1>1 DEF LoopFrame, Inv, Typed, NoneWraps
  <1>4. 1 .. i - 1 = Inodes /\ Over = {n \in Inodes : InUse(image, n)}
    BY <1>1, AllOver
  <1>5. check = 1 => Rule1(image)
    BY <1>4 DEF Inv, LoopInv, Rule1
  <1>6. check = 2 => Rule2(image)
    BY <1>3, <1>4, Rule2Says DEF Inv, LoopInv
  <1>7. check = 4 => Rule4(image)
    BY <1>4 DEF Inv, LoopInv, Rule4, SelfAndParent
  <1>8. check = 5 /\ NoneWraps => (messages = 0 <=> Rule5(image))
    <2> SUFFICES ASSUME check = 5, NoneWraps
                 PROVE  messages = 0 <=> Rule5(image)
      OBVIOUS
    <2>1. Rule5(image) <=>
              \A n \in Over : ToSet(Addresses(image, n)) \subseteq image.bitmap
      BY <1>4 DEF Rule5, Used
    <2>2. \A n \in Over : Bits(n) = ToSet(Addresses(image, n))
      BY <1>3, <1>4, OwnBits
    <2> QED BY <2>1, <2>2 DEF Inv, LoopInv
  <1>9. check = 7 => Rule7(image)
    BY <1>4 DEF Inv, LoopInv, Rule7, OnlyOnce
  <1>10. AcceptsOnlyGood'
    <2>1. messages' = messages
      BY <1>2
    <2>2. CASE check = 5
      BY <1>3, <1>8, <2>1, <2>2 DEF AcceptsOnlyGood
    <2>3. CASE check = 1
      BY <1>3, <1>5, <2>3 DEF AcceptsOnlyGood, Rule
    <2>4. CASE check = 2
      BY <1>3, <1>6, <2>4 DEF AcceptsOnlyGood, Rule
    <2>5. CASE check = 4
      BY <1>3, <1>7, <2>5 DEF AcceptsOnlyGood, Rule
    <2>6. CASE check = 7
      BY <1>3, <1>9, <2>6 DEF AcceptsOnlyGood, Rule
    <2> QED BY <1>1, <2>2, <2>3, <2>4, <2>5, <2>6
  <1>11. RejectsOnlyBad'
    BY <1>2 DEF RejectsOnlyBad
  <1> QED BY <1>1, <1>2, <1>10, <1>11, Stops

\* address_check_7_8: no block is counted twice.
Differ(a, N) == \A j, k \in N : a[j] = a[k] => j = k

UsesAmong(a, N, block) == {n \in N : a[n] = block}

LEMMA UsesOnce ==
    ASSUME NEW a, NEW N, NEW block, Differ(a, N)
    PROVE  Cardinality(UsesAmong(a, N, block)) =
               IF UsesAmong(a, N, block) = {} THEN 0 ELSE 1
  <1> DEFINE U == UsesAmong(a, N, block)
  <1>1. CASE U = {}
    <2>1. Cardinality(U) = 0
      BY <1>1, FS_EmptySet
    <2> QED BY <1>1, <2>1
  <1>2. CASE U # {}
    <2>1. PICK n \in N : a[n] = block
      BY <1>2 DEF UsesAmong
    <2>2. U = {n}
      BY <2>1 DEF Differ, UsesAmong
    <2>3. Cardinality(U) = 1
      BY <2>2, FS_Singleton
    <2> QED BY <1>2, <2>3
  <1> QED BY <1>1, <1>2

LEMMA Check7Inv == ASSUME Inv, address_check_7_8 PROVE Inv'
  <1>1. LoopFrame /\ status = "running" /\ check = 7 /\ i <= ninodes
    BY DEF address_check_7_8, At, LoopFrame
  <1>2. UNCHANGED <<messages, buf>>
    BY DEF address_check_7_8
  <1>3. i \in Inodes /\ image \in Image /\ NDIRECT \in Nat
    BY <1>1, LayoutAssumption DEF Inv, Typed, TypeOK, Inodes
  <1>4. image' = image /\ check' = check
    BY <1>1 DEF LoopFrame
  <1>5. /\ \A n \in Over : ToSet(Addresses(image, n)) \subseteq Blocks
        /\ \A b \in Blocks : address_count[b] > 0 <=>
               \E n \in Over : b \in ToSet(Addresses(image, n))
        /\ \A m, n \in Over : OnlyOnce(image, m, n)
        /\ address_count \in [Blocks -> 0 .. 2]
    BY <1>1 DEF Inv, LoopInv, Typed, TypeOK
  <1>6. ASSUME Continue, address_count' \in [Blocks -> 0 .. 2],
               \A n \in Over' : ToSet(Addresses(image, n)) \subseteq Blocks,
               \A b \in Blocks : address_count'[b] > 0 <=>
                   \E n \in Over' : b \in ToSet(Addresses(image, n)),
               \A m, n \in Over' : OnlyOnce(image, m, n)
        PROVE  Inv'
    <2>1. LoopInv'
      BY <1>1, <1>4, <1>6 DEF LoopInv
    <2> QED BY <1>1, <1>2, <1>6, <2>1, GoesOn DEF Inv, Typed, TypeOK
  <1>7. CASE ~InUse(image, i)
    <2>1. Continue /\ address_count' = address_count
      BY <1>7 DEF address_check_7_8
    <2>2. Over' = Over
      BY <1>1, <1>7, <2>1, InUseStays DEF Continue
    <2> QED BY <1>5, <1>6, <2>1, <2>2
  <1> SUFFICES ASSUME InUse(image, i) PROVE Inv'
    BY <1>7
  <1>8. PICK a \in Seq(Nat) : a = Addresses(image, i)
    BY <1>3, AddressesType
  <1>9. PICK m \in Nat : m = Len(a) /\ DOMAIN a = 1 .. m
                         /\ a \in [1 .. m -> Nat]
    OBVIOUS
  <1>10. ToSet(a) = {a[n] : n \in 1 .. m}
    BY <1>9 DEF ToSet
  <1> DEFINE repeated == {n \in 1 .. m : Repeated(a, n)}
             outside == {n \in 1 .. m : a[n] \notin Blocks}
                            \cup IF Unreadable(i) THEN {m + 1} ELSE {}
             first == Min(repeated \cup outside)
             Uses(block, numbers) ==
                 Cardinality({n \in 1 .. m \cap numbers : a[n] = block})
             direct == 1 .. NDIRECT + 1
  <1>11. CASE repeated \cup outside # {}
    <2>1. /\ status' = IF first \in repeated THEN "error" ELSE "undefined"
          /\ i' = i /\ address_count' = address_count
      BY <1>8, <1>9, <1>11 DEF address_check_7_8, Stop
    <2>2. ASSUME NEW n \in repeated PROVE ~Rule7(image)
      <3>1. n \in 1 .. m /\ a[n] \in Blocks
        BY <2>2 DEF Repeated
      <3>2. CASE \E k \in 1 .. n - 1 : a[k] = a[n]
        <4>1. PICK k \in 1 .. n - 1 : a[k] = a[n]
          BY <3>2
        <4>2. k \in DOMAIN a /\ n \in DOMAIN a /\ k # n
          BY <1>9, <3>1, <4>1
        <4>3. ~OnlyOnce(image, i, i)
          BY <1>8, <4>1, <4>2 DEF OnlyOnce
        <4> QED BY <1>3, <4>3 DEF Rule7, OnlyOnce
      <3>3. CASE address_count[a[n]] > 0
        <4>1. PICK k \in Over : a[n] \in ToSet(Addresses(image, k))
          BY <1>5, <3>1, <3>3
        <4>2. k \in Inodes /\ InUse(image, k) /\ k # i
          BY OverInodes
        <4>3. PICK l \in DOMAIN Addresses(image, k) :
                       Addresses(image, k)[l] = a[n]
          BY <1>3, <4>1, <4>2, InodeAddresses
        <4>4. ~OnlyOnce(image, i, k)
          BY <1>8, <1>9, <3>1, <4>2, <4>3 DEF OnlyOnce
        <4> QED BY <1>3, <4>2, <4>4 DEF Rule7, OnlyOnce
      <3> QED BY <2>2, <3>2, <3>3 DEF Repeated
    <2>3. first \in repeated => ~Rule7(image)
      BY <2>2
    <2> HIDE DEF first, repeated
    <2>4. AcceptsOnlyGood' /\ RejectsOnlyBad'
      BY <1>1, <1>4, <2>1, <2>3 DEF AcceptsOnlyGood, RejectsOnlyBad, Rule
    <2> QED BY <1>1, <1>2, <2>1, <2>4, Stops
  <1>12. CASE repeated \cup outside = {}
    <2>1. /\ Continue
          /\ address_count' = [block \in Blocks |->
                 address_count[block] + Uses(block, direct)
                     + 2 * Uses(block, 1 .. m \ direct)]
      BY <1>8, <1>9, <1>12 DEF address_check_7_8
    <2>2. \A n \in 1 .. m : /\ a[n] \in Blocks
                            /\ ~(address_count[a[n]] > 0)
                            /\ \A k \in 1 .. n - 1 : a[k] # a[n]
      BY <1>12 DEF Repeated
    <2>3. \A j, k \in 1 .. m : a[j] = a[k] => j = k
      <3> SUFFICES ASSUME NEW j \in 1 .. m, NEW k \in 1 .. m, a[j] = a[k],
                          j < k
                   PROVE  FALSE
        OBVIOUS
      <3>1. j \in 1 .. k - 1
        OBVIOUS
      <3> QED BY <2>2, <3>1
    <2>4. Over' = Over \cup {i}
      BY <1>1, <2>1, InUseStays DEF Continue
    <2>5. \A n \in Over' : ToSet(Addresses(image, n)) \subseteq Blocks
      BY <1>5, <1>8, <1>10, <2>2, <2>4
    <2>6. ASSUME NEW b \in Blocks
          PROVE  /\ address_count'[b] \in 0 .. 2
                 /\ address_count'[b] > 0 <=>
                        address_count[b] > 0 \/ b \in ToSet(a)
      <3>1. PICK u : u = Uses(b, direct)
        OBVIOUS
      <3>2. PICK v : v = Uses(b, 1 .. m \ direct)
        OBVIOUS
      <3>3. u \in {0, 1} /\ (u = 1 <=> \E n \in 1 .. m \cap direct : a[n] = b)
        <4>1. PICK N : N = 1 .. m \cap direct
          OBVIOUS
        <4>2. u = Cardinality(UsesAmong(a, N, b))
          BY <3>1, <4>1 DEF UsesAmong
        <4>3. Differ(a, N)
          BY <2>3, <4>1 DEF Differ
        <4>4. u = IF UsesAmong(a, N, b) = {} THEN 0 ELSE 1
          BY <4>2, <4>3, UsesOnce
        <4> HIDE DEF direct, Uses
        <4> QED BY <4>1, <4>4 DEF UsesAmong
      <3>4. v \in {0, 1} /\ (v = 1 <=> \E n \in 1 .. m \cap (1 .. m \ direct) : a[n] = b)
        <4>1. PICK N : N = 1 .. m \cap (1 .. m \ direct)
          OBVIOUS
        <4>2. v = Cardinality(UsesAmong(a, N, b))
          BY <3>2, <4>1 DEF UsesAmong
        <4>3. Differ(a, N)
          BY <2>3, <4>1 DEF Differ
        <4>4. v = IF UsesAmong(a, N, b) = {} THEN 0 ELSE 1
          BY <4>2, <4>3, UsesOnce
        <4> HIDE DEF direct, Uses
        <4> QED BY <4>1, <4>4 DEF UsesAmong
      <3>5. ~(u = 1 /\ v = 1)
        BY <2>3, <3>3, <3>4
      <3>6. b \in ToSet(a) <=> u = 1 \/ v = 1
        BY <1>10, <3>3, <3>4
      <3>7. b \in ToSet(a) => ~(address_count[b] > 0)
        BY <1>10, <2>2
      <3>8. address_count'[b] = address_count[b] + u + 2 * v
        BY <2>1, <3>1, <3>2
      <3>9. address_count[b] \in 0 .. 2
        BY <1>5
      <3> HIDE DEF direct
      <3> QED BY <3>3, <3>4, <3>5, <3>6, <3>7, <3>8, <3>9
    <2>7. address_count' \in [Blocks -> 0 .. 2]
      BY <2>1, <2>6
    <2>8. \A b \in Blocks : address_count'[b] > 0 <=>
              \E n \in Over' : b \in ToSet(Addresses(image, n))
      BY <1>5, <1>8, <2>4, <2>6
    <2>9. \A k, n \in Over' : OnlyOnce(image, k, n)
      <3>1. OnlyOnce(image, i, i)
        BY <1>8, <1>9, <2>3 DEF OnlyOnce
      <3>2. ASSUME NEW n \in Over
            PROVE  \A x \in ToSet(Addresses(image, n)) : x \notin ToSet(a)
        BY <1>5, <1>10, <2>2, <3>2
      <3>3. ASSUME NEW n \in Over
            PROVE  OnlyOnce(image, i, n) /\ OnlyOnce(image, n, i)
        <4>1. n \in Inodes
          BY <3>3, OverInodes
        <4>2. \A k \in DOMAIN Addresses(image, n), l \in DOMAIN a :
                  Addresses(image, n)[k] # a[l]
          BY <1>3, <1>9, <1>10, <3>2, <4>1, InodeAddresses
        <4> QED BY <1>8, <4>2 DEF OnlyOnce
      <3> QED BY <1>5, <2>4, <3>1, <3>3
    <2> QED BY <1>6, <2>1, <2>5, <2>7, <2>8, <2>9
  <1> QED BY <1>11, <1>12

-----------------------------------------------------------------------------
(* The walk over the directories.                                          *)

LEMMA StackType ==
    ASSUME Inv
    PROVE  /\ stack \in Seq(Frame) /\ Len(stack) \in Nat
           /\ \A k \in 1 .. Len(stack) : /\ stack[k] \in Frame
                                         /\ stack[k].inode \in Inodes
                                         /\ stack[k].next \in Nat
                                         /\ stack[k].next > 0
           /\ stack # <<>> => Len(stack) \in 1 .. Len(stack)
  <1>1. stack \in Seq(Frame)
    BY DEF Inv, Typed
  <1>2. PICK F : F = Frame
    OBVIOUS
  <1>3. stack \in Seq(F)
    BY <1>1, <1>2
  <1>4. \A k \in 1 .. Len(stack) : stack[k] \in F
    BY <1>3
  <1>5. Len(stack) \in Nat /\ (stack # <<>> => Len(stack) \in 1 .. Len(stack))
    BY <1>3
  <1> QED BY <1>1, <1>2, <1>4, <1>5 DEF Frame

\* An entry of a directory is one of those it refers to.
LEMMA EntryRefers ==
    ASSUME image \in Image, NEW d \in Inodes, NEW e \in Nat, e > 0,
           InContent(d, e)
    PROVE  /\ EntryOf(d, e) \in DirentType
           /\ EntryOf(d, e).inum \in RefersTo(image, d)
  <1>0. DIRENTS \in Nat /\ DIRENTS > 0
    BY LayoutAssumption
  <1>1. PICK c \in Seq(Nat) : c = ContentBlocks(image, d)
    BY AddressesType
  <1>2. PICK b : b = BlockOf(e)
    OBVIOUS
  <1>3. b \in 1 .. Len(c)
    <2>1. (e - 1) \div DIRENTS \in Nat
      BY <1>0
    <2> QED BY <1>1, <1>2, <2>1 DEF InContent, BlockOf
  <1>4. c[b] \in ToSet(c) \cap Blocks
    BY <1>1, <1>2, <1>3, InToSet DEF InContent
  <1>5. image.entries[c[b]] \in [1 .. DIRENTS -> DirentType]
    BY <1>4, ImageTypes
  <1>6. PICK k \in 1 .. DIRENTS : k = ((e - 1) % DIRENTS) + 1
    BY <1>0
  <1>7. EntryOf(d, e) = image.entries[c[b]][k]
    BY <1>1, <1>2, <1>6 DEF EntryOf
  <1>8. EntryOf(d, e) \in ToSet(image.entries[c[b]])
    BY <1>5, <1>7 DEF ToSet
  <1> QED BY <1>1, <1>4, <1>5, <1>7, <1>8 DEF RefersTo

\* Numbers of blocks and entries in a block, and of entries.
LEMMA BlockAndEntry ==
    ASSUME NEW b \in Nat, NEW k \in 1 .. DIRENTS, b > 0
    PROVE  \E e \in Nat : /\ e > 0 /\ BlockOf(e) = b
                          /\ ((e - 1) % DIRENTS) + 1 = k
  <1>0. DIRENTS \in Nat /\ DIRENTS > 0
    BY LayoutAssumption
  <1>1. PICK e : e = (b - 1) * DIRENTS + k
    OBVIOUS
  <1>2. (b - 1) * DIRENTS \in Nat
    BY <1>0
  <1>3. e \in Nat /\ e > 0
    BY <1>1, <1>2
  <1>4. (e - 1) \div DIRENTS = b - 1 /\ (e - 1) % DIRENTS = k - 1
    <2>1. e - 1 = (b - 1) * DIRENTS + (k - 1) /\ k - 1 \in 0 .. DIRENTS - 1
      BY <1>0, <1>1, <1>2
    <2> QED BY <1>0, <1>3, <2>1
  <1> QED BY <1>3, <1>4 DEF BlockOf

LEMMA LaterBlock ==
    ASSUME NEW e \in Nat, NEW f \in Nat, e > 0, f > 0,
           BlockOf(e) < BlockOf(f)
    PROVE  e < f
  <1>0. DIRENTS \in Nat /\ DIRENTS > 0
    BY LayoutAssumption
  <1> SUFFICES ASSUME f <= e PROVE FALSE
    OBVIOUS
  <1>1. f - 1 <= e - 1 /\ f - 1 \in Nat /\ e - 1 \in Nat
    OBVIOUS
  <1>2. (f - 1) \div DIRENTS <= (e - 1) \div DIRENTS
    BY <1>0, <1>1
  <1>3. (f - 1) \div DIRENTS \in Nat /\ (e - 1) \div DIRENTS \in Nat
    BY <1>0, <1>1
  <1> QED BY <1>2, <1>3 DEF BlockOf

\* What is higher on the stack can be reached from what is below it.
LEMMA HigherIsReached ==
    ASSUME Inv, check = 9, NEW p \in 1 .. Len(stack)
    PROVE  \A q \in p + 1 .. Len(stack) :
               stack[q].inode \in
                   ReachedFrom(image, Subdirectories(image, stack[p].inode))
  <1> DEFINE S == Subdirectories(image, stack[p].inode)
             T == {q \in p + 1 .. Len(stack) :
                      stack[q].inode \notin ReachedFrom(image, S)}
  <1> SUFFICES ASSUME T # {} PROVE FALSE
    OBVIOUS
  <1>0. Len(stack) \in Nat
    BY StackType
  <1>1. T \in SUBSET Nat
    BY <1>0
  <1>2. PICK q \in T : \A k \in T : q <= k
    BY <1>1, Least
  <1>3. q \in p + 1 .. Len(stack)
        /\ stack[q].inode \notin ReachedFrom(image, S)
    OBVIOUS
  <1>4. S \in SUBSET Inodes
    BY SubdirectoriesType
  <1>5. q - 1 \in 1 .. Len(stack) - 1 /\ q - 1 + 1 = q /\ ~(q <= q - 1)
    BY <1>0, <1>3
  <1>6. stack[q].inode \in Subdirectories(image, stack[q - 1].inode)
    <2>1. Called(q - 1)
      BY <1>5 DEF Inv, WalkInv
    <2> QED BY <1>5, <2>1 DEF Called
  <1>7. CASE q = p + 1
    <2>1. stack[q].inode \in S
      BY <1>5, <1>6, <1>7
    <2> HIDE DEF S
    <2> QED BY <1>3, <1>4, <2>1, ReachStart
  <1>8. CASE q # p + 1
    <2>1. q - 1 \in p + 1 .. Len(stack)
      BY <1>0, <1>3, <1>8
    <2>2. q - 1 \notin T
      BY <1>2, <1>5
    <2>3. stack[q - 1].inode \in ReachedFrom(image, S)
      BY <2>1, <2>2
    <2> HIDE DEF S
    <2> QED BY <1>3, <1>4, <1>6, <2>3, ReachClosed
  <1> QED BY <1>7, <1>8

LEMMA AllReached ==
    ASSUME Inv, check = 9
    PROVE  \A k \in 1 .. Len(stack) :
               /\ stack[k].inode \in ReachedFrom(image, {1})
               /\ k > 1 => stack[k].inode > 1
  <1>0. 1 \in Inodes
    BY LayoutAssumption DEF Inodes
  <1>1. 1 \in ReachedFrom(image, {1})
    BY <1>0, ReachStart
  <1>2. Subdirectories(image, 1) \subseteq ReachedFrom(image, {1})
    BY <1>0, <1>1, ReachClosed
  <1>3. ReachedFrom(image, Subdirectories(image, 1)) \subseteq
            ReachedFrom(image, {1})
    <2>1. Subdirectories(image, 1) \in SUBSET Inodes
      BY SubdirectoriesType
    <2> QED BY <1>0, <1>2, <2>1, ReachTransitive
  <1> SUFFICES ASSUME NEW k \in 1 .. Len(stack)
               PROVE  /\ stack[k].inode \in ReachedFrom(image, {1})
                      /\ k > 1 => stack[k].inode > 1
    OBVIOUS
  <1>4. Len(stack) \in Nat /\ 1 \in 1 .. Len(stack)
    BY StackType
  <1>5. stack[1].inode = 1
    <2>1. stack # <<>>
      BY <1>4
    <2> QED BY <2>1 DEF Inv, WalkInv
  <1>6. CASE k = 1
    BY <1>1, <1>5, <1>6
  <1>7. CASE k # 1
    <2>1. k \in 1 + 1 .. Len(stack)
      BY <1>4, <1>7
    <2>2. stack[k].inode \in ReachedFrom(image, Subdirectories(image, 1))
      BY <1>4, <1>5, <2>1, HigherIsReached
    <2>3. k - 1 \in 1 .. Len(stack) - 1 /\ k - 1 + 1 = k
      BY <1>4, <1>7
    <2>4. Called(k - 1)
      BY <2>3 DEF Inv, WalkInv
    <2>5. stack[k].inode > 1
      BY <2>3, <2>4, SubdirectoriesType DEF Called
    <2> QED BY <1>3, <2>2, <2>5
  <1> QED BY <1>6, <1>7

\* The innermost call, and where it is.
LEMMA AtTop ==
    ASSUME Inv, stack # <<>>
    PROVE  /\ Len(stack) \in 1 .. Len(stack) /\ top = stack[Len(stack)]
           /\ top \in Frame /\ top.inode \in Inodes
           /\ top.next \in Nat /\ top.next > 0
           /\ block_at = BlockOf(top.next)
           /\ content = ContentBlocks(image, top.inode)
  BY StackType DEF top, block_at, content, BlockOf

LEMMA TopEntry ==
    ASSUME Inv, AtEntry
    PROVE  /\ stack # <<>> /\ check = 9 /\ status = "running"
           /\ InContent(top.inode, top.next)
           /\ Entry = EntryOf(top.inode, top.next)
           /\ Entry.inum \in Nat
           /\ Entry.inum \in RefersTo(image, top.inode)
           /\ top.inode \in ReachedFrom(image, {1})
  <1>1. stack # <<>> /\ check = 9 /\ status = "running"
    BY DEF AtEntry, Walking
  <1>2. InContent(top.inode, top.next)
    BY <1>1, AtTop DEF AtEntry, InContent
  <1>3. Entry = EntryOf(top.inode, top.next)
    BY <1>1, AtTop DEF Entry, EntryOf
  <1>4. Entry \in DirentType /\ Entry.inum \in RefersTo(image, top.inode)
    BY <1>1, <1>2, <1>3, AtTop, EntryRefers DEF Inv, Typed
  <1>5. top.inode \in ReachedFrom(image, {1})
    BY <1>1, AtTop, AllReached
  <1> QED BY <1>1, <1>2, <1>3, <1>4, <1>5 DEF DirentType

LEMMA AdvancedType ==
    ASSUME Inv, stack # <<>>
    PROVE  LET n == Len(stack) IN
           /\ Advanced \in Seq(Frame) /\ Len(Advanced) = n
           /\ \A k \in 1 .. n - 1 : Advanced[k] = stack[k]
           /\ Advanced[n] = [inode |-> top.inode, next |-> top.next + 1]
  <1>1. PICK n \in Nat : n = Len(stack) /\ n \in 1 .. n
    BY StackType
  <1>2. PICK f : f = [inode |-> top.inode, next |-> top.next + 1]
    OBVIOUS
  <1>3. f \in Frame
    BY <1>2, AtTop DEF Frame
  <1>4. top = [inode |-> top.inode, next |-> top.next]
    BY AtTop DEF Frame
  <1>5. [top EXCEPT !.next = @ + 1] = f
    BY <1>2, <1>4
  <1>6. Advanced = [stack EXCEPT ![n] = f]
    <2>1. stack[n] = top
      BY <1>1 DEF top
    <2> QED BY <1>1, <1>5, <2>1 DEF Advanced
  <1>7. PICK F : F = Frame
    OBVIOUS
  <1>8. stack \in Seq(F) /\ f \in F
    BY <1>3, <1>7, StackType
  <1>9. /\ Advanced \in Seq(F) /\ Len(Advanced) = n
        /\ \A k \in 1 .. n - 1 : Advanced[k] = stack[k]
        /\ Advanced[n] = f
    BY <1>1, <1>6, <1>8
  <1> QED BY <1>1, <1>2, <1>7, <1>9

\* What the walk leaves alone; there is no loop to keep an invariant of.
WalkFrame == UNCHANGED <<image, check, i, buf, address_count>> /\ check = 9

LEMMA Walks ==
    ASSUME Inv, WalkFrame, messages' \in Nat,
           status' \in {"running", "ok", "overflow", "undefined"},
           stack' \in Seq(Frame), Len(stack') <= MaxDepth, WalkInv'
    PROVE  Inv'
  <1>1. Typed'
    BY DEF Inv, Typed, TypeOK, WalkFrame, Frame
  <1>2. LoopInv'
    BY DEF LoopInv, WalkFrame
  <1>3. AcceptsOnlyGood' /\ RejectsOnlyBad'
    BY DEF AcceptsOnlyGood, RejectsOnlyBad, WalkFrame
  <1> QED BY <1>1, <1>2, <1>3 DEF Inv

\* Leaving the walk alone, except for how it ends.
LEMMA WalkStays ==
    ASSUME Inv, WalkFrame, UNCHANGED <<stack, messages>>,
           status' \in {"running", "overflow", "undefined"},
           status' = "overflow" /\ MaxDepth >= ninodes =>
               \E d \in ReachedFrom(image, {1}) \ {1} : LeadsToItself(image, d)
    PROVE  Inv'
  <1>1. \A k \in 1 .. Len(stack') - 1 : Called(k)'
    BY StaysCalled DEF Inv, WalkInv, WalkFrame
  <1>2. \A k \in 1 .. Len(stack') : \A e \in 1 .. stack'[k].next - 1 :
            \/ k < Len(stack') /\ e = stack'[k].next - 1
            \/ Handled(stack[k].inode, e)'
    BY StaysHandled DEF Inv, WalkInv, WalkFrame
  <1>3. WalkInv'
    BY <1>1, <1>2 DEF Inv, WalkInv, WalkFrame
  <1> QED BY <1>3, Walks DEF Inv, Typed, TypeOK

LEMMA WalkOutsideInv == ASSUME Inv, WalkOutside PROVE Inv'
  BY WalkStays DEF WalkOutside, Walking, Stop, WalkFrame

LEMMA WalkBeyondInv == ASSUME Inv, WalkBeyond PROVE Inv'
  BY WalkStays, TopEntry DEF WalkBeyond, Stop, WalkFrame

\* The frames below the innermost one are left as they are.
LEMMA Below ==
    ASSUME Inv, WalkFrame, stack # <<>>, messages > 0 => messages' > 0,
           NEW k \in 1 .. Len(stack) - 1, stack'[k] = stack[k]
    PROVE  /\ stack'[k + 1].inode = stack[k + 1].inode => Called(k)'
           /\ \A e \in 1 .. stack'[k].next - 1 :
                  e = stack'[k].next - 1 \/ Handled(stack[k].inode, e)'
  <1>1. image' = image
    BY DEF WalkFrame
  <1>2. k \in 1 .. Len(stack)
    BY StackType
  <1>3. Called(k)
    BY DEF Inv, WalkInv, WalkFrame
  <1>4. \A e \in 1 .. stack[k].next - 1 :
            e = stack[k].next - 1 \/ Handled(stack[k].inode, e)
    BY <1>2 DEF Inv, WalkInv, WalkFrame
  <1>5. stack'[k + 1].inode = stack[k + 1].inode => Called(k)'
    BY <1>1, <1>3, StaysCalled
  <1>6. \A e \in 1 .. stack[k].next - 1 :
            e = stack[k].next - 1 \/ Handled(stack[k].inode, e)'
    BY <1>1, <1>4, StaysHandled
  <1> QED BY <1>5, <1>6

\* The innermost call has handled the entries before the one it is at.
LEMMA TopHandled ==
    ASSUME Inv, WalkFrame, stack # <<>>, messages > 0 => messages' > 0,
           NEW d, d = top.inode
    PROVE  \A e \in 1 .. top.next - 1 : Handled(d, e) /\ Handled(d, e)'
  <1>1. PICK n \in Nat : n = Len(stack) /\ n \in 1 .. n
    BY StackType
  <1>2. \A e \in 1 .. stack[n].next - 1 : Handled(stack[n].inode, e)
    BY <1>1 DEF Inv, WalkInv, WalkFrame
  <1>3. top = stack[n]
    BY <1>1 DEF top
  <1>4. \A e \in 1 .. top.next - 1 : Handled(d, e)
    BY <1>2, <1>3
  <1>5. image' = image
    BY DEF WalkFrame
  <1>6. \A e : Handled(d, e) => Handled(d, e)'
    BY <1>5, StaysHandled
  <1> QED BY <1>4, <1>6


\* The innermost call goes on to the next entry, the one before handled.
LEMMA Advances ==
    ASSUME Inv, WalkFrame, stack # <<>>, stack' = Advanced,
           status' = "running", messages' \in Nat,
           messages > 0 => messages' > 0,
           messages' > 0 =>
               \E d \in ReachedFrom(image, {1}) : \E n \in RefersTo(image, d) :
                   n > 1 /\ image.type[n] = 0,
           NEW dir, dir = top.inode, NEW number, number = top.next,
           Handled(dir, number)'
    PROVE  Inv'
  <1>1. PICK n \in Nat : n = Len(stack) /\ n \in 1 .. n
    BY StackType
  <1>2. PICK A : A = Advanced
    OBVIOUS
  <1>3. /\ A \in Seq(Frame) /\ Len(A) = n
        /\ \A k \in 1 .. n - 1 : A[k] = stack[k]
        /\ A[n] = [inode |-> dir, next |-> number + 1]
    BY <1>1, <1>2, AdvancedType
  <1>4. top = stack[n] /\ number \in Nat
    BY <1>1, AtTop DEF top
  <1>5. \A k \in 1 .. n : A[k].inode = stack[k].inode
    <2>1. A[n].inode = dir
      BY <1>3
    <2>2. \A k \in 1 .. n : k = n \/ k \in 1 .. n - 1
      BY <1>1
    <2> QED BY <1>3, <1>4, <2>1, <2>2
  <1>6. stack' = A /\ Len(stack') = n
    BY <1>2, <1>3
  <1>7. \A k \in 1 .. n - 1 : Called(k)'
    <2> SUFFICES ASSUME NEW k \in 1 .. n - 1 PROVE Called(k)'
      OBVIOUS
    <2>1. k + 1 \in 1 .. n /\ stack'[k] = stack[k]
      BY <1>1, <1>3, <1>6
    <2>2. stack'[k + 1].inode = stack[k + 1].inode
      BY <1>5, <1>6, <2>1
    <2> QED BY <1>1, <2>1, <2>2, Below
  <1>8. \A k \in 1 .. n : \A e \in 1 .. stack'[k].next - 1 :
            \/ k < n /\ e = stack'[k].next - 1
            \/ Handled(stack[k].inode, e)'
    <2> SUFFICES ASSUME NEW k \in 1 .. n, NEW e \in 1 .. stack'[k].next - 1
                 PROVE  \/ k < n /\ e = stack'[k].next - 1
                        \/ Handled(stack[k].inode, e)'
      OBVIOUS
    <2>1. CASE k \in 1 .. n - 1
      <3>1. stack'[k] = stack[k] /\ k < n
        BY <1>3, <1>6, <2>1
      <3> QED BY <1>1, <2>1, <3>1, Below
    <2>2. CASE k = n
      <3>1. stack'[k].next = number + 1 /\ stack'[k].inode = dir
        BY <1>3, <1>6, <2>2
      <3>2. e = number \/ e \in 1 .. top.next - 1
        BY <1>4, <3>1
      <3>3. Handled(dir, e)'
        BY <3>2, TopHandled
      <3> QED BY <3>1, <3>3
    <2>3. k = n \/ k \in 1 .. n - 1
      BY <1>1
    <2> QED BY <2>1, <2>2, <2>3
  <1>9. check = 9 /\ check' = 9 /\ image' = image
    BY DEF WalkFrame
  <1>10. 1 \in 1 .. n /\ stack[1].inode = 1
    BY <1>1, <1>9 DEF Inv, WalkInv
  <1>11. WalkInv'
    BY <1>5, <1>6, <1>7, <1>8, <1>9, <1>10 DEF WalkInv
  <1>12. stack' \in Seq(Frame) /\ Len(stack') <= MaxDepth
    BY <1>1, <1>3, <1>6 DEF Inv, Typed, TypeOK
  <1> QED BY <1>11, <1>12, Walks

LEMMA WalkOverInv == ASSUME Inv, WalkOver PROVE Inv'
  <1>1. AtEntry /\ WalkFrame /\ stack' = Advanced
        /\ UNCHANGED <<messages, status>>
    BY TopEntry DEF WalkOver, WalkFrame
  <1>2. PICK dir, number : dir = top.inode /\ number = top.next
    OBVIOUS
  <1>3. Handled(dir, number)'
    <2>1. InContent(dir, number) /\ Entry = EntryOf(dir, number)
      BY <1>1, <1>2, TopEntry
    <2>2. Entry.inum > 1 =>
              Entry.inum \in Inodes /\ image.type[Entry.inum] \notin {0, 1}
      BY DEF WalkOver, Follows
    <2>3. Handled(dir, number)
      BY <2>1, <2>2 DEF Handled, Directory
    <2> QED BY <1>1, <2>3, StaysHandled DEF WalkFrame
  <1>4. messages \in Nat /\ status' = "running" /\ stack # <<>>
    BY <1>1, TopEntry DEF Inv, Typed, TypeOK
  <1>5. messages' > 0 =>
            \E d \in ReachedFrom(image, {1}) : \E n \in RefersTo(image, d) :
                n > 1 /\ image.type[n] = 0
    BY <1>1 DEF Inv, WalkInv, WalkFrame
  <1> QED BY <1>1, <1>2, <1>3, <1>4, <1>5, Advances

LEMMA WalkReportInv == ASSUME Inv, WalkReport PROVE Inv'
  <1>1. AtEntry /\ WalkFrame /\ stack' = Advanced /\ UNCHANGED status
        /\ messages' = messages + 1
    BY TopEntry DEF WalkReport, WalkFrame
  <1>2. PICK dir, number : dir = top.inode /\ number = top.next
    OBVIOUS
  <1>3. /\ Entry.inum > 1 /\ Entry.inum \in Inodes
        /\ image.type[Entry.inum] = 0
    BY DEF WalkReport, Follows
  <1>4. messages \in Nat /\ messages' \in Nat /\ messages' > 0
        /\ status' = "running" /\ stack # <<>>
    BY <1>1, TopEntry DEF Inv, Typed, TypeOK
  <1>5. Handled(dir, number)'
    <2>1. InContent(dir, number) /\ Entry = EntryOf(dir, number)
      BY <1>1, <1>2, TopEntry
    <2>2. image' = image
      BY <1>1 DEF WalkFrame
    <2>3. InContent(dir, number)' /\ EntryOf(dir, number)' = Entry
      BY <2>1, <2>2, SameEntries
    <2> QED BY <1>3, <1>4, <2>2, <2>3 DEF Handled, Directory
  <1>6. \E d \in ReachedFrom(image, {1}) : \E n \in RefersTo(image, d) :
            n > 1 /\ image.type[n] = 0
    BY <1>1, <1>3, TopEntry
  <1> QED BY <1>1, <1>2, <1>4, <1>5, <1>6, Advances

\* A stack that is too small for the walk, though it has room for a call for
\* every inode, has the same directory twice.
LEMMA TooDeep ==
    ASSUME Inv, check = 9, stack # <<>>, NEW x \in Inodes,
           x \in Subdirectories(image, top.inode), Len(stack) >= ninodes
    PROVE  \E d \in ReachedFrom(image, {1}) \ {1} : LeadsToItself(image, d)
  <1>0. ninodes \in Nat
    BY LayoutAssumption
  <1>1. PICK n \in Nat : n = Len(stack) /\ n \in 1 .. n /\ n >= ninodes
    BY StackType
  <1>2. PICK f : f = [k \in 1 .. n + 1 |->
                         IF k = n + 1 THEN x ELSE stack[k].inode]
    OBVIOUS
  <1>3. \A k \in 1 .. n : f[k] = stack[k].inode /\ f[k] \in Inodes
    <2>1. \A k \in 1 .. n : k \in 1 .. n + 1 /\ k # n + 1
      BY <1>1
    <2> QED BY <1>1, <1>2, <2>1, StackType
  <1>4. n + 1 \in 1 .. n + 1 /\ f[n + 1] = x
    BY <1>1, <1>2
  <1>5. \A k \in 1 .. n + 1 : k = n + 1 \/ k \in 1 .. n
    BY <1>1
  <1>6. f \in [1 .. n + 1 -> Inodes]
    BY <1>2, <1>3, <1>4, <1>5
  <1>7. \E p, q \in 1 .. n + 1 : p # q /\ f[p] = f[q]
    <2>1. /\ IsFiniteSet(1 .. n + 1) /\ Cardinality(1 .. n + 1) = n + 1
          /\ IsFiniteSet(Inodes) /\ Cardinality(Inodes) = ninodes
      BY <1>0, <1>1, CountUpTo DEF Inodes
    <2>2. Cardinality(Inodes) < Cardinality(1 .. n + 1)
      BY <1>0, <1>1, <2>1
    <2> QED BY <1>6, <2>1, <2>2, FS_PigeonHole
  <1>8. PICK p, q \in 1 .. n + 1 : p < q /\ f[p] = f[q]
    <2>1. \A p, q \in 1 .. n + 1 : p # q => p < q \/ q < p
      BY <1>1
    <2> QED BY <1>7, <2>1
  <1>9. p \in 1 .. n /\ f[p] = stack[p].inode
    BY <1>1, <1>3, <1>8
  <1>10. PICK d : d = stack[p].inode
    OBVIOUS
  <1>11. d \in ReachedFrom(image, {1})
    BY <1>1, <1>9, <1>10, AllReached
  <1>12. PICK R : R = ReachedFrom(image, Subdirectories(image, d))
    OBVIOUS
  <1>13. \A k \in p + 1 .. n : stack[k].inode \in R
    BY <1>1, <1>9, <1>10, <1>12, HigherIsReached
  <1>14. Subdirectories(image, d) \in SUBSET Inodes
    BY SubdirectoriesType
  <1>15. top = stack[n]
    BY <1>1 DEF top
  <1>16. f[q] \in R /\ f[q] # 1
    <2>1. CASE q \in 1 .. n
      <3>1. q \in p + 1 .. n /\ q > 1
        BY <1>8, <1>9, <2>1
      <3>2. stack[q].inode > 1 /\ stack[q].inode \in Inodes
        BY <1>1, <2>1, <3>1, AllReached, StackType
      <3> QED BY <1>3, <1>13, <2>1, <3>1, <3>2 DEF Inodes
    <2>2. CASE q = n + 1
      <3>1. x > 1 /\ x # 1
        <4>1. x > 1
          BY SubdirectoriesType
        <4> QED BY <4>1
      <3>2. CASE p = n
        <4>1. x \in Subdirectories(image, d)
          BY <1>10, <1>15, <3>2
        <4> QED BY <1>4, <1>12, <1>14, <2>2, <3>1, <4>1, ReachStart
      <3>3. CASE p # n
        <4>1. n \in p + 1 .. n
          BY <1>1, <1>9, <3>3
        <4>2. top.inode \in R
          BY <1>13, <1>15, <4>1
        <4> QED BY <1>4, <1>12, <1>14, <2>2, <3>1, <4>2, ReachClosed
      <3> QED BY <3>2, <3>3
    <2> QED BY <1>5, <2>1, <2>2
  <1>17. d = f[q]
    BY <1>8, <1>9, <1>10
  <1>18. LeadsToItself(image, d) /\ d # 1
    BY <1>12, <1>16, <1>17 DEF LeadsToItself
  <1> QED BY <1>11, <1>18

LEMMA WalkIntoInv == ASSUME Inv, WalkInto PROVE Inv'
  <1>1. AtEntry /\ WalkFrame /\ UNCHANGED messages /\ stack # <<>>
    <2>1. AtEntry /\ UNCHANGED <<image, check, buf, address_count, messages>>
      BY DEF WalkInto
    <2>2. UNCHANGED i
      BY DEF WalkInto, Stop
    <2> QED BY <2>1, <2>2, TopEntry DEF WalkFrame
  <1>2. PICK dir, number : dir = top.inode /\ number = top.next
    OBVIOUS
  <1>3. PICK x : x = Entry.inum
    OBVIOUS
  <1>4. x \in Inodes /\ x \in Subdirectories(image, dir)
    BY <1>1, <1>2, <1>3, TopEntry DEF WalkInto, Follows, Subdirectories
  <1>5. PICK n \in Nat : n = Len(stack) /\ n \in 1 .. n
    BY <1>1, StackType
  <1>6. CASE Len(stack) = MaxDepth
    <2>1. status' = "overflow" /\ UNCHANGED <<stack, messages>>
      BY <1>1, <1>6 DEF WalkInto, Stop
    <2>2. MaxDepth >= ninodes =>
              \E d \in ReachedFrom(image, {1}) \ {1} : LeadsToItself(image, d)
      BY <1>1, <1>2, <1>4, <1>6, TooDeep DEF WalkFrame
    <2> QED BY <1>1, <2>1, <2>2, WalkStays
  <1>7. CASE Len(stack) # MaxDepth
    <2>1. stack' = Append(Advanced, [inode |-> x, next |-> 1])
          /\ UNCHANGED status
      BY <1>3, <1>7 DEF WalkInto
    <2>2. PICK new : new = [inode |-> x, next |-> 1]
      OBVIOUS
    <2>3. PICK A : A = Advanced
      OBVIOUS
    <2>4. /\ A \in Seq(Frame) /\ Len(A) = n
          /\ \A k \in 1 .. n - 1 : A[k] = stack[k]
          /\ A[n] = [inode |-> dir, next |-> number + 1]
      BY <1>1, <1>2, <1>5, <2>3, AdvancedType
    <2>5. new \in Frame
      BY <1>4, <2>2 DEF Frame
    <2>6. /\ stack' \in Seq(Frame) /\ Len(stack') = n + 1
          /\ \A k \in 1 .. n - 1 : stack'[k] = stack[k]
          /\ stack'[n] = [inode |-> dir, next |-> number + 1]
          /\ stack'[n + 1] = new
      <3>1. PICK F : F = Frame
        OBVIOUS
      <3>2. A \in Seq(F) /\ new \in F /\ stack' = Append(A, new)
        BY <2>1, <2>2, <2>3, <2>4, <2>5, <3>1
      <3>3. /\ stack' \in Seq(F) /\ Len(stack') = n + 1
            /\ \A k \in 1 .. n : stack'[k] = A[k]
            /\ stack'[n + 1] = new
        BY <1>5, <2>4, <3>2
      <3> QED BY <1>5, <2>4, <3>1, <3>3
    <2>7. top = stack[n] /\ number \in Nat /\ number > 0
      BY <1>1, <1>2, <1>5, AtTop DEF top
    <2>8. check = 9 /\ check' = 9 /\ image' = image
      BY <1>1 DEF WalkFrame
    <2>9. stack'[n].inode = stack[n].inode /\ stack'[n].next = number + 1
      BY <1>2, <2>6, <2>7
    <2>10. Called(n)'
      <3>1. InContent(dir, number) /\ Entry = EntryOf(dir, number)
        BY <1>1, <1>2, TopEntry
      <3>2. InContent(dir, number)' /\ EntryOf(dir, number)' = Entry
        BY <2>8, <3>1, SameEntries
      <3>3. stack'[n].inode = dir /\ stack'[n].next - 1 = number
            /\ stack'[n].next > 1 /\ stack'[n + 1].inode = x
        BY <2>2, <2>6, <2>7
      <3> QED BY <1>3, <1>4, <2>8, <3>2, <3>3 DEF Called
    <2>11. \A k \in 1 .. n : Called(k)'
      <3> SUFFICES ASSUME NEW k \in 1 .. n - 1 PROVE Called(k)'
        BY <1>5, <2>10
      <3>1. stack'[k] = stack[k] /\ k \in 1 .. Len(stack) - 1
        BY <1>5, <2>6
      <3>2. stack'[k + 1].inode = stack[k + 1].inode
        BY <1>5, <2>6, <2>9
      <3> QED BY <1>1, <3>1, <3>2, Below
    <2>12. \A k \in 1 .. n + 1 : \A e \in 1 .. stack'[k].next - 1 :
               \/ k < n + 1 /\ e = stack'[k].next - 1
               \/ Handled(stack[k].inode, e)'
      <3> SUFFICES ASSUME NEW k \in 1 .. n + 1,
                          NEW e \in 1 .. stack'[k].next - 1
                   PROVE  \/ k < n + 1 /\ e = stack'[k].next - 1
                          \/ Handled(stack[k].inode, e)'
        OBVIOUS
      <3>1. CASE k \in 1 .. n - 1
        <4>1. stack'[k] = stack[k] /\ k < n + 1 /\ k \in 1 .. Len(stack) - 1
          BY <1>5, <2>6, <3>1
        <4> QED BY <1>1, <4>1, Below
      <3>2. CASE k = n
        <4>1. e = number \/ e \in 1 .. top.next - 1
          BY <1>2, <2>7, <2>9, <3>2
        <4>2. CASE e = number
          BY <1>5, <2>7, <2>9, <3>2, <4>2
        <4>3. CASE e \in 1 .. top.next - 1
          <5>1. Handled(dir, e)'
            BY <1>1, <1>2, <4>3, TopHandled
          <5>2. stack'[k].inode = dir
            BY <2>6, <3>2
          <5> QED BY <5>1, <5>2
        <4> QED BY <4>1, <4>2, <4>3
      <3>3. CASE k = n + 1
        <4>1. stack'[k].next = 1
          BY <2>2, <2>6, <3>3
        <4> QED BY <4>1
      <3>4. k \in 1 .. n - 1 \/ k = n \/ k = n + 1
        BY <1>5
      <3> QED BY <3>1, <3>2, <3>3, <3>4
    <2>13. stack'[1].inode = 1
      <3>1. stack[1].inode = 1
        BY <1>1, <2>8 DEF Inv, WalkInv
      <3>2. 1 = n \/ 1 \in 1 .. n - 1
        BY <1>5
      <3> QED BY <2>6, <2>9, <3>1, <3>2
    <2>14. /\ status' = "running" /\ messages' \in Nat
           /\ Len(stack') <= MaxDepth
      <3>1. MaxDepth \in Nat
        BY DepthAssumption
      <3> QED BY <1>1, <1>5, <1>7, <2>1, <2>6, <3>1, TopEntry
              DEF Inv, Typed, TypeOK
    <2>15. n + 1 - 1 = n
      BY <1>5
    <2>16. messages' > 0 =>
               \E d \in ReachedFrom(image, {1}) :
                   \E m \in RefersTo(image, d) : m > 1 /\ image.type[m] = 0
      BY <1>1, <2>8 DEF Inv, WalkInv
    <2>17. WalkInv'
      BY <2>6, <2>8, <2>11, <2>12, <2>13, <2>14, <2>15, <2>16 DEF WalkInv
    <2> QED BY <1>1, <2>6, <2>14, <2>17, Walks
  <1> QED BY <1>6, <1>7

\* Who has been over all entries of a directory has been over all that can be
\* reached from it.
LEMMA Completed ==
    ASSUME Inv, check = 9, stack # <<>>, block_at > Len(content)
    PROVE  WalkedFrom(top.inode)
  <1>0. DIRENTS \in Nat
    BY LayoutAssumption
  <1>1. PICK d \in Inodes : d = top.inode
    BY AtTop
  <1>2. PICK c \in Seq(Nat) : c = ContentBlocks(image, d)
    BY <1>1, AddressesType DEF Inv, Typed
  <1>3. \A e \in 1 .. top.next - 1 : Handled(d, e)
    <2>1. PICK n \in Nat : n = Len(stack) /\ n \in 1 .. n
      BY StackType
    <2>2. \A e \in 1 .. stack[n].next - 1 : Handled(stack[n].inode, e)
      BY <2>1 DEF Inv, WalkInv
    <2> QED BY <1>1, <2>1, <2>2 DEF top
  <1>4. ASSUME NEW n \in RefersTo(image, d), n > 1
        PROVE  /\ n \in Inodes
               /\ image.type[n] = 0 => messages > 0
               /\ image.type[n] = Directory => WalkedFrom(n)
    <2>1. PICK block \in ToSet(c) \cap Blocks :
              \E entry \in ToSet(image.entries[block]) : n = entry.inum
      BY <1>2 DEF RefersTo
    <2>2. PICK entry \in ToSet(image.entries[block]) : n = entry.inum
      BY <2>1
    <2>3. PICK b \in 1 .. Len(c) : c[b] = block
      BY InToSet
    <2>4. image.entries[block] \in [1 .. DIRENTS -> DirentType]
      BY ImageTypes DEF Inv, Typed
    <2>5. PICK k \in 1 .. DIRENTS : image.entries[block][k] = entry
      <3>1. PICK row : row = image.entries[block]
        OBVIOUS
      <3>2. PICK D : D = DirentType
        OBVIOUS
      <3>3. row \in [1 .. DIRENTS -> D]
        BY <2>4, <3>1, <3>2
      <3>4. row \in Seq(D) /\ Len(row) = DIRENTS
        BY <1>0, <3>3
      <3> QED BY <3>1, <3>4, InToSet
    <2>6. PICK e \in Nat : /\ e > 0 /\ BlockOf(e) = b
                           /\ ((e - 1) % DIRENTS) + 1 = k
      <3>1. b \in Nat /\ b > 0
        BY <1>2
      <3> QED BY <3>1, BlockAndEntry
    <2>7. InContent(d, e) /\ EntryOf(d, e) = entry
      BY <1>2, <2>3, <2>5, <2>6 DEF InContent, EntryOf
    <2>8. e < top.next
      <3>1. BlockOf(top.next) > Len(c)
        BY <1>1, <1>2, AtTop
      <3>2. BlockOf(top.next) \in Nat
        <4>1. PICK m \in Nat : m = top.next - 1
          BY AtTop
        <4>2. DIRENTS > 0
          BY LayoutAssumption
        <4>3. m \div DIRENTS \in Nat
          BY <1>0, <4>2
        <4> QED BY <4>1, <4>3 DEF BlockOf
      <3>3. BlockOf(e) < BlockOf(top.next)
        BY <2>6, <3>1, <3>2
      <3> QED BY <2>6, <3>3, AtTop, LaterBlock
    <2>9. e \in 1 .. top.next - 1
      BY <2>6, <2>8, AtTop
    <2> QED BY <1>3, <1>4, <2>2, <2>7, <2>9 DEF Handled
  <1>5. ReportedFrom(d)
    BY <1>4 DEF ReportedFrom
  <1>6. \A s \in Subdirectories(image, d) : WalkedFrom(s)
    BY <1>4 DEF Subdirectories
  <1>7. Subdirectories(image, d) \in SUBSET Inodes
    BY SubdirectoriesType
  <1>8. ~LeadsToItself(image, d)
    <2> SUFFICES ASSUME LeadsToItself(image, d) PROVE FALSE
      OBVIOUS
    <2>1. PICK s \in Subdirectories(image, d) : LeadsToItself(image, s)
      BY ReachBack
    <2>2. s \in ReachedFrom(image, {s})
      BY <1>7, ReachStart
    <2> QED BY <1>6, <2>1, <2>2 DEF WalkedFrom
  <1>9. ASSUME NEW x \in ReachedFrom(image, {d})
        PROVE  ReportedFrom(x) /\ ~LeadsToItself(image, x)
    <2>1. x = d \/ x \in ReachedFrom(image, Subdirectories(image, d))
      BY ReachBelow
    <2>2. CASE x = d
      BY <1>5, <1>8, <2>2
    <2>3. CASE x \in ReachedFrom(image, Subdirectories(image, d))
      <3>1. PICK s \in Subdirectories(image, d) :
                x \in ReachedFrom(image, {s})
        BY <1>7, <2>3, ReachFromOne
      <3> QED BY <1>6, <3>1 DEF WalkedFrom
    <2> QED BY <2>1, <2>2, <2>3
  <1> QED BY <1>1, <1>9 DEF WalkedFrom

LEMMA WalkReturnInv == ASSUME Inv, WalkReturn PROVE Inv'
  <1>1. /\ status = "running" /\ WalkFrame /\ UNCHANGED messages
        /\ stack # <<>> /\ block_at > Len(content)
        /\ stack' = Front(stack)
        /\ status' = IF Len(stack) = 1 THEN "ok" ELSE status
    BY DEF WalkReturn, Walking, WalkFrame
  <1>2. check = 9 /\ check' = 9 /\ image' = image
    BY <1>1 DEF WalkFrame
  <1>3. PICK dir \in Inodes : dir = top.inode
    BY <1>1, AtTop
  <1>4. WalkedFrom(dir)
    BY <1>1, <1>2, <1>3, Completed
  <1>5. WalkedFrom(dir)'
    BY <1>1, <1>2, <1>4, StaysWalked
  <1>6. PICK n \in Nat : n = Len(stack) /\ n \in 1 .. n
    BY <1>1, StackType
  <1>7. /\ stack' \in Seq(Frame) /\ Len(stack') = n - 1
        /\ \A k \in 1 .. n - 1 : stack'[k] = stack[k]
    <2>1. PICK F : F = Frame
      OBVIOUS
    <2>2. stack \in Seq(F) /\ stack' = SubSeq(stack, 1, n - 1)
      BY <1>1, <1>6, <2>1, StackType DEF Front
    <2>3. /\ stack' \in Seq(F) /\ Len(stack') = n - 1
          /\ \A k \in 1 .. n - 1 : stack'[k] = stack[k]
      BY <1>6, <2>2
    <2> QED BY <2>1, <2>3
  <1>8. top = stack[n]
    BY <1>6 DEF top
  <1>9. \A k \in 1 .. n - 1 - 1 : Called(k)'
    <2> SUFFICES ASSUME NEW k \in 1 .. n - 1 - 1 PROVE Called(k)'
      OBVIOUS
    <2>1. k \in 1 .. n - 1 /\ k + 1 \in 1 .. n - 1
      BY <1>6
    <2> QED BY <1>1, <1>6, <1>7, <2>1, Below
  <1>10. \A k \in 1 .. n - 1 : \A e \in 1 .. stack'[k].next - 1 :
             \/ k < n - 1 /\ e = stack'[k].next - 1
             \/ Handled(stack[k].inode, e)'
    <2> SUFFICES ASSUME NEW k \in 1 .. n - 1,
                        NEW e \in 1 .. stack'[k].next - 1
                 PROVE  \/ k < n - 1 /\ e = stack'[k].next - 1
                        \/ Handled(stack[k].inode, e)'
      OBVIOUS
    <2>1. e = stack'[k].next - 1 \/ Handled(stack[k].inode, e)'
      BY <1>1, <1>6, <1>7, Below
    <2>2. CASE k = n - 1 /\ e = stack'[k].next - 1
      <3>1. PICK low : low = stack[k].inode
        OBVIOUS
      <3>2. k + 1 = n /\ e = stack[k].next - 1
        BY <1>6, <1>7, <2>2
      <3>3. Called(k)
        BY <1>2, <1>6 DEF Inv, WalkInv
      <3>4. /\ InContent(low, e) /\ EntryOf(low, e).inum = dir
            /\ dir \in Subdirectories(image, low)
        BY <1>3, <1>8, <3>1, <3>2, <3>3 DEF Called
      <3>5. image.type[dir] = Directory
        BY <3>4 DEF Subdirectories
      <3>6. Handled(low, e)
        BY <1>4, <3>4, <3>5 DEF Handled, Directory
      <3>7. Handled(low, e)'
        BY <1>1, <1>2, <3>6, StaysHandled
      <3>8. stack'[k].inode = low
        BY <1>7, <3>1
      <3> QED BY <3>7, <3>8
    <2>3. k < n - 1 \/ k = n - 1
      BY <1>6
    <2> QED BY <2>1, <2>2, <2>3
  <1>11. stack' # <<>> => stack'[1].inode = 1
    <2> SUFFICES ASSUME stack' # <<>> PROVE stack'[1].inode = 1
      OBVIOUS
    <2>1. n - 1 # 0
      <3>1. PICK F : F = Frame
        OBVIOUS
      <3>2. stack' \in Seq(F)
        BY <1>7, <3>1
      <3> QED BY <1>7, <3>2
    <2>2. 1 \in 1 .. n - 1
      BY <1>6, <2>1
    <2>3. stack[1].inode = 1
      BY <1>1, <1>2 DEF Inv, WalkInv
    <2> QED BY <1>7, <2>2, <2>3
  <1>12. status' = "ok" => WalkedFrom(1)'
    <2> SUFFICES ASSUME n = 1 PROVE WalkedFrom(1)'
      BY <1>1, <1>6
    <2>1. dir = 1
      BY <1>1, <1>2, <1>3, <1>8 DEF Inv, WalkInv
    <2> QED BY <1>5, <2>1
  <1>13. status' \in {"running", "ok"} /\ messages' \in Nat
         /\ Len(stack') <= MaxDepth
    <2>1. MaxDepth \in Nat
      BY DepthAssumption
    <2> QED BY <1>1, <1>6, <1>7, <2>1 DEF Inv, Typed, TypeOK
  <1>14. messages' > 0 =>
             \E d \in ReachedFrom(image, {1}) :
                 \E m \in RefersTo(image, d) : m > 1 /\ image.type[m] = 0
    BY <1>1, <1>2 DEF Inv, WalkInv
  <1>15. WalkInv'
    BY <1>2, <1>7, <1>9, <1>10, <1>11, <1>12, <1>13, <1>14 DEF WalkInv
  <1> QED BY <1>1, <1>7, <1>13, <1>15, Walks

-----------------------------------------------------------------------------
(* Nothing outside is read.                                                *)

\* What StaysInside supposes.
Supposed ==
    /\ Standard /\ image.type[1] = Directory
    /\ \A inode \in Inodes :
           BlockNum(image.size[inode]) <= NDIRECT + NINDIRECT
    /\ check > 4 => Rule2(image)
    /\ check = 9 => Rule10(image)

\* An inode whose size fits, and that has addresses of data blocks only.
LEMMA ReadableIf ==
    ASSUME image \in Image, NEW n \in Inodes,
           BlockNum(image.size[n]) <= NDIRECT + NINDIRECT,
           ToSet(DirectAddresses(image, n)) \subseteq DataBlocks
    PROVE  ~Unreadable(n)
  <1>0. NDIRECT \in Nat /\ NINDIRECT \in Nat
    BY LayoutAssumption
  <1>1. PICK m \in Nat : m = BlockNum(image.size[n])
    BY ImageTypes, BlockNumType
  <1>2. SUFFICES ASSUME m > NDIRECT
                 PROVE  image.addrs[n][NDIRECT + 1] \in Blocks
    BY <1>0, <1>1 DEF Unreadable, HasIndirect
  <1>3. PICK a : a = image.addrs[n] /\ a \in [1 .. NDIRECT + 1 -> Nat]
    BY ImageTypes
  <1>4. PICK d : d = SubSeq(a, 1, NDIRECT + 1)
    OBVIOUS
  <1>5. d = DirectAddresses(image, n)
    BY <1>0, <1>1, <1>2, <1>3, <1>4 DEF DirectAddresses
  <1>6. /\ d \in Seq(Nat) /\ Len(d) = NDIRECT + 1
        /\ d[NDIRECT + 1] = a[NDIRECT + 1]
    <2>1. PICK l \in Nat : l = NDIRECT + 1 /\ l <= l /\ l \in 1 .. l
      BY <1>0
    <2>2. a \in [1 .. l -> Nat] /\ d = SubSeq(a, 1, l)
      BY <1>3, <1>4, <2>1
    <2>3. d \in Seq(Nat) /\ Len(d) = l /\ \A j \in 1 .. l : d[j] = a[j]
      BY <2>1, <2>2, FrontOf
    <2> QED BY <2>1, <2>3
  <1>7. a[NDIRECT + 1] \in ToSet(d)
    BY <1>0, <1>6, InToSet
  <1> QED BY <1>3, <1>5, <1>7, DataIsSmall

\* Where a file or directory has its content, it has addresses.
LEMMA ContentIsAddressed ==
    ASSUME image \in Image, NEW n \in Inodes
    PROVE  ToSet(ContentBlocks(image, n)) \subseteq ToSet(Addresses(image, n))
  <1>0. NDIRECT \in Nat
    BY LayoutAssumption
  <1>1. PICK m \in Nat : m = BlockNum(image.size[n])
    BY ImageTypes, BlockNumType
  <1>2. PICK a : a = image.addrs[n] /\ a \in [1 .. NDIRECT + 1 -> Nat]
    BY ImageTypes
  <1>3. PICK k \in Nat : /\ k = Min({m, NDIRECT}) /\ k <= m /\ k <= NDIRECT
    BY <1>0, MinOfTwo
  <1>4. PICK l \in Nat : l = (IF m <= NDIRECT THEN m ELSE NDIRECT + 1)
    BY <1>0
  <1>5. k <= l /\ l <= NDIRECT + 1
    BY <1>0, <1>3, <1>4
  <1>6. PICK c : c = SubSeq(a, 1, k)
    OBVIOUS
  <1>7. PICK d : d = SubSeq(a, 1, l)
    OBVIOUS
  <1>8. c \in Seq(Nat) /\ Len(c) = k /\ \A j \in 1 .. k : c[j] = a[j]
    <2>1. PICK n1 \in Nat : n1 = NDIRECT + 1
      BY <1>0
    <2>2. k <= n1
      BY <1>0, <1>3, <2>1
    <2> QED BY <1>2, <1>6, <2>1, <2>2, FrontOf
  <1>9. d \in Seq(Nat) /\ Len(d) = l /\ \A j \in 1 .. l : d[j] = a[j]
    BY <1>0, <1>2, <1>5, <1>7, FrontOf
  <1>10. ToSet(c) \subseteq ToSet(d)
    <2> SUFFICES ASSUME NEW x \in ToSet(c) PROVE x \in ToSet(d)
      OBVIOUS
    <2>1. PICK j \in 1 .. k : c[j] = x
      BY <1>8, InToSet
    <2>2. j \in 1 .. l /\ d[j] = x
      BY <1>5, <1>8, <1>9, <2>1
    <2> QED BY <1>9, <2>2, InToSet
  <1>11. PICK e \in Seq(Nat) : e = IndirectAddresses(image, n)
    BY AddressesType
  <1>12. d = DirectAddresses(image, n)
    BY <1>1, <1>2, <1>4, <1>7 DEF DirectAddresses
  <1>13. ContentBlocks(image, n) = c \o e
    BY <1>1, <1>2, <1>3, <1>6, <1>11 DEF ContentBlocks
  <1>14. ToSet(c \o e) = ToSet(c) \cup ToSet(e)
    BY <1>8, <1>11, ConcatToSet
  <1>15. ToSet(Addresses(image, n)) = ToSet(d) \cup ToSet(e)
    BY <1>11, <1>12, ValidAddresses
  <1> QED BY <1>10, <1>13, <1>14, <1>15

\* With Rule 2 the addresses of an inode in use have their blocks and bits.
LEMMA UsedIsInside ==
    ASSUME Inv, Supposed, Rule2(image), NEW n \in Inodes, InUse(image, n)
    PROVE  /\ ToSet(Addresses(image, n)) \subseteq DataBlocks
           /\ ~Unreadable(n) /\ ~Unmarkable(n)
  <1>1. image \in Image
    BY DEF Inv, Typed
  <1>2. ToSet(Addresses(image, n)) \subseteq DataBlocks
    BY <1>1, Rule2Says
  <1>3. ~Unreadable(n)
    BY <1>1, ReadableIf DEF Supposed, Rule2
  <1>4. \A address \in ToSet(Addresses(image, n)) : ~OutsideBitmap(address)
    BY <1>2, DataIsSmall
  <1> QED BY <1>2, <1>3, <1>4 DEF Unmarkable

LEMMA Check7Inside ==
    ASSUME Inv, Supposed, address_check_7_8 PROVE status' # "undefined"
  <1>1. /\ status = "running" /\ check = 7 /\ i \in Inodes /\ image \in Image
    BY LayoutAssumption DEF address_check_7_8, At, Inv, Typed, TypeOK, Inodes
  <1> SUFFICES ASSUME InUse(image, i), status' = "undefined" PROVE FALSE
    BY <1>1 DEF address_check_7_8, Continue
  <1>2. /\ ToSet(Addresses(image, i)) \subseteq DataBlocks /\ ~Unreadable(i)
    BY <1>1, UsedIsInside DEF Supposed
  <1>3. PICK a \in Seq(Nat) : a = Addresses(image, i)
    BY <1>1, AddressesType
  <1>4. PICK m \in Nat : m = Len(a) /\ DOMAIN a = 1 .. m
    OBVIOUS
  <1>5. \A n \in 1 .. m : a[n] \in Blocks
    BY <1>1, <1>2, <1>3, <1>4, InodeAddresses, DataIsSmall
  <1> DEFINE repeated == {n \in 1 .. m : Repeated(a, n)}
             outside == {n \in 1 .. m : a[n] \notin Blocks}
                            \cup IF Unreadable(i) THEN {m + 1} ELSE {}
             first == Min(repeated \cup outside)
  <1>6. repeated \cup outside # {} /\ first \notin repeated
    BY <1>1, <1>3, <1>4 DEF address_check_7_8, Stop, Continue
  <1>7. outside = {}
    BY <1>2, <1>5
  <1>8. PICK T : T = repeated
    OBVIOUS
  <1>9. T \subseteq 1 .. m /\ T # {} /\ Min(T) \notin T
    BY <1>6, <1>7, <1>8
  <1>10. PICK least \in T : \A n \in T : least <= n
    BY <1>9, Least
  <1>11. Min(T) \in T
    BY <1>10 DEF Min
  <1> QED BY <1>9, <1>11

\* Every call of the walk is for a directory.
LEMMA TopIsDirectory ==
    ASSUME Inv, check = 9, stack # <<>>, image.type[1] = Directory
    PROVE  image.type[top.inode] = Directory
  <1>1. Len(stack) \in Nat /\ Len(stack) \in 1 .. Len(stack)
    BY StackType
  <1>2. CASE Len(stack) = 1
    BY <1>2 DEF Inv, WalkInv, top
  <1>3. CASE Len(stack) # 1
    <2>1. PICK k \in 1 .. Len(stack) - 1 : k + 1 = Len(stack)
      <3>1. PICK m \in Nat : m = Len(stack)
        BY <1>1
      <3>2. m - 1 \in 1 .. m - 1 /\ (m - 1) + 1 = m
        BY <1>1, <1>3, <3>1
      <3> QED BY <3>1, <3>2
    <2>2. Called(k)
      BY DEF Inv, WalkInv
    <2>3. stack[k + 1].inode \in Subdirectories(image, stack[k].inode)
      BY <2>2 DEF Called
    <2> QED BY <2>1, <2>3 DEF Subdirectories, top, Directory
  <1> QED BY <1>2, <1>3

LEMMA WalkInside ==
    ASSUME Inv, Supposed, check = 9, stack # <<>>
    PROVE  ~WalkOutside /\ ~WalkBeyond
  <1>1. /\ image \in Image /\ top.inode \in Inodes
        /\ top.next \in Nat /\ top.next > 0
    BY AtTop DEF Inv, Typed
  <1>2. PICK n \in Inodes : n = top.inode
    BY <1>1
  <1>3. image.type[n] = Directory
    BY <1>2, TopIsDirectory DEF Supposed
  <1>4. InUse(image, n) /\ Rule2(image) /\ Rule10(image)
    BY <1>3 DEF InUse, Directory, Supposed
  <1>5. ToSet(Addresses(image, n)) \subseteq DataBlocks /\ ~Unreadable(n)
    BY <1>4, UsedIsInside
  <1>6. image.addrs[n][1] \in Blocks
    BY <1>3 DEF Supposed, Standard
  <1>7. PICK c \in Seq(Nat) : c = ContentBlocks(image, n)
    BY <1>1, AddressesType
  <1>8. block_at <= Len(c) => c[block_at] \in Blocks
    <2> SUFFICES ASSUME block_at <= Len(c) PROVE c[block_at] \in Blocks
      OBVIOUS
    <2>1. DIRENTS \in Nat /\ DIRENTS > 0
      BY LayoutAssumption
    <2>2. block_at \in Nat /\ block_at > 0
      <3>1. PICK b \in Nat : b = top.next - 1
        BY <1>1
      <3>2. PICK d \in Nat : d = DIRENTS /\ d > 0
        BY <2>1
      <3>3. b \div d \in Nat
        BY <3>2
      <3> QED BY <3>1, <3>2, <3>3 DEF block_at
    <2>3. c[block_at] \in ToSet(c)
      BY <1>7, <2>2, InToSet
    <2> QED BY <1>1, <1>5, <1>7, <2>3, ContentIsAddressed, DataIsSmall
  <1>9. ~WalkOutside
    BY <1>2, <1>5, <1>6, <1>7, <1>8 DEF WalkOutside, content
  <1>10. ASSUME WalkBeyond PROVE FALSE
    <2>1. AtEntry /\ Follows(Entry) /\ Entry.inum \notin Inodes
      BY <1>10 DEF WalkBeyond
    <2>2. Entry.inum \in Nat /\ Entry.inum \in RefersTo(image, n)
      BY <1>2, <2>1, TopEntry
    <2>3. Entry.inum \in Inodes
      BY <1>3, <1>4, <2>1, <2>2 DEF Rule10, Follows
    <2> QED BY <2>1, <2>3
  <1> QED BY <1>9, <1>10

LEMMA StaysInsideInv ==
    ASSUME Inv, StaysInside, [Next]_vars PROVE StaysInside'
  <1>1. image' = image /\ check' = check
    BY DEF Next, vars, inode_detect_1, inodeaddr_detect_2, root_check_3,
           directory_check_4, bitmap_check_5, bitmap_check_6,
           bitmap_check_6_end, address_check_7_8, Return, WalkOutside,
           WalkOver, WalkInto, WalkReport, WalkBeyond, WalkReturn
  <1>2. Standard' <=> Standard
    BY <1>1, SameStandard
  <1> SUFFICES ASSUME Supposed, status # "undefined", status' = "undefined"
               PROVE  FALSE
    BY <1>1, <1>2 DEF StaysInside, Supposed
  <1>3. image \in Image /\ ninodes \in Nat /\ i \in 1 .. ninodes + 1
        /\ ninodes > 0
    BY LayoutAssumption DEF Inv, Typed, TypeOK
  <1>4. CASE inodeaddr_detect_2
    <2>1. i \in Inodes
      BY <1>3, <1>4 DEF inodeaddr_detect_2, At, Inodes
    <2>2. /\ Unreadable(i)
          /\ \A n \in DOMAIN DirectAddresses(image, i) :
                 ~BadAddress(DirectAddresses(image, i)[n])
      BY <1>4 DEF inodeaddr_detect_2, Stop, Continue
    <2>3. ToSet(DirectAddresses(image, i)) \subseteq DataBlocks
      BY <1>3, <2>1, <2>2, AddressOf, BadMeansBad
    <2> QED BY <1>3, <2>1, <2>2, <2>3, ReadableIf DEF Supposed
  <1>5. CASE root_check_3
    <2>1. image.addrs[1][1] \notin Blocks /\ 1 \in Inodes
      BY <1>3, <1>5 DEF root_check_3, Stop, Inodes
    <2> QED BY <2>1 DEF Supposed, Standard
  <1>6. CASE directory_check_4
    <2>1. /\ image.addrs[i][1] \notin Blocks /\ image.type[i] = Directory
          /\ i \in Inodes
      BY <1>3, <1>6 DEF directory_check_4, At, Stop, Continue, Inodes
    <2> QED BY <2>1 DEF Supposed, Standard
  <1>7. CASE bitmap_check_5 \/ bitmap_check_6
    <2>1. /\ i \in Inodes /\ InUse(image, i) /\ Unmarkable(i)
          /\ check \in {5, 6}
      BY <1>3, <1>7
         DEF bitmap_check_5, bitmap_check_6, At, Stop, Continue, Inodes
    <2> QED BY <2>1, UsedIsInside DEF Supposed
  <1>8. CASE address_check_7_8
    BY <1>8, Check7Inside
  <1>9. CASE WalkOutside
    BY <1>9, WalkInside DEF WalkOutside, Walking
  <1>10. CASE WalkBeyond
    BY <1>10, WalkInside DEF WalkBeyond, AtEntry, Walking
  <1>11. CASE \/ inode_detect_1 \/ bitmap_check_6_end \/ Return \/ WalkOver
              \/ WalkInto \/ WalkReport \/ WalkReturn \/ UNCHANGED vars
    BY <1>11 DEF inode_detect_1, bitmap_check_6_end, Return, WalkOver,
                 WalkInto, WalkReport, WalkReturn, vars, Stop, Continue
  <1> QED BY <1>4, <1>5, <1>6, <1>7, <1>8, <1>9, <1>10, <1>11 DEF Next

-----------------------------------------------------------------------------
(* The theorems.                                                           *)

LEMMA NextInv == Inv /\ [Next]_vars => Inv'
  <1> SUFFICES ASSUME Inv, [Next]_vars PROVE Inv'
    OBVIOUS
  <1>1. CASE UNCHANGED vars
    BY <1>1, StutterInv
  <1>2. CASE inode_detect_1
    BY <1>2, Check1Inv
  <1>3. CASE inodeaddr_detect_2
    BY <1>3, Check2Inv
  <1>4. CASE root_check_3
    BY <1>4, Check3Inv
  <1>5. CASE directory_check_4
    BY <1>5, Check4Inv
  <1>6. CASE bitmap_check_5
    BY <1>6, Check5Inv
  <1>7. CASE bitmap_check_6
    BY <1>7, Check6Inv
  <1>8. CASE bitmap_check_6_end
    BY <1>8, Check6EndInv
  <1>9. CASE address_check_7_8
    BY <1>9, Check7Inv
  <1>10. CASE Return
    BY <1>10, ReturnInv
  <1>11. CASE WalkOutside
    BY <1>11, WalkOutsideInv
  <1>12. CASE WalkOver
    BY <1>12, WalkOverInv
  <1>13. CASE WalkInto
    BY <1>13, WalkIntoInv
  <1>14. CASE WalkReport
    BY <1>14, WalkReportInv
  <1>15. CASE WalkBeyond
    BY <1>15, WalkBeyondInv
  <1>16. CASE WalkReturn
    BY <1>16, WalkReturnInv
  <1> QED BY <1>1, <1>2, <1>3, <1>4, <1>5, <1>6, <1>7, <1>8, <1>9, <1>10,
             <1>11, <1>12, <1>13, <1>14, <1>15, <1>16 DEF Next

LEMMA Invariance == Spec => []Inv
  BY InitInv, NextInv, PTL DEF Spec

\* The type invariant: address_check_7_8 stops before it counts a block a
\* second time, so a count is never more than the 2 of an indirect address.
THEOREM CountsStaySmall == Spec => []TypeOK
  <1>1. Inv => TypeOK
    BY DEF Inv, Typed
  <1> QED BY <1>1, Invariance, PTL

\* Whatever the layout and the image, a check that returns has been given an
\* image that obeys the rule it checks, and bitmap_check_5 has reported
\* something if and only if an address in use is not marked.  For the checks
\* of the bitmap, no address in use may be so large that its bit wraps.
THEOREM WhatIsAcceptedIsGood == Spec => []AcceptsOnlyGood
  <1>1. Inv => AcceptsOnlyGood
    BY DEF Inv
  <1> QED BY <1>1, Invariance, PTL

\* Whatever the layout and the image, a check that exits with an error has
\* been given an image that breaks its rule, if the image is one the operating
\* system leaves.
THEOREM WhatIsRejectedIsBad == Spec => []RejectsOnlyBad
  <1>1. Inv => RejectsOnlyBad
    BY DEF Inv
  <1> QED BY <1>1, Invariance, PTL

\* No check reads or writes outside the image, the block of the bitmap or the
\* counts, if the image has what the check relies on: it is a standard one,
\* its sizes fit, and it obeys the rules that are checked before.
THEOREM NothingOutsideIsTouched == Spec => []StaysInside
  <1>1. Init => StaysInside
    BY DEF Init, StaysInside
  <1> QED BY <1>1, StaysInsideInv, Invariance, PTL DEF Spec

\* If the stack has room for a call for every inode, inode_check_9 overflows
\* it only where a directory leads to itself, and when it gets back to main no
\* directory it can reach does, and it has reported a free inode if and only
\* if one of these refers to one.
THEOREM WalkReachesEverything ==
    ASSUME MaxDepth >= ninodes
    PROVE  Spec => []WalkIsComplete
  <1>1. Inv => WalkIsComplete
    <2> SUFFICES ASSUME Inv, check = 9 PROVE WalkIsComplete
      BY DEF WalkIsComplete
    <2>1. PICK reached : reached = ReachedFrom(image, {1})
      OBVIOUS
    <2>2. status = "ok" =>
              \A d \in reached : ReportedFrom(d) /\ ~LeadsToItself(image, d)
      BY <2>1 DEF Inv, WalkInv, WalkedFrom
    <2>3. messages > 0 =>
              \E d \in reached : \E n \in RefersTo(image, d) :
                  n > 1 /\ image.type[n] = 0
      BY <2>1 DEF Inv, WalkInv
    <2>4. status = "ok" =>
              \A d \in reached : \A n \in RefersTo(image, d) :
                  n > 1 /\ image.type[n] = 0 => messages > 0
      BY <2>2 DEF ReportedFrom
    <2>5. status = "overflow" =>
              \E d \in reached \ {1} : LeadsToItself(image, d)
      BY <2>1 DEF Inv, WalkInv
    <2> QED BY <2>1, <2>2, <2>3, <2>4, <2>5 DEF WalkIsComplete
  <1> QED BY <1>1, Invariance, PTL
=============================================================================
