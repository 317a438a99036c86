---------------------------- MODULE Pzip3Proofs ----------------------------
(***************************************************************************)
(* Proofs about Pzip3, for any number of consumers, any capacity of the    *)
(* queue, any page size and any input: types and waiting, then where the   *)
(* pages are, what is printed, and the refinement of Compressor.           *)
(***************************************************************************)
EXTENDS Pzip3, SequenceLemmas, FunctionTheorems

-----------------------------------------------------------------------------
(* The arithmetic of files and pages.                                      *)

LEMMA PagesLemma ==
    ASSUME NEW n \in Nat
    PROVE  /\ PagesIn(n) \in Nat
           /\ LastPageSize(n) \in Nat
           /\ n > 0 => PagesIn(n) > 0
  <1>1. /\ n \div page_size \in Nat
        /\ n % page_size \in 0 .. page_size - 1
        /\ n = page_size * (n \div page_size) + (n % page_size)
    BY PageAssumption
  <1>2. n > 0 => n \div page_size > 0 \/ n % page_size > 0
    BY <1>1, PageAssumption
  <1> QED BY <1>1, <1>2, PageAssumption DEF PagesIn, LastPageSize

LEMMA FilesLemma ==
    ASSUME files \in Inputs
    PROVE  /\ num_files \in Nat
           /\ files \in Seq(Seq(Bytes))
           /\ \A f \in FileNumbers : /\ FileSize(f) \in Nat
                                     /\ PagesIn(FileSize(f)) \in Nat
                                     /\ LastPageSize(FileSize(f)) \in Nat
  <1>1. files \in Seq(Seq(Bytes)) /\ num_files \in Nat
    BY InputsAssumption DEF num_files
  <1>2. ASSUME NEW f \in FileNumbers PROVE FileSize(f) \in Nat
    <2>1. f + 1 \in 1 .. Len(files)
      BY <1>1 DEF FileNumbers, num_files
    <2>2. files[f + 1] \in Seq(Bytes)
      BY <1>1, <2>1
    <2> QED BY <2>2 DEF FileSize
  <1> QED BY <1>1, <1>2, PagesLemma

\* Slots of the ring stay in the ring.
LEMMA RingLemma ==
    ASSUME NEW s \in 0 .. q_capacity - 1
    PROVE  (s + 1) % q_capacity \in 0 .. q_capacity - 1
  BY QueueAssumption

\* Finitely many finite sets have a finite union.
LEMMA FiniteUnionLemma ==
    ASSUME NEW n \in Nat, NEW F, \A f \in 0 .. n - 1 : IsFiniteSet(F[f])
    PROVE  IsFiniteSet(UNION {F[f] : f \in 0 .. n - 1})
  <1> DEFINE S == 0 .. n - 1
             T == {F[f] : f \in S}
             g == [f \in S |-> F[f]]
  <1>1. IsFiniteSet(S)
    BY FS_Interval
  <1>2. g \in Surjection(S, T)
    BY DEF Surjection
  <1>3. IsFiniteSet(T)
    BY <1>1, <1>2, FS_Surjection
  <1> QED BY <1>3, FS_UNION

-----------------------------------------------------------------------------
(* Types.  TypeOK is not inductive: that the queue has room for the page   *)
(* the producer is about to put was tested in an earlier critical section, *)
(* that there is a file i in one before that, and a consumer computes the  *)
(* position of a page that was put long ago.                               *)

\* The producer works on a page that exists.
ProducerHasPage ==
    ppc \in {"check", "asleep", "put", "signal"} =>
        i < num_files /\ j < PagesIn(FileSize(i))

\* Only consumers change the size of the queue between the producer's test
\* and its put, and they make it smaller.
RoomToPut == ppc = "put" => q_size < q_capacity

\* Buffer objects name a file of the command line (NoPage names file 0).
PagesHaveFiles ==
    /\ \A s \in 0 .. q_capacity - 1 : buf[s].file_number <= num_files
    /\ \A c \in Consumers : temp[c].file_number <= num_files

TypeInv == TypeOK /\ ProducerHasPage /\ RoomToPut /\ PagesHaveFiles

\* The output position of a page is a number: a sum over finitely many files.
LEMMA PositionLemma ==
    ASSUME TypeInv, NEW b \in PageRecord, b.file_number <= num_files
    PROVE  OutputPosition(b) \in Nat
  <1> DEFINE F == [f \in 0 .. b.file_number - 1 |->
                      {f} \X (0 .. pages_per_file[f] - 1)]
  <1>1. b.file_number \in Nat /\ b.page_number \in Nat
    BY DEF PageRecord
  <1>2. num_files \in Nat /\ pages_per_file \in [FileNumbers -> Nat]
    BY FilesLemma DEF TypeInv, TypeOK
  <1>3. ASSUME NEW f \in 0 .. b.file_number - 1 PROVE IsFiniteSet(F[f])
    <2>1. pages_per_file[f] \in Nat
      BY <1>1, <1>2 DEF FileNumbers
    <2>2. \A n \in Nat : IsFiniteSet(0 .. n - 1)
      BY FS_Interval
    <2>3. IsFiniteSet(0 .. pages_per_file[f] - 1)
      BY <2>1, <2>2
    <2>4. IsFiniteSet({f})
      BY FS_Singleton
    <2> QED BY <2>3, <2>4, FS_Product
  <1>4. IsFiniteSet(UNION {F[f] : f \in 0 .. b.file_number - 1})
    <2> HIDE DEF F
    <2> QED BY <1>1, <1>3, FiniteUnionLemma
  <1>5. IsFiniteSet(UNION {{f} \X (0 .. pages_per_file[f] - 1) :
                              f \in 0 .. b.file_number - 1})
    BY <1>4
  <1>6. Cardinality(UNION {{f} \X (0 .. pages_per_file[f] - 1) :
                              f \in 0 .. b.file_number - 1}) \in Nat
    BY <1>5, FS_CardinalityType
  <1> QED BY <1>1, <1>6 DEF OutputPosition

LEMMA TypeInit == Init => TypeInv
  <1> SUFFICES ASSUME Init PROVE TypeInv
    OBVIOUS
  <1>1. num_files \in Nat
    BY FilesLemma DEF Init
  <1>2. NoPage \in PageRecord /\ NoPage.file_number = 0
    BY DEF NoPage, PageRecord
  <1>3. TypeOK
    <2>1. pages_per_file \in [FileNumbers -> Nat]
      BY MemoryAssumption DEF Init
    <2>2. /\ buf \in [0 .. q_capacity - 1 -> PageRecord]
          /\ 0 \in 0 .. q_capacity - 1
      BY <1>2, QueueAssumption DEF Init
    <2>3. out = <<>> /\ DOMAIN out = {}
      BY DEF Init
    <2>4. cpc \in [Consumers -> ConsumerPCs] /\ temp \in [Consumers -> PageRecord]
      BY <1>2 DEF Init, ConsumerPCs
    <2>5. /\ q_size \in 0 .. q_capacity
          /\ i \in 0 .. num_files
      BY <1>1, QueueAssumption DEF Init
    <2> QED BY <2>1, <2>2, <2>3, <2>4, <2>5 DEF Init, TypeOK, ProducerPCs
  <1>4. ProducerHasPage /\ RoomToPut /\ PagesHaveFiles
    BY <1>1, <1>2 DEF Init, ProducerHasPage, RoomToPut, PagesHaveFiles
  <1> QED BY <1>3, <1>4 DEF TypeInv

LEMMA TypeStep == TypeInv /\ [Next]_vars => TypeInv'
  <1> SUFFICES ASSUME TypeInv, [Next]_vars PROVE TypeInv'
    OBVIOUS
  <1> USE DEF TypeInv
  <1>1. /\ num_files \in Nat
        /\ \A f \in FileNumbers : /\ FileSize(f) \in Nat
                                  /\ PagesIn(FileSize(f)) \in Nat
                                  /\ LastPageSize(FileSize(f)) \in Nat
    BY FilesLemma DEF TypeOK
  <1>2. CASE OpenFile
    <2>1. i \in FileNumbers /\ PagesIn(FileSize(i)) \in Nat
      BY <1>1, <1>2 DEF OpenFile, TypeOK, FileNumbers
    <2>2. UNCHANGED <<files, queue, isComplete, out, cpc, temp, status, printed>>
      BY <1>2 DEF OpenFile
    <2>3. num_files' = num_files /\ FileNumbers' = FileNumbers
      BY <2>2 DEF num_files, FileNumbers
    <2>4. /\ pages_per_file' \in [FileNumbers -> Nat]
          /\ total_pages' \in Nat
          /\ ppc' \in {"open", "check"}
          /\ i' \in 0 .. num_files
          /\ j' \in Nat
          /\ ppc' = "check" => i' = i /\ j' = 0 /\ PagesIn(FileSize(i)) > 0
      <3>1. CASE FileSize(i) = 0
        <4>1. /\ i' = i + 1
              /\ UNCHANGED <<total_pages, pages_per_file, ppc, j>>
              /\ ppc = "open"
          BY <1>2, <3>1 DEF OpenFile
        <4>2. i + 1 \in 0 .. num_files
          BY <1>1, <2>1 DEF FileNumbers
        <4> QED BY <4>1, <4>2 DEF TypeOK
      <3>2. CASE FileSize(i) > 0
        <4>1. /\ total_pages' = total_pages + PagesIn(FileSize(i))
              /\ pages_per_file' = [pages_per_file EXCEPT
                                       ![i] = PagesIn(FileSize(i))]
              /\ ppc' = "check" /\ i' = i /\ j' = 0
          BY <1>2, <3>2 DEF OpenFile
        <4>2. PagesIn(FileSize(i)) > 0
          BY <1>1, <2>1, <3>2, PagesLemma
        <4>3. i \in 0 .. num_files
          BY DEF TypeOK
        <4>4. pages_per_file' \in [FileNumbers -> Nat]
          BY <2>1, <4>1 DEF TypeOK
        <4>5. total_pages' \in Nat
          BY <2>1, <4>1 DEF TypeOK
        <4> QED BY <4>1, <4>2, <4>3, <4>4, <4>5
      <3>3. FileSize(i) = 0 \/ FileSize(i) > 0
        BY <1>1, <2>1
      <3> QED BY <3>1, <3>2, <3>3
    <2>5. TypeOK'
      BY <2>2, <2>3, <2>4 DEF TypeOK, queue, ProducerPCs
    <2>6. ProducerHasPage'
      BY <1>1, <1>2, <2>2, <2>3, <2>4
         DEF OpenFile, ProducerHasPage, FileSize, PagesIn
    <2> QED BY <2>2, <2>3, <2>4, <2>5, <2>6
            DEF RoomToPut, PagesHaveFiles, queue
  <1>3. CASE OpenFails
    BY <1>3 DEF OpenFails, TypeOK, ProducerHasPage, RoomToPut, PagesHaveFiles,
                queue, producer, num_files, FileNumbers, FileSize, PagesIn
  <1>4. CASE CheckRoom
    <2>1. cpc' \in [Consumers -> ConsumerPCs]
      BY <1>4 DEF CheckRoom, BroadcastFill, TypeOK, ConsumerPCs
    <2>2. /\ ppc = "check" /\ ppc' \in {"asleep", "put"}
          /\ ppc' = "put" => q_size # q_capacity
      BY <1>4 DEF CheckRoom, QueueFull
    <2>3. UNCHANGED <<files, pages_per_file, total_pages, queue, isComplete,
                      out, i, j, temp, status, printed>>
      BY <1>4 DEF CheckRoom
    <2> QED BY <2>1, <2>2, <2>3, QueueAssumption
            DEF TypeOK, ProducerHasPage, RoomToPut, PagesHaveFiles, queue,
                ProducerPCs, num_files, FileNumbers, FileSize, PagesIn
  <1>5. CASE PutPage
    <2>1. i < num_files /\ i \in FileNumbers /\ j \in Nat /\ q_size < q_capacity
      BY <1>1, <1>5 DEF PutPage, TypeOK, ProducerHasPage, RoomToPut, FileNumbers
    <2>2. Buffer(i, j) \in PageRecord /\ Buffer(i, j).file_number = i
      BY <1>1, <2>1, PageAssumption DEF Buffer, PageRecord, FileNumbers
    <2>3. /\ buf' = [buf EXCEPT ![q_head] = Buffer(i, j)]
          /\ q_head' = (q_head + 1) % q_capacity
          /\ q_size' = q_size + 1 /\ q_tail' = q_tail
          /\ ppc' = "signal" /\ ppc = "put"
      BY <1>5 DEF PutPage, put
    <2>4. UNCHANGED <<files, pages_per_file, total_pages, isComplete, out,
                      i, j, cpc, temp, status, printed>>
      BY <1>5 DEF PutPage
    <2>5. q_head' \in 0 .. q_capacity - 1
      BY <2>3, RingLemma DEF TypeOK
    <2>6. TypeOK'
      BY <2>1, <2>2, <2>3, <2>4, <2>5, QueueAssumption
         DEF TypeOK, ProducerPCs, num_files, FileNumbers
    <2>7. ProducerHasPage' /\ RoomToPut'
      BY <2>3, <2>4 DEF ProducerHasPage, RoomToPut, num_files, FileSize, PagesIn
    <2>8. PagesHaveFiles'
      <3>1. i <= num_files /\ num_files' = num_files
        BY <1>1, <2>1, <2>4 DEF TypeOK, num_files
      <3>2. \A s \in 0 .. q_capacity - 1 :
               buf'[s] = buf[s] \/ buf'[s] = Buffer(i, j)
        BY <2>3 DEF TypeOK
      <3> QED BY <2>2, <2>4, <3>1, <3>2 DEF PagesHaveFiles
    <2> QED BY <2>6, <2>7, <2>8
  <1>6. CASE SignalPut
    <2>1. cpc' \in [Consumers -> ConsumerPCs]
      BY <1>6 DEF SignalPut, SignalFill, SleepingOnFill, TypeOK, ConsumerPCs
    <2>2. /\ i < num_files /\ ppc' \in {"check", "open"}
          /\ i' \in 0 .. num_files /\ j' \in Nat
          /\ ppc' = "check" => i' = i /\ j' < PagesIn(FileSize(i))
      BY <1>1, <1>6 DEF SignalPut, TypeOK, ProducerHasPage
    <2>3. UNCHANGED <<files, pages_per_file, total_pages, queue, isComplete,
                      out, temp, status, printed>>
      BY <1>6 DEF SignalPut
    <2> QED BY <2>1, <2>2, <2>3
            DEF TypeOK, ProducerHasPage, RoomToPut, PagesHaveFiles, queue,
                ProducerPCs, num_files, FileNumbers, FileSize, PagesIn
  <1>7. CASE SetComplete
    BY <1>7 DEF SetComplete, TypeOK, ProducerHasPage, RoomToPut,
                PagesHaveFiles, queue, ProducerPCs, num_files, FileNumbers
  <1>8. CASE LastBroadcast
    <2>1. cpc' \in [Consumers -> ConsumerPCs]
      BY <1>8 DEF LastBroadcast, BroadcastFill, TypeOK, ConsumerPCs
    <2> QED BY <1>8, <2>1
            DEF LastBroadcast, TypeOK, ProducerHasPage, RoomToPut,
                PagesHaveFiles, queue, ProducerPCs, num_files, FileNumbers
  <1>9. CASE \E c \in Consumers : TestQueue(c)
    <2>1. PICK c \in Consumers : TestQueue(c)
      BY <1>9
    <2>2. UNCHANGED <<files, pages_per_file, total_pages, isComplete, out,
                      i, j, status, printed>>
      BY <2>1 DEF TestQueue
    <2>3. /\ ppc' \in {ppc, "check"}
          /\ ppc' # ppc => ppc = "asleep"
      BY <2>1 DEF TestQueue, SignalEmpty
    <2>4. cpc' \in [Consumers -> ConsumerPCs]
      BY <2>1 DEF TestQueue, TypeOK, ConsumerPCs
    <2>5. \/ UNCHANGED <<queue, temp>>
          \/ q_size # 0 /\ get(c)
      BY <2>1 DEF TestQueue
    <2>6. CASE UNCHANGED <<queue, temp>>
      BY <2>2, <2>3, <2>4, <2>6
         DEF TypeOK, ProducerHasPage, RoomToPut, PagesHaveFiles, queue,
             ProducerPCs, num_files, FileNumbers, FileSize, PagesIn
    <2>7. CASE q_size # 0 /\ get(c)
      <3>1. /\ temp' = [temp EXCEPT ![c] = buf[q_tail]]
            /\ q_tail' \in 0 .. q_capacity - 1
            /\ q_size' = q_size - 1
            /\ buf' = buf /\ q_head' = q_head
        BY <2>7, RingLemma DEF get, TypeOK
      <3>2. /\ buf[q_tail] \in PageRecord
            /\ buf[q_tail].file_number <= num_files
        BY DEF TypeOK, PagesHaveFiles
      <3>3. TypeOK'
        BY <2>2, <2>3, <2>4, <2>7, <3>1, <3>2, QueueAssumption
           DEF TypeOK, ProducerPCs, num_files, FileNumbers
      <3> QED BY <2>2, <2>3, <3>1, <3>2, <3>3, QueueAssumption
              DEF TypeOK, ProducerHasPage, RoomToPut, PagesHaveFiles,
                  num_files, FileSize, PagesIn
    <2> QED BY <2>5, <2>6, <2>7
  <1>10. CASE \E c \in Consumers : Wait(c) \/ LoopTest(c)
    <2>1. PICK c \in Consumers : Wait(c) \/ LoopTest(c)
      BY <1>10
    <2>2. cpc' \in [Consumers -> ConsumerPCs]
      BY <2>1 DEF Wait, LoopTest, TypeOK, ConsumerPCs
    <2>3. UNCHANGED <<files, pages_per_file, total_pages, queue, isComplete,
                      out, producer, temp, status, printed>>
      BY <2>1 DEF Wait, LoopTest
    <2> QED BY <2>2, <2>3
            DEF TypeOK, ProducerHasPage, RoomToPut, PagesHaveFiles, queue,
                producer, num_files, FileNumbers, FileSize, PagesIn
  <1>11. CASE \E c \in Consumers : StorePage(c)
    <2>1. PICK c \in Consumers : StorePage(c)
      BY <1>11
    <2>2. OutputPosition(temp[c]) \in Nat
      BY PositionLemma DEF TypeOK, PagesHaveFiles
    <2>3. UNCHANGED <<files, pages_per_file, total_pages, queue, isComplete,
                      producer, temp, printed>>
      BY <2>1 DEF StorePage
    <2>4. cpc' \in [Consumers -> ConsumerPCs]
      BY <2>1 DEF StorePage, TypeOK, ConsumerPCs
    <2>5. /\ DOMAIN out' \subseteq 0 .. OutSlots - 1
          /\ status' \in {"running", "printed", "exit1", "undefined"}
      BY <2>1, <2>2, MemoryAssumption DEF StorePage, TypeOK
    <2> QED BY <2>3, <2>4, <2>5
            DEF TypeOK, ProducerHasPage, RoomToPut, PagesHaveFiles, queue,
                producer, num_files, FileNumbers, FileSize, PagesIn
  <1>12. CASE SpuriousWakeup
    <2>1. cpc' \in [Consumers -> ConsumerPCs]
      BY <1>12 DEF SpuriousWakeup, SleepingOnFill, TypeOK, ConsumerPCs
    <2>2. /\ ppc' \in {ppc, "check"}
          /\ ppc' # ppc => ppc = "asleep"
      BY <1>12 DEF SpuriousWakeup
    <2>3. UNCHANGED <<files, pages_per_file, total_pages, queue, isComplete,
                      out, i, j, temp, status, printed>>
      BY <1>12 DEF SpuriousWakeup
    <2> QED BY <2>1, <2>2, <2>3
            DEF TypeOK, ProducerHasPage, RoomToPut, PagesHaveFiles, queue,
                ProducerPCs, num_files, FileNumbers, FileSize, PagesIn
  <1>13. CASE PrintOutput
    BY <1>13 DEF PrintOutput, TypeOK, ProducerHasPage, RoomToPut,
                 PagesHaveFiles, queue, producer, num_files, FileNumbers,
                 FileSize, PagesIn
  <1>14. CASE UNCHANGED vars
    BY <1>14 DEF vars, TypeOK, ProducerHasPage, RoomToPut, PagesHaveFiles,
                 queue, producer, num_files, FileNumbers, FileSize, PagesIn
  <1> QED BY <1>2, <1>3, <1>4, <1>5, <1>6, <1>7, <1>8, <1>9, <1>10, <1>11,
             <1>12, <1>13, <1>14 DEF Next

\* The variables of the parallel zip keep their types; the indices of the
\* ring stay inside it, it never holds more pages than it has slots, and the
\* output array is never written beyond its end.
THEOREM TypeCorrect == Spec => []TypeOK
  <1>1. TypeInv => TypeOK
    BY DEF TypeInv
  <1> QED BY <1>1, TypeInit, TypeStep, PTL DEF Spec

-----------------------------------------------------------------------------
(* The threads do not wait for each other.  When the producer goes to      *)
(* sleep it wakes every consumer, and a consumer that goes back to sleep   *)
(* wakes the producer; pages are only put while no consumer is between its *)
(* test and its sleep, and each put is followed by a signal.               *)

Resting == {c \in Consumers : cpc[c] \in {"asleep", "wait"}}

StallInv ==
    /\ ppc = "asleep" => Resting # Consumers
    /\ \A c \in Consumers : cpc[c] = "wait" => q_size = 0
    /\ Resting = Consumers => q_size = 0 \/ (q_size = 1 /\ ppc = "signal")

LEMMA StallInit == Init => StallInv
  BY ConsumersAssumption DEF Init, StallInv, Resting

LEMMA StallStep == TypeOK /\ StallInv /\ [Next]_vars => StallInv'
  <1> SUFFICES ASSUME TypeOK, StallInv, [Next]_vars PROVE StallInv'
    OBVIOUS
  <1>1. q_size \in Nat /\ cpc \in [Consumers -> ConsumerPCs]
    BY QueueAssumption DEF TypeOK
  <1>2. CASE OpenFile
    BY <1>2 DEF OpenFile, StallInv, Resting, queue
  <1>3. CASE OpenFails
    BY <1>3 DEF OpenFails, StallInv, Resting, queue, producer
  <1>4. CASE CheckRoom
    <2>1. CASE QueueFull
      <3>1. /\ \A c \in Consumers : cpc'[c] \notin {"asleep", "wait"}
            /\ ppc' = "asleep" /\ q_size' = q_size
        BY <1>1, <1>4, <2>1 DEF CheckRoom, BroadcastFill, LockFree, queue
      <3>2. Resting' # Consumers
        BY <3>1, ConsumersAssumption DEF Resting
      <3> QED BY <3>1, <3>2 DEF StallInv
    <2>2. CASE ~QueueFull
      <3>1. ppc = "check" /\ ppc' = "put" /\ cpc' = cpc /\ q_size' = q_size
        BY <1>4, <2>2 DEF CheckRoom, queue
      <3> QED BY <3>1 DEF StallInv, Resting
    <2> QED BY <2>1, <2>2
  <1>5. CASE PutPage
    <2>1. /\ LockFree /\ ppc = "put" /\ ppc' = "signal"
          /\ cpc' = cpc /\ q_size' = q_size + 1
      BY <1>5 DEF PutPage, put
    <2> QED BY <1>1, <2>1 DEF StallInv, Resting, LockFree
  <1>6. CASE SignalPut
    <2>1. q_size' = q_size /\ ppc = "signal" /\ ppc' \in {"check", "open"}
      BY <1>6 DEF SignalPut, queue
    <2>2. CASE SleepingOnFill = {}
      <3>1. cpc' = cpc /\ \A c \in Consumers : cpc[c] # "asleep"
        BY <1>6, <2>2 DEF SignalPut, SignalFill, SleepingOnFill
      <3>2. Resting = Consumers => q_size = 0
        BY <3>1, ConsumersAssumption DEF Resting, StallInv
      <3> QED BY <2>1, <3>1, <3>2 DEF StallInv, Resting
    <2>3. CASE SleepingOnFill # {}
      <3>1. PICK c \in Consumers : cpc' = [cpc EXCEPT ![c] = "test"]
        BY <1>6, <2>3 DEF SignalPut, SignalFill, SleepingOnFill
      <3>2. Resting' # Consumers
        BY <1>1, <3>1 DEF Resting
      <3> QED BY <1>1, <2>1, <3>1, <3>2 DEF StallInv
    <2> QED BY <2>2, <2>3
  <1>7. CASE SetComplete
    BY <1>7 DEF SetComplete, StallInv, Resting, queue
  <1>8. CASE LastBroadcast
    <2>1. /\ \A c \in Consumers : cpc'[c] \in {cpc[c], "test"}
          /\ q_size' = q_size /\ ppc = "broadcast" /\ ppc' = "done"
      BY <1>8 DEF LastBroadcast, BroadcastFill, queue
    <2> QED BY <2>1 DEF StallInv, Resting
  <1>9. CASE \E c \in Consumers : TestQueue(c)
    <2>1. PICK c \in Consumers : TestQueue(c)
      BY <1>9
    <2>2. CASE q_size = 0 /\ ~isComplete
      <3>1. /\ cpc' = [cpc EXCEPT ![c] = "wait"] /\ q_size' = q_size
            /\ ppc' # "asleep"
        BY <2>1, <2>2 DEF TestQueue, SignalEmpty, queue
      <3> QED BY <2>2, <3>1 DEF StallInv
    <2>3. CASE q_size = 0 /\ isComplete
      <3>1. /\ cpc' = [cpc EXCEPT ![c] = "done"]
            /\ q_size' = q_size /\ ppc' = ppc
        BY <2>1, <2>3 DEF TestQueue, queue
      <3>2. Resting' # Consumers
        BY <1>1, <3>1 DEF Resting
      <3> QED BY <1>1, <2>3, <3>1, <3>2 DEF StallInv
    <2>4. CASE q_size # 0
      <3>1. cpc' = [cpc EXCEPT ![c] = "store"] /\ q_size' = q_size - 1
        BY <2>1, <2>4 DEF TestQueue, get
      <3>2. Resting' # Consumers
        BY <1>1, <3>1 DEF Resting
      <3>3. \A d \in Consumers : cpc'[d] # "wait"
        BY <1>1, <2>1, <2>4, <3>1 DEF StallInv
      <3> QED BY <3>2, <3>3 DEF StallInv
    <2> QED BY <2>2, <2>3, <2>4
  <1>10. CASE \E c \in Consumers : Wait(c)
    <2>1. PICK c \in Consumers : Wait(c)
      BY <1>10
    <2>2. /\ cpc[c] = "wait" /\ cpc' = [cpc EXCEPT ![c] = "asleep"]
          /\ ppc' = ppc /\ q_size' = q_size
      BY <2>1 DEF Wait, queue, producer
    <2>3. Resting' = Resting
      BY <1>1, <2>2 DEF Resting
    <2> QED BY <1>1, <2>2, <2>3 DEF StallInv
  <1>11. CASE \E c \in Consumers : StorePage(c) \/ LoopTest(c)
    <2>1. PICK c \in Consumers : StorePage(c) \/ LoopTest(c)
      BY <1>11
    <2>2. /\ cpc[c] \in {"store", "loop"}
          /\ cpc' = cpc \/ cpc' = [cpc EXCEPT ![c] = "loop"]
               \/ cpc' = [cpc EXCEPT ![c] = "test"]
               \/ cpc' = [cpc EXCEPT ![c] = "done"]
          /\ ppc' = ppc /\ q_size' = q_size
      BY <2>1 DEF StorePage, LoopTest, queue, producer
    <2>3. Resting' = Resting
      BY <1>1, <2>2 DEF Resting
    <2> QED BY <1>1, <2>2, <2>3 DEF StallInv
  <1>12. CASE SpuriousWakeup
    <2>1. /\ q_size' = q_size
          /\ ppc' = ppc \/ (ppc = "asleep" /\ ppc' = "check" /\ cpc' = cpc)
          /\ \A c \in Consumers : cpc'[c] \in {cpc[c], "test"}
      BY <1>1, <1>12 DEF SpuriousWakeup, SleepingOnFill, queue
    <2> QED BY <2>1 DEF StallInv, Resting
  <1>13. CASE PrintOutput \/ UNCHANGED vars
    BY <1>13 DEF PrintOutput, vars, StallInv, Resting, queue, producer
  <1> QED BY <1>2, <1>3, <1>4, <1>5, <1>6, <1>7, <1>8, <1>9, <1>10, <1>11,
             <1>12, <1>13 DEF Next

\* The producer never sleeps on empty while all the consumers sleep on fill,
\* and they never all sleep while a page is queued whose signal has been sent.
THEOREM NeverStalls == Spec => []NoStall
  <1>1. TypeOK /\ StallInv => NoStall
    BY ConsumersAssumption DEF StallInv, Resting, NoStall
  <1> QED BY <1>1, TypeCorrect, StallInit, StallStep, PTL DEF Spec

-----------------------------------------------------------------------------
(* Pages.  Every page that was put is in exactly one place, and is stored  *)
(* at its place of the output.  That needs the pages_per_file entry of an  *)
(* empty file to be 0, which the program leaves to malloc.                 *)

NoGarbage == Garbage \subseteq {0}

-----------------------------------------------------------------------------
(* The pages of the input and their places.                                *)

PagesBefore(n) == UNION {PagesOf(f) : f \in 0 .. n - 1}

LEMMA BufferLemma ==
    ASSUME NEW f, NEW p
    PROVE  Buffer(f, p).file_number = f /\ Buffer(f, p).page_number = p
  BY DEF Buffer

\* A page is known by its file and its number in the file.
LEMMA AllPagesLemma ==
    ASSUME NEW b
    PROVE  b \in AllPages <=>
               /\ b.file_number \in FileNumbers
               /\ b.page_number \in 0 .. PagesIn(FileSize(b.file_number)) - 1
               /\ b = Buffer(b.file_number, b.page_number)
  <1>1. ASSUME b \in AllPages
        PROVE  /\ b.file_number \in FileNumbers
               /\ b.page_number \in 0 .. PagesIn(FileSize(b.file_number)) - 1
               /\ b = Buffer(b.file_number, b.page_number)
    <2>1. PICK f \in FileNumbers : b \in PagesOf(f)
      BY <1>1 DEF AllPages
    <2>2. PICK p \in 0 .. PagesIn(FileSize(f)) - 1 : b = Buffer(f, p)
      BY <2>1 DEF PagesOf
    <2> QED BY <2>2, BufferLemma
  <1>2. ASSUME b.file_number \in FileNumbers,
               b.page_number \in 0 .. PagesIn(FileSize(b.file_number)) - 1,
               b = Buffer(b.file_number, b.page_number)
        PROVE  b \in AllPages
    <2>1. b \in PagesOf(b.file_number)
      BY <1>2 DEF PagesOf
    <2> QED BY <1>2, <2>1 DEF AllPages
  <1> QED BY <1>1, <1>2

\* As many pages as the file has.
LEMMA PagesOfLemma ==
    ASSUME files \in Inputs, NEW f \in FileNumbers
    PROVE  /\ IsFiniteSet(PagesOf(f))
           /\ Cardinality(PagesOf(f)) = PagesIn(FileSize(f))
  <1> DEFINE n == PagesIn(FileSize(f))
             S == 0 .. n - 1
             g == [p \in S |-> Buffer(f, p)]
  <1>1. n \in Nat
    BY FilesLemma
  <1>2. IsFiniteSet(S) /\ Cardinality(S) = n
    <2> HIDE DEF n
    <2> QED BY <1>1, FS_Interval
  <1>3. g \in Bijection(S, PagesOf(f))
    <2>1. \A p, q \in S : g[p] = g[q] => p = q
      BY BufferLemma
    <2>2. g \in [S -> PagesOf(f)] /\ \A b \in PagesOf(f) : \E p \in S : g[p] = b
      BY DEF PagesOf
    <2> HIDE DEF g, S
    <2> QED BY <2>1, <2>2 DEF Bijection, Injection, Surjection, IsInjective
  <1>4. ExistsBijection(S, PagesOf(f))
    BY <1>3 DEF ExistsBijection
  <1> HIDE DEF S, n
  <1>5. IsFiniteSet(PagesOf(f)) /\ Cardinality(PagesOf(f)) = Cardinality(S)
    BY <1>2, <1>4, FS_Bijection
  <1> QED BY <1>2, <1>5 DEF n

LEMMA PagesBeforeLemma ==
    ASSUME files \in Inputs, NEW n \in 0 .. num_files
    PROVE  /\ IsFiniteSet(PagesBefore(n))
           /\ Cardinality(PagesBefore(n)) \in Nat
  <1> DEFINE F == [f \in 0 .. n - 1 |-> PagesOf(f)]
  <1>1. num_files \in Nat /\ n \in Nat
    BY FilesLemma
  <1>2. \A f \in 0 .. n - 1 : IsFiniteSet(F[f])
    BY <1>1, PagesOfLemma DEF FileNumbers
  <1>3. IsFiniteSet(UNION {F[f] : f \in 0 .. n - 1})
    <2> HIDE DEF F
    <2> QED BY <1>1, <1>2, FiniteUnionLemma
  <1>4. IsFiniteSet(PagesBefore(n))
    BY <1>3 DEF PagesBefore
  <1> QED BY <1>4, FS_CardinalityType

LEMMA PagesBeforeNextLemma ==
    ASSUME files \in Inputs, NEW f \in FileNumbers
    PROVE  Cardinality(PagesBefore(f + 1)) =
               Cardinality(PagesBefore(f)) + PagesIn(FileSize(f))
  <1>1. /\ num_files \in Nat /\ f \in 0 .. num_files
        /\ PagesIn(FileSize(f)) \in Nat
    BY FilesLemma DEF FileNumbers
  <1>2. PagesBefore(f + 1) = PagesBefore(f) \cup PagesOf(f)
    <2>1. 0 .. (f + 1) - 1 = (0 .. f - 1) \cup {f}
      BY <1>1
    <2> QED BY <2>1 DEF PagesBefore
  <1>3. PagesBefore(f) \cap PagesOf(f) = {}
    BY <1>1, BufferLemma DEF PagesBefore, PagesOf
  <1>4. IsFiniteSet(PagesBefore(f)) /\ Cardinality(PagesBefore(f)) \in Nat
    BY <1>1, PagesBeforeLemma
  <1>5. /\ IsFiniteSet(PagesOf(f))
        /\ Cardinality(PagesOf(f)) = PagesIn(FileSize(f))
    BY PagesOfLemma
  <1>6. Cardinality(PagesBefore(f) \cap PagesOf(f)) = 0
    BY <1>3, FS_EmptySet
  <1>7. Cardinality(PagesBefore(f) \cup PagesOf(f)) =
            Cardinality(PagesBefore(f)) + Cardinality(PagesOf(f))
              - Cardinality(PagesBefore(f) \cap PagesOf(f))
    BY <1>4, <1>5, FS_Union
  <1>8. Cardinality(PagesBefore(f + 1)) =
            Cardinality(PagesBefore(f) \cup PagesOf(f))
    BY <1>2
  <1> QED BY <1>1, <1>4, <1>5, <1>6, <1>7, <1>8

LEMMA PagesBeforeMonotone ==
    ASSUME files \in Inputs, NEW n \in 0 .. num_files, NEW m \in n .. num_files
    PROVE  Cardinality(PagesBefore(n)) <= Cardinality(PagesBefore(m))
  <1>1. num_files \in Nat /\ m \in 0 .. num_files
    BY FilesLemma
  <1>2. PagesBefore(n) \in SUBSET PagesBefore(m)
    BY <1>1 DEF PagesBefore
  <1>3. IsFiniteSet(PagesBefore(m))
    BY <1>1, PagesBeforeLemma
  <1> QED BY <1>2, <1>3, FS_Subset

\* No two pages have the same place.
LEMMA PlaceIsUnique ==
    ASSUME files \in Inputs, NEW a \in AllPages, NEW b \in AllPages,
           PlaceOf(a) = PlaceOf(b)
    PROVE  a = b
  <1>1. ASSUME NEW x \in AllPages, NEW y \in AllPages,
               x.file_number < y.file_number
        PROVE  PlaceOf(x) < PlaceOf(y)
    <2>1. /\ x.file_number \in FileNumbers /\ y.file_number \in FileNumbers
          /\ x.page_number \in 0 .. PagesIn(FileSize(x.file_number)) - 1
          /\ y.page_number \in 0 .. PagesIn(FileSize(y.file_number)) - 1
      BY AllPagesLemma
    <2> DEFINE f == x.file_number
               g == y.file_number
               size == PagesIn(FileSize(f))
    <2>2. /\ num_files \in Nat /\ size \in Nat /\ PagesIn(FileSize(g)) \in Nat
          /\ f \in 0 .. num_files /\ g \in 0 .. num_files
          /\ f + 1 \in 0 .. num_files /\ g \in (f + 1) .. num_files
      <3>1. num_files \in Nat /\ size \in Nat /\ PagesIn(FileSize(g)) \in Nat
        BY <2>1, FilesLemma
      <3>2. /\ f \in 0 .. num_files - 1 /\ g \in 0 .. num_files - 1
            /\ f < g
        BY <1>1, <2>1 DEF FileNumbers
      <3> HIDE DEF f, g, size
      <3> QED BY <3>1, <3>2
    <2>3. /\ Cardinality(PagesBefore(f)) \in Nat
          /\ Cardinality(PagesBefore(g)) \in Nat
          /\ Cardinality(PagesBefore(f + 1)) \in Nat
      BY <2>2, PagesBeforeLemma
    <2>4. Cardinality(PagesBefore(f + 1)) = Cardinality(PagesBefore(f)) + size
      BY <2>1, PagesBeforeNextLemma
    <2>5. Cardinality(PagesBefore(f + 1)) <= Cardinality(PagesBefore(g))
      BY <2>2, PagesBeforeMonotone
    <2>6. /\ PlaceOf(x) = Cardinality(PagesBefore(f)) + x.page_number
          /\ PlaceOf(y) = Cardinality(PagesBefore(g)) + y.page_number
      BY DEF PlaceOf, PagesBefore
    <2> HIDE DEF f, g, size
    <2>7. x.page_number \in 0 .. size - 1 /\ y.page_number \in Nat
      BY <2>1, <2>2 DEF size, f, g
    <2> QED BY <2>2, <2>3, <2>4, <2>5, <2>6, <2>7
  <1>2. /\ a.file_number \in FileNumbers /\ b.file_number \in FileNumbers
        /\ a.page_number \in 0 .. PagesIn(FileSize(a.file_number)) - 1
        /\ b.page_number \in 0 .. PagesIn(FileSize(b.file_number)) - 1
        /\ a = Buffer(a.file_number, a.page_number)
        /\ b = Buffer(b.file_number, b.page_number)
    BY AllPagesLemma
  <1>3. num_files \in Nat /\ \A f \in FileNumbers : PagesIn(FileSize(f)) \in Nat
    BY FilesLemma
  <1>4. \A x \in AllPages : PlaceOf(x) \in Nat
    <2> TAKE x \in AllPages
    <2>1. /\ x.file_number \in FileNumbers
          /\ x.page_number \in 0 .. PagesIn(FileSize(x.file_number)) - 1
      BY AllPagesLemma
    <2>2. x.file_number \in 0 .. num_files /\ x.page_number \in Nat
      BY <1>3, <2>1 DEF FileNumbers
    <2>3. Cardinality(PagesBefore(x.file_number)) \in Nat
      BY <2>2, PagesBeforeLemma
    <2> QED BY <2>2, <2>3 DEF PlaceOf, PagesBefore
  <1>5. a.file_number = b.file_number
    BY <1>1, <1>2, <1>3, <1>4 DEF FileNumbers
  <1>6. Cardinality(PagesBefore(a.file_number)) \in Nat
    BY <1>2, <1>3, PagesBeforeLemma DEF FileNumbers
  <1>7. a.page_number = b.page_number
    BY <1>2, <1>3, <1>5, <1>6 DEF PlaceOf, PagesBefore
  <1> QED BY <1>2, <1>5, <1>7

-----------------------------------------------------------------------------
(* The invariant.                                                          *)

\* The n-th page of the queue.
Slot(n) == buf[(q_tail + n) % q_capacity]

CountsAreRight ==
    \A f \in FileNumbers :
        pages_per_file[f] =
            IF f < i \/ (f = i /\ ppc \in {"check", "asleep", "put", "signal"})
            THEN PagesIn(FileSize(f)) ELSE 0

CursorIsRight ==
    /\ ppc = "open" => j = 0
    /\ ppc \in {"broadcast", "done"} => i = num_files

RingIsRight == q_head = (q_tail + q_size) % q_capacity

QueuedOnce ==
    \A m, n \in 0 .. q_size - 1 : Slot(m) = Slot(n) => m = n

HeldOnce == \A c, d \in Working : temp[c] = temp[d] => c = d

PagesArePartitioned ==
    /\ Queued \cup Held \cup StoredPages = PutPages
    /\ Queued \cap Held = {}
    /\ (Queued \cup Held) \cap StoredPages = {}

PageInv == /\ CountsAreRight /\ CursorIsRight /\ RingIsRight
           /\ QueuedOnce /\ HeldOnce /\ PagesArePartitioned
           /\ StoredInPlace

-----------------------------------------------------------------------------
(* Lemmas about the parts of the invariant.                                *)

LEMMA ModuloLemma ==
    ASSUME NEW t \in 0 .. q_capacity - 1, NEW n \in 0 .. q_capacity
    PROVE  (t + n) % q_capacity =
               IF t + n < q_capacity THEN t + n ELSE t + n - q_capacity
  <1>1. q_capacity \in Nat /\ q_capacity > 0
    BY QueueAssumption
  <1>2. ASSUME NEW x \in Nat, x < q_capacity PROVE x % q_capacity = x
    BY <1>1, <1>2
  <1>3. ASSUME NEW x \in Nat, x >= q_capacity, x < 2 * q_capacity
        PROVE  x % q_capacity = x - q_capacity
    BY <1>1, <1>3
  <1> QED BY <1>1, <1>2, <1>3

LEMMA QueuedLemma == Queued = {Slot(n) : n \in 0 .. q_size - 1}
  BY DEF Queued, Slot

LEMMA FilesFrame ==
    ASSUME files' = files, NEW b
    PROVE  /\ AllPages' = AllPages
           /\ PlaceOf(b)' = PlaceOf(b)
           /\ Contents(b)' = Contents(b)
           /\ num_files' = num_files
           /\ FileNumbers' = FileNumbers
           /\ FileSize(b)' = FileSize(b)
           /\ PagesIn(b)' = PagesIn(b)
  BY DEF AllPages, PlaceOf, Contents, num_files, FileNumbers, FileSize,
         PagesOf, Buffer, PagesIn, LastPageSize

LEMMA PutPagesFrame ==
    ASSUME UNCHANGED <<files, i, j>>, ppc = "signal" <=> ppc' = "signal"
    PROVE  PutPages' = PutPages
  BY FilesFrame DEF PutPages

LEMMA StoredFrame ==
    ASSUME UNCHANGED <<files, out>>
    PROVE  /\ StoredPages' = StoredPages
           /\ StoredInPlace => StoredInPlace'
  BY FilesFrame DEF StoredPages, StoredInPlace

LEMMA QueueFrame ==
    ASSUME UNCHANGED queue
    PROVE  /\ Queued' = Queued
           /\ QueuedOnce => QueuedOnce'
           /\ RingIsRight => RingIsRight'
  BY DEF queue, Queued, QueuedOnce, Slot, RingIsRight

LEMMA HeldFrame ==
    ASSUME temp' = temp, Working' = Working
    PROVE  Held' = Held /\ (HeldOnce => HeldOnce')
  BY DEF Held, HeldOnce

\* A step that changes none of the sets keeps the partition.
LEMMA PartitionFrame ==
    ASSUME PagesArePartitioned, UNCHANGED <<Queued, Held, StoredPages, PutPages>>
    PROVE  PagesArePartitioned'
  BY DEF PagesArePartitioned

\* calculateOutputPosition finds the place of a page that has been put: the
\* counts of the files before it are known by then.
LEMMA PositionIsPlace ==
    ASSUME TypeInv, CountsAreRight, NEW b \in PutPages
    PROVE  OutputPosition(b) = PlaceOf(b)
  <1> DEFINE n == b.file_number
             Pairs == UNION {{f} \X (0 .. pages_per_file[f] - 1) : f \in 0 .. n - 1}
             g == [x \in Pairs |-> Buffer(x[1], x[2])]
  <1>1. b \in AllPages
    BY DEF PutPages
  <1>2. num_files \in Nat /\ n \in FileNumbers
    BY <1>1, AllPagesLemma, FilesLemma DEF TypeInv, TypeOK
  <1>3. \A f \in 0 .. n - 1 : pages_per_file[f] = PagesIn(FileSize(f))
    <2>1. n <= i /\ n \in Int /\ i \in Int
      BY <1>2 DEF PutPages, FileNumbers, TypeInv, TypeOK
    <2>2. \A f \in 0 .. n - 1 : f \in FileNumbers /\ f < i
      BY <1>2, <2>1 DEF FileNumbers
    <2> QED BY <2>2 DEF CountsAreRight
  <1>4. Pairs = UNION {{f} \X (0 .. PagesIn(FileSize(f)) - 1) : f \in 0 .. n - 1}
    BY <1>3
  <1>5. \A x \in Pairs : /\ x = <<x[1], x[2]>> /\ x[1] \in 0 .. n - 1
                         /\ x[2] \in 0 .. PagesIn(FileSize(x[1])) - 1
    BY <1>4
  <1>6. g \in [Pairs -> PagesBefore(n)]
    BY <1>5 DEF PagesBefore, PagesOf
  <1>7. \A x, y \in Pairs : g[x] = g[y] => x = y
    <2> TAKE x, y \in Pairs
    <2> HAVE g[x] = g[y]
    <2>1. x[1] = y[1] /\ x[2] = y[2]
      BY BufferLemma
    <2> HIDE DEF Pairs
    <2> QED BY <1>5, <2>1
  <1>8. \A a \in PagesBefore(n) : \E x \in Pairs : g[x] = a
    <2> TAKE a \in PagesBefore(n)
    <2>1. PICK f \in 0 .. n - 1 : a \in PagesOf(f)
      BY DEF PagesBefore
    <2>2. PICK p \in 0 .. PagesIn(FileSize(f)) - 1 : a = Buffer(f, p)
      BY <2>1 DEF PagesOf
    <2>3. <<f, p>> \in Pairs
      BY <1>4, <2>1, <2>2
    <2> QED BY <2>2, <2>3
  <1>9. g \in Bijection(Pairs, PagesBefore(n))
    <2> HIDE DEF Pairs, g
    <2> QED BY <1>6, <1>7, <1>8 DEF Bijection, Injection, Surjection, IsInjective
  <1>10. ExistsBijection(PagesBefore(n), Pairs)
    <2> HIDE DEF Pairs, g
    <2> QED BY <1>9, Fun_ExistsBijSymmetric DEF ExistsBijection
  <1>11. IsFiniteSet(PagesBefore(n))
    BY <1>2, FilesLemma, PagesBeforeLemma DEF FileNumbers, TypeInv, TypeOK
  <1>12. Cardinality(Pairs) = Cardinality(PagesBefore(n))
    <2> HIDE DEF Pairs, n
    <2> QED BY <1>10, <1>11, FS_Bijection
  <1> QED BY <1>12 DEF OutputPosition, PlaceOf, PagesBefore

LEMMA NoPagesLemma == PagesIn(0) = 0
  BY PageAssumption DEF PagesIn

\* The page the producer works on is a page, and has not been put yet.
LEMMA NextPageLemma ==
    ASSUME TypeInv, ppc \in {"check", "asleep", "put", "signal"}
    PROVE  /\ Buffer(i, j) \in AllPages
           /\ ppc = "put" => Buffer(i, j) \notin PutPages
  <1>1. i \in FileNumbers /\ j \in 0 .. PagesIn(FileSize(i)) - 1
    BY FilesLemma DEF TypeInv, TypeOK, ProducerHasPage, FileNumbers
  <1>2. Buffer(i, j) \in AllPages
    BY <1>1 DEF AllPages, PagesOf
  <1>3. /\ Buffer(i, j).file_number = i /\ Buffer(i, j).page_number = j
        /\ i \in Int /\ j \in Int
    BY <1>1, BufferLemma DEF FileNumbers, TypeInv, TypeOK
  <1> QED BY <1>2, <1>3 DEF PutPages

\* What put does to the pages on the queue.
LEMMA PutLemma ==
    ASSUME TypeInv, RingIsRight, q_size < q_capacity, NEW b, put(b)
    PROVE  /\ Queued' = Queued \cup {b}
           /\ b \notin Queued /\ QueuedOnce => QueuedOnce'
           /\ RingIsRight'
  <1> DEFINE NewSlot(n) == buf'[(q_tail' + n) % q_capacity]
  <1>1. /\ q_capacity \in Nat /\ q_capacity > 0
        /\ q_size \in 0 .. q_capacity - 1
        /\ q_tail \in 0 .. q_capacity - 1
        /\ q_head \in 0 .. q_capacity - 1
        /\ buf \in [0 .. q_capacity - 1 -> PageRecord]
    BY QueueAssumption DEF TypeInv, TypeOK
  <1>2. /\ buf' = [buf EXCEPT ![q_head] = b]
        /\ q_head' = (q_head + 1) % q_capacity
        /\ q_size' = q_size + 1 /\ q_tail' = q_tail
    BY DEF put
  <1>3. \A n \in 0 .. q_size : NewSlot(n) = IF n = q_size THEN b ELSE Slot(n)
    <2> TAKE n \in 0 .. q_size
    <2>1. n \in 0 .. q_capacity
      BY <1>1
    <2>2. /\ (q_tail + n) % q_capacity \in 0 .. q_capacity - 1
          /\ (q_tail + n) % q_capacity = q_head <=> n = q_size
      <3>1. (q_tail + n) % q_capacity =
               IF q_tail + n < q_capacity THEN q_tail + n
                                          ELSE q_tail + n - q_capacity
        BY <1>1, <2>1, ModuloLemma
      <3>2. q_head =
               IF q_tail + q_size < q_capacity THEN q_tail + q_size
                                               ELSE q_tail + q_size - q_capacity
        BY <1>1, ModuloLemma DEF RingIsRight
      <3> QED BY <1>1, <2>1, <3>1, <3>2
    <2> QED BY <1>1, <1>2, <2>2 DEF Slot
  <1>4. Queued' = {NewSlot(n) : n \in 0 .. q_size}
    BY <1>1, <1>2, QueuedLemma DEF Queued, Slot
  <1>5. 0 .. q_size = (0 .. q_size - 1) \cup {q_size}
    BY <1>1
  <1>6. Queued' = Queued \cup {b}
    <2>1. \A n \in 0 .. q_size - 1 : NewSlot(n) = Slot(n)
      BY <1>1, <1>3
    <2>2. NewSlot(q_size) = b
      BY <1>1, <1>3
    <2>3. Queued' \subseteq Queued \cup {b}
      BY <1>3, <1>4, <1>5, QueuedLemma
    <2>4. Queued \cup {b} \subseteq Queued'
      BY <1>1, <1>4, <1>5, <2>1, <2>2, QueuedLemma
    <2> QED BY <2>3, <2>4
  <1>7. ASSUME b \notin Queued, QueuedOnce PROVE QueuedOnce'
    <2>1. \A n \in 0 .. q_size - 1 : Slot(n) # b
      BY <1>7, QueuedLemma
    <2>2. \A m, n \in 0 .. q_size : NewSlot(m) = NewSlot(n) => m = n
      BY <1>1, <1>3, <1>7, <2>1 DEF QueuedOnce
    <2>3. q_size' - 1 = q_size
      BY <1>1, <1>2
    <2> QED BY <2>2, <2>3 DEF QueuedOnce, Slot
  <1>8. RingIsRight'
    <2>1. q_size + 1 \in 0 .. q_capacity /\ 1 \in 0 .. q_capacity
      BY <1>1
    <2>2. q_head =
             IF q_tail + q_size < q_capacity THEN q_tail + q_size
                                             ELSE q_tail + q_size - q_capacity
      BY <1>1, ModuloLemma DEF RingIsRight
    <2>3. (q_head + 1) % q_capacity =
             IF q_head + 1 < q_capacity THEN q_head + 1
                                        ELSE q_head + 1 - q_capacity
      BY <1>1, <2>1, ModuloLemma
    <2>4. (q_tail + (q_size + 1)) % q_capacity =
             IF q_tail + (q_size + 1) < q_capacity
             THEN q_tail + (q_size + 1)
             ELSE q_tail + (q_size + 1) - q_capacity
      BY <1>1, <2>1, ModuloLemma
    <2>5. (q_head + 1) % q_capacity = (q_tail + (q_size + 1)) % q_capacity
      BY <1>1, <2>2, <2>3, <2>4
    <2> QED BY <1>2, <2>5 DEF RingIsRight
  <1> QED BY <1>6, <1>7, <1>8

\* What get does to them.
LEMMA GetLemma ==
    ASSUME TypeInv, RingIsRight, QueuedOnce, q_size # 0,
           NEW c \in Consumers, get(c)
    PROVE  /\ temp' = [temp EXCEPT ![c] = Slot(0)]
           /\ Slot(0) \in Queued
           /\ Queued' = Queued \ {Slot(0)}
           /\ QueuedOnce'
           /\ RingIsRight'
  <1> DEFINE NewSlot(n) == buf'[(q_tail' + n) % q_capacity]
  <1>1. /\ q_capacity \in Nat /\ q_capacity > 0
        /\ q_size \in 1 .. q_capacity
        /\ q_tail \in 0 .. q_capacity - 1
    BY QueueAssumption DEF TypeInv, TypeOK
  <1>2. /\ temp' = [temp EXCEPT ![c] = buf[q_tail]]
        /\ q_tail' = (q_tail + 1) % q_capacity
        /\ q_size' = q_size - 1 /\ buf' = buf /\ q_head' = q_head
    BY DEF get
  <1>3. /\ (q_tail + 0) % q_capacity = q_tail
        /\ q_tail' = IF q_tail + 1 < q_capacity THEN q_tail + 1 ELSE 0
    <2>1. 0 \in 0 .. q_capacity /\ 1 \in 0 .. q_capacity
      BY <1>1
    <2>2. (q_tail + 0) % q_capacity =
             IF q_tail + 0 < q_capacity THEN q_tail + 0
                                        ELSE q_tail + 0 - q_capacity
      BY <1>1, <2>1, ModuloLemma
    <2>3. (q_tail + 1) % q_capacity =
             IF q_tail + 1 < q_capacity THEN q_tail + 1
                                        ELSE q_tail + 1 - q_capacity
      BY <1>1, <2>1, ModuloLemma
    <2> QED BY <1>1, <1>2, <2>2, <2>3
  <1>4. ASSUME NEW n \in 0 .. q_capacity - 1
        PROVE  (q_tail' + n) % q_capacity = (q_tail + (n + 1)) % q_capacity
    <2>1. n \in 0 .. q_capacity /\ n + 1 \in 0 .. q_capacity
      BY <1>1
    <2>2. q_tail' \in 0 .. q_capacity - 1
      BY <1>1, <1>3
    <2>3. (q_tail' + n) % q_capacity =
             IF q_tail' + n < q_capacity THEN q_tail' + n
                                         ELSE q_tail' + n - q_capacity
      BY <2>1, <2>2, ModuloLemma
    <2>4. (q_tail + (n + 1)) % q_capacity =
             IF q_tail + (n + 1) < q_capacity THEN q_tail + (n + 1)
                                              ELSE q_tail + (n + 1) - q_capacity
      BY <1>1, <2>1, ModuloLemma
    <2> QED BY <1>1, <1>3, <2>1, <2>3, <2>4
  <1>5. \A n \in 0 .. q_size - 2 : NewSlot(n) = Slot(n + 1)
    <2> TAKE n \in 0 .. q_size - 2
    <2>1. n \in 0 .. q_capacity - 1
      BY <1>1
    <2> QED BY <1>2, <1>4, <2>1 DEF Slot
  <1>6. Slot(0) = buf[q_tail]
    BY <1>3 DEF Slot
  <1>7. Queued' = {NewSlot(n) : n \in 0 .. q_size - 2}
    <2>1. q_size' - 1 = q_size - 2
      BY <1>1, <1>2
    <2> QED BY <2>1 DEF Queued, Slot
  <1>8. Queued' = Queued \ {Slot(0)}
    <2>1. Queued' \subseteq Queued \ {Slot(0)}
      <3> SUFFICES ASSUME NEW n \in 0 .. q_size - 2
                   PROVE  Slot(n + 1) \in Queued \ {Slot(0)}
        BY <1>5, <1>7
      <3>1. n + 1 \in 0 .. q_size - 1 /\ 0 \in 0 .. q_size - 1 /\ n + 1 # 0
        BY <1>1
      <3> QED BY <3>1, QueuedLemma DEF QueuedOnce
    <2>2. Queued \ {Slot(0)} \subseteq Queued'
      <3> SUFFICES ASSUME NEW n \in 0 .. q_size - 1, Slot(n) # Slot(0)
                   PROVE  Slot(n) \in Queued'
        BY QueuedLemma
      <3>1. n - 1 \in 0 .. q_size - 2 /\ (n - 1) + 1 = n
        BY <1>1
      <3> QED BY <1>5, <1>7, <3>1
    <2> QED BY <2>1, <2>2
  <1>9. QueuedOnce'
    <2>1. ASSUME NEW m \in 0 .. q_size - 2, NEW n \in 0 .. q_size - 2,
                 NewSlot(m) = NewSlot(n)
          PROVE  m = n
      <3>1. Slot(m + 1) = Slot(n + 1)
        BY <1>5, <2>1
      <3>2. m + 1 \in 0 .. q_size - 1 /\ n + 1 \in 0 .. q_size - 1
        BY <1>1
      <3>3. m + 1 = n + 1
        BY <3>1, <3>2 DEF QueuedOnce
      <3> QED BY <3>3
    <2>2. q_size' - 1 = q_size - 2
      BY <1>1, <1>2
    <2> QED BY <2>1, <2>2 DEF QueuedOnce, Slot
  <1>10. RingIsRight'
    <2>1. q_size - 1 \in 0 .. q_capacity - 1 /\ (q_size - 1) + 1 = q_size
      BY <1>1
    <2>2. (q_tail' + (q_size - 1)) % q_capacity = (q_tail + q_size) % q_capacity
      BY <1>4, <2>1
    <2> QED BY <1>2, <2>2 DEF RingIsRight
  <1>11. Slot(0) \in Queued
    BY <1>1, QueuedLemma
  <1> QED BY <1>2, <1>6, <1>8, <1>9, <1>10, <1>11

-----------------------------------------------------------------------------
(* The invariant holds initially and is kept by every step.                *)

LEMMA PageInit == NoGarbage /\ Init => PageInv
  <1> SUFFICES ASSUME NoGarbage, Init PROVE PageInv
    OBVIOUS
  <1>1. num_files \in Nat
    BY FilesLemma DEF Init
  <1>2. CountsAreRight
    <2>1. \A f \in FileNumbers : pages_per_file[f] \in Garbage
      BY DEF Init
    <2>2. \A f \in FileNumbers : pages_per_file[f] = 0
      BY <2>1 DEF NoGarbage
    <2>3. i = 0 /\ ppc = "open" /\ \A f \in FileNumbers : ~(f < 0)
      BY <1>1 DEF Init, FileNumbers
    <2> QED BY <2>2, <2>3 DEF CountsAreRight
  <1>3. CursorIsRight /\ RingIsRight
    BY QueueAssumption DEF Init, CursorIsRight, RingIsRight
  <1>4. QueuedOnce /\ Queued = {}
    BY DEF Init, QueuedOnce, Queued
  <1>5. Working = {} /\ Held = {} /\ HeldOnce
    BY DEF Init, Working, Held, HeldOnce
  <1>6. out = <<>> /\ DOMAIN out = {}
    BY DEF Init
  <1>7. StoredPages = {} /\ StoredInPlace
    BY <1>6 DEF StoredPages, StoredInPlace
  <1>8. PutPages = {}
    <2> SUFFICES ASSUME NEW b \in PutPages PROVE FALSE
      OBVIOUS
    <2>1. /\ b.file_number \in FileNumbers
          /\ b.page_number \in 0 .. PagesIn(FileSize(b.file_number)) - 1
      BY AllPagesLemma DEF PutPages
    <2>2. PagesIn(FileSize(b.file_number)) \in Nat
      BY <2>1, FilesLemma DEF Init
    <2> QED BY <1>1, <2>1, <2>2 DEF Init, PutPages, FileNumbers
  <1> QED BY <1>2, <1>3, <1>4, <1>5, <1>7, <1>8
          DEF PageInv, PagesArePartitioned

\* The producer moves on: to the next page of the file, or to the next file.
LEMMA SignalPutPages ==
    ASSUME TypeInv, SignalPut
    PROVE  PutPages' = PutPages
  <1>1. /\ num_files \in Nat
        /\ \A f \in FileNumbers : PagesIn(FileSize(f)) \in Nat
    BY FilesLemma DEF TypeInv, TypeOK
  <1>2. /\ files' = files /\ ppc = "signal" /\ ppc' # "signal"
        /\ i \in FileNumbers /\ j \in 0 .. PagesIn(FileSize(i)) - 1
    BY <1>1 DEF SignalPut, TypeInv, TypeOK, ProducerHasPage, FileNumbers
  <1>3. AllPages' = AllPages
    BY <1>2, FilesFrame
  <1>4. \A b \in AllPages : /\ b.file_number \in Int /\ b.page_number \in Int
                            /\ b.file_number = i =>
                                   b.page_number <= PagesIn(FileSize(i)) - 1
                            /\ b.page_number >= 0
    BY <1>1, AllPagesLemma DEF FileNumbers
  <1>5. CASE j + 1 < PagesIn(FileSize(i))
    <2>1. i' = i /\ j' = j + 1
      BY <1>5 DEF SignalPut
    <2>2. \A b \in AllPages : (b.file_number = i /\ b.page_number < j + 1)
                               <=> \/ b.file_number = i /\ b.page_number < j
                                   \/ b.file_number = i /\ b.page_number = j
      BY <1>2, <1>4
    <2> QED BY <1>2, <1>3, <2>1, <2>2 DEF PutPages
  <1>6. CASE ~(j + 1 < PagesIn(FileSize(i)))
    <2>1. i' = i + 1 /\ j' = 0
      BY <1>6 DEF SignalPut
    <2>2. j = PagesIn(FileSize(i)) - 1 /\ i \in Int /\ j \in Int
      BY <1>1, <1>2, <1>6 DEF FileNumbers
    <2>3. \A b \in AllPages :
             (\/ b.file_number < i + 1
              \/ b.file_number = i + 1 /\ b.page_number < 0)
             <=> \/ b.file_number < i
                 \/ b.file_number = i /\ b.page_number < j
                 \/ b.file_number = i /\ b.page_number = j
      BY <1>4, <2>2
    <2> QED BY <1>2, <1>3, <2>1, <2>3 DEF PutPages
  <1> QED BY <1>5, <1>6

\* A file is opened: none of its pages is put yet; an empty one has none.
LEMMA OpenFilePages ==
    ASSUME TypeInv, CursorIsRight, OpenFile
    PROVE  PutPages' = PutPages
  <1>1. /\ num_files \in Nat /\ i \in FileNumbers /\ i \in Int
        /\ FileSize(i) \in Nat
        /\ files' = files /\ ppc = "open" /\ j = 0 /\ ppc' # "signal"
    BY FilesLemma DEF OpenFile, CursorIsRight, TypeInv, TypeOK, FileNumbers
  <1>2. AllPages' = AllPages
    BY <1>1, FilesFrame
  <1>3. CASE FileSize(i) = 0
    <2>1. i' = i + 1 /\ j' = 0
      BY <1>1, <1>3 DEF OpenFile
    <2>2. \A b \in AllPages : /\ b.file_number \in Int /\ b.page_number \in Int
                              /\ b.file_number # i /\ b.page_number >= 0
      <3> TAKE b \in AllPages
      <3>1. /\ b.file_number \in FileNumbers
            /\ b.page_number \in 0 .. PagesIn(FileSize(b.file_number)) - 1
            /\ PagesIn(FileSize(b.file_number)) \in Nat
        BY AllPagesLemma, FilesLemma DEF TypeInv, TypeOK
      <3>2. b.file_number = i => PagesIn(FileSize(b.file_number)) = 0
        BY <1>3, NoPagesLemma
      <3> QED BY <3>1, <3>2 DEF FileNumbers
    <2> QED BY <1>1, <1>2, <2>1, <2>2 DEF PutPages
  <1>4. CASE FileSize(i) > 0
    <2>1. i' = i /\ j' = 0
      BY <1>1, <1>4 DEF OpenFile
    <2> QED BY <1>1, <1>2, <2>1 DEF PutPages
  <1> QED BY <1>1, <1>3, <1>4

LEMMA PutPagePages ==
    ASSUME TypeInv, PutPage
    PROVE  PutPages' = PutPages \cup {Buffer(i, j)}
  <1>1. /\ files' = files /\ i' = i /\ j' = j
        /\ ppc = "put" /\ ppc' = "signal"
    BY DEF PutPage
  <1>2. AllPages' = AllPages
    BY <1>1, FilesFrame
  <1>3. Buffer(i, j) \in AllPages
    BY <1>1, NextPageLemma
  <1>4. \A b \in AllPages : b = Buffer(b.file_number, b.page_number)
    BY AllPagesLemma
  <1>5. \A b \in AllPages : b.file_number = i /\ b.page_number = j
                             <=> b = Buffer(i, j)
    BY <1>4, BufferLemma
  <1> QED BY <1>1, <1>2, <1>3, <1>5 DEF PutPages

\* Steps that leave the pages where they are.
LEMMA StillPages ==
    ASSUME PageInv, UNCHANGED <<files, queue, out, temp>>, Working' = Working,
           PutPages' = PutPages
    PROVE  /\ RingIsRight' /\ QueuedOnce' /\ HeldOnce'
           /\ PagesArePartitioned' /\ StoredInPlace'
  <1> USE DEF PageInv
  <1>1. Queued' = Queued /\ QueuedOnce' /\ RingIsRight'
    BY QueueFrame
  <1>2. Held' = Held /\ HeldOnce'
    BY HeldFrame
  <1>3. StoredPages' = StoredPages /\ StoredInPlace'
    BY StoredFrame
  <1> QED BY <1>1, <1>2, <1>3, PartitionFrame

\* So do the counts, while the producer stays with its file.
LEMMA StillCounts ==
    ASSUME CountsAreRight, CursorIsRight,
           UNCHANGED <<files, pages_per_file, i, j>>,
           \/ ppc' = ppc
           \/ /\ ppc \in {"check", "asleep", "put", "signal"}
              /\ ppc' \in {"check", "asleep", "put", "signal"}
    PROVE  CountsAreRight' /\ CursorIsRight'
  <1>1. /\ FileNumbers' = FileNumbers /\ num_files' = num_files
        /\ \A f : PagesIn(FileSize(f))' = PagesIn(FileSize(f))
    BY FilesFrame DEF PagesIn, FileSize
  <1> QED BY <1>1 DEF CountsAreRight, CursorIsRight, PagesIn, FileSize

LEMMA PageStep == TypeInv /\ PageInv /\ [Next]_vars => PageInv'
  <1> SUFFICES ASSUME TypeInv, PageInv, [Next]_vars PROVE PageInv'
    OBVIOUS
  <1> USE DEF PageInv
  <1>1. cpc \in [Consumers -> ConsumerPCs] /\ num_files \in Nat
    BY FilesLemma DEF TypeInv, TypeOK
  <1>2. CASE OpenFile
    <2>1. /\ UNCHANGED <<files, queue, out, temp, cpc>>
          /\ i \in FileNumbers /\ FileSize(i) \in Nat
          /\ ppc = "open" /\ j' = 0
      BY <1>1, <1>2, FilesLemma
         DEF OpenFile, CursorIsRight, TypeInv, TypeOK, FileNumbers
    <2>2. Working' = Working /\ PutPages' = PutPages
      BY <1>2, <2>1, OpenFilePages DEF Working
    <2>3. FileNumbers' = FileNumbers /\ num_files' = num_files
      BY <2>1, FilesFrame
    <2>4. CountsAreRight'
      <3>1. CASE FileSize(i) = 0
        <4>1. i' = i + 1 /\ ppc' = "open" /\ pages_per_file' = pages_per_file
          BY <1>2, <2>1, <3>1 DEF OpenFile
        <4>2. \A f \in FileNumbers :
                 pages_per_file[f] = IF f < i + 1 THEN PagesIn(FileSize(f)) ELSE 0
          BY <2>1, <3>1, NoPagesLemma DEF CountsAreRight, FileNumbers
        <4> QED BY <2>1, <2>3, <4>1, <4>2 DEF CountsAreRight, FileSize, PagesIn
      <3>2. CASE FileSize(i) > 0
        <4>1. /\ i' = i /\ ppc' = "check"
              /\ pages_per_file' = [pages_per_file EXCEPT
                                       ![i] = PagesIn(FileSize(i))]
          BY <1>2, <2>1, <3>2 DEF OpenFile
        <4>2. pages_per_file \in [FileNumbers -> Nat]
          BY DEF TypeInv, TypeOK
        <4>3. \A f \in FileNumbers :
                 pages_per_file'[f] =
                    IF f < i \/ f = i THEN PagesIn(FileSize(f)) ELSE 0
          BY <2>1, <4>1, <4>2 DEF CountsAreRight
        <4> QED BY <2>1, <2>3, <4>1, <4>3 DEF CountsAreRight, FileSize, PagesIn
      <3> QED BY <2>1, <3>1, <3>2
    <2>5. CursorIsRight'
      BY <1>2, <2>1 DEF OpenFile, CursorIsRight
    <2> QED BY <2>1, <2>2, <2>4, <2>5, StillPages
  <1>3. CASE \/ OpenFails \/ PrintOutput \/ UNCHANGED vars
             \/ \E c \in Consumers : Wait(c) \/ LoopTest(c)
             \/ \E c \in Consumers : TestQueue(c) /\ q_size = 0
             \/ CheckRoom \/ SpuriousWakeup
    <2>1. /\ UNCHANGED <<files, pages_per_file, queue, out, temp, i, j>>
          /\ \/ ppc' = ppc
             \/ /\ ppc \in {"check", "asleep", "put", "signal"}
                /\ ppc' \in {"check", "asleep", "put", "signal"}
                /\ ppc # "signal" /\ ppc' # "signal"
          /\ \A c \in Consumers : cpc'[c] = "store" <=> cpc[c] = "store"
      <3>1. CASE OpenFails \/ PrintOutput \/ UNCHANGED vars
        BY <3>1 DEF OpenFails, PrintOutput, vars, queue, producer
      <3>2. CASE \E c \in Consumers : Wait(c) \/ LoopTest(c)
        BY <1>1, <3>2 DEF Wait, LoopTest, queue, producer
      <3>3. CASE \E c \in Consumers : TestQueue(c) /\ q_size = 0
        BY <1>1, <3>3 DEF TestQueue, SignalEmpty, queue
      <3>4. CASE CheckRoom
        BY <1>1, <3>4 DEF CheckRoom, BroadcastFill, queue
      <3>5. CASE SpuriousWakeup
        BY <1>1, <3>5 DEF SpuriousWakeup, SleepingOnFill, queue
      <3> QED BY <1>3, <3>1, <3>2, <3>3, <3>4, <3>5
    <2>2. Working' = Working
      BY <2>1 DEF Working
    <2>3. PutPages' = PutPages
      BY <2>1, PutPagesFrame
    <2> QED BY <2>1, <2>2, <2>3, StillPages, StillCounts
  <1>4. CASE SetComplete \/ LastBroadcast
    <2>1. /\ UNCHANGED <<files, pages_per_file, queue, out, temp, i, j>>
          /\ ppc \in {"open", "broadcast"} /\ ppc' \in {"broadcast", "done"}
          /\ i = num_files
          /\ \A c \in Consumers : cpc'[c] = "store" <=> cpc[c] = "store"
      BY <1>4 DEF SetComplete, LastBroadcast, BroadcastFill, CursorIsRight, queue
    <2>2. Working' = Working
      BY <2>1 DEF Working
    <2>3. PutPages' = PutPages
      BY <2>1, PutPagesFrame
    <2>4. FileNumbers' = FileNumbers /\ num_files' = num_files
      BY <2>1, FilesFrame
    <2>5. CountsAreRight' /\ CursorIsRight'
      BY <2>1, <2>4 DEF CountsAreRight, CursorIsRight, FileSize, PagesIn
    <2> QED BY <2>1, <2>2, <2>3, <2>5, StillPages
  <1>5. CASE PutPage
    <2>1. /\ UNCHANGED <<files, pages_per_file, out, temp, i, j, cpc>>
          /\ ppc = "put" /\ ppc' = "signal" /\ q_size < q_capacity
          /\ put(Buffer(i, j))
      BY <1>5 DEF PutPage, TypeInv, RoomToPut
    <2>2. Buffer(i, j) \in AllPages /\ Buffer(i, j) \notin PutPages
      BY <2>1, NextPageLemma
    <2>3. Buffer(i, j) \notin Queued
      BY <2>2 DEF PagesArePartitioned
    <2>4. Queued' = Queued \cup {Buffer(i, j)} /\ QueuedOnce' /\ RingIsRight'
      <3> DEFINE b == Buffer(i, j)
      <3>1. put(b) /\ b \notin Queued
        BY <2>1, <2>3
      <3> HIDE DEF b
      <3>2. Queued' = Queued \cup {b} /\ QueuedOnce' /\ RingIsRight'
        BY <2>1, <3>1, PutLemma
      <3> QED BY <3>2 DEF b
    <2>5. Working' = Working /\ Held' = Held /\ HeldOnce'
      BY <2>1, HeldFrame DEF Working
    <2>6. StoredPages' = StoredPages /\ StoredInPlace'
      BY <2>1, StoredFrame
    <2>7. PutPages' = PutPages \cup {Buffer(i, j)}
      BY <1>5, PutPagePages
    <2>8. PagesArePartitioned'
      BY <2>2, <2>4, <2>5, <2>6, <2>7 DEF PagesArePartitioned
    <2> QED BY <2>1, <2>4, <2>5, <2>6, <2>8, StillCounts
  <1>6. CASE SignalPut
    <2>1. /\ UNCHANGED <<files, pages_per_file, queue, out, temp>>
          /\ ppc = "signal" /\ i \in FileNumbers
          /\ \A c \in Consumers : cpc'[c] = "store" <=> cpc[c] = "store"
      BY <1>1, <1>6 DEF SignalPut, SignalFill, SleepingOnFill, queue,
                        TypeInv, TypeOK, ProducerHasPage, FileNumbers
    <2>2. Working' = Working
      BY <2>1 DEF Working
    <2>3. PutPages' = PutPages
      BY <1>6, SignalPutPages
    <2>4. FileNumbers' = FileNumbers /\ num_files' = num_files
      BY <2>1, FilesFrame
    <2>5. CountsAreRight' /\ CursorIsRight'
      <3>1. CASE ppc' = "check"
        <4>1. i' = i
          BY <1>6, <3>1 DEF SignalPut
        <4> QED BY <2>1, <2>4, <3>1, <4>1
                DEF CountsAreRight, CursorIsRight, FileSize, PagesIn
      <3>2. CASE ppc' # "check"
        <4>1. ppc' = "open" /\ i' = i + 1 /\ j' = 0
          BY <1>6, <3>2 DEF SignalPut
        <4>2. \A f \in FileNumbers : f < i + 1 <=> f < i \/ f = i
          BY <2>1 DEF FileNumbers
        <4> QED BY <2>1, <2>4, <4>1, <4>2
                DEF CountsAreRight, CursorIsRight, FileSize, PagesIn
      <3> QED BY <3>1, <3>2
    <2> QED BY <2>1, <2>2, <2>3, <2>5, StillPages
  <1>7. CASE \E c \in Consumers : TestQueue(c) /\ q_size # 0
    <2>1. PICK c \in Consumers : TestQueue(c) /\ q_size # 0
      BY <1>7
    <2>2. /\ UNCHANGED <<files, pages_per_file, out, i, j>>
          /\ cpc[c] = "test" /\ cpc' = [cpc EXCEPT ![c] = "store"]
          /\ ppc' = ppc \/ (ppc = "asleep" /\ ppc' = "check")
          /\ get(c)
      BY <2>1 DEF TestQueue, SignalEmpty
    <2>3. PutPages' = PutPages
      BY <2>2, PutPagesFrame
    <2>4. CountsAreRight' /\ CursorIsRight'
      BY <2>2, StillCounts
    <2>5. /\ temp' = [temp EXCEPT ![c] = Slot(0)]
          /\ Slot(0) \in Queued /\ Queued' = Queued \ {Slot(0)}
          /\ QueuedOnce' /\ RingIsRight'
      BY <2>1, <2>2, GetLemma
    <2>6. StoredPages' = StoredPages /\ StoredInPlace'
      BY <2>2, StoredFrame
    <2>7. c \notin Working /\ Working' = Working \cup {c}
      BY <1>1, <2>2 DEF Working
    <2>8. temp \in [Consumers -> PageRecord] /\ Working \subseteq Consumers
      BY DEF TypeInv, TypeOK, Working
    <2>9. Held' = Held \cup {Slot(0)}
      BY <2>5, <2>7, <2>8 DEF Held
    <2>10. Slot(0) \notin Held
      BY <2>5 DEF PagesArePartitioned
    <2>11. HeldOnce'
      BY <2>5, <2>7, <2>8, <2>10 DEF HeldOnce, Held
    <2>12. PagesArePartitioned'
      BY <2>3, <2>5, <2>6, <2>9, <2>10 DEF PagesArePartitioned
    <2> QED BY <2>4, <2>5, <2>6, <2>11, <2>12
  <1>8. CASE \E c \in Consumers : StorePage(c)
    <2>1. PICK c \in Consumers : StorePage(c)
      BY <1>8
    <2> DEFINE b == temp[c]
               position == OutputPosition(b)
    <2>2. /\ UNCHANGED <<files, pages_per_file, queue, temp, i, j, ppc>>
          /\ cpc[c] = "store"
      BY <2>1 DEF StorePage, producer
    <2>3. PutPages' = PutPages /\ CountsAreRight' /\ CursorIsRight'
      BY <2>2, PutPagesFrame, StillCounts
    <2>4. Queued' = Queued /\ QueuedOnce' /\ RingIsRight'
      BY <2>2, QueueFrame
    <2>5. c \in Working /\ b \in Held /\ b \in PutPages /\ b \in AllPages
      BY <2>2 DEF Working, Held, PagesArePartitioned, PutPages
    <2>6. position = PlaceOf(b)
      BY <2>5, PositionIsPlace
    <2>7. CASE position >= OutSlots
      <3>1. UNCHANGED <<out, cpc>> \/ position < OutSlots
        BY <2>1, <2>7 DEF StorePage
      <3>2. ~(position < OutSlots)
        <4>1. position \in Nat /\ OutSlots \in Nat
          BY PositionLemma, MemoryAssumption DEF TypeInv, TypeOK, PagesHaveFiles
        <4> HIDE DEF position
        <4> QED BY <2>7, <4>1
      <3>3. Working' = Working
        BY <3>1, <3>2 DEF Working
      <3> QED BY <2>2, <2>3, <3>1, <3>2, <3>3, StillPages
    <2>8. CASE position < OutSlots
      <3>1. /\ out' = [s \in DOMAIN out \cup {position} |->
                          IF s = position THEN RLECompress(Contents(b))
                                          ELSE out[s]]
            /\ cpc' = [cpc EXCEPT ![c] = "loop"]
        <4>1. ~(position >= OutSlots)
          <5>1. position \in Nat /\ OutSlots \in Nat
            BY PositionLemma, MemoryAssumption DEF TypeInv, TypeOK, PagesHaveFiles
          <5> HIDE DEF position
          <5> QED BY <2>8, <5>1
        <4> QED BY <2>1, <4>1 DEF StorePage
      <3>2. Working' = Working \ {c}
        BY <1>1, <3>1 DEF Working
      <3>3. Held' = Held \ {b} /\ HeldOnce'
        BY <2>2, <2>5, <3>2 DEF Held, HeldOnce
      <3>4. AllPages' = AllPages /\ \A x : PlaceOf(x)' = PlaceOf(x)
        BY <2>2, FilesFrame
      <3>5. DOMAIN out' = DOMAIN out \cup {position}
        BY <3>1
      <3>6. StoredPages' = StoredPages \cup {b}
        <4>1. \A x \in AllPages : PlaceOf(x) = position <=> x = b
          BY <2>5, <2>6, PlaceIsUnique DEF TypeInv, TypeOK
        <4> HIDE DEF position, b
        <4>2. StoredPages' = {x \in AllPages : PlaceOf(x) \in DOMAIN out'}
          BY <3>4 DEF StoredPages
        <4> QED BY <2>5, <3>5, <4>1, <4>2 DEF StoredPages
      <3>7. StoredInPlace'
        <4> SUFFICES ASSUME NEW s \in DOMAIN out'
                     PROVE  \E x \in AllPages :
                                /\ PlaceOf(x) = s
                                /\ out'[s] = RLECompress(Contents(x))
          BY <2>2, FilesFrame DEF StoredInPlace
        <4>1. CASE s = position
          BY <2>5, <2>6, <3>1, <4>1
        <4>2. CASE s # position
          <5>1. s \in DOMAIN out /\ out'[s] = out[s]
            BY <3>1, <4>2
          <5> QED BY <5>1 DEF StoredInPlace
        <4> QED BY <4>1, <4>2
      <3>8. PagesArePartitioned'
        <4> HIDE DEF b
        <4> QED BY <2>3, <2>4, <2>5, <3>3, <3>6 DEF PagesArePartitioned
      <3> QED BY <2>3, <2>4, <3>3, <3>7, <3>8
    <2>9. position < OutSlots \/ position >= OutSlots
      BY <2>1 DEF StorePage
    <2> QED BY <2>7, <2>8, <2>9
  <1> QED BY <1>2, <1>3, <1>4, <1>5, <1>6, <1>7, <1>8 DEF Next

-----------------------------------------------------------------------------
(* The theorems about the pages.                                           *)

LEMMA PageInvariant == NoGarbage /\ Spec => [](TypeInv /\ PageInv)
  BY TypeInit, TypeStep, PageInit, PageStep, PTL DEF Spec

\* Whatever the order in which the consumers finish, the compressed form of a
\* page is stored at the page's place in the whole input.
THEOREM StoredWhereItBelongs == NoGarbage /\ Spec => []StoredInPlace
  <1>1. PageInv => StoredInPlace
    BY DEF PageInv
  <1> QED BY <1>1, PageInvariant, PTL

\* The size of the queue counts the pages on it, and no two consumers work
\* on one page.
LEMMA CountingPages ==
    ASSUME TypeInv, PageInv
    PROVE  /\ Cardinality(Queued) = q_size
           /\ Cardinality(Held) = Cardinality(Working)
  <1> DEFINE S == 0 .. q_size - 1
             g == [n \in S |-> Slot(n)]
             h == [c \in Working |-> temp[c]]
  <1>1. q_size \in Nat
    BY QueueAssumption DEF TypeInv, TypeOK
  <1>2. IsFiniteSet(S) /\ Cardinality(S) = q_size
    BY <1>1, FS_Interval
  <1>3. ExistsBijection(S, Queued)
    <2>1. \A m, n \in S : g[m] = g[n] => m = n
      BY DEF PageInv, QueuedOnce
    <2>2. g \in [S -> Queued] /\ \A b \in Queued : \E n \in S : g[n] = b
      BY QueuedLemma
    <2> HIDE DEF g, S
    <2>3. g \in Bijection(S, Queued)
      BY <2>1, <2>2 DEF Bijection, Injection, Surjection, IsInjective
    <2> QED BY <2>3 DEF ExistsBijection
  <1>4. Cardinality(Queued) = q_size
    <2> HIDE DEF S
    <2> QED BY <1>2, <1>3, FS_Bijection
  <1>5. IsFiniteSet(Working)
    <2>1. Working \in SUBSET Consumers
      BY DEF Working
    <2> QED BY <2>1, ConsumersAssumption, FS_Subset
  <1>6. ExistsBijection(Working, Held)
    <2>1. \A c, d \in Working : h[c] = h[d] => c = d
      BY DEF PageInv, HeldOnce
    <2>2. h \in [Working -> Held] /\ \A b \in Held : \E c \in Working : h[c] = b
      BY DEF Held
    <2> HIDE DEF h
    <2>3. h \in Bijection(Working, Held)
      BY <2>1, <2>2 DEF Bijection, Injection, Surjection, IsInjective
    <2> QED BY <2>3 DEF ExistsBijection
  <1>7. Cardinality(Held) = Cardinality(Working)
    BY <1>5, <1>6, FS_Bijection
  <1> QED BY <1>4, <1>7

\* A page that was put is in exactly one place: on the queue, with one
\* consumer, or compressed in the output array.
THEOREM EveryPageInOnePlace == NoGarbage /\ Spec => []EachPageOnce
  <1>1. TypeInv /\ PageInv => EachPageOnce
    BY CountingPages DEF PageInv, PagesArePartitioned, EachPageOnce
  <1> QED BY <1>1, PageInvariant, PTL

\* The consumers, which store without the mutex, never write the same slot:
\* the page that one is about to store has not been stored.
THEOREM NoSlotIsWrittenTwice == NoGarbage /\ Spec => SlotWrittenOnce
  <1>1. TypeInv /\ PageInv /\ [Next]_vars => [KeepsWrittenSlots]_vars
    <2> SUFFICES ASSUME TypeInv, PageInv, Next PROVE KeepsWrittenSlots
      OBVIOUS
    <2> USE DEF KeepsWrittenSlots
    <2>1. CASE out' = out
      BY <2>1
    <2>2. CASE \E c \in Consumers : StorePage(c)
      <3>1. PICK c \in Consumers : StorePage(c)
        BY <2>2
      <3> DEFINE b == temp[c]
                 place == OutputPosition(b)
      <3>2. b \in Held
        BY <3>1 DEF StorePage, Held, Working
      <3>3. b \in PutPages /\ b \in AllPages /\ b \notin StoredPages
        BY <3>2 DEF PageInv, PagesArePartitioned, PutPages
      <3>4. place = PlaceOf(b)
        BY <3>3, PositionIsPlace DEF PageInv
      <3>5. place \notin DOMAIN out
        BY <3>3, <3>4 DEF StoredPages
      <3>6. \/ out' = out
            \/ out' = [s \in DOMAIN out \cup {place} |->
                          IF s = place THEN RLECompress(Contents(b))
                                          ELSE out[s]]
        BY <3>1 DEF StorePage
      <3> HIDE DEF place, b
      <3> QED BY <3>5, <3>6
    <2>3. out' = out \/ \E c \in Consumers : StorePage(c)
      BY DEF Next, OpenFile, OpenFails, CheckRoom, PutPage, SignalPut,
             SetComplete, LastBroadcast, TestQueue, Wait, LoopTest,
             SpuriousWakeup, PrintOutput
    <2> QED BY <2>1, <2>2, <2>3
  <1> QED BY <1>1, PageInvariant, PTL DEF Spec, SlotWrittenOnce
-----------------------------------------------------------------------------
(* The refinement of Compressor.                                           *)

\* The output array has a slot for every page.
PagesFit == Cardinality(AllPages) <= OutSlots

LEMMA AllPagesBefore ==
    ASSUME files \in Inputs
    PROVE  /\ AllPages = PagesBefore(num_files)
           /\ IsFiniteSet(AllPages) /\ Cardinality(AllPages) \in Nat
  <1>1. num_files \in Nat /\ num_files \in 0 .. num_files
    BY FilesLemma
  <1>2. AllPages = PagesBefore(num_files)
    BY DEF AllPages, PagesBefore, FileNumbers
  <1> QED BY <1>1, <1>2, PagesBeforeLemma

\* The place of a page is one of the first slots, as many as there are pages.
LEMMA PlaceIsInOutput ==
    ASSUME files \in Inputs, NEW b \in AllPages
    PROVE  PlaceOf(b) \in 0 .. Cardinality(AllPages) - 1
  <1>1. PICK f \in FileNumbers : f = b.file_number
    BY AllPagesLemma
  <1>2. PICK n \in Nat : n = PagesIn(FileSize(f))
    BY FilesLemma
  <1>3. b.page_number \in 0 .. n - 1
    BY <1>1, <1>2, AllPagesLemma
  <1>4. /\ num_files \in Nat /\ f \in 0 .. num_files
        /\ f + 1 \in 0 .. num_files /\ num_files \in (f + 1) .. num_files
    BY FilesLemma DEF FileNumbers
  <1>5. /\ Cardinality(PagesBefore(f)) \in Nat
        /\ Cardinality(PagesBefore(f + 1)) \in Nat
    BY <1>4, PagesBeforeLemma
  <1>6. Cardinality(PagesBefore(f + 1)) = Cardinality(PagesBefore(f)) + n
    BY <1>2, PagesBeforeNextLemma
  <1>7. Cardinality(PagesBefore(f + 1)) <= Cardinality(AllPages)
    BY <1>4, AllPagesBefore, PagesBeforeMonotone
  <1>8. PlaceOf(b) = Cardinality(PagesBefore(f)) + b.page_number
    BY <1>1 DEF PlaceOf, PagesBefore
  <1> QED BY <1>3, <1>5, <1>6, <1>7, <1>8, AllPagesBefore

\* And each of these slots is the place of a page.
LEMMA EverySlotHasAPage ==
    ASSUME files \in Inputs, NEW n \in 0 .. Cardinality(AllPages) - 1
    PROVE  \E b \in AllPages : PlaceOf(b) = n
  <1> DEFINE S == 0 .. Cardinality(AllPages) - 1
             g == [b \in AllPages |-> PlaceOf(b)]
  <1>1. Cardinality(AllPages) \in Nat
    BY AllPagesBefore
  <1>2. IsFiniteSet(S) /\ Cardinality(S) = Cardinality(AllPages)
    BY <1>1, FS_Interval
  <1>3. g \in Injection(AllPages, S)
    <2>1. g \in [AllPages -> S]
      BY PlaceIsInOutput
    <2>2. \A a, b \in AllPages : g[a] = g[b] => a = b
      BY PlaceIsUnique
    <2> HIDE DEF g, S
    <2> QED BY <2>1, <2>2 DEF Injection, IsInjective
  <1>4. g \in Surjection(AllPages, S)
    <2> HIDE DEF g, S
    <2> QED BY <1>2, <1>3, FS_Injection
  <1> QED BY <1>4 DEF Surjection

-----------------------------------------------------------------------------
(* When main prints: every page has been put, and none is left on the      *)
(* queue.                                                                  *)

InFile == ppc \in {"check", "asleep", "put", "signal"}

Opened == IF InFile THEN i + 1 ELSE i

\* total_pages counts the pages of the files opened so far.
TotalIsRight == total_pages = Cardinality(PagesBefore(Opened))

\* A consumer returns when no page is queued and none will be.
DoneIsRight ==
    /\ isComplete <=> ppc \in {"broadcast", "done"}
    /\ (\E c \in Consumers : cpc[c] = "done") => isComplete /\ q_size = 0

OutputInv == TotalIsRight /\ DoneIsRight /\ PagesFit

LEMMA PagesBeforeFrame ==
    ASSUME files' = files
    PROVE  \A n : PagesBefore(n)' = PagesBefore(n)
  BY FilesFrame DEF PagesBefore, PagesOf, Buffer, FileSize, PagesIn,
                    LastPageSize

LEMMA OutputInit == Init /\ PagesFit => OutputInv
  <1> SUFFICES ASSUME Init, PagesFit PROVE OutputInv
    OBVIOUS
  <1>1. PagesBefore(0) = {}
    BY DEF PagesBefore
  <1>2. Cardinality(PagesBefore(0)) = 0
    BY <1>1, FS_EmptySet
  <1>3. TotalIsRight
    BY <1>2 DEF Init, TotalIsRight, Opened, InFile
  <1>4. DoneIsRight
    BY DEF Init, DoneIsRight
  <1> QED BY <1>3, <1>4 DEF OutputInv

LEMMA TotalStep ==
    ASSUME TypeInv, TotalIsRight, [Next]_vars
    PROVE  TotalIsRight'
  <1>1. CASE OpenFile
    <2>1. /\ files' = files /\ ppc = "open" /\ i \in FileNumbers
          /\ PagesIn(FileSize(i)) \in Nat /\ FileSize(i) \in Nat
      BY <1>1, FilesLemma DEF OpenFile, TypeInv, TypeOK, FileNumbers
    <2>2. total_pages = Cardinality(PagesBefore(i)) /\ total_pages \in Nat
      BY <2>1 DEF TotalIsRight, Opened, InFile, TypeInv, TypeOK
    <2>3. Cardinality(PagesBefore(i + 1)) =
              Cardinality(PagesBefore(i)) + PagesIn(FileSize(i))
      BY <2>1, PagesBeforeNextLemma DEF TypeInv, TypeOK
    <2>4. Opened' = i + 1
      BY <1>1, <2>1 DEF OpenFile, Opened, InFile
    <2>5. total_pages' = Cardinality(PagesBefore(i + 1))
      <3>1. CASE FileSize(i) = 0
        <4>1. total_pages' = total_pages
          BY <1>1, <3>1 DEF OpenFile
        <4>2. PagesIn(FileSize(i)) = 0
          BY <3>1, NoPagesLemma
        <4> QED BY <2>2, <2>3, <4>1, <4>2
      <3>2. CASE FileSize(i) > 0
        <4>1. total_pages' = total_pages + PagesIn(FileSize(i))
          BY <1>1, <3>2 DEF OpenFile
        <4> QED BY <2>2, <2>3, <4>1
      <3> QED BY <2>1, <3>1, <3>2
    <2>6. \A n : PagesBefore(n)' = PagesBefore(n)
      BY <2>1, PagesBeforeFrame
    <2> QED BY <2>4, <2>5, <2>6 DEF TotalIsRight
  <1>2. CASE ~OpenFile
    <2>1. UNCHANGED <<files, total_pages>>
      BY <1>2 DEF Next, OpenFails, CheckRoom, PutPage, SignalPut, SetComplete,
                  LastBroadcast, TestQueue, Wait, StorePage, LoopTest,
                  SpuriousWakeup, PrintOutput, vars
    <2>2. Opened' = Opened
      BY <1>2 DEF Next, OpenFails, CheckRoom, PutPage, SignalPut, SetComplete,
                  LastBroadcast, TestQueue, Wait, StorePage, LoopTest,
                  SpuriousWakeup, PrintOutput, vars, producer, SignalEmpty,
                  Opened, InFile
    <2>3. \A n : PagesBefore(n)' = PagesBefore(n)
      BY <2>1, PagesBeforeFrame
    <2> QED BY <2>1, <2>2, <2>3 DEF TotalIsRight
  <1> QED BY <1>1, <1>2

LEMMA DoneStep ==
    ASSUME TypeInv, DoneIsRight, [Next]_vars
    PROVE  DoneIsRight'
  <1> USE DEF DoneIsRight
  <1>1. cpc \in [Consumers -> ConsumerPCs]
    BY DEF TypeInv, TypeOK
  <1>2. CASE OpenFile \/ OpenFails \/ CheckRoom \/ SignalPut \/ PrintOutput
             \/ SpuriousWakeup \/ UNCHANGED vars
    <2>1. /\ isComplete' = isComplete /\ q_size' = q_size
          /\ \/ ppc' = ppc
             \/ /\ ppc' \notin {"broadcast", "done"}
                /\ ppc \notin {"broadcast", "done"}
      BY <1>2 DEF OpenFile, OpenFails, CheckRoom, SignalPut, PrintOutput,
                  SpuriousWakeup, vars, queue, producer
    <2>2. \A c \in Consumers : cpc'[c] = "done" => cpc[c] = "done"
      <3>1. CASE OpenFile \/ OpenFails \/ PrintOutput \/ UNCHANGED vars
        BY <3>1 DEF OpenFile, OpenFails, PrintOutput, vars
      <3>2. CASE CheckRoom
        BY <1>1, <3>2 DEF CheckRoom, BroadcastFill
      <3>3. CASE SignalPut
        BY <1>1, <3>3 DEF SignalPut, SignalFill, SleepingOnFill
      <3>4. CASE SpuriousWakeup
        BY <1>1, <3>4 DEF SpuriousWakeup, SleepingOnFill
      <3> QED BY <1>2, <3>1, <3>2, <3>3, <3>4
    <2> QED BY <2>1, <2>2
  <1>3. CASE PutPage
    <2>1. ppc = "put" /\ ppc' = "signal" /\ UNCHANGED <<isComplete, cpc>>
      BY <1>3 DEF PutPage
    <2> QED BY <2>1
  <1>4. CASE SetComplete \/ LastBroadcast
    <2>1. /\ ppc \in {"open", "broadcast"} /\ q_size' = q_size
          /\ ppc' \in {"broadcast", "done"} /\ isComplete'
          /\ \A c \in Consumers : cpc'[c] = "done" => cpc[c] = "done"
      BY <1>1, <1>4 DEF SetComplete, LastBroadcast, BroadcastFill, queue
    <2> QED BY <2>1
  <1>5. CASE \E c \in Consumers :
                 TestQueue(c) \/ Wait(c) \/ StorePage(c) \/ LoopTest(c)
    <2>1. PICK c \in Consumers :
              TestQueue(c) \/ Wait(c) \/ StorePage(c) \/ LoopTest(c)
      BY <1>5
    <2>2. /\ isComplete' = isComplete
          /\ ppc' = ppc \/ (ppc = "asleep" /\ ppc' = "check")
      BY <2>1 DEF TestQueue, SignalEmpty, Wait, StorePage, LoopTest, producer
    <2>3. \A d \in Consumers \ {c} : cpc'[d] = cpc[d]
      BY <1>1, <2>1 DEF TestQueue, Wait, StorePage, LoopTest
    <2>4. \/ q_size' = q_size
          \/ q_size # 0 /\ q_size' = q_size - 1
      BY <2>1 DEF TestQueue, Wait, StorePage, LoopTest, queue, get
    <2>5. cpc'[c] = "done" =>
              \/ cpc[c] = "done"
              \/ isComplete /\ q_size = 0
      BY <1>1, <2>1 DEF TestQueue, Wait, StorePage, LoopTest
    <2> QED BY <2>2, <2>3, <2>4, <2>5
  <1> QED BY <1>2, <1>3, <1>4, <1>5 DEF Next

LEMMA OutputStep == TypeInv /\ OutputInv /\ [Next]_vars => OutputInv'
  <1> SUFFICES ASSUME TypeInv, OutputInv, [Next]_vars PROVE OutputInv'
    OBVIOUS
  <1>1. TotalIsRight' /\ DoneIsRight'
    BY TotalStep, DoneStep DEF OutputInv
  <1>2. files' = files
    BY DEF Next, OpenFile, OpenFails, CheckRoom, PutPage, SignalPut,
           SetComplete, LastBroadcast, TestQueue, Wait, StorePage, LoopTest,
           SpuriousWakeup, PrintOutput, vars
  <1>3. PagesFit'
    BY <1>2, FilesFrame DEF OutputInv, PagesFit
  <1> QED BY <1>1, <1>3 DEF OutputInv

\* When the threads are done, every page is stored.
LEMMA AllStored ==
    ASSUME TypeInv, PageInv, OutputInv, ppc = "done",
           \A c \in Consumers : cpc[c] = "done"
    PROVE  /\ StoredPages = AllPages
           /\ 0 .. total_pages - 1 \subseteq DOMAIN out
  <1>1. files \in Inputs /\ num_files \in Nat
    BY FilesLemma DEF TypeInv, TypeOK
  <1>2. q_size = 0
    BY ConsumersAssumption DEF OutputInv, DoneIsRight
  <1>3. Queued = {} /\ Held = {}
    BY <1>2 DEF Queued, Held, Working
  <1>4. PutPages = AllPages
    <2>1. i = num_files
      BY DEF PageInv, CursorIsRight
    <2>2. \A b \in AllPages : b.file_number < i
      BY <1>1, <2>1, AllPagesLemma DEF FileNumbers
    <2> QED BY <2>2 DEF PutPages
  <1>5. StoredPages = AllPages
    BY <1>3, <1>4 DEF PageInv, PagesArePartitioned
  <1>6. total_pages = Cardinality(AllPages)
    <2>1. Opened = num_files
      BY DEF Opened, InFile, PageInv, CursorIsRight
    <2> QED BY <1>1, <2>1, AllPagesBefore DEF OutputInv, TotalIsRight
  <1>7. ASSUME NEW n \in 0 .. total_pages - 1 PROVE n \in DOMAIN out
    <2>1. PICK b \in AllPages : PlaceOf(b) = n
      BY <1>1, <1>6, EverySlotHasAPage
    <2> QED BY <1>5, <2>1 DEF StoredPages
  <1> QED BY <1>5, <1>7

\* Steps that change nothing the abstract compressor sees.
LEMMA AbstractStutter ==
    ASSUME UNCHANGED <<files, out, temp, status>>, Working' = Working
    PROVE  UNCHANGED Abstract!vars
  <1>1. AllPages' = AllPages
    BY FilesFrame
  <1>2. StoredPages' = StoredPages
    BY StoredFrame
  <1>3. Held' = Held
    BY HeldFrame
  <1> QED BY <1>1, <1>2, <1>3 DEF Abstract!vars

LEMMA AbstractInit == Init => Abstract!Init
  <1> SUFFICES ASSUME Init PROVE Abstract!Init
    OBVIOUS
  <1>1. files \in Inputs
    BY DEF Init
  <1>2. Working = {} /\ Held = {}
    BY DEF Init, Working, Held
  <1>3. out = <<>> /\ DOMAIN out = {}
    BY DEF Init
  <1>4. StoredPages = {}
    BY <1>3 DEF StoredPages
  <1>5. AllPages \subseteq PageRecord
    <2> SUFFICES ASSUME NEW f \in FileNumbers,
                        NEW p \in 0 .. PagesIn(FileSize(f)) - 1
                 PROVE  Buffer(f, p) \in PageRecord
      BY DEF AllPages, PagesOf
    <2>1. /\ f \in Nat /\ p \in Nat /\ LastPageSize(FileSize(f)) \in Nat
          /\ page_size \in Nat
      BY <1>1, FilesLemma, PageAssumption DEF FileNumbers
    <2>2. p * page_size \in Nat
      BY <2>1
    <2> QED BY <2>1, <2>2 DEF Buffer, PageRecord
  <1>6. status = "running"
    BY DEF Init
  <1> QED BY <1>2, <1>4, <1>5, <1>6 DEF Abstract!Init, PageRecord

\* A consumer takes a page off the queue.
LEMMA AbstractTake ==
    ASSUME TypeInv, PageInv, status = "running",
           NEW c \in Consumers, TestQueue(c), q_size # 0
    PROVE  \E b \in AllPages : Abstract!Take(b)
  <1>1. cpc \in [Consumers -> ConsumerPCs] /\ temp \in [Consumers -> PageRecord]
    BY DEF TypeInv, TypeOK
  <1>2. /\ UNCHANGED <<files, out, status>> /\ get(c)
        /\ cpc[c] = "test" /\ cpc' = [cpc EXCEPT ![c] = "store"]
    BY DEF TestQueue
  <1>3. temp' = [temp EXCEPT ![c] = Slot(0)] /\ Slot(0) \in Queued
    BY <1>2, GetLemma DEF PageInv
  <1>4. c \notin Working /\ Working' = Working \cup {c}
    BY <1>1, <1>2 DEF Working
  <1>5. Held' = Held \cup {Slot(0)}
    BY <1>1, <1>3, <1>4 DEF Held, Working
  <1>6. AllPages' = AllPages /\ StoredPages' = StoredPages
    BY <1>2, FilesFrame, StoredFrame
  <1>7. Slot(0) \in AllPages /\ Slot(0) \notin Held \cup StoredPages
    BY <1>3 DEF PageInv, PagesArePartitioned, PutPages
  <1>8. Abstract!Take(Slot(0))
    BY <1>2, <1>5, <1>6, <1>7 DEF Abstract!Take
  <1> QED BY <1>7, <1>8

\* A consumer stores its page, for which the output array has a slot.
LEMMA AbstractStore ==
    ASSUME TypeInv, PageInv, OutputInv, status = "running",
           NEW c \in Consumers, StorePage(c)
    PROVE  \E b \in AllPages : Abstract!Store(b)
  <1>1. cpc \in [Consumers -> ConsumerPCs] /\ files \in Inputs
    BY DEF TypeInv, TypeOK
  <1>2. PICK b : b = temp[c]
    OBVIOUS
  <1>3. /\ UNCHANGED <<files, temp>> /\ cpc[c] = "store"
    BY DEF StorePage
  <1>4. c \in Working /\ b \in Held
    BY <1>2, <1>3 DEF Working, Held
  <1>5. b \in PutPages /\ b \in AllPages /\ b \notin StoredPages
    BY <1>4 DEF PageInv, PagesArePartitioned, PutPages
  <1>6. PICK place : place = OutputPosition(b)
    OBVIOUS
  <1>7. place = PlaceOf(b)
    BY <1>5, <1>6, PositionIsPlace DEF PageInv
  <1>8. place < OutSlots /\ ~(place >= OutSlots)
    <2>1. PlaceOf(b) \in 0 .. Cardinality(AllPages) - 1
      BY <1>1, <1>5, PlaceIsInOutput
    <2>2. Cardinality(AllPages) \in Nat /\ Cardinality(AllPages) <= OutSlots
      BY <1>1, AllPagesBefore DEF OutputInv, PagesFit
    <2> QED BY <1>7, <2>1, <2>2, MemoryAssumption
  <1>9. /\ out' = [s \in DOMAIN out \cup {place} |->
                      IF s = place THEN RLECompress(Contents(b)) ELSE out[s]]
        /\ cpc' = [cpc EXCEPT ![c] = "loop"] /\ status' = status
    BY <1>2, <1>6, <1>8 DEF StorePage
  <1>10. Working' = Working \ {c}
    BY <1>1, <1>9 DEF Working
  <1>11. Held' = Held \ {b}
    BY <1>2, <1>3, <1>4, <1>10 DEF Held, HeldOnce, PageInv
  <1>12. AllPages' = AllPages /\ \A x : PlaceOf(x)' = PlaceOf(x)
    BY <1>3, FilesFrame
  <1>13. DOMAIN out' = DOMAIN out \cup {place}
    BY <1>9
  <1>14. StoredPages' = StoredPages \cup {b}
    <2>1. \A x \in AllPages : PlaceOf(x) = place <=> x = b
      BY <1>1, <1>5, <1>7, PlaceIsUnique
    <2>2. StoredPages' = {x \in AllPages : PlaceOf(x) \in DOMAIN out'}
      BY <1>12 DEF StoredPages
    <2> QED BY <1>5, <1>13, <2>1, <2>2 DEF StoredPages
  <1>15. Held' \cup StoredPages' = Held \cup StoredPages
    BY <1>4, <1>11, <1>14
  <1>16. Abstract!Store(b)
    BY <1>4, <1>5, <1>9, <1>12, <1>14, <1>15 DEF Abstract!Store
  <1> QED BY <1>5, <1>16

LEMMA AbstractStep ==
    ASSUME TypeInv, PageInv, OutputInv, [Next]_vars
    PROVE  [Abstract!Next]_(Abstract!vars)
  <1>1. cpc \in [Consumers -> ConsumerPCs]
    BY DEF TypeInv, TypeOK
  <1>2. Next => status = "running"
    BY DEF Next
  <1>3. CASE \/ OpenFile \/ CheckRoom \/ PutPage \/ SignalPut \/ SetComplete
             \/ LastBroadcast \/ SpuriousWakeup \/ UNCHANGED vars
             \/ \E c \in Consumers : \/ TestQueue(c) /\ q_size = 0
                                     \/ Wait(c) \/ LoopTest(c)
    <2>1. UNCHANGED <<files, out, temp, status>>
      BY <1>3 DEF OpenFile, CheckRoom, PutPage, SignalPut, SetComplete,
                  LastBroadcast, SpuriousWakeup, vars, TestQueue, Wait,
                  LoopTest
    <2>2. \A c \in Consumers : cpc'[c] = "store" <=> cpc[c] = "store"
      <3>1. CASE OpenFile \/ PutPage \/ SetComplete \/ UNCHANGED vars
        BY <3>1 DEF OpenFile, PutPage, SetComplete, vars
      <3>2. CASE CheckRoom \/ LastBroadcast
        BY <1>1, <3>2 DEF CheckRoom, LastBroadcast, BroadcastFill
      <3>3. CASE SignalPut \/ SpuriousWakeup
        BY <1>1, <3>3 DEF SignalPut, SpuriousWakeup, SignalFill,
                          SleepingOnFill
      <3>4. CASE \E c \in Consumers : \/ TestQueue(c) /\ q_size = 0
                                      \/ Wait(c) \/ LoopTest(c)
        BY <1>1, <3>4 DEF TestQueue, Wait, LoopTest
      <3> QED BY <1>3, <3>1, <3>2, <3>3, <3>4
    <2>3. Working' = Working
      BY <2>2 DEF Working
    <2> QED BY <2>1, <2>3, AbstractStutter
  <1>4. CASE OpenFails /\ Next
    <2>1. /\ UNCHANGED <<files, out, temp, cpc>> /\ status' = "exit1"
      BY <1>4 DEF OpenFails
    <2>2. AllPages' = AllPages /\ StoredPages' = StoredPages
      BY <2>1, FilesFrame, StoredFrame
    <2>3. Held' = Held
      BY <2>1, HeldFrame DEF Working
    <2>4. Abstract!Fail
      BY <1>2, <1>4, <2>1, <2>2, <2>3 DEF Abstract!Fail
    <2> QED BY <2>4 DEF Abstract!Next
  <1>5. CASE PrintOutput /\ Next
    <2>1. /\ ppc = "done" /\ \A c \in Consumers : cpc[c] = "done"
          /\ UNCHANGED <<files, out, temp, cpc>>
      BY <1>5 DEF PrintOutput
    <2>2. /\ StoredPages = AllPages
          /\ 0 .. total_pages - 1 \subseteq DOMAIN out
      BY <2>1, AllStored
    <2>3. status' = "printed"
      BY <1>5, <2>2 DEF PrintOutput
    <2>4. AllPages' = AllPages /\ StoredPages' = StoredPages
      BY <2>1, FilesFrame, StoredFrame
    <2>5. Held' = Held
      BY <2>1, HeldFrame DEF Working
    <2>6. Abstract!Output
      BY <1>2, <1>5, <2>2, <2>3, <2>4, <2>5 DEF Abstract!Output
    <2> QED BY <2>6 DEF Abstract!Next
  <1>6. CASE Next /\ \E c \in Consumers : TestQueue(c) /\ q_size # 0
    BY <1>2, <1>6, AbstractTake DEF Abstract!Next
  <1>7. CASE Next /\ \E c \in Consumers : StorePage(c)
    BY <1>2, <1>7, AbstractStore DEF Abstract!Next
  <1> QED BY <1>3, <1>4, <1>5, <1>6, <1>7 DEF Next

\* pzip3 is a Compressor, whatever the interleaving of its threads, if malloc's
\* memory is zero and the output array is large enough: no page is taken twice
\* or forgotten, nothing is printed before all are stored, and no step ends in
\* an undefined state.
THEOREM ImplementsTheCompressor ==
    NoGarbage /\ PagesFit /\ Spec => ImplementsCompressor
  <1>1. Init => Abstract!Init
    BY AbstractInit
  <1>2. TypeInv /\ PageInv /\ OutputInv /\ [Next]_vars
        => [Abstract!Next]_(Abstract!vars)
    BY AbstractStep
  <1>3. NoGarbage /\ PagesFit /\ Spec => []OutputInv
    <2>1. NoGarbage /\ Spec => []TypeInv
      BY PageInvariant, PTL
    <2> QED BY <2>1, OutputInit, OutputStep, PTL DEF Spec
  <1> QED BY <1>1, <1>2, <1>3, PageInvariant, PTL
          DEF Spec, ImplementsCompressor, Abstract!Spec

-----------------------------------------------------------------------------
(* The result.  The pages, by their places, spell the whole input, so what *)
(* printOutput joins is the compressed form of the input.                  *)

\* Where page p of a file begins, and the page before it ends.
PageStart(size, p) == IF p = PagesIn(size) THEN size ELSE p * page_size

LEMMA PageStartLemma ==
    ASSUME NEW size \in Nat, NEW p \in 0 .. PagesIn(size) - 1
    PROVE  /\ PageStart(size, p) = p * page_size
           /\ p * page_size \in 0 .. size
           /\ PageStart(size, p + 1) \in p * page_size .. size
           /\ PageStart(size, p + 1) =
                  p * page_size + (IF p = PagesIn(size) - 1
                                   THEN LastPageSize(size) ELSE page_size)
  <1>1. PICK s \in Nat \ {0} : s = page_size
    BY PageAssumption
  <1>2. PICK q, r \in Nat : /\ q = size \div s /\ r = size % s
                            /\ r < s /\ size = s * q + r
    <2>1. /\ size \div s \in Nat /\ size % s \in 0 .. s - 1
          /\ size = s * (size \div s) + (size % s)
      BY <1>1
    <2> QED BY <2>1
  <1>3. /\ PagesIn(size) = q + (IF r # 0 THEN 1 ELSE 0)
        /\ LastPageSize(size) = IF r # 0 THEN r ELSE s
    BY <1>1, <1>2 DEF PagesIn, LastPageSize
  <1>4. p \in Nat /\ p <= q /\ (r = 0 => p < q)
    BY <1>2, <1>3
  <1>5. s * q = p * s + (q - p) * s /\ (q - p) * s \in Nat /\ p * s \in Nat
    BY <1>4
  <1>6. (p + 1) * s = p * s + s
    BY <1>4
  <1>7. p < q => (q - p) * s >= s
    <2> SUFFICES ASSUME p < q PROVE (q - p) * s >= s
      OBVIOUS
    <2>1. (q - p) * s = (q - p - 1) * s + s /\ (q - p - 1) * s \in Nat
      BY <1>4
    <2> QED BY <2>1
  <1>8. PageStart(size, p) = p * s
    BY <1>1, <1>2, <1>3 DEF PageStart
  <1>9. p * s \in 0 .. size
    BY <1>2, <1>5
  <1>10. CASE p = PagesIn(size) - 1
    <2>1. PageStart(size, p + 1) = size
      BY <1>2, <1>3, <1>10 DEF PageStart
    <2>2. r # 0 => p = q
      BY <1>2, <1>3, <1>10
    <2>3. r = 0 => q = p + 1
      BY <1>2, <1>3, <1>10
    <2>4. size = p * s + (IF r # 0 THEN r ELSE s)
      <3>1. CASE r # 0
        BY <1>2, <1>5, <2>2, <3>1
      <3>2. CASE r = 0
        BY <1>2, <1>6, <2>3, <3>2
      <3> QED BY <3>1, <3>2
    <2> QED BY <1>1, <1>3, <1>8, <1>9, <1>10, <2>1, <2>4
  <1>11. CASE p # PagesIn(size) - 1
    <2>1. PageStart(size, p + 1) = p * s + s
      BY <1>1, <1>3, <1>6, <1>11 DEF PageStart
    <2>2. p < q
      BY <1>2, <1>3, <1>11
    <2>3. p * s + s \in p * s .. size
      BY <1>2, <1>5, <1>7, <2>2
    <2> QED BY <1>1, <1>8, <1>9, <1>11, <2>1, <2>3
  <1> QED BY <1>10, <1>11

\* The first bytes of a file.
FileText(f, p) == SubSeq(files[f + 1], 1, PageStart(FileSize(f), p))

\* A page goes on where the page before it ends.
LEMMA NextPageText ==
    ASSUME files \in Inputs, NEW f \in FileNumbers,
           NEW p \in 0 .. PagesIn(FileSize(f)) - 1
    PROVE  /\ Contents(Buffer(f, p)) \in Seq(Bytes)
           /\ FileText(f, p) \in Seq(Bytes)
           /\ FileText(f, p + 1) = FileText(f, p) \o Contents(Buffer(f, p))
  <1>1. PICK text \in Seq(Bytes) : text = files[f + 1]
    BY FilesLemma DEF FileNumbers, num_files
  <1>2. PICK size \in Nat : size = FileSize(f)
    BY FilesLemma
  <1>3. PICK from, to \in Nat : /\ from = p * page_size
                                /\ to = PageStart(size, p + 1)
    <2>1. /\ p * page_size \in 0 .. size
          /\ PageStart(size, p + 1) \in p * page_size .. size
      BY <1>2, PageStartLemma
    <2> QED BY <2>1
  <1>4. /\ PageStart(size, p) = from /\ from <= to /\ to <= size
        /\ to = from + (IF p = PagesIn(size) - 1
                        THEN LastPageSize(size) ELSE page_size)
    BY <1>2, <1>3, PageStartLemma
  <1>5. size = Len(text)
    BY <1>1, <1>2 DEF FileSize
  <1>6. Contents(Buffer(f, p)) = SubSeq(text, from + 1, to)
    BY <1>1, <1>2, <1>3, <1>4 DEF Contents, Buffer
  <1>7. /\ FileText(f, p) = SubSeq(text, 1, from)
        /\ FileText(f, p + 1) = SubSeq(text, 1, to)
    BY <1>1, <1>2, <1>3, <1>4 DEF FileText
  <1>8. /\ SubSeq(text, from + 1, to) \in Seq(Bytes)
        /\ SubSeq(text, 1, from) \in Seq(Bytes)
    BY <1>4, <1>5
  <1>9. SubSeq(text, 1, to)
          = SubSeq(text, 1, from) \o SubSeq(text, from + 1, to)
    <2>1. /\ 1 \in 1 .. Len(text) + 1
          /\ from \in 1 - 1 .. Len(text) /\ to \in from .. Len(text)
      BY <1>4, <1>5
    <2> QED BY <2>1, ConcatAdjacentSubSeq
  <1> QED BY <1>6, <1>7, <1>8, <1>9

\* The page at a place, and the bytes of the pages by their places.
PageAt(n) == CHOOSE b \in AllPages : PlaceOf(b) = n

Texts == [n \in 1 .. Cardinality(AllPages) |-> Contents(PageAt(n - 1))]

FirstPlace(f) == Cardinality(PagesBefore(f))

LEMMA PageAtItsPlace ==
    ASSUME files \in Inputs, NEW b \in AllPages
    PROVE  PageAt(PlaceOf(b)) = b
  <1>1. PageAt(PlaceOf(b)) \in AllPages
    BY DEF PageAt
  <1>2. PlaceOf(PageAt(PlaceOf(b))) = PlaceOf(b)
    BY DEF PageAt
  <1> QED BY <1>1, <1>2, PlaceIsUnique

LEMMA PagesHaveText ==
    ASSUME files \in Inputs
    PROVE  /\ Texts \in Seq(Seq(Bytes))
           /\ Cardinality(AllPages) \in Nat
           /\ Len(Texts) = Cardinality(AllPages)
  <1>1. Cardinality(AllPages) \in Nat
    BY AllPagesBefore
  <1>2. ASSUME NEW n \in 1 .. Cardinality(AllPages)
        PROVE  Contents(PageAt(n - 1)) \in Seq(Bytes)
    <2>1. n - 1 \in 0 .. Cardinality(AllPages) - 1
      BY <1>1
    <2>2. PICK b \in AllPages : PlaceOf(b) = n - 1
      BY <2>1, EverySlotHasAPage
    <2>3. PageAt(n - 1) = b
      BY <2>2, PageAtItsPlace
    <2>4. PICK f \in FileNumbers,
               p \in 0 .. PagesIn(FileSize(b.file_number)) - 1 :
              f = b.file_number /\ b = Buffer(f, p)
      BY AllPagesLemma
    <2>5. Contents(b) \in Seq(Bytes)
      BY <2>4, NextPageText
    <2> QED BY <2>3, <2>5
  <1> QED BY <1>1, <1>2 DEF Texts

\* Page p of file f comes after the pages of the files before and the p pages
\* before it.
LEMMA TextAtPlace ==
    ASSUME files \in Inputs, NEW f \in FileNumbers,
           NEW p \in 0 .. PagesIn(FileSize(f)) - 1
    PROVE  /\ FirstPlace(f) + p + 1 \in 1 .. Len(Texts)
           /\ Texts[FirstPlace(f) + p + 1] = Contents(Buffer(f, p))
           /\ FirstPlace(f) \in Nat
  <1>1. PICK b : b = Buffer(f, p)
    OBVIOUS
  <1>2. b \in AllPages /\ b.file_number = f /\ b.page_number = p
    BY <1>1, BufferLemma, AllPagesLemma
  <1>3. PICK n \in Nat : n = FirstPlace(f) /\ p \in Nat
    <2>1. num_files \in Nat /\ f \in 0 .. num_files
      BY FilesLemma DEF FileNumbers
    <2> QED BY <2>1, PagesBeforeLemma DEF FirstPlace
  <1>4. PlaceOf(b) = n + p
    BY <1>2, <1>3 DEF PlaceOf, FirstPlace, PagesBefore
  <1>5. PICK N \in Nat : N = Cardinality(AllPages) /\ N = Len(Texts)
    BY PagesHaveText
  <1>6. n + p \in 0 .. N - 1
    BY <1>2, <1>4, <1>5, PlaceIsInOutput
  <1>7. n + p + 1 \in 1 .. N /\ (n + p + 1) - 1 = n + p
    BY <1>3, <1>5, <1>6
  <1>8. Texts[n + p + 1] = Contents(PageAt(n + p))
    BY <1>5, <1>7 DEF Texts
  <1>9. PageAt(n + p) = b
    BY <1>2, <1>4, PageAtItsPlace
  <1> QED BY <1>1, <1>3, <1>5, <1>7, <1>8, <1>9

\* The first pages of a file spell its first bytes.
LEMMA PagesSpellFile ==
    ASSUME files \in Inputs, NEW f \in FileNumbers,
           NEW m \in 0 .. PagesIn(FileSize(f))
    PROVE  FlattenSeq(SubSeq(Texts, 1, FirstPlace(f) + m))
             = FlattenSeq(SubSeq(Texts, 1, FirstPlace(f))) \o FileText(f, m)
  <1> DEFINE Spelled(n) == FlattenSeq(SubSeq(Texts, 1, n))
  <1>1. PICK N, first \in Nat : /\ N = PagesIn(FileSize(f))
                                /\ first = FirstPlace(f)
    <2>1. num_files \in Nat /\ f \in 0 .. num_files
      BY FilesLemma DEF FileNumbers
    <2> QED BY <2>1, FilesLemma, PagesBeforeLemma DEF FirstPlace
  <1> DEFINE T == {p \in 0 .. N : Spelled(first + p)
                                    # Spelled(first) \o FileText(f, p)}
  <1>2. Texts \in Seq(Seq(Bytes))
    BY PagesHaveText
  <1>3. \A n \in 0 .. Len(Texts) : Spelled(n) \in Seq(Bytes)
    <2>1. \A n \in 0 .. Len(Texts) : SubSeq(Texts, 1, n) \in Seq(Seq(Bytes))
      BY <1>2
    <2> QED BY <2>1, FlattenType
  <1>4. first \in 0 .. Len(Texts)
    <2>1. /\ num_files \in Nat /\ f \in 0 .. num_files
          /\ num_files \in f .. num_files
      BY FilesLemma DEF FileNumbers
    <2>2. Cardinality(PagesBefore(f)) <= Cardinality(PagesBefore(num_files))
      BY <2>1, PagesBeforeMonotone
    <2> QED BY <1>1, <2>2, AllPagesBefore, PagesHaveText DEF FirstPlace
  <1>5. ASSUME T # {} PROVE FALSE
    <2>1. T \in SUBSET Nat
      BY <1>1
    <2>2. PICK p \in T : \A k \in T : p <= k
      BY <1>5, <2>1, Least
    <2>3. p \in 0 .. N /\ Spelled(first + p) # Spelled(first) \o FileText(f, p)
      OBVIOUS
    <2>4. CASE p = 0
      <3>1. PageStart(FileSize(f), 0) = 0
        <4>1. PICK size \in Nat : size = FileSize(f)
          BY FilesLemma
        <4>2. PagesIn(size) = 0 => size = 0
          <5>1. PagesIn(size) \in Nat /\ (size > 0 => PagesIn(size) > 0)
            BY PagesLemma
          <5> QED BY <5>1
        <4>3. 0 * page_size = 0
          BY PageAssumption
        <4> QED BY <4>1, <4>2, <4>3 DEF PageStart
      <3>2. FileText(f, 0) = <<>>
        <4>1. files[f + 1] \in Seq(Bytes)
          BY FilesLemma DEF FileNumbers, num_files
        <4> QED BY <3>1, <4>1 DEF FileText
      <3>3. Spelled(first) \o <<>> = Spelled(first)
        <4>1. Spelled(first) \in Seq(Bytes)
          BY <1>3, <1>4
        <4> HIDE DEF Spelled
        <4> QED BY <4>1
      <3>4. first + p = first
        BY <1>1, <2>4
      <3> QED BY <2>3, <2>4, <3>2, <3>3, <3>4
    <2>5. CASE p # 0
      <3>1. PICK q \in 0 .. N - 1 : q = p - 1 /\ p = q + 1
        BY <1>1, <2>3, <2>5
      <3>2. Spelled(first + q) = Spelled(first) \o FileText(f, q)
        <4>1. q \in 0 .. N /\ q \in Nat /\ p \in Nat /\ q < p
          BY <1>1, <2>1, <3>1
        <4> HIDE DEF T
        <4>2. q \notin T
          BY <2>2, <4>1
        <4> USE DEF T
        <4> QED BY <4>1, <4>2
      <3>3. /\ first + q + 1 \in 1 .. Len(Texts)
            /\ Texts[first + q + 1] = Contents(Buffer(f, q))
        BY <1>1, <3>1, TextAtPlace
      <3>4. PICK n : n = first + q + 1
        OBVIOUS
      <3>5. n - 1 = first + q /\ first + p = n
        <4>1. first \in Nat /\ q \in Nat
          BY <1>1, <3>1
        <4> HIDE DEF Spelled, T
        <4> QED BY <3>1, <3>4, <4>1
      <3>6. Spelled(n) = Spelled(n - 1) \o Texts[n]
        BY <1>2, <3>3, <3>4, FlattenSubSeq
      <3>7. /\ FileText(f, q) \in Seq(Bytes)
            /\ Contents(Buffer(f, q)) \in Seq(Bytes)
            /\ FileText(f, p) = FileText(f, q) \o Contents(Buffer(f, q))
        BY <1>1, <3>1, NextPageText
      <3>8. PICK a, b, c : /\ a = Spelled(first) /\ b = FileText(f, q)
                           /\ c = Contents(Buffer(f, q))
        OBVIOUS
      <3>9. (a \o b) \o c = a \o (b \o c)
        <4>1. a \in Seq(Bytes) /\ b \in Seq(Bytes) /\ c \in Seq(Bytes)
          BY <1>3, <1>4, <3>7, <3>8
        <4> HIDE DEF Spelled, T
        <4> QED BY <4>1, SMTT(30)
      <3> HIDE DEF Spelled, T
      <3>10. Spelled(n) = (a \o b) \o c
        BY <3>2, <3>3, <3>4, <3>5, <3>6, <3>8
      <3>11. Spelled(first) \o FileText(f, p) = a \o (b \o c)
        BY <3>7, <3>8
      <3> QED BY <2>3, <3>5, <3>9, <3>10, <3>11
    <2> QED BY <2>4, <2>5
  <1>6. m \in 0 .. N
    BY <1>1
  <1> HIDE DEF Spelled
  <1>7. Spelled(first + m) = Spelled(first) \o FileText(f, m)
    BY <1>5, <1>6
  <1> QED BY <1>1, <1>7 DEF Spelled

\* The pages of the first files spell these files.
LEMMA PagesSpellFiles ==
    ASSUME files \in Inputs, NEW m \in 0 .. num_files
    PROVE  FlattenSeq(SubSeq(Texts, 1, FirstPlace(m)))
             = FlattenSeq(SubSeq(files, 1, m))
  <1> DEFINE Spelled(n) == FlattenSeq(SubSeq(Texts, 1, FirstPlace(n)))
             T == {n \in 0 .. num_files :
                      Spelled(n) # FlattenSeq(SubSeq(files, 1, n))}
  <1>1. num_files \in Nat /\ files \in Seq(Seq(Bytes)) /\ num_files = Len(files)
    BY FilesLemma DEF num_files
  <1>2. ASSUME T # {} PROVE FALSE
    <2>1. T \in SUBSET Nat
      BY <1>1
    <2>2. PICK n \in T : \A k \in T : n <= k
      BY <1>2, <2>1, Least
    <2>3. /\ n \in 0 .. num_files
          /\ Spelled(n) # FlattenSeq(SubSeq(files, 1, n))
      OBVIOUS
    <2>4. CASE n = 0
      <3>1. PagesBefore(0) = {}
        BY DEF PagesBefore
      <3>2. FirstPlace(0) = 0
        BY <3>1, FS_EmptySet DEF FirstPlace
      <3>3. SubSeq(Texts, 1, 0) = <<>> /\ SubSeq(files, 1, 0) = <<>>
        BY <1>1, PagesHaveText
      <3> QED BY <2>3, <2>4, <3>2, <3>3
    <2>5. CASE n # 0
      <3>1. PICK f \in FileNumbers : f = n - 1 /\ n = f + 1
        BY <1>1, <2>3, <2>5 DEF FileNumbers
      <3>2. Spelled(f) = FlattenSeq(SubSeq(files, 1, f))
        <4>1. f \in 0 .. num_files /\ f \notin T
          BY <1>1, <2>1, <2>2, <3>1 DEF FileNumbers
        <4> QED BY <4>1
      <3>3. PICK N \in Nat : N = PagesIn(FileSize(f)) /\ N \in 0 .. N
        BY FilesLemma
      <3>4. FirstPlace(n) = FirstPlace(f) + N
        BY <1>1, <3>1, <3>3, PagesBeforeNextLemma DEF FirstPlace
      <3>5. FlattenSeq(SubSeq(Texts, 1, FirstPlace(f) + N))
              = FlattenSeq(SubSeq(Texts, 1, FirstPlace(f))) \o FileText(f, N)
        BY <3>3, PagesSpellFile
      <3>6. FileText(f, N) = files[n]
        <4>1. files[n] \in Seq(Bytes)
          BY <1>1, <3>1 DEF FileNumbers
        <4>2. PageStart(FileSize(f), N) = Len(files[n])
          BY <3>1, <3>3 DEF PageStart, FileSize
        <4>3. SubSeq(files[n], 1, Len(files[n])) = files[n]
          BY <4>1
        <4> QED BY <3>1, <4>2, <4>3 DEF FileText
      <3>7. FlattenSeq(SubSeq(files, 1, n))
              = FlattenSeq(SubSeq(files, 1, n - 1)) \o files[n]
        <4>1. n \in 1 .. Len(files)
          BY <1>1, <2>3, <2>5
        <4> QED BY <1>1, <4>1, FlattenSubSeq
      <3>8. Spelled(n) = Spelled(f) \o files[n]
        BY <3>4, <3>5, <3>6
      <3> HIDE DEF Spelled, T
      <3> QED BY <2>3, <3>1, <3>2, <3>7, <3>8
    <2> QED BY <2>4, <2>5
  <1>3. m \notin T
    BY <1>2
  <1> QED BY <1>3

\* The pages spell the input.
LEMMA PagesSpellInput ==
    ASSUME files \in Inputs PROVE FlattenSeq(Texts) = WholeInput
  <1>1. num_files \in Nat /\ files \in Seq(Seq(Bytes)) /\ num_files = Len(files)
    BY FilesLemma DEF num_files
  <1>2. FirstPlace(num_files) = Len(Texts)
    BY AllPagesBefore, PagesHaveText DEF FirstPlace
  <1>3. /\ SubSeq(Texts, 1, Len(Texts)) = Texts
        /\ SubSeq(files, 1, num_files) = files
    BY <1>1, PagesHaveText
  <1>4. FlattenSeq(SubSeq(Texts, 1, FirstPlace(num_files)))
          = FlattenSeq(SubSeq(files, 1, num_files))
    <2>1. num_files \in 0 .. num_files
      BY <1>1
    <2> QED BY <2>1, PagesSpellFiles
  <1> QED BY <1>2, <1>3, <1>4 DEF WholeInput

\* What the slots of the output array hold when main prints them is joined to
\* the compressed form of the input.
LEMMA JoinedPagesAreTheInput ==
    ASSUME files \in Inputs, StoredInPlace,
           total_pages = Cardinality(AllPages),
           0 .. total_pages - 1 \subseteq DOMAIN out
    PROVE  IsRunLengthOf(JoinPages([n \in 1 .. total_pages |-> out[n - 1]]),
                         WholeInput)
  <1>1. PICK slots : slots = [n \in 1 .. total_pages |-> out[n - 1]]
    OBVIOUS
  <1>2. /\ total_pages \in Nat /\ Texts \in Seq(Seq(Bytes))
        /\ Len(Texts) = total_pages
    BY PagesHaveText
  <1>3. ASSUME NEW n \in 1 .. total_pages
        PROVE  slots[n] = RLECompress(Texts[n])
    <2>1. n - 1 \in 0 .. total_pages - 1
      BY <1>2
    <2>2. PICK b \in AllPages : /\ PlaceOf(b) = n - 1
                                /\ out[n - 1] = RLECompress(Contents(b))
      BY <2>1 DEF StoredInPlace
    <2>3. PageAt(n - 1) = b
      BY <2>2, PageAtItsPlace
    <2> QED BY <1>1, <2>2, <2>3 DEF Texts
  <1>4. \A n \in 1 .. total_pages : /\ slots[n] \in Seq(RunsOver(Bytes))
                                    /\ IsRunLengthOf(slots[n], Texts[n])
    <2> SUFFICES ASSUME NEW n \in 1 .. total_pages
                 PROVE  /\ slots[n] \in Seq(RunsOver(Bytes))
                        /\ IsRunLengthOf(slots[n], Texts[n])
      OBVIOUS
    <2>1. PICK text \in Seq(Bytes) : text = Texts[n]
      BY <1>2
    <2>2. /\ RLECompress(text) \in Seq(RunsOver(Bytes))
          /\ IsRunLengthOf(RLECompress(text), text)
      BY CompressIsRight
    <2> QED BY <1>3, <2>1, <2>2
  <1>5. slots \in Seq(Seq(RunsOver(Bytes))) /\ Len(slots) = total_pages
    <2>1. \A n \in 1 .. total_pages : out[n - 1] \in Seq(RunsOver(Bytes))
      BY <1>1, <1>4
    <2> QED BY <1>1, <1>2, <2>1
  <1>6. IsRunLengthOf(JoinPages(slots), FlattenSeq(Texts))
    BY <1>2, <1>4, <1>5, JoinPagesIsRight
  <1> QED BY <1>1, <1>6, PagesSpellInput

LEMMA PrintedInit == Init => TotalIsRight /\ PrintedIsCompressed
  <1> SUFFICES ASSUME Init PROVE TotalIsRight /\ PrintedIsCompressed
    OBVIOUS
  <1>1. PagesBefore(0) = {}
    BY DEF PagesBefore
  <1>2. Cardinality(PagesBefore(0)) = 0
    BY <1>1, FS_EmptySet
  <1> QED BY <1>2 DEF Init, TotalIsRight, Opened, InFile, PrintedIsCompressed

LEMMA PrintedStep ==
    ASSUME TypeInv, PageInv, TotalIsRight, PrintedIsCompressed, [Next]_vars
    PROVE  PrintedIsCompressed'
  <1>1. files \in Inputs
    BY DEF TypeInv, TypeOK
  <1>2. CASE Next /\ PrintOutput /\ status' = "printed"
    <2>1. /\ ppc = "done" /\ files' = files
          /\ 0 .. total_pages - 1 \subseteq DOMAIN out
          /\ printed' = JoinPages([n \in 1 .. total_pages |-> out[n - 1]])
      BY <1>2 DEF PrintOutput
    <2>2. total_pages = Cardinality(AllPages)
      <3>1. Opened = num_files
        BY <2>1 DEF Opened, InFile, PageInv, CursorIsRight
      <3> QED BY <1>1, <3>1, AllPagesBefore DEF TotalIsRight
    <2>3. IsRunLengthOf(printed', WholeInput)
      BY <1>1, <2>1, <2>2, JoinedPagesAreTheInput DEF PageInv
    <2>4. WholeInput' = WholeInput
      BY <2>1 DEF WholeInput
    <2> QED BY <2>3, <2>4 DEF PrintedIsCompressed
  <1>3. CASE Next /\ status' # "printed"
    BY <1>3 DEF PrintedIsCompressed
  <1>4. CASE Next /\ ~PrintOutput /\ status' = "printed"
    <2>1. status = "running"
      BY <1>4 DEF Next
    <2>2. status' \in {status, "exit1", "undefined"}
      BY <1>4 DEF Next, OpenFile, OpenFails, CheckRoom, PutPage, SignalPut,
           SetComplete, LastBroadcast, TestQueue, Wait, StorePage, LoopTest,
           SpuriousWakeup
    <2> QED BY <1>4, <2>1, <2>2
  <1>5. CASE UNCHANGED vars
    BY <1>5 DEF vars, PrintedIsCompressed, WholeInput
  <1> QED BY <1>2, <1>3, <1>4, <1>5

\* Whatever the number of threads, the size of pages and the interleaving,
\* what pzip3 prints is the run-length compression of its input: no run is
\* split where a page or a file ends, and nothing is lost or doubled.
THEOREM PrintsTheCompressedInput ==
    NoGarbage /\ Spec => []PrintedIsCompressed
  <1>1. TypeInv /\ PageInv /\ TotalIsRight /\ PrintedIsCompressed
          /\ [Next]_vars => TotalIsRight' /\ PrintedIsCompressed'
    <2> SUFFICES ASSUME TypeInv, PageInv, TotalIsRight, PrintedIsCompressed,
                        [Next]_vars
                 PROVE  TotalIsRight' /\ PrintedIsCompressed'
      OBVIOUS
    <2>1. TotalIsRight'
      BY TotalStep
    <2>2. PrintedIsCompressed'
      BY PrintedStep
    <2> QED BY <2>1, <2>2
  <1>2. NoGarbage /\ Spec => [](TypeInv /\ PageInv)
    BY PageInvariant
  <1> QED BY <1>1, <1>2, PrintedInit, PTL DEF Spec
=============================================================================
