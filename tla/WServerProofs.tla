--------------------------- MODULE WServerProofs ---------------------------
(***************************************************************************)
(* Proofs about WServer, for any number of connections and workers, any    *)
(* size of the buffer, and any requests, under either schedule.            *)
(***************************************************************************)
EXTENDS WServer, FiniteSetTheorems, TLAPS

-----------------------------------------------------------------------------
(* The setup, and arithmetic of the ring.                                  *)

LEMMA SetupLemma ==
    ASSUME setup \in Setups
    PROVE  /\ schedule \in {"FIFO", "SFF"}
           /\ buffer_num \in Nat /\ buffer_num > 0
           /\ request \in [Conns -> RequestType]
           /\ \A c \in Conns : /\ request[c] \in RequestType
                               /\ SizeOf(c) \in Nat
                               /\ Status(request[c]) \in Statuses
                               /\ Status(request[c]) # "none"
  <1>1. setup \in SetupType
    BY SetupsAssumption
  <1>2. /\ schedule \in {"FIFO", "SFF"}
        /\ buffer_num \in Nat /\ buffer_num > 0
        /\ request \in [Conns -> RequestType]
    BY <1>1 DEF SetupType, schedule, buffer_num, request
  <1>3. ASSUME NEW c \in Conns
        PROVE  request[c] \in RequestType /\ SizeOf(c) \in Nat
    BY <1>2 DEF RequestType, SizeOf
  <1>4. \A r : Status(r) \in Statuses /\ Status(r) # "none"
    BY DEF Status, Statuses
  <1> QED BY <1>2, <1>3, <1>4

\* What depends on setup alone does not change.
LEMMA SetupStays ==
    ASSUME UNCHANGED setup
    PROVE  /\ schedule' = schedule /\ buffer_num' = buffer_num
           /\ request' = request /\ Slots' = Slots
  BY DEF schedule, buffer_num, request, Slots

LEMMA SlotsLemma ==
    ASSUME setup \in Setups, NEW s \in Slots
    PROVE  (s + 1) % buffer_num \in Slots
  BY SetupLemma DEF Slots

-----------------------------------------------------------------------------
(* Types.  TypeOK is not inductive: the SFF master tests whether there is  *)
(* room before it reads the request it then puts, and a worker closes the  *)
(* connection it took two steps before.                                    *)

\* With SFF one slot stays free, and the room the master has found is there
\* until it puts, for it holds the mutex.
RoomToPut ==
    /\ mpc \in {"reading", "sorting", "spinning"} => schedule = "SFF"
    /\ schedule = "SFF" => count < buffer_num
    /\ mpc = "reading" => count < buffer_num - 1

\* A worker that has answered has a connection to close.
ClosesConnection == \A w \in Workers : wpc[w] = "close" => tmp[w] \in Conns

TypeInv == TypeOK /\ RoomToPut /\ ClosesConnection

LEMMA TypeInit == Init => TypeInv
  <1> SUFFICES ASSUME Init PROVE TypeInv
    OBVIOUS
  <1>1. setup \in Setups /\ connected = <<>> /\ accepted = 0
    BY DEF Init
  <1>2. buffer_num \in Nat /\ buffer_num > 0 /\ 0 \in Slots
    BY <1>1, SetupLemma DEF Slots
  <1>3. connected \in Seq(Conns) /\ accepted \in 0 .. Len(connected)
    BY <1>1
  <1>4. TypeOK
    BY <1>1, <1>2, <1>3 DEF Init, TypeOK, Statuses
  <1> QED BY <1>2, <1>4 DEF Init, TypeInv, RoomToPut, ClosesConnection

\* The variables each group of actions leaves alone keep their types.
LEMMA TypeStep == TypeInv /\ [Next]_vars => TypeInv'
  <1> SUFFICES ASSUME TypeInv, [Next]_vars PROVE TypeInv'
    OBVIOUS
  <1> USE DEF TypeInv
  <1>1. /\ setup \in Setups
        /\ schedule \in {"FIFO", "SFF"}
        /\ buffer_num \in Nat /\ buffer_num > 0
        /\ \A c \in Conns : /\ Status(request[c]) \in Statuses
                            /\ Status(request[c]) # "none"
        /\ \A s \in Slots : (s + 1) % buffer_num \in Slots
    BY SetupLemma, SlotsLemma DEF TypeOK
  <1>2. UNCHANGED setup
    BY DEF Next, vars, clients, Connect, Send, Accept, MasterPut, MasterRoom,
           MasterRead, MasterSort, Take, Serve, Close, SpuriousWakeup
  <1>3. /\ schedule' = schedule /\ buffer_num' = buffer_num
        /\ request' = request /\ Slots' = Slots
    BY <1>2, SetupStays
  <1>4. ASSUME NEW c \in Conns, Connect(c) PROVE TypeInv'
    <2>1. /\ connected' \in Seq(Conns) /\ accepted' \in 0 .. Len(connected')
      BY <1>4 DEF Connect, TypeOK
    <2> QED BY <1>2, <1>3, <1>4, <2>1
            DEF Connect, TypeOK, RoomToPut, ClosesConnection, ring, sorted
  <1>5. ASSUME NEW c \in Conns, Send(c) PROVE TypeInv'
    BY <1>3, <1>5 DEF Send, TypeOK, RoomToPut, ClosesConnection, ring, sorted
  <1>6. CASE Accept
    <2>1. /\ accepted' \in 0 .. Len(connected')
          /\ conn_fd' \in Conns
      BY <1>6 DEF Accept, TypeOK, clients
    <2> QED BY <1>3, <1>6, <2>1
            DEF Accept, TypeOK, RoomToPut, ClosesConnection, clients, ring,
                sorted
  <1>7. ASSUME SignalFull
        PROVE  /\ wpc' \in [Workers -> {"test", "asleep", "serve", "close",
                                         "spinning"}]
               /\ \A w \in Workers : wpc'[w] = "close" => wpc[w] = "close"
    <2>1. CASE Idle = {}
      BY <1>7, <2>1 DEF SignalFull, TypeOK
    <2>2. CASE Idle # {}
      <3>1. PICK w \in Idle : wpc' = [wpc EXCEPT ![w] = "test"]
        BY <1>7, <2>2 DEF SignalFull
      <3> QED BY <3>1 DEF TypeOK
    <2> QED BY <2>1, <2>2
  <1>8. CASE MasterPut
    <2>1. CASE BufferFull /\ mpc' = "asleep"
                 /\ UNCHANGED <<conn_fd, ring, sorted, count, wpc>>
      BY <1>3, <1>8, <2>1
         DEF MasterPut, TypeOK, RoomToPut, ClosesConnection, clients, ring,
             sorted
    <2>2. CASE ~BufferFull /\ put(conn_fd) /\ SignalFull
                 /\ mpc' = "accept" /\ conn_fd' = None
      <3>1. schedule = "FIFO" /\ count < buffer_num
        BY <1>1, <1>8, <2>2 DEF MasterPut, BufferFull, TypeOK
      <3>2. /\ buffer' \in [Slots -> Conns \cup {None}]
            /\ fill' \in Slots /\ use' = use
            /\ count' \in 0 .. buffer_num
            /\ UNCHANGED sorted
        BY <1>1, <2>2, <3>1 DEF put, TypeOK
      <3> QED BY <1>3, <1>7, <1>8, <2>2, <3>1, <3>2
              DEF MasterPut, TypeOK, RoomToPut, ClosesConnection, clients,
                  sorted
    <2> QED BY <1>8, <2>1, <2>2 DEF MasterPut
  <1>9. CASE MasterRoom
    BY <1>1, <1>3, <1>9
       DEF MasterRoom, BufferFull, TypeOK, RoomToPut, ClosesConnection,
           clients, ring, sorted
  <1>10. CASE MasterRead
    <2>1. /\ mpc = "reading" /\ schedule = "SFF" /\ conn_fd \in Conns
          /\ count < buffer_num - 1
      BY <1>10 DEF MasterRead, RoomToPut, TypeOK
    <2>2. /\ UNCHANGED <<connected, sent, accepted, buffer, fill, use, wpc,
                         tmp, closed>>
      BY <1>10 DEF MasterRead, clients, ring
    <2>3. /\ mpc' \in {"reading", "sorting", "spinning"}
          /\ conn_fd' \in Conns \cup {None}
          /\ answer' \in [Conns -> Statuses]
          /\ crashed' \in BOOLEAN
      BY <1>1, <1>10, <2>1 DEF MasterRead, TypeOK
    <2>4. ASSUME NEW c \in Conns \cup {None}, put_sff(c)
          PROVE  /\ infor_buf' \in [Slots -> Conns \cup {None}]
                 /\ place' \in Slots
                 /\ count' \in 0 .. buffer_num - 1
      BY <1>1, <2>1, <2>4 DEF put_sff, TypeOK, Slots
    <2>5. \/ UNCHANGED <<sorted, count>> /\ mpc' = "spinning"
          \/ UNCHANGED <<sorted, count>> /\ mpc' = mpc
          \/ (put_sff(None) \/ put_sff(conn_fd)) /\ mpc' = "sorting"
      BY <1>10 DEF MasterRead
    <2>6. /\ infor_buf' \in [Slots -> Conns \cup {None}]
          /\ place' \in Slots
          /\ count' \in 0 .. buffer_num - 1
          /\ mpc' = "reading" => count' < buffer_num - 1
      BY <1>1, <2>1, <2>4, <2>5 DEF TypeOK, sorted
    <2> QED BY <1>1, <1>2, <1>3, <2>1, <2>2, <2>3, <2>6
            DEF TypeOK, RoomToPut, ClosesConnection
  <1>11. CASE MasterSort
    <2>1. UNCHANGED <<connected, sent, accepted, buffer, fill, use, count,
                      conn_fd, tmp, answer, closed>>
      BY <1>11 DEF MasterSort, clients, ring
    <2>2. CASE place > 0 /\ UNCHANGED <<mpc, wpc>>
      <3>1. place \in Slots /\ place - 1 \in Slots
        BY <1>1, <2>2 DEF TypeOK, Slots
      <3>2. SwapAt(infor_buf, place) \in [Slots -> Conns \cup {None}]
        BY <3>1 DEF SwapAt, TypeOK
      <3>3. /\ infor_buf' \in [Slots -> Conns \cup {None}]
            /\ place' \in Slots /\ crashed' \in BOOLEAN
        BY <1>11, <2>2, <3>1, <3>2 DEF MasterSort, TypeOK, sorted
      <3> QED BY <1>2, <1>3, <2>1, <2>2, <3>3
              DEF TypeOK, RoomToPut, ClosesConnection
    <2>3. CASE SignalFull /\ mpc' = "accept" /\ UNCHANGED <<sorted, crashed>>
      BY <1>2, <1>3, <1>7, <2>1, <2>3
         DEF TypeOK, RoomToPut, ClosesConnection, sorted
    <2> QED BY <1>11, <2>2, <2>3 DEF MasterSort
  <1>12. ASSUME NEW w \in Workers, Take(w) PROVE TypeInv'
    <2>1. UNCHANGED <<connected, sent, accepted, conn_fd, answer, closed,
                      crashed>> /\ MutexFree
      BY <1>12 DEF Take, clients
    <2>2. CASE count = 0 /\ wpc' = [wpc EXCEPT ![w] = "asleep"]
                 /\ UNCHANGED <<mpc, ring, sorted, count, tmp>>
      BY <1>2, <1>3, <2>1, <2>2
         DEF TypeOK, RoomToPut, ClosesConnection, ring, sorted
    <2>3. CASE /\ count # 0
               /\ IF schedule = "FIFO" THEN get(w) ELSE get_sff(w)
               /\ SignalEmpty
               /\ wpc' = [wpc EXCEPT ![w] = "serve"]
      <3>1. /\ mpc' \in {"accept", "room", "asleep"}
        BY <2>1, <2>3 DEF SignalEmpty, MutexFree, TypeOK
      <3>2. count \in 1 .. buffer_num /\ 0 \in Slots
        BY <1>1, <2>3 DEF TypeOK, Slots
      <3>3. CASE schedule = "FIFO" /\ get(w)
        <4>1. /\ tmp' \in [Workers -> Conns \cup {None}]
              /\ \A v \in Workers : v # w => tmp'[v] = tmp[v]
              /\ use' \in Slots
              /\ count' \in 0 .. buffer_num
              /\ UNCHANGED <<buffer, fill, infor_buf, place>>
          BY <1>1, <3>2, <3>3 DEF get, sorted, TypeOK
        <4> QED BY <1>2, <1>3, <2>1, <2>3, <3>1, <3>3, <4>1
                DEF TypeOK, RoomToPut, ClosesConnection
      <3>4. CASE schedule = "SFF" /\ get_sff(w)
        <4>1. \A s \in Slots : s + 1 < count => s + 1 \in Slots
          BY <1>1, <3>2 DEF Slots
        <4>2. /\ tmp' \in [Workers -> Conns \cup {None}]
              /\ \A v \in Workers : v # w => tmp'[v] = tmp[v]
              /\ infor_buf' \in [Slots -> Conns \cup {None}]
              /\ count' \in 0 .. buffer_num
              /\ count' < buffer_num
              /\ UNCHANGED <<buffer, fill, use, place>>
          BY <1>1, <3>2, <3>4, <4>1 DEF get_sff, ring, TypeOK, RoomToPut
        <4> QED BY <1>2, <1>3, <2>1, <2>3, <3>1, <3>4, <4>2
                DEF TypeOK, RoomToPut, ClosesConnection
      <3> QED BY <1>1, <2>3, <3>3, <3>4
    <2> QED BY <1>12, <2>2, <2>3 DEF Take
  <1>13. ASSUME NEW w \in Workers, Serve(w) PROVE TypeInv'
    <2>1. /\ UNCHANGED <<connected, sent, accepted, mpc, conn_fd, buffer, fill,
                         use, infor_buf, place, count, tmp, closed>>
      BY <1>13 DEF Serve, clients, ring, sorted
    <2>2. \/ UNCHANGED <<wpc, answer>>
          \/ /\ wpc' = [wpc EXCEPT ![w] = "spinning"]
             /\ UNCHANGED answer
          \/ /\ tmp[w] \in Conns
             /\ answer' = [answer EXCEPT ![tmp[w]] = Status(request[tmp[w]])]
             /\ wpc' = [wpc EXCEPT ![w] = "close"] \/ wpc' = wpc
      BY <1>13 DEF Serve, TypeOK
    <2>3. crashed' \in BOOLEAN
      BY <1>13 DEF Serve, TypeOK
    <2>4. /\ answer' \in [Conns -> Statuses]
          /\ wpc' \in [Workers -> {"test", "asleep", "serve", "close",
                                    "spinning"}]
          /\ \A v \in Workers : wpc'[v] = "close" => tmp[v] \in Conns
      <3>1. CASE UNCHANGED <<wpc, answer>>
        BY <3>1 DEF TypeOK, ClosesConnection
      <3>2. CASE wpc' = [wpc EXCEPT ![w] = "spinning"] /\ UNCHANGED answer
        BY <3>2 DEF TypeOK, ClosesConnection
      <3>3. CASE /\ tmp[w] \in Conns
                 /\ answer' = [answer EXCEPT ![tmp[w]] =
                                  Status(request[tmp[w]])]
                 /\ wpc' = [wpc EXCEPT ![w] = "close"] \/ wpc' = wpc
        <4>1. Status(request[tmp[w]]) \in Statuses
          BY <1>1, <3>3
        <4>2. answer' \in [Conns -> Statuses]
          BY <3>3, <4>1 DEF TypeOK
        <4> QED BY <3>3, <4>2 DEF TypeOK, ClosesConnection
      <3> QED BY <2>2, <3>1, <3>2, <3>3
    <2> QED BY <1>2, <1>3, <2>1, <2>3, <2>4
            DEF TypeOK, RoomToPut, ClosesConnection
  <1>14. ASSUME NEW w \in Workers, Close(w) PROVE TypeInv'
    <2>1. tmp[w] \in Conns
      BY <1>14 DEF Close, ClosesConnection
    <2> QED BY <1>2, <1>3, <1>14, <2>1
            DEF Close, TypeOK, RoomToPut, ClosesConnection, clients, ring,
                sorted
  <1>15. CASE SpuriousWakeup
    <2>1. /\ UNCHANGED <<connected, sent, accepted, conn_fd, buffer, fill, use,
                         infor_buf, place, count, tmp, answer, closed, crashed>>
      BY <1>15 DEF SpuriousWakeup, clients, ring, sorted
    <2>2. \/ mpc' = mpc /\ \E w \in Workers : wpc' = [wpc EXCEPT ![w] = "test"]
          \/ mpc' = "room" /\ wpc' = wpc
      BY <1>15 DEF SpuriousWakeup, Idle
    <2>3. /\ wpc' \in [Workers -> {"test", "asleep", "serve", "close",
                                    "spinning"}]
          /\ \A v \in Workers : wpc'[v] = "close" => wpc[v] = "close"
          /\ mpc' \in {mpc, "room"}
      BY <2>2 DEF TypeOK
    <2> QED BY <1>2, <1>3, <2>1, <2>3 DEF TypeOK, RoomToPut, ClosesConnection
  <1>16. CASE UNCHANGED vars
    BY <1>3, <1>16
       DEF vars, TypeOK, RoomToPut, ClosesConnection, clients, ring, sorted
  <1> QED BY <1>4, <1>5, <1>6, <1>8, <1>9, <1>10, <1>11, <1>12, <1>13, <1>14,
             <1>15, <1>16 DEF Next

\* Every variable of the server has its type, whatever the threads and the
\* clients do; the indices of the ring and of the sorted array stay inside.
THEOREM TypeCorrect == Spec => []TypeOK
  <1>1. TypeInv => TypeOK
    BY DEF TypeInv
  <1> QED BY <1>1, TypeInit, TypeStep, PTL DEF Spec

-----------------------------------------------------------------------------
(* The condition variables.  Every action either leaves the workers that   *)
(* are on their way to the buffer alone, or adds one, or takes one away;   *)
(* what it does to count goes along with that.                             *)

Testing == {w \in Workers : wpc[w] = "test"}

\* How many of the waiting connections the master has still to signal.
Unsignalled == IF mpc = "sorting" THEN 1 ELSE 0

LEMMA TestingLemma ==
    /\ IsFiniteSet(Testing)
    /\ Cardinality(Testing) \in Nat
  <1>1. IsFiniteSet(Testing)
    BY ThreadsAssumption, FS_Subset DEF Testing
  <1> QED BY <1>1, FS_CardinalityType

LEMMA TestingGrows ==
    ASSUME TypeOK, NEW w \in Workers, wpc[w] # "test",
           wpc' = [wpc EXCEPT ![w] = "test"]
    PROVE  Cardinality(Testing') = Cardinality(Testing) + 1
  <1>1. Testing' = Testing \cup {w} /\ w \notin Testing
    BY DEF Testing, TypeOK
  <1> QED BY <1>1, TestingLemma, FS_AddElement

LEMMA TestingShrinks ==
    ASSUME TypeOK, NEW w \in Workers, NEW pc, wpc[w] = "test", pc # "test",
           wpc' = [wpc EXCEPT ![w] = pc]
    PROVE  Cardinality(Testing') = Cardinality(Testing) - 1
  <1>1. Testing' = Testing \ {w} /\ w \in Testing
    BY DEF Testing, TypeOK
  <1> QED BY <1>1, TestingLemma, FS_RemoveElement

\* A signal wakes a worker, or there was none to wake.
LEMMA SignalLemma ==
    ASSUME TypeOK, SignalFull
    PROVE  \/ Idle' = {}
           \/ Idle # {} /\ Cardinality(Testing') = Cardinality(Testing) + 1
  <1>1. CASE Idle = {}
    BY <1>1 DEF SignalFull, Idle
  <1>2. CASE Idle # {}
    <2>1. PICK w \in Idle : wpc' = [wpc EXCEPT ![w] = "test"]
      BY <1>2 DEF SignalFull
    <2> QED BY <1>2, <2>1, TestingGrows DEF Idle
  <1> QED BY <1>1, <1>2

\* Nobody who sleeps could go on: the two halves of NoLostWakeup.
WorkersAreWoken ==
    Idle # {} => count <= Cardinality(Testing) + Unsignalled

MasterIsWoken == mpc = "asleep" => BufferFull

LEMMA WakeupLemma == NoLostWakeup <=> WorkersAreWoken /\ MasterIsWoken
  BY DEF NoLostWakeup, WorkersAreWoken, MasterIsWoken, Testing, Unsignalled,
         BufferFull

LEMMA WakeupInit == Init => WorkersAreWoken /\ MasterIsWoken
  BY DEF Init, WorkersAreWoken, MasterIsWoken, Idle

LEMMA WakeupStep ==
    /\ TypeInv /\ WorkersAreWoken /\ MasterIsWoken
    /\ [Next]_vars
    => (WorkersAreWoken /\ MasterIsWoken)'
  <1> SUFFICES ASSUME TypeInv, WorkersAreWoken, MasterIsWoken, [Next]_vars
               PROVE  (WorkersAreWoken /\ MasterIsWoken)'
    OBVIOUS
  <1>1. TypeOK /\ count \in Nat /\ RoomToPut
    BY SetupLemma DEF TypeInv, TypeOK
  <1>2. /\ Cardinality(Testing) \in Nat /\ IsFiniteSet(Testing)
    BY TestingLemma
  \* Steps that leave alone what the invariant is about, and those that send
  \* a worker that is not asleep on its way to the buffer.
  <1>3. ASSUME UNCHANGED <<setup, count, mpc, wpc>>
        PROVE  (WorkersAreWoken /\ MasterIsWoken)'
    BY <1>3, SetupStays DEF WorkersAreWoken, MasterIsWoken, Idle, Testing,
       Unsignalled, BufferFull
  <1>4. ASSUME UNCHANGED <<setup, count, mpc>>,
               NEW w \in Workers, NEW pc, wpc[w] # "test", pc # "asleep",
               wpc' = [wpc EXCEPT ![w] = pc]
        PROVE  (WorkersAreWoken /\ MasterIsWoken)'
    <2>1. Idle' \subseteq Idle
      BY <1>1, <1>4 DEF Idle, TypeOK
    <2>2. Cardinality(Testing') >= Cardinality(Testing)
      <3>1. CASE pc = "test"
        <4>1. wpc' = [wpc EXCEPT ![w] = "test"]
          BY <1>4, <3>1
        <4>2. Cardinality(Testing') = Cardinality(Testing) + 1
          BY <1>1, <1>4, <4>1, TestingGrows
        <4> QED BY <1>2, <4>2
      <3>2. CASE pc # "test"
        <4>1. Testing' = Testing
          BY <1>1, <1>4, <3>2 DEF Testing, TypeOK
        <4> QED BY <1>2, <4>1
      <3> QED BY <3>1, <3>2
    <2>3. Cardinality(Testing') \in Nat
      <3>1. Testing' \subseteq Workers
        BY DEF Testing
      <3> QED BY <3>1, ThreadsAssumption, FS_Subset, FS_CardinalityType
    <2> QED BY <1>1, <1>2, <1>4, <2>1, <2>2, <2>3, SetupStays
            DEF WorkersAreWoken, MasterIsWoken, Unsignalled, BufferFull
  <1>5. ASSUME NEW c \in Conns, Connect(c) \/ Send(c)
        PROVE  (WorkersAreWoken /\ MasterIsWoken)'
    BY <1>3, <1>5 DEF Connect, Send
  <1>6. CASE Accept
    BY <1>6, SetupStays DEF Accept, clients, WorkersAreWoken, MasterIsWoken,
       Idle, Testing, Unsignalled
  <1>7. CASE MasterPut
    <2>1. UNCHANGED setup /\ mpc = "room"
      BY <1>7 DEF MasterPut, clients
    <2>2. CASE BufferFull /\ mpc' = "asleep" /\ UNCHANGED <<count, wpc>>
      BY <2>1, <2>2, SetupStays DEF WorkersAreWoken, MasterIsWoken, Idle,
         Testing, Unsignalled, BufferFull
    <2>3. CASE put(conn_fd) /\ SignalFull /\ mpc' = "accept"
      <3>1. count' = count + 1
        BY <2>3 DEF put
      <3> QED BY <1>1, <1>2, <2>1, <2>3, <3>1, SignalLemma
              DEF WorkersAreWoken, MasterIsWoken, Unsignalled
    <2> QED BY <1>7, <2>2, <2>3 DEF MasterPut
  <1>8. CASE MasterRoom
    BY <1>8, SetupStays DEF MasterRoom, clients, WorkersAreWoken,
       MasterIsWoken, Idle, Testing, Unsignalled, BufferFull
  <1>9. CASE MasterRead
    <2>1. /\ UNCHANGED <<setup, wpc>> /\ mpc = "reading"
          /\ Idle' = Idle /\ Testing' = Testing
      BY <1>9 DEF MasterRead, clients, Idle, Testing
    <2>2. \/ count' = count /\ mpc' \in {"reading", "spinning"}
          \/ count' = count + 1 /\ mpc' = "sorting"
      BY <1>9, <2>1 DEF MasterRead, put_sff
    <2> QED BY <1>1, <1>2, <2>1, <2>2
            DEF WorkersAreWoken, MasterIsWoken, Unsignalled
  <1>10. CASE MasterSort
    <2>1. UNCHANGED <<setup, count>> /\ mpc = "sorting"
      BY <1>10 DEF MasterSort, clients
    <2>2. CASE UNCHANGED <<mpc, wpc>>
      BY <1>3, <2>1, <2>2
    <2>3. CASE SignalFull /\ mpc' = "accept"
      BY <1>1, <1>2, <2>1, <2>3, SignalLemma
         DEF WorkersAreWoken, MasterIsWoken, Unsignalled
    <2> QED BY <1>10, <2>2, <2>3 DEF MasterSort
  <1>11. ASSUME NEW w \in Workers, Take(w)
         PROVE  (WorkersAreWoken /\ MasterIsWoken)'
    <2>1. UNCHANGED setup /\ wpc[w] = "test" /\ mpc # "sorting"
      BY <1>11 DEF Take, clients, MutexFree
    <2>2. CASE count = 0 /\ wpc' = [wpc EXCEPT ![w] = "asleep"]
                 /\ UNCHANGED <<mpc, count>>
      <3>1. Cardinality(Testing') \in Nat
        <4>1. Testing' \subseteq Workers
          BY DEF Testing
        <4> QED BY <4>1, ThreadsAssumption, FS_Subset, FS_CardinalityType
      <3> QED BY <1>1, <2>1, <2>2, <3>1, SetupStays
              DEF WorkersAreWoken, MasterIsWoken, Unsignalled, BufferFull
    <2>3. CASE /\ count' = count - 1 /\ SignalEmpty
               /\ wpc' = [wpc EXCEPT ![w] = "serve"]
      <3>1. Cardinality(Testing') = Cardinality(Testing) - 1
        BY <1>1, <2>1, <2>3, TestingShrinks
      <3>2. Idle' = Idle
        BY <1>1, <2>1, <2>3 DEF Idle, TypeOK
      <3>3. mpc' \notin {"asleep", "sorting"}
        BY <2>1, <2>3 DEF SignalEmpty
      <3> QED BY <1>1, <1>2, <2>1, <2>3, <3>1, <3>2, <3>3
              DEF WorkersAreWoken, MasterIsWoken, Unsignalled
    <2> QED BY <1>11, <2>2, <2>3 DEF Take, get, get_sff
  <1>12. ASSUME NEW w \in Workers, Serve(w)
         PROVE  (WorkersAreWoken /\ MasterIsWoken)'
    <2>1. /\ UNCHANGED <<setup, count, mpc>> /\ wpc[w] # "test"
          /\ \/ wpc' = wpc
             \/ wpc' = [wpc EXCEPT ![w] = "spinning"]
             \/ wpc' = [wpc EXCEPT ![w] = "close"]
      BY <1>12 DEF Serve, clients
    <2> QED BY <1>3, <1>4, <2>1
  <1>13. ASSUME NEW w \in Workers, Close(w)
         PROVE  (WorkersAreWoken /\ MasterIsWoken)'
    BY <1>4, <1>13 DEF Close, clients
  <1>14. CASE SpuriousWakeup
    <2>1. CASE mpc = "asleep" /\ mpc' = "room" /\ UNCHANGED wpc
      BY <1>14, <2>1 DEF SpuriousWakeup, WorkersAreWoken, MasterIsWoken, Idle,
         Testing, Unsignalled
    <2>2. CASE (\E w \in Idle : wpc' = [wpc EXCEPT ![w] = "test"])
                 /\ UNCHANGED mpc
      <3>1. PICK w \in Idle : wpc' = [wpc EXCEPT ![w] = "test"]
        BY <2>2
      <3> QED BY <1>4, <1>14, <2>2, <3>1 DEF SpuriousWakeup, clients, Idle
    <2> QED BY <1>14, <2>1, <2>2 DEF SpuriousWakeup
  <1>15. CASE UNCHANGED vars
    BY <1>3, <1>15 DEF vars, clients
  <1> QED BY <1>5, <1>6, <1>7, <1>8, <1>9, <1>10, <1>11, <1>12, <1>13, <1>14,
             <1>15 DEF Next

\* No wakeup is lost: a worker sleeps only while other workers are on their
\* way to every connection that waits, and the master only while there is no
\* room.  pthread_cond_signal in place of a broadcast is enough, for every
\* number of workers and every size of the buffer.
THEOREM NoWakeupIsLost == Spec => []NoLostWakeup
  <1> DEFINE IInv == TypeInv /\ WorkersAreWoken /\ MasterIsWoken
  <1>1. Init => IInv
    BY TypeInit, WakeupInit
  <1>2. IInv /\ [Next]_vars => IInv'
    BY TypeStep, WakeupStep
  <1>3. IInv => NoLostWakeup
    BY WakeupLemma
  <1> QED BY <1>1, <1>2, <1>3, PTL DEF Spec

-----------------------------------------------------------------------------
(* Where the connections are.  A connection moves from the master to the   *)
(* buffer to a worker and is closed, or is refused; the inductive          *)
(* invariant says for each place who can be there.                         *)

\* No client is connected twice.
ConnectedOnce ==
    \A m, n \in 1 .. Len(connected) : connected[m] = connected[n] => m = n

\* The ring is filled up to fill, the sorted array up to count.
BufferIsRight ==
    /\ schedule = "FIFO" => fill = (use + count) % buffer_num
    /\ mpc = "sorting" => place < count

\* The master has a connection from accept to put, a worker from take to
\* close.
HandsAreRight ==
    /\ mpc \in {"accept", "sorting"} <=> conn_fd = None
    /\ \A w \in Workers : wpc[w] \in {"test", "asleep"} => tmp[w] = None

Waits(c) == \E n \in 1 .. count : Buffered[n] = c
IsServed(c) == \E w \in Workers : tmp[w] = c

\* No connection is twice in the buffer, or with two workers.
WaitsOnce ==
    \A m, n \in 1 .. count :
        Buffered[m] = Buffered[n] /\ Buffered[m] # None => m = n
ServedOnce ==
    \A v, w \in Workers : tmp[v] = tmp[w] /\ tmp[v] # None => v = w

\* The places exclude each other.
Elsewhere ==
    \A c \in Conns :
        /\ conn_fd = c => ~Waits(c) /\ ~IsServed(c)
        /\ Waits(c) => ~IsServed(c)
        /\ c \in closed \cup Refused =>
               conn_fd # c /\ ~Waits(c) /\ ~IsServed(c)
        /\ c \in closed => c \notin Refused

\* Together they have all that are accepted.
Somewhere ==
    \A c \in Conns :
        c \in Accepted <=> \/ conn_fd = c \/ Waits(c) \/ IsServed(c)
                           \/ c \in closed \/ c \in Refused

\* A connection is answered while a worker has it, or when it is refused;
\* with SFF what file_size refuses gets no further.
Answered ==
    /\ \A c \in Conns :
          /\ answer[c] # "none" => /\ answer[c] = Status(request[c])
                                   /\ c \in Accepted
                                   /\ conn_fd # c /\ ~Waits(c)
          /\ c \in closed => answer[c] # "none"
          /\ schedule = "SFF" /\ (Waits(c) \/ IsServed(c)) =>
                 ~file_size_fails(request[c])
    /\ \A w \in Workers : wpc[w] = "close" => answer[tmp[w]] # "none"

\* The NULL in the buffer, or with a worker, comes from a request that
\* file_size has refused.
SomeRefused ==
    \E c \in sent : schedule = "SFF" /\ file_size_fails(request[c])

NullHasCause ==
    /\ Waits(None) => SomeRefused
    /\ \A w \in Workers : wpc[w] = "serve" /\ tmp[w] = None => SomeRefused

PlaceInv ==
    /\ ConnectedOnce /\ BufferIsRight /\ HandsAreRight
    /\ WaitsOnce /\ ServedOnce /\ Elsewhere /\ Somewhere
    /\ Answered /\ NullHasCause /\ CrashHasCause

-----------------------------------------------------------------------------
(* What the operations do to the sequence of those that wait, whichever    *)
(* array they are in.                                                      *)

LEMMA ModuloLemma ==
    ASSUME NEW b \in Nat, b > 0, NEW t \in 0 .. b - 1, NEW n \in 0 .. b
    PROVE  (t + n) % b = IF t + n < b THEN t + n ELSE t + n - b
  <1>1. ASSUME NEW x \in Nat, x < b PROVE x % b = x
    BY <1>1
  <1>2. ASSUME NEW x \in Nat, x >= b, x < 2 * b PROVE x % b = x - b
    BY <1>2
  <1> QED BY <1>1, <1>2

\* The slot of the n-th connection that waits.
SlotOf(n) == IF schedule = "FIFO" THEN (use + (n - 1)) % buffer_num ELSE n - 1

LEMMA SlotOfLemma ==
    ASSUME TypeOK, NEW n \in 1 .. count
    PROVE  /\ SlotOf(n) \in Slots
           /\ schedule = "FIFO" =>
                  SlotOf(n) = IF use + (n - 1) < buffer_num
                              THEN use + (n - 1)
                              ELSE use + (n - 1) - buffer_num
           /\ schedule # "FIFO" => SlotOf(n) = n - 1
           /\ Buffered[n] = IF schedule = "FIFO" THEN buffer[SlotOf(n)]
                                                ELSE infor_buf[SlotOf(n)]
           /\ Buffered[n] \in Conns \cup {None}
  <1>1. /\ buffer_num \in Nat /\ buffer_num > 0
        /\ count \in 0 .. buffer_num /\ n \in Nat /\ n - 1 \in 0 .. buffer_num
        /\ use \in 0 .. buffer_num - 1
    BY SetupLemma DEF TypeOK, Slots
  <1>2. schedule = "FIFO" =>
            SlotOf(n) = IF use + (n - 1) < buffer_num
                        THEN use + (n - 1) ELSE use + (n - 1) - buffer_num
    BY <1>1, ModuloLemma DEF SlotOf
  <1>3. schedule # "FIFO" => SlotOf(n) = n - 1
    BY DEF SlotOf
  <1>4. SlotOf(n) \in Slots
    BY <1>1, <1>2, <1>3 DEF Slots
  <1>5. use + n - 1 = use + (n - 1)
    BY <1>1
  <1>6. Buffered[n] = IF schedule = "FIFO" THEN buffer[SlotOf(n)]
                                           ELSE infor_buf[SlotOf(n)]
    BY <1>5 DEF Buffered, SlotOf
  <1> QED BY <1>2, <1>3, <1>4, <1>6 DEF TypeOK

LEMMA BufferedFrame ==
    ASSUME UNCHANGED <<setup, ring, sorted, count>>
    PROVE  Buffered' = Buffered /\ \A c : Waits(c)' <=> Waits(c)
  BY SetupStays DEF ring, sorted, Buffered, Waits

\* put and put_sff append.
LEMMA PutLemma ==
    ASSUME TypeInv, BufferIsRight, UNCHANGED setup, NEW c,
           \/ schedule = "FIFO" /\ count < buffer_num /\ put(c)
           \/ /\ schedule = "SFF" /\ count < buffer_num - 1
              /\ put_sff(c) /\ UNCHANGED ring
    PROVE  /\ count' = count + 1
           /\ \A n \in 1 .. count : Buffered'[n] = Buffered[n]
           /\ Buffered'[count + 1] = c
           /\ schedule = "FIFO" => fill' = (use' + count') % buffer_num
  <1>1. /\ buffer_num \in Nat /\ buffer_num > 0 /\ TypeOK
        /\ count \in Nat /\ use \in 0 .. buffer_num - 1
        /\ fill \in 0 .. buffer_num - 1
        /\ schedule' = schedule /\ buffer_num' = buffer_num
    BY SetupLemma, SetupStays DEF TypeInv, TypeOK, Slots
  <1>2. count' = count + 1
    BY DEF put, put_sff
  <1>3. CASE schedule = "FIFO" /\ count < buffer_num /\ put(c)
    <2>1. /\ buffer' = [buffer EXCEPT ![fill] = c] /\ use' = use
          /\ fill' = (fill + 1) % buffer_num
      BY <1>3 DEF put
    <2>2. fill = IF use + count < buffer_num THEN use + count
                                             ELSE use + count - buffer_num
      BY <1>1, <1>3, ModuloLemma DEF BufferIsRight
    <2>3. ASSUME NEW n \in 1 .. count PROVE Buffered'[n] = Buffered[n]
      <3>1. SlotOf(n) \in Slots /\ SlotOf(n) # fill
        BY <1>1, <1>3, <2>2, SlotOfLemma
      <3>2. Buffered[n] = buffer[SlotOf(n)]
        BY <1>1, <1>3, SlotOfLemma
      <3>3. Buffered'[n] = buffer'[SlotOf(n)]
        <4>1. use + n - 1 = use + (n - 1) /\ n \in 1 .. count + 1
          BY <1>1
        <4> QED BY <1>1, <1>2, <1>3, <2>1, <4>1 DEF Buffered, SlotOf
      <3> QED BY <1>1, <2>1, <3>1, <3>2, <3>3 DEF TypeOK
    <2>4. Buffered'[count + 1] = c
      <3>1. Buffered'[count + 1] = buffer'[(use + (count + 1) - 1) % buffer_num]
        BY <1>1, <1>2, <1>3, <2>1 DEF Buffered
      <3>2. use + (count + 1) - 1 = use + count
        BY <1>1
      <3>3. Buffered'[count + 1] = buffer'[fill] /\ fill \in Slots
        BY <1>3, <3>1, <3>2, <1>1 DEF BufferIsRight, Slots
      <3> QED BY <1>1, <2>1, <3>3 DEF TypeOK
    <2>5. fill' = (use' + count') % buffer_num
      <3>1. fill' = IF fill + 1 < buffer_num THEN fill + 1 ELSE 0
        BY <1>1, <2>1, ModuloLemma
      <3>2. (use + (count + 1)) % buffer_num =
                IF use + (count + 1) < buffer_num THEN use + (count + 1)
                ELSE use + (count + 1) - buffer_num
        BY <1>1, <1>3, ModuloLemma
      <3>3. (use + (count + 1)) % buffer_num = fill'
        BY <1>1, <1>3, <2>2, <3>1, <3>2
      <3> QED BY <1>2, <2>1, <3>3
    <2> QED BY <1>2, <2>3, <2>4, <2>5
  <1>4. CASE /\ schedule = "SFF" /\ count < buffer_num - 1
             /\ put_sff(c) /\ UNCHANGED ring
    <2>1. /\ infor_buf' = [infor_buf EXCEPT ![count] = c]
          /\ count \in Slots
      BY <1>1, <1>4 DEF put_sff, Slots
    <2>2. infor_buf \in [Slots -> Conns \cup {None}]
      BY <1>1 DEF TypeOK
    <2>3. \A n \in 1 .. count + 1 : /\ n - 1 \in Slots
                                    /\ n - 1 = count <=> n = count + 1
      BY <1>1, <1>4 DEF Slots
    <2>4. Buffered' = [n \in 1 .. count + 1 |-> infor_buf'[n - 1]]
      BY <1>1, <1>2, <1>4 DEF Buffered
    <2>5. Buffered = [n \in 1 .. count |-> infor_buf[n - 1]]
      BY <1>4 DEF Buffered
    <2>6. \A n \in 1 .. count : n \in 1 .. count + 1 /\ n # count + 1
      BY <1>1
    <2>7. count + 1 \in 1 .. count + 1
      BY <1>1
    <2> QED BY <1>2, <1>4, <2>1, <2>2, <2>3, <2>4, <2>5, <2>6, <2>7
  <1> QED BY <1>3, <1>4

\* get and get_sff take the first away.
LEMMA GetLemma ==
    ASSUME TypeInv, BufferIsRight, UNCHANGED setup, NEW w \in Workers,
           count # 0, IF schedule = "FIFO" THEN get(w) ELSE get_sff(w)
    PROVE  /\ count' = count - 1
           /\ \A n \in 1 .. count - 1 : Buffered'[n] = Buffered[n + 1]
           /\ tmp' = [tmp EXCEPT ![w] = Buffered[1]]
           /\ schedule = "FIFO" => fill' = (use' + count') % buffer_num
  <1>1. /\ buffer_num \in Nat /\ buffer_num > 0 /\ TypeOK
        /\ count \in Nat /\ count \in 0 .. buffer_num
        /\ use \in 0 .. buffer_num - 1
        /\ schedule' = schedule /\ buffer_num' = buffer_num
        /\ schedule \in {"FIFO", "SFF"}
    BY SetupLemma, SetupStays DEF TypeInv, TypeOK, Slots
  <1>2. count' = count - 1 /\ 1 \in 1 .. count
    BY <1>1 DEF get, get_sff
  <1>3. CASE schedule = "FIFO" /\ get(w)
    <2>1. /\ buffer' = buffer /\ use' = (use + 1) % buffer_num /\ fill' = fill
          /\ tmp' = [tmp EXCEPT ![w] = buffer[use]]
      BY <1>3 DEF get
    <2>2. use' = IF use + 1 < buffer_num THEN use + 1 ELSE 0
      BY <1>1, <2>1, ModuloLemma
    <2>3. Buffered[1] = buffer[use]
      <3>1. SlotOf(1) = use
        BY <1>1, <1>2, <1>3, SlotOfLemma
      <3> QED BY <1>1, <1>2, <1>3, <3>1, SlotOfLemma
    <2>4. ASSUME NEW n \in 1 .. count - 1
          PROVE  Buffered'[n] = Buffered[n + 1]
      <3>1. n + 1 \in 1 .. count /\ (n + 1) - 1 = n /\ n \in Nat
        BY <1>1
      <3>2. Buffered[n + 1] = buffer[(use + n) % buffer_num]
        BY <1>1, <1>3, <3>1, SlotOfLemma DEF SlotOf
      <3>3. Buffered'[n] = buffer[(use' + n - 1) % buffer_num]
        BY <1>1, <1>2, <1>3, <2>1 DEF Buffered
      <3>4. (use' + n - 1) % buffer_num = (use + n) % buffer_num
        <4>1. /\ use' \in 0 .. buffer_num - 1 /\ n - 1 \in 0 .. buffer_num
              /\ n \in 0 .. buffer_num
              /\ use' + n - 1 = use' + (n - 1)
          BY <1>1, <2>2, <3>1
        <4>2. (use' + (n - 1)) % buffer_num =
                  IF use' + (n - 1) < buffer_num THEN use' + (n - 1)
                  ELSE use' + (n - 1) - buffer_num
          BY <1>1, <4>1, ModuloLemma
        <4>3. (use + n) % buffer_num =
                  IF use + n < buffer_num THEN use + n
                  ELSE use + n - buffer_num
          BY <1>1, <4>1, ModuloLemma
        <4> QED BY <1>1, <2>2, <4>1, <4>2, <4>3
      <3> QED BY <3>2, <3>3, <3>4
    <2>5. fill' = (use' + count') % buffer_num
      <3>1. fill = IF use + count < buffer_num THEN use + count
                                               ELSE use + count - buffer_num
        BY <1>1, <1>3, ModuloLemma DEF BufferIsRight
      <3>2. use' \in 0 .. buffer_num - 1 /\ count - 1 \in 0 .. buffer_num
        BY <1>1, <1>2, <2>2
      <3>3. (use' + (count - 1)) % buffer_num =
                IF use' + (count - 1) < buffer_num THEN use' + (count - 1)
                ELSE use' + (count - 1) - buffer_num
        BY <1>1, <3>2, ModuloLemma
      <3>4. (use' + (count - 1)) % buffer_num = fill
        BY <1>1, <1>2, <2>2, <3>1, <3>3
      <3> QED BY <1>2, <2>1, <3>4
    <2> QED BY <1>2, <2>1, <2>3, <2>4, <2>5
  <1>4. CASE schedule = "SFF" /\ get_sff(w)
    <2>1. /\ tmp' = [tmp EXCEPT ![w] = infor_buf[0]]
          /\ infor_buf' = [s \in Slots |->
                 IF s + 1 < count THEN infor_buf[s + 1] ELSE infor_buf[s]]
      BY <1>4 DEF get_sff
    <2>2. Buffered[1] = infor_buf[0]
      BY <1>2, <1>4 DEF Buffered
    <2>3. ASSUME NEW n \in 1 .. count - 1
          PROVE  Buffered'[n] = Buffered[n + 1]
      <3>1. /\ n + 1 \in 1 .. count /\ (n + 1) - 1 = n /\ (n - 1) + 1 = n
            /\ n - 1 \in Slots /\ n < count
        BY <1>1 DEF Slots
      <3>2. Buffered[n + 1] = infor_buf[n]
        BY <1>4, <3>1 DEF Buffered
      <3>3. Buffered'[n] = infor_buf'[n - 1]
        BY <1>1, <1>2, <1>4 DEF Buffered
      <3> QED BY <2>1, <3>1, <3>2, <3>3
    <2> QED BY <1>2, <1>4, <2>1, <2>2, <2>3
  <1> QED BY <1>1, <1>3, <1>4

\* The loop of put_sff swaps two neighbours, or none.
LEMMA SortLemma ==
    ASSUME TypeInv, UNCHANGED setup, UNCHANGED count, schedule = "SFF",
           place > 0, place < count, infor_buf' = SwapAt(infor_buf, place)
    PROVE  /\ place \in 1 .. count /\ place + 1 \in 1 .. count
           /\ Buffered[place] = infor_buf[place - 1]
           /\ Buffered[place + 1] = infor_buf[place]
           /\ IF SizeOf(Buffered[place + 1]) < SizeOf(Buffered[place])
              THEN \A n \in 1 .. count :
                       Buffered'[n] = CASE n = place -> Buffered[place + 1]
                                        [] n = place + 1 -> Buffered[place]
                                        [] OTHER -> Buffered[n]
              ELSE \A n \in 1 .. count : Buffered'[n] = Buffered[n]
  <1>1. /\ buffer_num \in Nat /\ count \in 0 .. buffer_num /\ place \in Nat
        /\ infor_buf \in [Slots -> Conns \cup {None}]
        /\ schedule' = schedule
    BY SetupLemma, SetupStays DEF TypeInv, TypeOK, Slots
  <1>2. /\ place \in 1 .. count /\ place + 1 \in 1 .. count
        /\ (place + 1) - 1 = place
        /\ place \in Slots /\ place - 1 \in Slots
        /\ \A n \in 1 .. count : /\ n - 1 \in Slots
                                 /\ n - 1 = place <=> n = place + 1
                                 /\ n - 1 = place - 1 <=> n = place
    BY <1>1 DEF Slots
  <1>3. /\ Buffered = [n \in 1 .. count |-> infor_buf[n - 1]]
        /\ Buffered' = [n \in 1 .. count |-> infor_buf'[n - 1]]
    BY <1>1 DEF Buffered
  <1>4. infor_buf' =
            IF SizeOf(infor_buf[place]) < SizeOf(infor_buf[place - 1])
            THEN [infor_buf EXCEPT ![place] = infor_buf[place - 1],
                                   ![place - 1] = infor_buf[place]]
            ELSE infor_buf
    BY DEF SwapAt
  <1>5. /\ Buffered[place] = infor_buf[place - 1]
        /\ Buffered[place + 1] = infor_buf[place]
    BY <1>2, <1>3
  <1>6. CASE SizeOf(infor_buf[place]) < SizeOf(infor_buf[place - 1])
    BY <1>1, <1>2, <1>3, <1>4, <1>5, <1>6
  <1>7. CASE ~(SizeOf(infor_buf[place]) < SizeOf(infor_buf[place - 1]))
    BY <1>1, <1>2, <1>3, <1>4, <1>5, <1>7
  <1> QED BY <1>6, <1>7

-----------------------------------------------------------------------------
(* The invariant is preserved: one lemma for the steps by which no         *)
(* connection moves, and one for each kind of move.                        *)

LEMMA PlaceInit == Init => PlaceInv
  <1> SUFFICES ASSUME Init PROVE PlaceInv
    OBVIOUS
  <1>1. /\ setup \in Setups /\ connected = <<>> /\ accepted = 0 /\ count = 0
        /\ conn_fd = None /\ closed = {} /\ mpc = "accept" /\ fill = 0
        /\ use = 0 /\ ~crashed
        /\ \A w \in Workers : wpc[w] = "test" /\ tmp[w] = None
        /\ \A c \in Conns : answer[c] = "none"
    BY DEF Init
  <1>2. /\ buffer_num \in Nat /\ buffer_num > 0
    BY <1>1, SetupLemma
  <1>3. (0 + 0) % buffer_num = 0
    BY <1>2, ModuloLemma
  <1>4. 1 .. 0 = {} /\ 1 .. Len(connected) = {}
    BY <1>1
  <1>5. Accepted = {} /\ Refused = {} /\ \A c : ~Waits(c)
    BY <1>1, <1>4 DEF Accepted, Refused, Waits
  <1>6. \A c \in Conns : ~IsServed(c) /\ conn_fd # c
    BY <1>1, NoneAssumption DEF IsServed
  <1>7. ConnectedOnce /\ BufferIsRight /\ HandsAreRight
    BY <1>1, <1>3, <1>4 DEF ConnectedOnce, BufferIsRight, HandsAreRight
  <1>8. WaitsOnce /\ ServedOnce /\ Elsewhere /\ Somewhere
    BY <1>1, <1>4, <1>5, <1>6 DEF WaitsOnce, ServedOnce, Elsewhere, Somewhere
  <1>9. Answered /\ NullHasCause /\ CrashHasCause
    BY <1>1, <1>5, <1>6 DEF Answered, NullHasCause, CrashHasCause
  <1> QED BY <1>7, <1>8, <1>9 DEF PlaceInv

\* Steps by which no connection moves or is answered.
LEMMA NobodyMoves ==
    ASSUME TypeInv, PlaceInv,
           UNCHANGED <<setup, connected, accepted, conn_fd, ring, sorted, count,
                       tmp, answer, closed>>,
           sent \subseteq sent',
           mpc' \in {"accept", "sorting"} <=> mpc \in {"accept", "sorting"},
           mpc' = "sorting" => mpc = "sorting",
           \A w \in Workers :
               /\ wpc'[w] \in {"test", "asleep"} => tmp[w] = None
               /\ wpc'[w] = "close" => answer[tmp[w]] # "none"
               /\ wpc'[w] = "serve" => wpc[w] = "serve",
           CrashHasCause'
    PROVE  PlaceInv'
  <1> USE DEF PlaceInv
  <1>1. /\ Buffered' = Buffered /\ \A c : Waits(c)' <=> Waits(c)
    BY BufferedFrame
  <1>2. /\ schedule' = schedule /\ buffer_num' = buffer_num
        /\ request' = request /\ Accepted' = Accepted /\ Refused' = Refused
    BY SetupStays DEF Accepted, Refused
  <1>3. \A c : IsServed(c)' <=> IsServed(c)
    BY DEF IsServed
  <1>4. ConnectedOnce' /\ BufferIsRight' /\ HandsAreRight'
    BY <1>2 DEF ConnectedOnce, BufferIsRight, HandsAreRight, ring, sorted
  <1>5. WaitsOnce' /\ ServedOnce' /\ Elsewhere' /\ Somewhere'
    BY <1>1, <1>2, <1>3 DEF WaitsOnce, ServedOnce, Elsewhere, Somewhere
  <1>6. Answered'
    BY <1>1, <1>2, <1>3 DEF Answered
  <1>7. SomeRefused => SomeRefused'
    BY <1>2 DEF SomeRefused
  <1>8. NullHasCause'
    BY <1>1, <1>7 DEF NullHasCause
  <1> QED BY <1>4, <1>5, <1>6, <1>8

\* A client connects, or the master accepts the next one: nobody in the
\* server has it yet.
LEMMA ConnectMoves ==
    ASSUME TypeInv, PlaceInv, NEW c \in Conns, Connect(c)
    PROVE  PlaceInv'
  <1> USE DEF PlaceInv
  <1>1. /\ connected \in Seq(Conns) /\ accepted \in 0 .. Len(connected)
        /\ connected' = Append(connected, c)
        /\ c \notin {connected[n] : n \in 1 .. Len(connected)}
    BY DEF Connect, TypeInv, TypeOK, ToSet
  <1>2. /\ UNCHANGED <<setup, sent, accepted, mpc, conn_fd, ring, sorted, count,
                       wpc, tmp, answer, closed, crashed>>
    BY DEF Connect
  <1>3. ConnectedOnce'
    BY <1>1 DEF ConnectedOnce
  <1>4. Accepted' = Accepted
    BY <1>1, <1>2 DEF Accepted
  <1>5. /\ Buffered' = Buffered /\ \A d : Waits(d)' <=> Waits(d)
    BY <1>2, BufferedFrame
  <1>6. /\ schedule' = schedule /\ buffer_num' = buffer_num
        /\ request' = request /\ Refused' = Refused
    BY <1>2, SetupStays DEF Refused
  <1>7. \A d : IsServed(d)' <=> IsServed(d)
    BY <1>2 DEF IsServed
  <1>8. BufferIsRight' /\ HandsAreRight'
    BY <1>2, <1>6 DEF BufferIsRight, HandsAreRight, ring, sorted
  <1>9. WaitsOnce' /\ ServedOnce' /\ Elsewhere' /\ Somewhere'
    BY <1>2, <1>4, <1>5, <1>6, <1>7
       DEF WaitsOnce, ServedOnce, Elsewhere, Somewhere
  <1>10. Answered' /\ NullHasCause' /\ CrashHasCause'
    BY <1>2, <1>4, <1>5, <1>6, <1>7
       DEF Answered, NullHasCause, CrashHasCause, SomeRefused
  <1> QED BY <1>3, <1>8, <1>9, <1>10

LEMMA AcceptMoves ==
    ASSUME TypeInv, PlaceInv, Accept
    PROVE  PlaceInv'
  <1> USE DEF PlaceInv
  <1> DEFINE c == connected[accepted + 1]
  <1>1. /\ connected \in Seq(Conns) /\ accepted \in 0 .. Len(connected)
        /\ accepted + 1 \in 1 .. Len(connected) /\ c \in Conns
        /\ accepted' = accepted + 1 /\ conn_fd' = c /\ mpc' = "room"
        /\ mpc = "accept" /\ conn_fd = None
    BY DEF Accept, TypeInv, TypeOK, HandsAreRight
  <1>2. UNCHANGED <<setup, connected, sent, ring, sorted, count, wpc, tmp,
                    answer, closed, crashed>>
    BY DEF Accept, clients
  <1>3. Accepted' = Accepted \cup {c} /\ c \notin Accepted
    <2>1. 1 .. accepted + 1 = (1 .. accepted) \cup {accepted + 1}
      BY <1>1
    <2>2. \A n \in 1 .. accepted : n \in 1 .. Len(connected) /\ n # accepted + 1
      BY <1>1
    <2> QED BY <1>1, <1>2, <2>1, <2>2 DEF Accepted, ConnectedOnce
  <1>4. /\ Buffered' = Buffered /\ \A d : Waits(d)' <=> Waits(d)
    BY <1>2, BufferedFrame
  <1>5. /\ schedule' = schedule /\ buffer_num' = buffer_num
        /\ request' = request /\ Refused' = Refused
    BY <1>2, SetupStays DEF Refused
  <1>6. \A d : IsServed(d)' <=> IsServed(d)
    BY <1>2 DEF IsServed
  <1>7. ~Waits(c) /\ ~IsServed(c) /\ c \notin closed \cup Refused
        /\ answer[c] = "none" /\ c # None
    BY <1>1, <1>3, NoneAssumption DEF Somewhere, Answered
  <1> HIDE DEF c
  <1>8. ConnectedOnce' /\ BufferIsRight' /\ HandsAreRight'
    BY <1>1, <1>2, <1>5, <1>7
       DEF ConnectedOnce, BufferIsRight, HandsAreRight, ring, sorted
  <1>9. WaitsOnce' /\ ServedOnce'
    BY <1>2, <1>4 DEF WaitsOnce, ServedOnce
  <1>10. Elsewhere' /\ Somewhere'
    BY <1>1, <1>2, <1>3, <1>4, <1>5, <1>6, <1>7, NoneAssumption
       DEF Elsewhere, Somewhere
  <1>11. Answered' /\ NullHasCause' /\ CrashHasCause'
    BY <1>1, <1>2, <1>3, <1>4, <1>5, <1>6, <1>7
       DEF Answered, NullHasCause, CrashHasCause, SomeRefused
  <1> QED BY <1>8, <1>9, <1>10, <1>11

\* Who waits when the master has put one more.
LEMMA PutWaits ==
    ASSUME TypeInv, BufferIsRight, UNCHANGED setup, NEW c,
           \/ schedule = "FIFO" /\ count < buffer_num /\ put(c)
           \/ /\ schedule = "SFF" /\ count < buffer_num - 1
              /\ put_sff(c) /\ UNCHANGED ring
    PROVE  \A d : Waits(d)' <=> Waits(d) \/ d = c
  <1>1. /\ count' = count + 1
        /\ \A n \in 1 .. count : Buffered'[n] = Buffered[n]
        /\ Buffered'[count + 1] = c
    BY PutLemma
  <1>2. 1 .. count + 1 = (1 .. count) \cup {count + 1}
    BY DEF TypeInv, TypeOK
  <1> QED BY <1>1, <1>2 DEF Waits

\* The master appends a connection it has, or the NULL of one it has refused.
LEMMA PutMoves ==
    ASSUME TypeInv, PlaceInv, UNCHANGED <<setup, connected, sent, accepted, tmp,
                                          closed, crashed>>,
           NEW x \in {None, conn_fd},
           conn_fd \in Conns, conn_fd' = None,
           mpc \notin {"accept", "sorting"}, mpc' \in {"accept", "sorting"},
           \/ /\ schedule = "FIFO" /\ count < buffer_num /\ put(x)
              /\ mpc' = "accept" /\ x # None
           \/ /\ schedule = "SFF" /\ count < buffer_num - 1
              /\ put_sff(x) /\ UNCHANGED ring,
           \/ /\ x = conn_fd /\ UNCHANGED answer
              /\ schedule = "SFF" => ~file_size_fails(request[conn_fd])
           \/ /\ x = None /\ schedule = "SFF" /\ conn_fd \in sent
              /\ file_size_fails(request[conn_fd])
              /\ answer' = [answer EXCEPT ![conn_fd] =
                                Status(request[conn_fd])],
           \A w \in Workers :
               \/ wpc'[w] = wpc[w]
               \/ wpc[w] = "asleep" /\ wpc'[w] = "test"
    PROVE  PlaceInv'
  <1> USE DEF PlaceInv
  <1>1. /\ TypeOK /\ count \in Nat
        /\ \A c \in Conns : Status(request[c]) # "none"
        /\ conn_fd # None
    BY SetupLemma, NoneAssumption DEF TypeInv, TypeOK
  <1>2. /\ count' = count + 1
        /\ \A n \in 1 .. count : Buffered'[n] = Buffered[n]
        /\ Buffered'[count + 1] = x
        /\ schedule = "FIFO" => fill' = (use' + count') % buffer_num
    BY PutLemma
  <1>3. /\ schedule' = schedule /\ buffer_num' = buffer_num
        /\ request' = request /\ Accepted' = Accepted
    BY SetupStays DEF Accepted
  <1>4. 1 .. count + 1 = (1 .. count) \cup {count + 1}
    BY <1>1
  <1>5. \A d : Waits(d)' <=> Waits(d) \/ d = x
    BY PutWaits
  <1>6. \A d : IsServed(d)' <=> IsServed(d)
    BY DEF IsServed
  <1>7. /\ ~Waits(conn_fd) /\ ~IsServed(conn_fd)
        /\ conn_fd \notin closed \cup Refused
        /\ conn_fd \in Accepted /\ answer[conn_fd] = "none"
    BY DEF Elsewhere, Somewhere, Answered
  <1>8. Refused' = IF x = None THEN Refused \cup {conn_fd} ELSE Refused
    BY <1>1, <1>3, <1>7 DEF Refused, TypeOK
  <1>9. ConnectedOnce' /\ HandsAreRight'
    BY DEF ConnectedOnce, HandsAreRight
  <1>10. BufferIsRight'
    <2>1. schedule = "SFF" => place' = count
      BY DEF put_sff, put
    <2> QED BY <1>1, <1>2, <1>3, <2>1 DEF BufferIsRight
  <1>11. WaitsOnce'
    <2>1. x = None \/ ~Waits(x)
      BY <1>7
    <2>2. \A n \in 1 .. count : n # count + 1
      BY <1>1
    <2> QED BY <1>2, <1>4, <2>1, <2>2 DEF WaitsOnce, Waits
  <1>12. ServedOnce'
    BY DEF ServedOnce
  <1>13. Elsewhere' /\ Somewhere'
    BY <1>1, <1>3, <1>5, <1>6, <1>7, <1>8, NoneAssumption
       DEF Elsewhere, Somewhere
  <1>14. Answered'
    <2>1. ASSUME NEW c \in Conns
          PROVE  /\ answer'[c] = IF x = None /\ c = conn_fd
                                 THEN Status(request[c]) ELSE answer[c]
                 /\ conn_fd' # c
      BY <1>1, NoneAssumption DEF TypeOK
    <2>2. ASSUME NEW c \in Conns
          PROVE  /\ answer'[c] # "none" =>
                        /\ answer'[c] = Status(request[c])
                        /\ c \in Accepted
                        /\ conn_fd' # c /\ ~Waits(c)'
                 /\ c \in closed => answer'[c] # "none"
      BY <1>1, <1>5, <1>7, <2>1, NoneAssumption DEF Answered
    <2>3. ASSUME NEW c \in Conns, schedule = "SFF", Waits(c)' \/ IsServed(c)'
          PROVE  ~file_size_fails(request[c])
      BY <1>1, <1>5, <1>6, <2>3, NoneAssumption DEF Answered
    <2>4. ASSUME NEW w \in Workers, wpc'[w] = "close"
          PROVE  answer'[tmp[w]] # "none"
      <3>1. wpc[w] = "close" /\ tmp[w] \in Conns
        BY <2>4 DEF TypeInv, ClosesConnection
      <3> QED BY <1>1, <2>1, <3>1 DEF Answered
    <2> QED BY <1>3, <2>2, <2>3, <2>4 DEF Answered
  <1>15. NullHasCause' /\ CrashHasCause'
    <2>1. SomeRefused' <=> SomeRefused
      BY <1>3 DEF SomeRefused
    <2>2. x = None => SomeRefused
      BY <1>1 DEF SomeRefused
    <2>3. NullHasCause'
      BY <1>5, <2>1, <2>2 DEF NullHasCause
    <2>4. CrashHasCause'
      BY <1>3 DEF CrashHasCause
    <2> QED BY <2>3, <2>4
  <1> QED BY <1>9, <1>10, <1>11, <1>12, <1>13, <1>14, <1>15

\* The sort only changes the order.
LEMMA SortWaits ==
    ASSUME TypeInv, UNCHANGED setup, UNCHANGED count, schedule = "SFF",
           place > 0, place < count, infor_buf' = SwapAt(infor_buf, place)
    PROVE  \A c : Waits(c)' <=> Waits(c)
  <1>1. place # place + 1
    BY SetupLemma DEF TypeInv, TypeOK, Slots
  <1> QED BY <1>1, SortLemma DEF Waits

LEMMA SortMoves ==
    ASSUME TypeInv, PlaceInv, mpc = "sorting", place > 0,
           infor_buf' = SwapAt(infor_buf, place), place' = place - 1,
           UNCHANGED <<clients, accepted, mpc, conn_fd, ring, count, wpc, tmp,
                       answer, closed, crashed>>
    PROVE  PlaceInv'
  <1> USE DEF PlaceInv, clients
  <1>1. /\ schedule = "SFF" /\ place < count /\ count \in Nat /\ place \in Nat
    BY SetupLemma DEF TypeInv, TypeOK, RoomToPut, BufferIsRight, Slots
  <1>2. /\ place \in 1 .. count /\ place + 1 \in 1 .. count
        /\ place # place + 1
        /\ \/ \A n \in 1 .. count : Buffered'[n] = Buffered[n]
           \/ \A n \in 1 .. count :
                  Buffered'[n] = CASE n = place -> Buffered[place + 1]
                                   [] n = place + 1 -> Buffered[place]
                                   [] OTHER -> Buffered[n]
    BY <1>1, SortLemma
  <1>3. \A c : Waits(c)' <=> Waits(c)
    BY <1>1, SortWaits
  <1>4. WaitsOnce'
    BY <1>2 DEF WaitsOnce
  <1>5. /\ schedule' = schedule /\ buffer_num' = buffer_num
        /\ request' = request /\ Accepted' = Accepted /\ Refused' = Refused
    BY SetupStays DEF Accepted, Refused
  <1>6. \A c : IsServed(c)' <=> IsServed(c)
    BY DEF IsServed
  <1>7. ConnectedOnce' /\ BufferIsRight' /\ HandsAreRight'
    BY <1>1, <1>5 DEF ConnectedOnce, BufferIsRight, HandsAreRight, ring
  <1>8. ServedOnce' /\ Elsewhere' /\ Somewhere'
    BY <1>3, <1>5, <1>6 DEF ServedOnce, Elsewhere, Somewhere
  <1>9. Answered' /\ NullHasCause' /\ CrashHasCause'
    BY <1>3, <1>5, <1>6
       DEF Answered, NullHasCause, CrashHasCause, SomeRefused
  <1> QED BY <1>4, <1>7, <1>8, <1>9

\* Who still waits when a worker has taken the first one.
LEMMA GetWaits ==
    ASSUME TypeInv, BufferIsRight, WaitsOnce, UNCHANGED setup,
           NEW w \in Workers, count # 0,
           IF schedule = "FIFO" THEN get(w) ELSE get_sff(w)
    PROVE  \A d : d # None => (Waits(d)' <=> Waits(d) /\ d # Buffered[1])
  <1> DEFINE first == Buffered[1]
  <1>1. count \in Nat /\ 1 \in 1 .. count
    BY SetupLemma DEF TypeInv, TypeOK
  <1>2. /\ count' = count - 1
        /\ \A n \in 1 .. count - 1 : Buffered'[n] = Buffered[n + 1]
    BY GetLemma
  <1>3. \A n \in 1 .. count - 1 : n + 1 \in 1 .. count /\ n + 1 # 1
    BY <1>1
  <1>4. \A d : d # None => (Waits(d)' <=> Waits(d) /\ d # first)
    <2>1. ASSUME NEW d, d # None, Waits(d)'
          PROVE  Waits(d) /\ d # first
      <3>1. PICK n \in 1 .. count - 1 : Buffered'[n] = d
        BY <1>2, <2>1 DEF Waits
      <3>2. /\ n + 1 \in 1 .. count /\ n + 1 # 1 /\ Buffered[n + 1] = d
        BY <1>2, <1>3, <3>1
      <3>3. Waits(d)
        BY <3>2 DEF Waits
      <3>4. d # first
        BY <1>1, <2>1, <3>2 DEF WaitsOnce, first
      <3> QED BY <3>3, <3>4
    <2>2. ASSUME NEW d, Waits(d), d # first
          PROVE  Waits(d)'
      <3>1. PICK n \in 1 .. count : Buffered[n] = d
        BY <2>2 DEF Waits
      <3>2. n # 1
        BY <2>2, <3>1 DEF first
      <3>3. n - 1 \in 1 .. count - 1 /\ (n - 1) + 1 = n
        BY <1>1, <3>1, <3>2
      <3>4. Buffered'[n - 1] = d
        BY <1>2, <3>1, <3>3
      <3> QED BY <1>2, <3>3, <3>4 DEF Waits
    <2> QED BY <2>1, <2>2
  <1> QED BY <1>4

\* A worker takes the first one that waits.
LEMMA GetMoves ==
    ASSUME TypeInv, PlaceInv, NEW w \in Workers, wpc[w] = "test", MutexFree,
           count # 0, IF schedule = "FIFO" THEN get(w) ELSE get_sff(w),
           SignalEmpty, wpc' = [wpc EXCEPT ![w] = "serve"],
           UNCHANGED <<clients, accepted, conn_fd, answer, closed, crashed>>
    PROVE  PlaceInv'
  <1> USE DEF PlaceInv, clients
  <1> DEFINE first == Buffered[1]
  <1>1. /\ TypeOK /\ count \in Nat /\ 1 \in 1 .. count
        /\ first \in Conns \cup {None}
    BY SetupLemma, SlotOfLemma DEF TypeInv, TypeOK
  <1>2. /\ count' = count - 1
        /\ \A n \in 1 .. count - 1 : Buffered'[n] = Buffered[n + 1]
        /\ tmp' = [tmp EXCEPT ![w] = first]
        /\ schedule = "FIFO" => fill' = (use' + count') % buffer_num
    BY GetLemma
  <1>3. /\ schedule' = schedule /\ buffer_num' = buffer_num
        /\ request' = request /\ Accepted' = Accepted /\ Refused' = Refused
    BY SetupStays DEF Accepted, Refused
  <1>4. \A n \in 1 .. count - 1 : n + 1 \in 1 .. count /\ n + 1 # 1
    BY <1>1
  <1>5. /\ tmp[w] = None
        /\ \A v \in Workers : tmp'[v] = IF v = w THEN first ELSE tmp[v]
    BY <1>1, <1>2 DEF HandsAreRight, TypeOK
  <1>6. Waits(first)
    BY <1>1 DEF Waits
  <1> HIDE DEF first
  <1>7. \A d : d # None => (Waits(d)' <=> Waits(d) /\ d # first)
    BY GetWaits DEF first
  <1>8. \A d : d # None => (IsServed(d)' <=> IsServed(d) \/ d = first)
    BY <1>5 DEF IsServed
  <1>9. Waits(None)' => Waits(None)
    <2>1. ASSUME NEW n \in 1 .. count', Buffered'[n] = None
          PROVE  Waits(None)
      BY <1>2, <1>4, <2>1 DEF Waits
    <2> QED BY <2>1 DEF Waits
  <1>10. first \in Conns => /\ ~IsServed(first) /\ conn_fd # first
                            /\ first \notin closed \cup Refused
                            /\ first \in Accepted
    BY <1>6 DEF Elsewhere, Somewhere
  <1>11. ConnectedOnce'
    BY DEF ConnectedOnce
  <1>12. BufferIsRight' /\ HandsAreRight'
    <2>1. /\ mpc' \in {"accept", "sorting"} <=> mpc \in {"accept", "sorting"}
          /\ mpc' # "sorting"
      BY DEF SignalEmpty, MutexFree
    <2>2. \A v \in Workers : wpc'[v] = IF v = w THEN "serve" ELSE wpc[v]
      BY <1>1 DEF TypeOK
    <2> QED BY <1>2, <1>3, <1>5, <2>1, <2>2 DEF BufferIsRight, HandsAreRight
  <1>13. WaitsOnce'
    <2>1. ASSUME NEW m \in 1 .. count', NEW n \in 1 .. count',
                 Buffered'[m] = Buffered'[n], Buffered'[m] # None
          PROVE  m = n
      <3>1. m + 1 \in 1 .. count /\ n + 1 \in 1 .. count
        BY <1>2, <1>4
      <3>2. m + 1 = n + 1
        BY <1>2, <2>1, <3>1 DEF WaitsOnce
      <3> QED BY <1>1, <1>2, <3>2
    <2> QED BY <2>1 DEF WaitsOnce
  <1>14. ServedOnce'
    <2>1. \A v \in Workers : tmp[v] = first => first = None
      BY <1>1, <1>10 DEF IsServed
    <2> QED BY <1>5, <2>1 DEF ServedOnce
  <1>15. Elsewhere' /\ Somewhere'
    BY <1>1, <1>3, <1>6, <1>7, <1>8, <1>10, NoneAssumption
       DEF Elsewhere, Somewhere
  <1>16. Answered'
    <2>1. ASSUME NEW v \in Workers, wpc'[v] = "close"
          PROVE  answer'[tmp'[v]] # "none"
      <3>1. v # w /\ wpc[v] = "close"
        BY <1>1, <2>1 DEF TypeOK
      <3> QED BY <1>5, <3>1 DEF Answered
    <2>2. ASSUME NEW c \in Conns
          PROVE  /\ Waits(c)' => Waits(c)
                 /\ Waits(c)' \/ IsServed(c)' => Waits(c) \/ IsServed(c)
      BY <1>6, <1>7, <1>8, NoneAssumption
    <2> QED BY <1>3, <2>1, <2>2 DEF Answered
  <1>17. NullHasCause' /\ CrashHasCause'
    <2>1. SomeRefused' <=> SomeRefused
      BY <1>3 DEF SomeRefused
    <2>2. \A v \in Workers : wpc'[v] = "serve" /\ tmp'[v] = None => SomeRefused
      BY <1>1, <1>5, <1>6 DEF NullHasCause, TypeOK
    <2>3. NullHasCause'
      BY <1>9, <2>1, <2>2 DEF NullHasCause
    <2>4. CrashHasCause'
      BY <1>3 DEF CrashHasCause
    <2> QED BY <2>3, <2>4
  <1> QED BY <1>11, <1>12, <1>13, <1>14, <1>15, <1>16, <1>17

\* A worker writes the answer to the connection it has, and goes on to close, or
\* ends the process.
LEMMA AnswerMoves ==
    ASSUME TypeInv, PlaceInv, NEW w \in Workers, wpc[w] = "serve",
           tmp[w] \in Conns,
           answer' = [answer EXCEPT ![tmp[w]] = Status(request[tmp[w]])],
           \/ wpc' = [wpc EXCEPT ![w] = "close"]
           \/ UNCHANGED wpc,
           UNCHANGED <<clients, accepted, mpc, conn_fd, ring, sorted, count,
                       tmp, closed>>,
           CrashHasCause'
    PROVE  PlaceInv'
  <1> USE DEF PlaceInv, clients
  <1> DEFINE c == tmp[w]
  <1>1. /\ TypeOK /\ c \in Conns /\ c # None
        /\ \A d \in Conns : Status(request[d]) # "none"
        /\ \A d \in Conns :
              answer'[d] = IF d = c THEN Status(request[d]) ELSE answer[d]
        /\ \A v \in Workers :
              \/ wpc'[v] = wpc[v]
              \/ v = w /\ wpc'[v] = "close"
    BY SetupLemma, NoneAssumption DEF TypeInv, TypeOK
  <1>2. /\ Buffered' = Buffered /\ \A d : Waits(d)' <=> Waits(d)
    BY BufferedFrame
  <1>3. /\ schedule' = schedule /\ buffer_num' = buffer_num
        /\ request' = request /\ Accepted' = Accepted
    BY SetupStays DEF Accepted
  <1>4. \A d : IsServed(d)' <=> IsServed(d)
    BY DEF IsServed
  <1>5. /\ IsServed(c) /\ ~Waits(c) /\ conn_fd # c /\ c \in Accepted
        /\ schedule = "SFF" => ~file_size_fails(request[c])
    BY <1>1 DEF IsServed, Elsewhere, Somewhere, Answered
  <1> HIDE DEF c
  <1>6. Refused' = Refused
    BY <1>1, <1>3, <1>5 DEF Refused
  <1>7. ConnectedOnce' /\ BufferIsRight'
    BY <1>3 DEF ConnectedOnce, BufferIsRight, ring, sorted
  <1>8. HandsAreRight'
    BY <1>1 DEF HandsAreRight
  <1>9. WaitsOnce' /\ ServedOnce' /\ Elsewhere' /\ Somewhere'
    BY <1>2, <1>3, <1>4, <1>6
       DEF WaitsOnce, ServedOnce, Elsewhere, Somewhere
  <1>10. Answered'
    <2>1. ASSUME NEW v \in Workers, wpc'[v] = "close"
          PROVE  answer'[tmp[v]] # "none"
      <3>1. CASE v = w
        BY <1>1, <3>1 DEF c
      <3>2. CASE v # w
        <4>1. wpc[v] = "close" /\ tmp[v] \in Conns
          BY <1>1, <2>1, <3>2 DEF TypeInv, ClosesConnection
        <4> QED BY <1>1, <4>1 DEF Answered
      <3> QED BY <3>1, <3>2
    <2>2. \A d \in Conns : d \in closed => answer'[d] # "none"
      BY <1>1 DEF Answered
    <2>3. \A d \in Conns :
             answer'[d] # "none" => /\ answer'[d] = Status(request[d])
                                    /\ d \in Accepted
                                    /\ conn_fd # d /\ ~Waits(d)
      BY <1>1, <1>5 DEF Answered
    <2> QED BY <1>2, <1>3, <1>4, <2>1, <2>2, <2>3 DEF Answered
  <1>11. NullHasCause'
    BY <1>1, <1>2, <1>3 DEF NullHasCause, SomeRefused
  <1> QED BY <1>7, <1>8, <1>9, <1>10, <1>11

\* A worker closes its connection.
LEMMA CloseMoves ==
    ASSUME TypeInv, PlaceInv, NEW w \in Workers, Close(w)
    PROVE  PlaceInv'
  <1> USE DEF PlaceInv
  <1> DEFINE c == tmp[w]
  <1>1. /\ TypeOK /\ c \in Conns /\ c # None
        /\ closed' = closed \cup {c}
        /\ \A v \in Workers : /\ wpc'[v] = IF v = w THEN "test" ELSE wpc[v]
                              /\ tmp'[v] = IF v = w THEN None ELSE tmp[v]
        /\ answer[c] # "none"
    BY NoneAssumption DEF Close, TypeInv, TypeOK, ClosesConnection, Answered
  <1>2. /\ UNCHANGED <<setup, connected, sent, accepted, mpc, conn_fd, ring,
                       sorted, count, answer, crashed>>
    BY DEF Close, clients
  <1>3. /\ Buffered' = Buffered /\ \A d : Waits(d)' <=> Waits(d)
    BY <1>2, BufferedFrame
  <1>4. /\ schedule' = schedule /\ buffer_num' = buffer_num
        /\ request' = request /\ Accepted' = Accepted /\ Refused' = Refused
    BY <1>2, SetupStays DEF Accepted, Refused
  <1>5. \A d : d # None => (IsServed(d)' <=> IsServed(d) /\ d # c)
    BY <1>1 DEF IsServed, ServedOnce
  <1>6. /\ IsServed(c) /\ ~Waits(c) /\ conn_fd # c /\ c \notin Refused
    BY <1>1 DEF IsServed, Elsewhere
  <1> HIDE DEF c
  <1>7. ConnectedOnce' /\ BufferIsRight'
    BY <1>2, <1>4 DEF ConnectedOnce, BufferIsRight, ring, sorted
  <1>8. HandsAreRight'
    BY <1>1, <1>2 DEF HandsAreRight
  <1>9. WaitsOnce' /\ ServedOnce'
    BY <1>1, <1>2, <1>3 DEF WaitsOnce, ServedOnce
  <1>10. Elsewhere' /\ Somewhere'
    BY <1>1, <1>2, <1>3, <1>4, <1>5, <1>6, NoneAssumption
       DEF Elsewhere, Somewhere
  <1>11. Answered'
    <2>1. \A v \in Workers : wpc'[v] = "close" => answer[tmp'[v]] # "none"
      BY <1>1 DEF Answered
    <2> QED BY <1>1, <1>2, <1>3, <1>4, <1>5, <2>1, NoneAssumption DEF Answered
  <1>12. NullHasCause' /\ CrashHasCause'
    BY <1>1, <1>2, <1>3, <1>4 DEF NullHasCause, CrashHasCause, SomeRefused
  <1> QED BY <1>7, <1>8, <1>9, <1>10, <1>11, <1>12

LEMMA PlaceStep == TypeInv /\ PlaceInv /\ [Next]_vars => PlaceInv'
  <1> SUFFICES ASSUME TypeInv, PlaceInv, [Next]_vars PROVE PlaceInv'
    OBVIOUS
  <1>1. /\ TypeOK /\ count \in Nat /\ buffer_num \in Nat
        /\ count \in 0 .. buffer_num /\ schedule \in {"FIFO", "SFF"}
    BY SetupLemma DEF TypeInv, TypeOK
  \* A request that is as it was explains a crash as it did.
  <1>2. ASSUME UNCHANGED setup, sent \subseteq sent', crashed' => crashed
        PROVE  CrashHasCause'
    BY <1>2, SetupStays DEF PlaceInv, CrashHasCause
  \* The steps of the workers and their pcs.
  <1>3. ASSUME NEW w \in Workers, NEW pc,
               UNCHANGED <<clients, accepted, mpc, conn_fd, ring, sorted, count,
                           tmp, answer, closed>>,
               \/ wpc' = [wpc EXCEPT ![w] = pc] \/ wpc' = wpc,
               \/ pc = "spinning"
               \/ pc \in {"test", "asleep"} /\ wpc[w] \in {"test", "asleep"},
               CrashHasCause'
        PROVE  PlaceInv'
    <2>1. \A v \in Workers : wpc'[v] = wpc[v] \/ (v = w /\ wpc'[v] = pc)
      BY <1>1, <1>3 DEF TypeOK
    <2> QED BY <1>3, <2>1, NobodyMoves
            DEF clients, PlaceInv, HandsAreRight, Answered
  <1>4. ASSUME NEW c \in Conns, Connect(c) PROVE PlaceInv'
    BY <1>4, ConnectMoves
  <1>5. ASSUME NEW c \in Conns, Send(c) PROVE PlaceInv'
    <2>1. /\ sent \subseteq sent'
          /\ UNCHANGED <<setup, connected, accepted, mpc, conn_fd, ring, sorted,
                         count, wpc, tmp, answer, closed, crashed>>
      BY <1>5 DEF Send
    <2> QED BY <1>2, <2>1, NobodyMoves DEF PlaceInv, HandsAreRight, Answered
  <1>6. CASE Accept
    BY <1>6, AcceptMoves
  <1>7. ASSUME SignalFull
        PROVE  \A w \in Workers : \/ wpc'[w] = wpc[w]
                                  \/ wpc[w] = "asleep" /\ wpc'[w] = "test"
    <2>1. CASE Idle = {}
      BY <1>7, <2>1 DEF SignalFull
    <2>2. CASE Idle # {}
      <3>1. PICK w \in Idle : wpc' = [wpc EXCEPT ![w] = "test"]
        BY <1>7, <2>2 DEF SignalFull
      <3> QED BY <1>1, <3>1 DEF Idle, TypeOK
    <2> QED BY <2>1, <2>2
  <1>8. CASE MasterPut
    <2>1. /\ schedule = "FIFO" /\ mpc = "room"
          /\ UNCHANGED <<setup, connected, sent, accepted, tmp, answer, closed,
                         crashed>>
      BY <1>8 DEF MasterPut, clients
    <2>2. conn_fd \in Conns /\ conn_fd # None
      BY <1>1, <2>1 DEF PlaceInv, HandsAreRight, TypeOK
    <2>3. CASE /\ mpc' = "asleep"
               /\ UNCHANGED <<conn_fd, ring, sorted, count, wpc>>
      BY <1>2, <2>1, <2>3, NobodyMoves DEF PlaceInv, HandsAreRight, Answered
    <2>4. CASE /\ ~BufferFull /\ put(conn_fd) /\ SignalFull
               /\ mpc' = "accept" /\ conn_fd' = None
      <3>1. count < buffer_num
        BY <1>1, <2>1, <2>4 DEF BufferFull
      <3> QED BY <1>7, <2>1, <2>2, <2>4, <3>1, PutMoves
    <2> QED BY <1>8, <2>3, <2>4 DEF MasterPut
  <1>9. CASE MasterRoom
    <2>1. /\ mpc = "room" /\ mpc' \in {"asleep", "reading"}
          /\ UNCHANGED <<setup, connected, sent, accepted, conn_fd, ring,
                         sorted, count, wpc, tmp, answer, closed, crashed>>
      BY <1>9 DEF MasterRoom, clients
    <2> QED BY <1>2, <2>1, NobodyMoves DEF PlaceInv, HandsAreRight, Answered
  <1>10. CASE MasterRead
    <2>1. /\ mpc = "reading" /\ schedule = "SFF" /\ conn_fd \in sent
          /\ conn_fd \in Conns /\ count < buffer_num - 1
          /\ UNCHANGED <<setup, connected, sent, accepted, ring, wpc, tmp,
                         closed>>
      BY <1>10 DEF MasterRead, clients, TypeInv, TypeOK, RoomToPut
    <2>2. CASE /\ mpc' = "spinning"
               /\ UNCHANGED <<conn_fd, sorted, count, answer, crashed>>
      BY <1>2, <2>1, <2>2, NobodyMoves DEF PlaceInv, HandsAreRight, Answered
    <2>3. CASE /\ MayDie(request[conn_fd])
               /\ UNCHANGED <<mpc, conn_fd, sorted, count, answer>>
      <3>1. CrashHasCause'
        BY <2>1, <2>3, SetupStays DEF CrashHasCause, MayDie
      <3> QED BY <2>1, <2>3, <3>1, NobodyMoves
              DEF PlaceInv, HandsAreRight, Answered
    <2>4. CASE /\ file_size_fails(request[conn_fd])
               /\ answer' = [answer EXCEPT ![conn_fd] =
                                 Status(request[conn_fd])]
               /\ put_sff(None)
               /\ mpc' = "sorting" /\ conn_fd' = None /\ UNCHANGED crashed
      BY <2>1, <2>4, PutMoves
    <2>5. CASE /\ ~file_size_fails(request[conn_fd])
               /\ put_sff(conn_fd) /\ UNCHANGED answer
               /\ mpc' = "sorting" /\ conn_fd' = None /\ UNCHANGED crashed
      BY <2>1, <2>5, PutMoves
    <2> QED BY <1>10, <2>2, <2>3, <2>4, <2>5 DEF MasterRead
  <1>11. CASE MasterSort
    <2>1. /\ mpc = "sorting"
          /\ UNCHANGED <<clients, accepted, conn_fd, ring, count, tmp, answer,
                         closed>>
      BY <1>11 DEF MasterSort
    <2>2. CASE /\ place > 0 /\ None \in {infor_buf[place], infor_buf[place - 1]}
               /\ UNCHANGED <<mpc, wpc, sorted>>
      <3>1. /\ schedule = "SFF" /\ place \in Nat /\ place < count
        BY <1>1, <2>1
           DEF TypeInv, RoomToPut, TypeOK, Slots, PlaceInv, BufferIsRight
      <3>2. /\ place \in 1 .. count /\ place + 1 \in 1 .. count
            /\ (place + 1) - 1 = place
        BY <1>1, <2>2, <3>1
      <3>3. /\ Buffered[place] = infor_buf[place - 1]
            /\ Buffered[place + 1] = infor_buf[place]
        BY <3>1, <3>2 DEF Buffered
      <3>4. Waits(None)
        BY <2>2, <3>2, <3>3 DEF Waits
      <3>5. CrashHasCause'
        BY <2>1, <3>4, SetupStays
           DEF PlaceInv, NullHasCause, SomeRefused, CrashHasCause, clients
      <3> QED BY <2>1, <2>2, <3>5, NobodyMoves
              DEF PlaceInv, HandsAreRight, Answered, clients
    <2>3. CASE /\ place > 0 /\ infor_buf' = SwapAt(infor_buf, place)
               /\ place' = place - 1 /\ UNCHANGED <<mpc, wpc, crashed>>
      BY <2>1, <2>3, SortMoves
    <2>4. CASE SignalFull /\ mpc' = "accept" /\ UNCHANGED <<sorted, crashed>>
      <3>1. \A w \in Workers :
               /\ wpc'[w] \in {"test", "asleep"} => tmp[w] = None
               /\ wpc'[w] = "close" => answer[tmp[w]] # "none"
               /\ wpc'[w] = "serve" => wpc[w] = "serve"
        BY <1>7, <2>4 DEF PlaceInv, HandsAreRight, Answered
      <3> QED BY <1>2, <2>1, <2>4, <3>1, NobodyMoves DEF clients
    <2> QED BY <1>11, <2>2, <2>3, <2>4 DEF MasterSort
  <1>12. ASSUME NEW w \in Workers, Take(w) PROVE PlaceInv'
    <2>1. /\ wpc[w] = "test" /\ MutexFree
          /\ UNCHANGED <<clients, accepted, conn_fd, answer, closed, crashed>>
      BY <1>12 DEF Take
    <2>2. CASE /\ wpc' = [wpc EXCEPT ![w] = "asleep"]
               /\ UNCHANGED <<mpc, ring, sorted, count, tmp>>
      BY <1>2, <1>3, <2>1, <2>2 DEF clients
    <2>3. CASE /\ count # 0
               /\ IF schedule = "FIFO" THEN get(w) ELSE get_sff(w)
               /\ SignalEmpty
               /\ wpc' = [wpc EXCEPT ![w] = "serve"]
      BY <2>1, <2>3, GetMoves
    <2> QED BY <1>12, <2>2, <2>3 DEF Take
  <1>13. ASSUME NEW w \in Workers, Serve(w) PROVE PlaceInv'
    <2>1. /\ wpc[w] = "serve"
          /\ UNCHANGED <<clients, accepted, mpc, conn_fd, ring, sorted, count,
                         tmp, closed>>
      BY <1>13 DEF Serve
    <2>2. CASE tmp[w] = None /\ UNCHANGED <<wpc, answer>>
      <3>1. CrashHasCause'
        BY <2>1, <2>2, SetupStays
           DEF PlaceInv, NullHasCause, SomeRefused, CrashHasCause, clients
      <3> QED BY <1>3, <2>1, <2>2, <3>1
    <2>3. CASE /\ wpc' = [wpc EXCEPT ![w] = "spinning"]
               /\ UNCHANGED <<answer, crashed>>
      BY <1>2, <1>3, <2>1, <2>3 DEF clients
    <2>4. CASE /\ tmp[w] \in sent
               /\ MayDie(request[tmp[w]]) \/ CannotServe(request[tmp[w]])
               /\ UNCHANGED <<wpc, answer>>
      <3>1. CrashHasCause'
        BY <2>1, <2>4, SetupStays
           DEF CrashHasCause, MayDie, CannotServe, clients
      <3> QED BY <1>3, <2>1, <2>4, <3>1
    <2>5. CASE /\ tmp[w] \in sent
               /\ answer' = [answer EXCEPT ![tmp[w]] = Status(request[tmp[w]])]
               /\ wpc' = [wpc EXCEPT ![w] = "close"]
               /\ UNCHANGED crashed
      <3>1. tmp[w] \in Conns
        BY <1>1, <2>5 DEF TypeOK
      <3>2. CrashHasCause'
        BY <1>2, <2>1, <2>5 DEF clients
      <3> QED BY <2>1, <2>5, <3>1, <3>2, AnswerMoves
    <2>6. CASE /\ tmp[w] \in sent /\ CannotServe(request[tmp[w]])
               /\ answer' = [answer EXCEPT ![tmp[w]] = Status(request[tmp[w]])]
               /\ UNCHANGED wpc
      <3>1. tmp[w] \in Conns
        BY <1>1, <2>6 DEF TypeOK
      <3>2. CrashHasCause'
        BY <2>1, <2>6, SetupStays DEF CrashHasCause, CannotServe, clients
      <3> QED BY <2>1, <2>6, <3>1, <3>2, AnswerMoves
    <2> QED BY <1>13, <2>2, <2>3, <2>4, <2>5, <2>6 DEF Serve
  <1>14. ASSUME NEW w \in Workers, Close(w) PROVE PlaceInv'
    BY <1>14, CloseMoves
  <1>15. CASE SpuriousWakeup
    <2>1. UNCHANGED <<clients, accepted, conn_fd, ring, sorted, count, tmp,
                      answer, closed, crashed>>
      BY <1>15 DEF SpuriousWakeup
    <2>2. CASE mpc = "asleep" /\ mpc' = "room" /\ UNCHANGED wpc
      BY <1>2, <2>1, <2>2, NobodyMoves
         DEF PlaceInv, HandsAreRight, Answered, clients
    <2>3. CASE (\E w \in Idle : wpc' = [wpc EXCEPT ![w] = "test"])
                 /\ UNCHANGED mpc
      <3>1. PICK w \in Idle : wpc' = [wpc EXCEPT ![w] = "test"]
        BY <2>3
      <3> QED BY <1>2, <1>3, <2>1, <2>3, <3>1 DEF Idle, clients
    <2> QED BY <1>15, <2>2, <2>3 DEF SpuriousWakeup
  <1>16. CASE UNCHANGED vars
    BY <1>2, <1>16, NobodyMoves
       DEF vars, clients, PlaceInv, HandsAreRight, Answered
  <1> QED BY <1>4, <1>5, <1>6, <1>8, <1>9, <1>10, <1>11, <1>12, <1>13, <1>14,
             <1>15, <1>16 DEF Next

LEMMA PlaceInvariant == Spec => [](TypeInv /\ PlaceInv)
  <1>1. Init => TypeInv /\ PlaceInv
    BY TypeInit, PlaceInit
  <1>2. TypeInv /\ PlaceInv /\ [Next]_vars => (TypeInv /\ PlaceInv)'
    BY TypeStep, PlaceStep
  <1> QED BY <1>1, <1>2, PTL DEF Spec

-----------------------------------------------------------------------------
(* What follows for the connections.                                       *)

\* A set with no two elements has one or none.
LEMMA AtMostOne ==
    ASSUME NEW S, \A x, y \in S : x = y
    PROVE  Cardinality(S) = IF S = {} THEN 0 ELSE 1
  <1>1. CASE S = {}
    BY <1>1, FS_EmptySet
  <1>2. CASE S # {}
    <2>1. PICK x : S = {x}
      BY <1>2
    <2> QED BY <1>2, <2>1, FS_Singleton
  <1> QED BY <1>1, <1>2

\* An accepted connection is in exactly one place, for any number of workers
\* and any size of the buffer: none is lost, overwritten in the ring while it
\* waits, taken by two workers, or closed while somebody has it.
THEOREM EachConnectionInOnePlace == Spec => []OnePlace
  <1>1. ASSUME TypeInv, PlaceInv, NEW c \in Conns
        PROVE  (IF conn_fd = c THEN 1 ELSE 0)
                 + Cardinality({n \in 1 .. count : Buffered[n] = c})
                 + Cardinality({w \in Workers : tmp[w] = c})
                 + (IF c \in closed THEN 1 ELSE 0)
                 + (IF c \in Refused THEN 1 ELSE 0)
               = IF c \in Accepted THEN 1 ELSE 0
    <2>1. Cardinality({n \in 1 .. count : Buffered[n] = c}) =
              IF Waits(c) THEN 1 ELSE 0
      <3> DEFINE S == {n \in 1 .. count : Buffered[n] = c}
      <3>1. \A m, n \in S : m = n
        BY <1>1, NoneAssumption DEF PlaceInv, WaitsOnce
      <3>2. S = {} <=> ~Waits(c)
        BY DEF Waits
      <3> HIDE DEF S
      <3>3. Cardinality(S) = IF Waits(c) THEN 1 ELSE 0
        BY <3>1, <3>2, AtMostOne
      <3> QED BY <3>3 DEF S
    <2>2. Cardinality({w \in Workers : tmp[w] = c}) =
              IF IsServed(c) THEN 1 ELSE 0
      <3> DEFINE S == {w \in Workers : tmp[w] = c}
      <3>1. \A v, w \in S : v = w
        BY <1>1, NoneAssumption DEF PlaceInv, ServedOnce
      <3>2. S = {} <=> ~IsServed(c)
        BY DEF IsServed
      <3> HIDE DEF S
      <3>3. Cardinality(S) = IF IsServed(c) THEN 1 ELSE 0
        BY <3>1, <3>2, AtMostOne
      <3> QED BY <3>3 DEF S
    <2>3. CASE c \in Accepted
      BY <1>1, <2>1, <2>2, <2>3 DEF PlaceInv, Elsewhere, Somewhere
    <2>4. CASE c \notin Accepted
      BY <1>1, <2>1, <2>2, <2>4 DEF PlaceInv, Elsewhere, Somewhere
    <2> QED BY <2>3, <2>4
  <1>2. TypeInv /\ PlaceInv => OnePlace
    BY <1>1 DEF OnePlace
  <1> QED BY <1>2, PlaceInvariant, PTL

\* Only the worker that has a connection answers it, or the SFF master that
\* refuses it, with the status its own request calls for, and before it is
\* closed.
THEOREM AnswersAreRight == Spec => []AnswerIsRight
  <1>1. ASSUME TypeInv, PlaceInv PROVE AnswerIsRight
    <2>1. \A c : c \in InBuffer => Waits(c)
      BY DEF InBuffer, ToSet, Waits, Buffered
    <2> QED BY <1>1, <2>1 DEF AnswerIsRight, PlaceInv, Answered
  <1> QED BY <1>1, PlaceInvariant, PTL

\* The server ends only for one of these: a client has closed too early, or has
\* asked for what cannot be opened, mapped or given a process, or, with SFF, for
\* something file_size refuses, whose NULL was then used.
THEOREM CrashesHaveCauses == Spec => []CrashHasCause
  <1>1. PlaceInv => CrashHasCause
    BY DEF PlaceInv
  <1> QED BY <1>1, PlaceInvariant, PTL

-----------------------------------------------------------------------------
(* The refinement of RequestPool.                                          *)

\* The master holds the connection it has accepted last.
HoldsLast ==
    conn_fd # None => accepted > 0 /\ conn_fd = connected[accepted]

\* Of two connections that wait the policy takes the first one before the
\* second.  While put_sff moves the one it has put at the end towards the
\* front, this one may have others before it that are only older.
InOrder ==
    \A m, n \in 1 .. count :
        m < n /\ Buffered[m] # None /\ Buffered[n] # None =>
            \/ Pool!Before(Buffered[m], Buffered[n])
            \/ /\ mpc = "sorting" /\ n = place + 1
               /\ Pool!Older(Buffered[m], Buffered[n])

OrderInv == HoldsLast /\ InOrder

LEMMA BeforeLemma ==
    ASSUME NEW c \in Conns, NEW d \in Conns
    PROVE  Pool!Before(c, d) <=>
               IF schedule = "FIFO" THEN Pool!Older(c, d)
               ELSE \/ SizeOf(c) < SizeOf(d)
                    \/ SizeOf(c) = SizeOf(d) /\ Pool!Older(c, d)
  BY DEF Pool!Before

\* Who is older than whom does not change, and no new connection is older.
LEMMA OrderStays ==
    ASSUME UNCHANGED setup,
           \/ UNCHANGED connected
           \/ connected \in Seq(Conns)
                /\ \E x \in Conns : connected' = Append(connected, x)
    PROVE  /\ \A c, d : Pool!Older(c, d) => Pool!Older(c, d)'
           /\ \A c, d : Pool!Before(c, d) => Pool!Before(c, d)'
  <1>1. ASSUME NEW c, NEW d, Pool!Older(c, d)
        PROVE  Pool!Older(c, d)'
    <2>1. PICK m, n \in 1 .. Len(connected) :
              m < n /\ connected[m] = c /\ connected[n] = d
      BY <1>1 DEF Pool!Older
    <2>2. /\ m \in 1 .. Len(connected') /\ connected'[m] = c
          /\ n \in 1 .. Len(connected') /\ connected'[n] = d
      BY <2>1
    <2> QED BY <2>1, <2>2 DEF Pool!Older
  <1>2. /\ schedule' = schedule
        /\ [c \in Conns |-> SizeOf(c)]' = [c \in Conns |-> SizeOf(c)]
    BY SetupStays DEF SizeOf
  <1>3. ASSUME NEW c, NEW d, Pool!Before(c, d)
        PROVE  Pool!Before(c, d)'
    BY <1>1, <1>2, <1>3 DEF Pool!Before
  <1> QED BY <1>1, <1>3

\* All that wait came before the one the master holds.
LEMMA LastIsNewest ==
    ASSUME TypeInv, PlaceInv, HoldsLast, conn_fd # None,
           NEW n \in 1 .. count, Buffered[n] # None
    PROVE  Pool!Older(Buffered[n], conn_fd)
  <1> DEFINE c == Buffered[n]
  <1>1. /\ TypeOK /\ c \in Conns /\ Waits(c) /\ conn_fd \in Conns
    BY SlotOfLemma DEF TypeInv, TypeOK, Waits
  <1>2. c \in Accepted /\ c # conn_fd
    BY <1>1 DEF PlaceInv, Elsewhere, Somewhere
  <1>3. /\ connected \in Seq(Conns) /\ accepted \in 0 .. Len(connected)
        /\ accepted \in 1 .. Len(connected) /\ conn_fd = connected[accepted]
    BY <1>1 DEF TypeOK, HoldsLast
  <1>4. PICK m \in 1 .. accepted : connected[m] = c
    BY <1>2 DEF Accepted
  <1> HIDE DEF c
  <1>5. m < accepted /\ m \in 1 .. Len(connected)
    BY <1>2, <1>3, <1>4
  <1>6. Pool!Older(c, conn_fd)
    BY <1>3, <1>4, <1>5 DEF Pool!Older
  <1> QED BY <1>6 DEF c

LEMMA OrderInit == Init => OrderInv
  BY DEF Init, OrderInv, HoldsLast, InOrder

LEMMA HoldsLastStep ==
    ASSUME TypeInv, HoldsLast, [Next]_vars
    PROVE  HoldsLast'
  <1>1. connected \in Seq(Conns) /\ accepted \in 0 .. Len(connected)
    BY DEF TypeInv, TypeOK
  <1>2. ASSUME conn_fd' \in {None, conn_fd}, UNCHANGED <<connected, accepted>>
        PROVE  HoldsLast'
    BY <1>2 DEF HoldsLast
  <1>3. ASSUME NEW c \in Conns, Connect(c) PROVE HoldsLast'
    <2>1. /\ connected' = Append(connected, c)
          /\ UNCHANGED <<accepted, conn_fd>>
      BY <1>3 DEF Connect
    <2>2. accepted > 0 => connected'[accepted] = connected[accepted]
      BY <1>1, <2>1
    <2> QED BY <2>1, <2>2 DEF HoldsLast
  <1>4. CASE Accept
    <2>1. /\ connected' = connected /\ accepted' = accepted + 1
          /\ conn_fd' = connected[accepted + 1]
      BY <1>4 DEF Accept, clients
    <2> QED BY <1>1, <2>1 DEF HoldsLast
  <1>5. CASE MasterPut \/ MasterRoom \/ MasterRead \/ MasterSort
    BY <1>2, <1>5 DEF MasterPut, MasterRoom, MasterRead, MasterSort, clients
  <1>6. ASSUME NEW w \in Workers, Take(w) \/ Serve(w) \/ Close(w)
        PROVE  HoldsLast'
    BY <1>2, <1>6 DEF Take, Serve, Close, clients
  <1>7. ASSUME NEW c \in Conns, Send(c) PROVE HoldsLast'
    BY <1>2, <1>7 DEF Send
  <1>8. CASE SpuriousWakeup \/ UNCHANGED vars
    BY <1>2, <1>8 DEF SpuriousWakeup, vars, clients
  <1> QED BY <1>3, <1>4, <1>5, <1>6, <1>7, <1>8 DEF Next

\* Steps by which nothing enters, leaves or moves in the buffer.
LEMMA OrderFrame ==
    ASSUME TypeInv, InOrder, UNCHANGED <<setup, ring, sorted, count>>,
           \/ UNCHANGED connected
           \/ \E x \in Conns : connected' = Append(connected, x),
           mpc = "sorting" => mpc' = "sorting" \/ place = 0
    PROVE  InOrder'
  <1>1. /\ Buffered' = Buffered /\ count' = count /\ place' = place
    BY BufferedFrame DEF sorted
  <1>2. /\ \A c, d : Pool!Older(c, d) => Pool!Older(c, d)'
        /\ \A c, d : Pool!Before(c, d) => Pool!Before(c, d)'
    BY OrderStays DEF TypeInv, TypeOK
  <1>3. ASSUME NEW m \in 1 .. count, NEW n \in 1 .. count, m < n,
               Buffered[m] # None, Buffered[n] # None
        PROVE  \/ Pool!Before(Buffered[m], Buffered[n])'
               \/ /\ mpc' = "sorting" /\ n = place + 1
                  /\ Pool!Older(Buffered[m], Buffered[n])'
    <2>1. CASE Pool!Before(Buffered[m], Buffered[n])
      <3>1. PICK c, d : c = Buffered[m] /\ d = Buffered[n]
        OBVIOUS
      <3>2. Pool!Before(c, d)'
        BY <1>2, <2>1, <3>1
      <3> QED BY <1>1, <3>1, <3>2
    <2>2. CASE /\ mpc = "sorting" /\ n = place + 1
               /\ Pool!Older(Buffered[m], Buffered[n])
      <3>1. place # 0
        BY <1>3, <2>2
      <3>2. PICK c, d : c = Buffered[m] /\ d = Buffered[n]
        OBVIOUS
      <3>3. Pool!Older(c, d)'
        BY <1>2, <2>2, <3>2
      <3> QED BY <1>1, <2>2, <3>1, <3>2, <3>3
    <2> QED BY <1>3, <2>1, <2>2 DEF InOrder
  <1> QED BY <1>1, <1>3 DEF InOrder

\* put and put_sff append the newest.
LEMMA OrderPut ==
    ASSUME TypeInv, PlaceInv, OrderInv, UNCHANGED <<setup, connected>>,
           conn_fd \in Conns, mpc # "sorting", NEW x \in {None, conn_fd},
           \/ schedule = "FIFO" /\ count < buffer_num /\ put(x)
           \/ /\ schedule = "SFF" /\ count < buffer_num - 1
              /\ put_sff(x) /\ UNCHANGED ring /\ mpc' = "sorting"
    PROVE  InOrder'
  <1>1. /\ count' = count + 1 /\ count \in Nat
        /\ \A n \in 1 .. count : Buffered'[n] = Buffered[n]
        /\ Buffered'[count + 1] = x
    BY PutLemma DEF PlaceInv, TypeInv, TypeOK
  <1>2. /\ \A c, d : Pool!Older(c, d) => Pool!Older(c, d)'
        /\ \A c, d : Pool!Before(c, d) => Pool!Before(c, d)'
    BY OrderStays
  <1>3. ASSUME NEW m \in 1 .. count', NEW n \in 1 .. count', m < n,
               NEW c, NEW d, c = Buffered'[m], d = Buffered'[n],
               c # None, d # None
        PROVE  \/ Pool!Before(c, d)'
               \/ mpc' = "sorting" /\ n = place' + 1 /\ Pool!Older(c, d)'
    <2>1. CASE n \in 1 .. count
      <3>1. m \in 1 .. count
        BY <1>1, <1>3, <2>1
      <3>2. c = Buffered[m] /\ d = Buffered[n]
        BY <1>1, <1>3, <2>1, <3>1
      <3>3. Pool!Before(c, d)
        BY <1>3, <2>1, <3>1, <3>2 DEF OrderInv, InOrder
      <3> QED BY <1>2, <3>3
    <2>2. CASE n = count + 1
      <3>1. m \in 1 .. count
        BY <1>1, <1>3, <2>2
      <3>2. c = Buffered[m] /\ d = conn_fd
        BY <1>1, <1>3, <2>2, <3>1
      <3>3. Pool!Older(c, d)
        BY <1>3, <3>1, <3>2, NoneAssumption, LastIsNewest DEF OrderInv
      <3>4. CASE schedule = "FIFO"
        <4>1. Pool!Before(c, d)
          BY <3>3, <3>4 DEF Pool!Before
        <4> QED BY <1>2, <4>1
      <3>5. CASE schedule = "SFF"
        <4>1. mpc' = "sorting" /\ place' = count
          BY <3>5 DEF put_sff
        <4> QED BY <1>2, <2>2, <3>3, <4>1
      <3> QED BY <3>4, <3>5
    <2> QED BY <1>1, <1>3, <2>1, <2>2
  <1> QED BY <1>3 DEF InOrder

\* The loop of put_sff moves it to its place.  Whether it swaps or not, it has
\* put one pair more in order, and the pairs that were stay so.
LEMMA OrderSort ==
    ASSUME TypeInv, PlaceInv, InOrder, mpc = "sorting", place > 0,
           None \notin {infor_buf[place], infor_buf[place - 1]},
           infor_buf' = SwapAt(infor_buf, place), place' = place - 1,
           UNCHANGED <<setup, connected, mpc, count>>
    PROVE  InOrder'
  <1>1. /\ schedule = "SFF" /\ place < count /\ count \in Nat /\ place \in Nat
        /\ TypeOK
    BY SetupLemma DEF TypeInv, TypeOK, RoomToPut, PlaceInv, BufferIsRight, Slots
  <1> DEFINE x == Buffered[place + 1]
             y == Buffered[place]
  <1>2. /\ place \in 1 .. count /\ place + 1 \in 1 .. count
        /\ y = infor_buf[place - 1] /\ x = infor_buf[place]
        /\ IF SizeOf(x) < SizeOf(y)
           THEN \A n \in 1 .. count :
                    Buffered'[n] = CASE n = place -> x
                                     [] n = place + 1 -> y
                                     [] OTHER -> Buffered[n]
           ELSE \A n \in 1 .. count : Buffered'[n] = Buffered[n]
    BY <1>1, SortLemma
  <1>3. x \in Conns /\ y \in Conns
    BY <1>1, <1>2, SlotOfLemma
  <1>4. \A n \in 1 .. count : Buffered[n] # None => Buffered[n] \in Conns
    BY <1>1, SlotOfLemma
  <1>5. /\ \A c, d : Pool!Older(c, d) => Pool!Older(c, d)'
        /\ \A c, d : Pool!Before(c, d) => Pool!Before(c, d)'
    BY OrderStays
  <1>6. ASSUME NEW m \in 1 .. count, NEW n \in 1 .. count, m < n,
               Buffered[m] # None, Buffered[n] # None, n # place + 1
        PROVE  Pool!Before(Buffered[m], Buffered[n])
    BY <1>6 DEF InOrder
  <1>7. ASSUME NEW m \in 1 .. place, Buffered[m] # None
        PROVE  Pool!Before(Buffered[m], x) \/ Pool!Older(Buffered[m], x)
    <2>1. m \in 1 .. count /\ m < place + 1
      BY <1>1
    <2>2. x # None
      BY <1>3, NoneAssumption
    <2> QED BY <1>2, <1>7, <2>1, <2>2 DEF InOrder
  <1>8. \A c \in Conns : SizeOf(c) \in Nat
    BY <1>1, SetupLemma DEF TypeOK
  <1>9. \A c, d \in Conns :
            Pool!Before(c, d) <=>
                \/ SizeOf(c) < SizeOf(d)
                \/ SizeOf(c) = SizeOf(d) /\ Pool!Older(c, d)
    BY <1>1, BeforeLemma
  <1>10. x # None /\ y # None
    BY <1>3, NoneAssumption
  \* No swap: what is before y has no greater size than x.
  <1>11. ASSUME ~(SizeOf(x) < SizeOf(y)), NEW m \in 1 .. place,
                Buffered[m] # None
         PROVE  Pool!Before(Buffered[m], x)
    <2> DEFINE c == Buffered[m]
    <2>1. m \in 1 .. count /\ c \in Conns
      BY <1>1, <1>4, <1>11
    <2>2. SizeOf(c) <= SizeOf(y)
      <3>1. CASE m = place
        BY <1>3, <1>8, <3>1
      <3>2. CASE m < place
        <4>1. Pool!Before(c, y)
          BY <1>1, <1>2, <1>6, <1>10, <1>11, <2>1, <3>2
        <4> HIDE DEF c, y
        <4> QED BY <1>3, <1>8, <1>9, <2>1, <4>1
      <3> QED BY <1>1, <3>1, <3>2
    <2>3. Pool!Before(c, x) \/ Pool!Older(c, x)
      BY <1>7, <1>11
    <2> HIDE DEF c, x, y
    <2>4. SizeOf(c) <= SizeOf(x)
      BY <1>3, <1>8, <1>11, <2>1, <2>2
    <2>5. Pool!Before(c, x)
      BY <1>3, <1>8, <1>9, <2>1, <2>3, <2>4
    <2> QED BY <2>5 DEF c, x
  <1>12. ASSUME NEW m \in 1 .. count, NEW n \in 1 .. count, m < n,
                NEW c, NEW d, c = Buffered'[m], d = Buffered'[n],
                c # None, d # None
         PROVE  \/ Pool!Before(c, d)
                \/ n = place /\ Pool!Older(c, d)
    <2>1. CASE ~(SizeOf(x) < SizeOf(y))
      <3>1. c = Buffered[m] /\ d = Buffered[n]
        BY <1>2, <1>12, <2>1
      <3>2. CASE n # place + 1
        BY <1>6, <1>12, <3>1, <3>2
      <3>3. CASE n = place + 1
        <4>1. m \in 1 .. place /\ d = x
          BY <1>1, <1>12, <3>1, <3>3
        <4> QED BY <1>11, <1>12, <2>1, <3>1, <4>1
      <3> QED BY <3>2, <3>3
    <2>2. CASE SizeOf(x) < SizeOf(y)
      <3>1. \A k \in 1 .. count :
                Buffered'[k] = CASE k = place -> x
                                 [] k = place + 1 -> y
                                 [] OTHER -> Buffered[k]
        BY <1>2, <2>2
      <3>2. place # place + 1 /\ place < place + 1
        BY <1>1
      <3>3. CASE n = place
        <4>1. d = x /\ c = Buffered[m] /\ m \in 1 .. place
          BY <1>1, <1>12, <3>1, <3>3
        <4> QED BY <1>7, <1>12, <3>3, <4>1
      <3>4. CASE n = place + 1 /\ m = place
        <4>1. d = y /\ c = x
          BY <1>12, <3>1, <3>2, <3>4
        <4> QED BY <1>3, <1>9, <2>2, <4>1
      <3>5. CASE n = place + 1 /\ m # place
        <4>1. d = y /\ c = Buffered[m] /\ m < place
          BY <1>1, <1>12, <3>1, <3>2, <3>5
        <4> QED BY <1>2, <1>6, <1>12, <3>2, <4>1
      <3>6. CASE n \notin {place, place + 1}
        <4>1. d = Buffered[n]
          BY <1>12, <3>1, <3>6
        <4>2. PICK k \in 1 .. count : k < n /\ c = Buffered[k]
          <5>1. CASE m = place
            <6>1. c = Buffered[place + 1] /\ place + 1 < n
              BY <1>1, <1>12, <3>1, <3>6, <5>1
            <6> QED BY <1>2, <6>1
          <5>2. CASE m = place + 1
            <6>1. c = Buffered[place] /\ place < n
              BY <1>1, <1>12, <3>1, <3>2, <3>6, <5>2
            <6> QED BY <1>2, <6>1
          <5>3. CASE m \notin {place, place + 1}
            <6>1. c = Buffered[m]
              BY <1>12, <3>1, <5>3
            <6> QED BY <1>12, <6>1
          <5> QED BY <5>1, <5>2, <5>3
        <4> QED BY <1>6, <1>12, <3>6, <4>1, <4>2
      <3> QED BY <3>3, <3>4, <3>5, <3>6
    <2> QED BY <2>1, <2>2
  <1> HIDE DEF x, y
  <1>13. place' + 1 = place
    BY <1>1
  <1>14. ASSUME NEW m \in 1 .. count', NEW n \in 1 .. count', m < n,
                NEW c, NEW d, c = Buffered'[m], d = Buffered'[n],
                c # None, d # None
         PROVE  \/ Pool!Before(c, d)'
                \/ mpc' = "sorting" /\ n = place' + 1 /\ Pool!Older(c, d)'
    BY <1>5, <1>12, <1>13, <1>14
  <1> QED BY <1>14 DEF InOrder

\* get and get_sff leave the rest in order.
LEMMA OrderGet ==
    ASSUME TypeInv, PlaceInv, InOrder, MutexFree, count # 0,
           UNCHANGED <<setup, connected>>, NEW w \in Workers,
           IF schedule = "FIFO" THEN get(w) ELSE get_sff(w)
    PROVE  InOrder'
  <1>1. /\ count' = count - 1 /\ count \in Nat
        /\ \A n \in 1 .. count - 1 : Buffered'[n] = Buffered[n + 1]
    BY GetLemma DEF PlaceInv, TypeInv, TypeOK
  <1>2. \A c, d : Pool!Before(c, d) => Pool!Before(c, d)'
    BY OrderStays
  <1>3. ASSUME NEW m \in 1 .. count', NEW n \in 1 .. count', m < n,
               NEW c, NEW d, c = Buffered'[m], d = Buffered'[n],
               c # None, d # None
        PROVE  Pool!Before(c, d)'
    <2>1. /\ m + 1 \in 1 .. count /\ n + 1 \in 1 .. count /\ m + 1 < n + 1
      BY <1>1, <1>3
    <2>2. c = Buffered[m + 1] /\ d = Buffered[n + 1]
      BY <1>1, <1>3
    <2>3. Pool!Before(c, d)
      BY <1>3, <2>1, <2>2 DEF InOrder, MutexFree
    <2> QED BY <1>2, <2>3
  <1> QED BY <1>3 DEF InOrder

LEMMA InOrderStep ==
    ASSUME TypeInv, PlaceInv, OrderInv, [Next]_vars
    PROVE  InOrder'
  <1>1. TypeOK /\ InOrder
    BY DEF TypeInv, OrderInv
  <1>2. ASSUME NEW c \in Conns, Connect(c) PROVE InOrder'
    BY <1>1, <1>2, OrderFrame DEF Connect
  <1>3. ASSUME NEW c \in Conns, Send(c) PROVE InOrder'
    BY <1>1, <1>3, OrderFrame DEF Send
  <1>4. CASE Accept
    BY <1>1, <1>4, OrderFrame DEF Accept, clients
  <1>5. CASE MasterPut
    <2>1. /\ schedule = "FIFO" /\ mpc = "room"
          /\ UNCHANGED <<setup, connected>>
      BY <1>5 DEF MasterPut, clients
    <2>2. CASE UNCHANGED <<conn_fd, ring, sorted, count, wpc>>
      BY <1>1, <2>1, <2>2, OrderFrame
    <2>3. CASE ~BufferFull /\ put(conn_fd)
      <3>1. conn_fd \in Conns
        BY <1>1, <2>1 DEF PlaceInv, HandsAreRight, TypeOK
      <3>2. count < buffer_num
        BY <1>1, <2>1, <2>3, SetupLemma DEF BufferFull, TypeOK
      <3> QED BY <2>1, <2>3, <3>1, <3>2, OrderPut
    <2> QED BY <1>5, <2>2, <2>3 DEF MasterPut
  <1>6. CASE MasterRoom
    BY <1>1, <1>6, OrderFrame DEF MasterRoom, clients
  <1>7. CASE MasterRead
    <2>1. /\ mpc = "reading" /\ schedule = "SFF" /\ conn_fd \in Conns
          /\ count < buffer_num - 1
          /\ UNCHANGED <<setup, connected, ring>>
      BY <1>1, <1>7 DEF MasterRead, clients, TypeInv, TypeOK, RoomToPut
    <2>2. CASE UNCHANGED <<conn_fd, sorted, count, answer>>
      BY <1>1, <2>1, <2>2, OrderFrame
    <2>3. CASE (put_sff(None) \/ put_sff(conn_fd)) /\ mpc' = "sorting"
      BY <2>1, <2>3, OrderPut
    <2> QED BY <1>7, <2>2, <2>3 DEF MasterRead
  <1>8. CASE MasterSort
    <2>1. /\ mpc = "sorting" /\ UNCHANGED <<setup, connected, ring, count>>
      BY <1>8 DEF MasterSort, clients
    <2>2. CASE UNCHANGED <<mpc, sorted>>
      BY <1>1, <2>1, <2>2, OrderFrame
    <2>3. CASE /\ place > 0
               /\ None \notin {infor_buf[place], infor_buf[place - 1]}
               /\ infor_buf' = SwapAt(infor_buf, place)
               /\ place' = place - 1 /\ UNCHANGED mpc
      BY <1>1, <2>1, <2>3, OrderSort
    <2>4. CASE place = 0 /\ UNCHANGED sorted
      BY <1>1, <2>1, <2>4, OrderFrame
    <2> QED BY <1>8, <2>2, <2>3, <2>4 DEF MasterSort
  <1>9. ASSUME NEW w \in Workers, Take(w) PROVE InOrder'
    <2>1. MutexFree /\ UNCHANGED <<setup, connected>>
      BY <1>9 DEF Take, clients
    <2>2. CASE UNCHANGED <<mpc, ring, sorted, count, tmp>>
      BY <1>1, <2>1, <2>2, OrderFrame
    <2>3. CASE count # 0 /\ IF schedule = "FIFO" THEN get(w) ELSE get_sff(w)
      BY <1>1, <2>1, <2>3, OrderGet
    <2> QED BY <1>9, <2>2, <2>3 DEF Take
  <1>10. ASSUME NEW w \in Workers, Serve(w) \/ Close(w) PROVE InOrder'
    BY <1>1, <1>10, OrderFrame DEF Serve, Close, clients
  <1>11. CASE SpuriousWakeup
    BY <1>1, <1>11, OrderFrame DEF SpuriousWakeup, clients
  <1>12. CASE UNCHANGED vars
    BY <1>1, <1>12, OrderFrame DEF vars, clients
  <1> QED BY <1>2, <1>3, <1>4, <1>5, <1>6, <1>7, <1>8, <1>9, <1>10, <1>11, <1>12
          DEF Next

LEMMA OrderInvariant == Spec => [](TypeInv /\ PlaceInv /\ OrderInv)
  <1>1. TypeInv /\ PlaceInv /\ OrderInv /\ [Next]_vars => OrderInv'
    BY HoldsLastStep, InOrderStep DEF OrderInv
  <1> QED BY <1>1, OrderInit, PlaceInvariant, PTL DEF Spec

\* The sets of the mapping, in terms of the invariant.
LEMMA MappedSets ==
    /\ \A c : c \in InBuffer <=> c # None /\ Waits(c)
    /\ \A c : c \in InBuffer' <=> c # None /\ Waits(c)'
    /\ \A c : c \in BeingServed <=> c # None /\ IsServed(c)
    /\ \A c : c \in BeingServed' <=> c # None /\ IsServed(c)'
  BY DEF InBuffer, ToSet, Buffered, Waits, BeingServed, IsServed

LEMMA AbstractInit == Init => Pool!Init
  <1> SUFFICES ASSUME Init PROVE Pool!Init
    OBVIOUS
  <1>1. setup \in Setups /\ count = 0 /\ \A w \in Workers : tmp[w] = None
    BY DEF Init
  <1>2. InBuffer = {} /\ BeingServed = {}
    BY <1>1, MappedSets DEF Waits, IsServed
  <1>3. /\ schedule \in {"FIFO", "SFF"} /\ buffer_num \in Nat
        /\ [c \in Conns |-> SizeOf(c)] \in [Conns -> Nat]
    BY <1>1, SetupLemma
  <1> QED BY <1>2, <1>3 DEF Init, Pool!Init

\* Steps by which no connection is made, enters or leaves the buffer, or is
\* closed.
LEMMA AbstractStutter ==
    ASSUME UNCHANGED <<setup, connected, closed>>,
           \A c : c # None => (Waits(c)' <=> Waits(c)),
           \A c : c # None => (IsServed(c)' <=> IsServed(c))
    PROVE  UNCHANGED Pool!vars
  <1>1. InBuffer' = InBuffer /\ BeingServed' = BeingServed
    BY MappedSets
  <1>2. /\ schedule' = schedule /\ buffer_num' = buffer_num
        /\ [c \in Conns |-> SizeOf(c)]' = [c \in Conns |-> SizeOf(c)]
    BY SetupStays DEF SizeOf
  <1> QED BY <1>1, <1>2 DEF Pool!vars, Pool!options

LEMMA AbstractFrame ==
    ASSUME UNCHANGED <<setup, connected, ring, sorted, count, tmp, closed>>
    PROVE  UNCHANGED Pool!vars
  <1>1. \A c : Waits(c)' <=> Waits(c)
    BY BufferedFrame
  <1>2. \A c : IsServed(c)' <=> IsServed(c)
    BY DEF IsServed
  <1> QED BY <1>1, <1>2, AbstractStutter

LEMMA InBufferIsSmall ==
    ASSUME TypeOK
    PROVE  Cardinality(InBuffer) \in Nat /\ Cardinality(InBuffer) <= count
  <1> DEFINE S == {Buffered[n] : n \in 1 .. count}
             f == [n \in 1 .. count |-> Buffered[n]]
  <1>1. /\ count \in Nat
        /\ IsFiniteSet(1 .. count) /\ Cardinality(1 .. count) = count
    BY SetupLemma, FS_Interval DEF TypeOK
  <1>2. f \in Surjection(1 .. count, S)
    BY DEF Surjection
  <1> HIDE DEF f
  <1>3. IsFiniteSet(S) /\ Cardinality(S) <= count /\ Cardinality(S) \in Nat
    BY <1>1, <1>2, FS_Surjection, FS_CardinalityType
  <1>4. InBuffer \subseteq S
    BY MappedSets DEF Waits
  <1> HIDE DEF S
  <1>5. /\ IsFiniteSet(InBuffer)
        /\ Cardinality(InBuffer) <= Cardinality(S)
    BY <1>3, <1>4, FS_Subset
  <1>6. Cardinality(InBuffer) \in Nat
    BY <1>5, FS_CardinalityType
  <1> QED BY <1>1, <1>3, <1>5, <1>6

\* The size of a set means the same in both modules.
LEMMA SameCardinality == \A S : Pool!Cardinality(S) = Cardinality(S)
  BY Zenon DEF Pool!Cardinality, Cardinality

LEMMA AbstractConnect ==
    ASSUME NEW c \in Conns, Connect(c)
    PROVE  Pool!Connect(c)
  <1>1. /\ c \notin ToSet(connected) /\ connected' = Append(connected, c)
        /\ UNCHANGED <<setup, ring, sorted, count, tmp, closed>>
    BY DEF Connect
  <1>2. /\ \A d : Waits(d)' <=> Waits(d)
        /\ \A d : IsServed(d)' <=> IsServed(d)
    BY <1>1, BufferedFrame DEF IsServed
  <1>3. InBuffer' = InBuffer /\ BeingServed' = BeingServed
    BY <1>2, MappedSets
  <1>4. /\ schedule' = schedule /\ buffer_num' = buffer_num
        /\ [d \in Conns |-> SizeOf(d)]' = [d \in Conns |-> SizeOf(d)]
    BY <1>1, SetupStays DEF SizeOf
  <1> QED BY <1>1, <1>3, <1>4
          DEF Pool!Connect, Pool!options, Pool!ToSet, ToSet

\* The master puts a connection into the buffer, or the NULL of one that
\* file_size has refused.
LEMMA AbstractPut ==
    ASSUME TypeInv, PlaceInv, conn_fd \in Conns, NEW x \in {None, conn_fd},
           UNCHANGED <<setup, connected, tmp, closed>>,
           \/ schedule = "FIFO" /\ count < buffer_num /\ put(x)
           \/ /\ schedule = "SFF" /\ count < buffer_num - 1
              /\ put_sff(x) /\ UNCHANGED ring
    PROVE  Pool!Arrive(conn_fd) \/ UNCHANGED Pool!vars
  <1>1. \A d : Waits(d)' <=> Waits(d) \/ d = x
    BY PutWaits DEF PlaceInv
  <1>2. \A d : IsServed(d)' <=> IsServed(d)
    BY DEF IsServed
  <1>3. CASE x = None
    BY <1>1, <1>2, <1>3, AbstractStutter
  <1>4. CASE x = conn_fd
    <2>1. conn_fd # None
      BY NoneAssumption
    <2>2. InBuffer' = InBuffer \cup {conn_fd} /\ BeingServed' = BeingServed
      BY <1>1, <1>2, <1>4, <2>1, MappedSets
    <2>3. /\ schedule' = schedule /\ buffer_num' = buffer_num
          /\ [d \in Conns |-> SizeOf(d)]' = [d \in Conns |-> SizeOf(d)]
      BY SetupStays DEF SizeOf
    <2>4. Pool!Cardinality(InBuffer) < buffer_num
      <3>1. Cardinality(InBuffer) < buffer_num
        BY InBufferIsSmall, SetupLemma DEF TypeInv, TypeOK
      <3> QED BY <3>1, SameCardinality
    <2>5. /\ ~Waits(conn_fd) /\ ~IsServed(conn_fd) /\ conn_fd \notin closed
          /\ conn_fd \in Accepted
      BY DEF PlaceInv, Elsewhere, Somewhere
    <2>6. conn_fd \notin InBuffer \cup BeingServed \cup closed
      BY <2>5, MappedSets
    <2>7. conn_fd \in ToSet(connected)
      <3>1. connected \in Seq(Conns) /\ accepted \in 0 .. Len(connected)
        BY DEF TypeInv, TypeOK
      <3>2. PICK n \in 1 .. accepted : connected[n] = conn_fd
        BY <2>5 DEF Accepted
      <3>3. n \in DOMAIN connected
        BY <3>1
      <3> QED BY <3>2, <3>3 DEF ToSet
    <2>8. Pool!Arrive(conn_fd)
      BY <2>2, <2>3, <2>4, <2>6, <2>7
         DEF Pool!Arrive, Pool!options, Pool!ToSet, ToSet
    <2> QED BY <2>8
  <1> QED BY <1>3, <1>4

\* A worker takes the first of the buffer, which is before all others, or the
\* NULL.
LEMMA AbstractGet ==
    ASSUME TypeInv, PlaceInv, InOrder, MutexFree, count # 0,
           UNCHANGED <<setup, connected, closed>>,
           NEW w \in Workers, wpc[w] = "test",
           IF schedule = "FIFO" THEN get(w) ELSE get_sff(w)
    PROVE  \/ \E c \in Conns : Pool!Dispatch(c)
           \/ UNCHANGED Pool!vars
  <1> DEFINE first == Buffered[1]
  <1>1. /\ TypeOK /\ 1 \in 1 .. count /\ first \in Conns \cup {None}
        /\ Waits(first)
    BY SetupLemma, SlotOfLemma DEF TypeInv, TypeOK, Waits
  <1>2. \A d : d # None => (Waits(d)' <=> Waits(d) /\ d # first)
    BY GetWaits DEF PlaceInv
  <1>3. /\ tmp[w] = None
        /\ tmp' = [tmp EXCEPT ![w] = first]
    BY GetLemma DEF PlaceInv, HandsAreRight
  <1>4. \A n \in 1 .. count :
            Buffered[n] # None /\ first # None /\ n # 1
                => Pool!Before(first, Buffered[n])
    BY <1>1 DEF InOrder, MutexFree
  <1> HIDE DEF first
  <1>5. \A v \in Workers : tmp'[v] = IF v = w THEN first ELSE tmp[v]
    BY <1>1, <1>3 DEF TypeOK
  <1>6. \A d : d # None => (IsServed(d)' <=> IsServed(d) \/ d = first)
    BY <1>3, <1>5 DEF IsServed
  <1>7. CASE first = None
    BY <1>2, <1>6, <1>7, AbstractStutter
  <1>8. CASE first # None
    <2>1. first \in Conns /\ first \in InBuffer
      BY <1>1, <1>8, MappedSets
    <2>2. \A d \in InBuffer \ {first} : Pool!Before(first, d)
      <3> SUFFICES ASSUME NEW d \in InBuffer \ {first}
                   PROVE  Pool!Before(first, d)
        OBVIOUS
      <3>1. PICK n \in 1 .. count : Buffered[n] = d
        BY MappedSets DEF Waits
      <3>2. d # None /\ n # 1
        BY <3>1, MappedSets DEF first
      <3> QED BY <1>4, <1>8, <3>1, <3>2
    <2>3. /\ InBuffer' = InBuffer \ {first}
          /\ BeingServed' = BeingServed \cup {first}
      BY <1>2, <1>6, <1>8, MappedSets
    <2>4. /\ schedule' = schedule /\ buffer_num' = buffer_num
          /\ [d \in Conns |-> SizeOf(d)]' = [d \in Conns |-> SizeOf(d)]
      BY SetupStays DEF SizeOf
    <2>5. Pool!Dispatch(first)
      BY <2>1, <2>2, <2>3, <2>4 DEF Pool!Dispatch, Pool!options
    <2> QED BY <2>1, <2>5
  <1> QED BY <1>7, <1>8

LEMMA AbstractClose ==
    ASSUME TypeInv, PlaceInv, NEW w \in Workers, Close(w)
    PROVE  \E c \in Conns : Pool!Finish(c)
  <1> DEFINE c == tmp[w]
  <1>1. /\ TypeOK /\ c \in Conns /\ c # None /\ IsServed(c)
    BY NoneAssumption DEF Close, TypeInv, ClosesConnection, IsServed
  <1>2. /\ closed' = closed \cup {c}
        /\ tmp' = [tmp EXCEPT ![w] = None]
        /\ UNCHANGED <<setup, connected, ring, sorted, count>>
    BY DEF Close, clients
  <1>3. \A d : d # None => (IsServed(d)' <=> IsServed(d) /\ d # c)
    <2>1. \A v \in Workers : tmp'[v] = IF v = w THEN None ELSE tmp[v]
      BY <1>1, <1>2 DEF TypeOK
    <2> QED BY <1>1, <2>1 DEF IsServed, PlaceInv, ServedOnce
  <1>4. \A d : Waits(d)' <=> Waits(d)
    BY <1>2, BufferedFrame
  <1> HIDE DEF c
  <1>5. /\ c \in BeingServed /\ BeingServed' = BeingServed \ {c}
        /\ InBuffer' = InBuffer
    BY <1>1, <1>3, <1>4, MappedSets
  <1>6. /\ schedule' = schedule /\ buffer_num' = buffer_num
        /\ [d \in Conns |-> SizeOf(d)]' = [d \in Conns |-> SizeOf(d)]
    BY <1>2, SetupStays DEF SizeOf
  <1>7. Pool!Finish(c)
    BY <1>2, <1>5, <1>6 DEF Pool!Finish, Pool!options
  <1> QED BY <1>1, <1>7

LEMMA AbstractStep ==
    TypeInv /\ PlaceInv /\ OrderInv /\ [Next]_vars => [Pool!Next]_(Pool!vars)
  <1> SUFFICES ASSUME TypeInv, PlaceInv, OrderInv, [Next]_vars
               PROVE  Pool!Next \/ UNCHANGED Pool!vars
    OBVIOUS
  <1>1. TypeOK /\ InOrder
    BY DEF TypeInv, OrderInv
  <1>2. ASSUME NEW c \in Conns, Connect(c) PROVE Pool!Next
    BY <1>2, AbstractConnect DEF Pool!Next
  <1>3. CASE MasterPut
    <2>1. /\ schedule = "FIFO" /\ mpc = "room"
          /\ UNCHANGED <<setup, connected, tmp, closed>>
      BY <1>3 DEF MasterPut, clients
    <2>2. CASE UNCHANGED <<conn_fd, ring, sorted, count, wpc>>
      BY <2>1, <2>2, AbstractFrame
    <2>3. CASE ~BufferFull /\ put(conn_fd)
      <3>1. conn_fd \in Conns
        BY <1>1, <2>1 DEF PlaceInv, HandsAreRight, TypeOK
      <3>2. count < buffer_num
        BY <1>1, <2>1, <2>3, SetupLemma DEF BufferFull, TypeOK
      <3>3. Pool!Arrive(conn_fd) \/ UNCHANGED Pool!vars
        BY <2>1, <2>3, <3>1, <3>2, AbstractPut
      <3> QED BY <3>1, <3>3 DEF Pool!Next
    <2> QED BY <1>3, <2>2, <2>3 DEF MasterPut
  <1>4. CASE MasterRead
    <2>1. /\ schedule = "SFF" /\ conn_fd \in Conns /\ count < buffer_num - 1
          /\ UNCHANGED <<setup, connected, ring, tmp, closed>>
      BY <1>1, <1>4 DEF MasterRead, clients, TypeInv, TypeOK, RoomToPut
    <2>2. CASE UNCHANGED <<sorted, count>>
      BY <2>1, <2>2, AbstractFrame
    <2>3. CASE put_sff(None) \/ put_sff(conn_fd)
      <3>1. Pool!Arrive(conn_fd) \/ UNCHANGED Pool!vars
        BY <2>1, <2>3, AbstractPut
      <3> QED BY <2>1, <3>1 DEF Pool!Next
    <2> QED BY <1>4, <2>2, <2>3 DEF MasterRead
  <1>5. CASE MasterSort
    <2>1. UNCHANGED <<setup, connected, ring, count, tmp, closed>>
      BY <1>5 DEF MasterSort, clients
    <2>2. CASE UNCHANGED sorted
      BY <2>1, <2>2, AbstractFrame
    <2>3. CASE /\ mpc = "sorting" /\ place > 0
               /\ infor_buf' = SwapAt(infor_buf, place)
      <3>1. /\ schedule = "SFF" /\ place < count
        BY <1>1, <2>3 DEF TypeInv, RoomToPut, PlaceInv, BufferIsRight
      <3>2. \A c : Waits(c)' <=> Waits(c)
        BY <2>1, <2>3, <3>1, SortWaits
      <3>3. \A c : IsServed(c)' <=> IsServed(c)
        BY <2>1 DEF IsServed
      <3> QED BY <2>1, <3>2, <3>3, AbstractStutter
    <2> QED BY <1>5, <2>2, <2>3 DEF MasterSort
  <1>6. ASSUME NEW w \in Workers, Take(w)
        PROVE  Pool!Next \/ UNCHANGED Pool!vars
    <2>1. /\ wpc[w] = "test" /\ MutexFree
          /\ UNCHANGED <<setup, connected, closed>>
      BY <1>6 DEF Take, clients
    <2>2. CASE UNCHANGED <<mpc, ring, sorted, count, tmp>>
      BY <2>1, <2>2, AbstractFrame
    <2>3. CASE count # 0 /\ IF schedule = "FIFO" THEN get(w) ELSE get_sff(w)
      <3>1. (\E c \in Conns : Pool!Dispatch(c)) \/ UNCHANGED Pool!vars
        BY <1>1, <2>1, <2>3, AbstractGet
      <3> QED BY <3>1 DEF Pool!Next
    <2> QED BY <1>6, <2>2, <2>3 DEF Take
  <1>7. ASSUME NEW w \in Workers, Close(w) PROVE Pool!Next
    <2>1. \E c \in Conns : Pool!Finish(c)
      BY <1>7, AbstractClose
    <2> QED BY <2>1 DEF Pool!Next
  <1>8. ASSUME \/ \E c \in Conns : Send(c)
               \/ Accept \/ MasterRoom
               \/ \E w \in Workers : Serve(w)
               \/ SpuriousWakeup \/ UNCHANGED vars
        PROVE  UNCHANGED Pool!vars
    <2>1. UNCHANGED <<setup, connected, ring, sorted, count, tmp, closed>>
      BY <1>8 DEF Send, Accept, MasterRoom, Serve, SpuriousWakeup, vars, clients
    <2> QED BY <2>1, AbstractFrame
  <1> QED BY <1>2, <1>3, <1>4, <1>5, <1>6, <1>7, <1>8 DEF Next

\* The pool keeps what the buffer and the policy promise: never more than
\* buffer_num connections wait; a worker takes the oldest one, or the one for
\* the smallest file and of equal ones the oldest, also while connections
\* arrive and the array is being sorted; each is taken once and then closed.
THEOREM ImplementsThePool == Spec => ImplementsRequestPool
  <1>1. Init => Pool!Init
    BY AbstractInit
  <1>2. TypeInv /\ PlaceInv /\ OrderInv /\ [Next]_vars
        => [Pool!Next]_(Pool!vars)
    BY AbstractStep
  <1> QED BY <1>1, <1>2, OrderInvariant, PTL
          DEF Spec, ImplementsRequestPool, Pool!Spec
=============================================================================
