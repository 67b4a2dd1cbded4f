----------------------- MODULE CollectionQueueProofs ------------------------
(***************************************************************************)
(* Proofs about CollectionQueue for every set of clients and tasks, every  *)
(* queue limit, TTL, clock bound and number of restarts: its invariants    *)
(* and action properties, and that it implements SerialDispatch.           *)
(***************************************************************************)
EXTENDS CollectionQueue, WellFoundedInduction, SequenceTheorems, TLAPS

(* What the operations do to one queue.                                    *)

\* Pushing a stamped item (enqueue) yields a queue of items.
LEMMA AppendType ==
  ASSUME NEW q \in Seq(Item), NEW t \in Tasks, now \in 0..MaxTime
  PROVE  /\ Append(q, [id |-> t, at |-> now]) \in Seq(Item)
         /\ Len(Append(q, [id |-> t, at |-> now])) = Len(q) + 1
         /\ \A i \in DOMAIN q : Append(q, [id |-> t, at |-> now])[i] = q[i]
         /\ Append(q, [id |-> t, at |-> now])[Len(q) + 1] = [id |-> t, at |-> now]
  <1>1. [id |-> t, at |-> now] \in Item
    BY DEF Item
  <1>2. QED
    BY <1>1

\* Shifting the head (pump) keeps the other items, one place nearer the head.
LEMMA TailFacts ==
  ASSUME NEW q \in Seq(Item), q # <<>>
  PROVE  /\ Head(q) = q[1] /\ q[1] \in Item /\ 1 \in DOMAIN q
         /\ Tail(q) \in Seq(Item)
         /\ Len(Tail(q)) = Len(q) - 1
         /\ \A i \in DOMAIN Tail(q) : i + 1 \in DOMAIN q /\ Tail(q)[i] = q[i + 1]
  OBVIOUS

\* Dropping k items at the head (sweepExpired) keeps the others in order.
LEMMA WithoutFacts ==
  ASSUME NEW q \in Seq(Item), NEW k \in 0..Len(q)
  PROVE  /\ Without(q, k) \in Seq(Item)
         /\ Len(Without(q, k)) = Len(q) - k
         /\ \A i \in DOMAIN Without(q, k) :
              i + k \in DOMAIN q /\ Without(q, k)[i] = q[i + k]
  BY DEF Without

\* Queued ids are tasks, and each is the id of an item at some place.
LEMMA QueuedIdsFacts ==
  ASSUME NEW qs \in QueueMaps
  PROVE  /\ QueuedIds(qs) \subseteq Tasks
         /\ \A c \in Clients : IdsOf(qs[c]) \subseteq QueuedIds(qs)
         /\ \A c \in Clients : \A i \in DOMAIN qs[c] :
              qs[c][i] \in Item /\ qs[c][i].id \in IdsOf(qs[c])
         /\ \A t \in QueuedIds(qs) :
              \E c \in Clients : \E i \in DOMAIN qs[c] : t = qs[c][i].id
  <1>1. \A c \in Clients : \A i \in DOMAIN qs[c] : qs[c][i] \in Item
    BY DEF QueueMaps
  <1>2. \A c \in Clients : \A t \in IdsOf(qs[c]) : \E i \in DOMAIN qs[c] : t = qs[c][i].id
    BY DEF IdsOf
  <1>3. \A t \in QueuedIds(qs) :
          \E c \in Clients : \E i \in DOMAIN qs[c] : t = qs[c][i].id
    BY <1>2 DEF QueuedIds
  <1>4. \A item \in Item : item.id \in Tasks
    BY DEF Item
  <1>5. QueuedIds(qs) \subseteq Tasks
    BY <1>1, <1>3, <1>4
  <1>6. \A c \in Clients : \A i \in DOMAIN qs[c] : qs[c][i].id \in IdsOf(qs[c])
    BY DEF IdsOf
  <1>7. \A c \in Clients : IdsOf(qs[c]) \subseteq QueuedIds(qs)
    BY DEF QueuedIds
  <1>8. QED
    BY <1>1, <1>3, <1>5, <1>6, <1>7

\* A boot without a readable file starts from empty queues.
LEMMA NoQueuesFacts ==
  /\ NoQueues \in QueueMaps
  /\ \A order, next, clock : WellFormed(NoQueues, order, next, clock)
  <1>1. \A c \in Clients : NoQueues[c] = <<>> /\ Len(NoQueues[c]) = 0
                            /\ DOMAIN NoQueues[c] = {}
    BY DEF NoQueues
  <1>2. NoQueues \in QueueMaps
    BY DEF NoQueues, QueueMaps
  <1>3. WithinLimit(NoQueues)
    BY <1>1, MaxPerClientAssumption DEF WithinLimit
  <1>4. NoSharedTask(NoQueues)
    BY <1>1 DEF NoSharedTask
  <1>5. ASSUME NEW order, NEW next, NEW clock
        PROVE  InOrder(NoQueues, order) /\ FromThePast(NoQueues, order, next, clock)
    BY <1>1 DEF InOrder, FromThePast
  <1>6. QED
    BY <1>2, <1>3, <1>4, <1>5 DEF WellFormed

-----------------------------------------------------------------------------

LEMMA TypeInit == Init => TypeOK
  <1> SUFFICES ASSUME Init PROVE TypeOK
    OBVIOUS
  <1>1. queues \in QueueMaps /\ snapshot \in QueueMaps /\ file \in QueueMaps
    BY NoQueuesFacts DEF Init
  <1>2. now \in 0..MaxTime /\ restarts \in 0..MaxRestarts
    BY RestartAssumption, TimeAssumption DEF Init
  <1>3. /\ running \in [Clients -> Slot]
        /\ ticket \in [Tasks -> Nat] /\ nextTicket \in Nat \ {0}
    BY DEF Init, Slot
  <1>4. chained \in 0..MaxFlushes
    BY FlushAssumption DEF Init
  <1>5. QED
    BY <1>1, <1>2, <1>3, <1>4 DEF Init, TypeOK

LEMMA TypeStep == TypeOK /\ [Next]_vars => TypeOK'
  <1> SUFFICES ASSUME TypeOK, [Next]_vars PROVE TypeOK'
    OBVIOUS
  <1> USE DEF TypeOK, QueueMaps, Slot
  <1>1. ASSUME NEW c \in Clients, NEW t \in Tasks, Enqueue(c, t) PROVE TypeOK'
    BY <1>1, AppendType DEF Enqueue, Accept, Stamped, agentVars, endVars
  <1>2. ASSUME NEW c \in Clients, NEW t \in Tasks, MarkDone(c, t) PROVE TypeOK'
    BY <1>2 DEF MarkDone, Released, endVars
  <1>3. ASSUME NEW c \in Clients, Pump(c) PROVE TypeOK'
    <2>1. queues[c] \in Seq(Item) /\ queues[c] # <<>>
      BY <1>3 DEF Pump, Dispatch, CanPump
    <2>2. Tail(queues[c]) \in Seq(Item) /\ Head(queues[c]).id \in Tasks
      BY <2>1, TailFacts DEF Item
    <2>3. QED
      BY <1>3, <2>2 DEF Pump, Dispatch, endVars
  <1>4. ASSUME NEW c \in Clients, PumpFails(c) PROVE TypeOK'
    <2>1. queues[c] \in Seq(Item) /\ queues[c] # <<>>
      BY <1>4 DEF PumpFails, CanPump
    <2>2. Tail(queues[c]) \in Seq(Item) /\ Head(queues[c]).id \in Tasks
      BY <2>1, TailFacts DEF Item
    <2>3. QED
      BY <1>4, <2>2 DEF PumpFails, agentVars
  <1>5. ASSUME SweepExpired PROVE TypeOK'
    <2>1. queues' \in QueueMaps
      <3>1. PICK cut \in [Clients -> 0..MaxPerClient] :
              /\ \A c \in Clients : cut[c] \in ExpiredPrefix(queues[c])
              /\ queues' = [c \in Clients |-> Without(queues[c], cut[c])]
        BY <1>5 DEF SweepExpired
      <3>2. \A c \in Clients : Without(queues[c], cut[c]) \in Seq(Item)
        BY <3>1, WithoutFacts DEF ExpiredPrefix
      <3>3. QED
        BY <3>1, <3>2
    <2>2. QueuedIds(queues) \subseteq Tasks
      BY QueuedIdsFacts
    <2>3. QED
      BY <1>5, <2>1, <2>2 DEF SweepExpired, agentVars
  <1>6. CASE FlushTimerFires
    <2>1. chained' \in 0..MaxFlushes
      BY <1>6, FlushAssumption DEF FlushTimerFires
    <2>2. QED
      BY <1>6, <2>1 DEF FlushTimerFires, agentVars, endVars
  <1>7. CASE WriteStarts
    <2>1. chained' \in 0..MaxFlushes
      BY <1>7, FlushAssumption DEF WriteStarts
    <2>2. QED
      BY <1>7, <2>1 DEF WriteStarts, agentVars, endVars
  <1>8. ASSUME NEW ok \in BOOLEAN, WriteEnds(ok) PROVE TypeOK'
    <2>1. NoQueues \in QueueMaps
      BY NoQueuesFacts
    <2>2. file' \in QueueMaps
      BY <1>8, <2>1 DEF WriteEnds
    <2>3. QED
      BY <1>8, <2>2 DEF WriteEnds, agentVars, endVars
  <1>9. CASE Restart
    <2>1. NoQueues \in QueueMaps
      BY NoQueuesFacts
    <2>2. queues' \in QueueMaps /\ file' \in QueueMaps
      BY <1>9, <2>1 DEF Restart, OnDisk
    <2>3. QueuedIds(queues) \subseteq Tasks
      BY QueuedIdsFacts
    <2>4. lost' \in SUBSET Tasks
      BY <1>9, <2>3 DEF Restart
    <2>5. restarts' \in 0..MaxRestarts
      BY <1>9, RestartAssumption DEF Restart
    <2>6. chained' \in 0..MaxFlushes
      BY <1>9, FlushAssumption DEF Restart
    <2>7. QED
      BY <1>9, <2>1, <2>2, <2>4, <2>5, <2>6 DEF Restart
  <1>10. CASE Tick
    BY <1>10, TimeAssumption DEF Tick, diskVars, agentVars, endVars
  <1>11. CASE UNCHANGED vars
    BY <1>11 DEF vars
  <1>12. QED
    BY <1>1, <1>2, <1>3, <1>4, <1>5, <1>6, <1>7, <1>8, <1>9, <1>10, <1>11 DEF Next

\* Every variable keeps its kind.
THEOREM TypeCorrect == Spec => []TypeOK
  BY TypeInit, TypeStep, PTL DEF Spec

-----------------------------------------------------------------------------
(* Which changes of a map of queues keep it well formed.                   *)

\* Time passing and other tasks being accepted do not disturb stored queues.
LEMMA AgingKeepsWellFormed ==
  ASSUME NEW qs \in QueueMaps,
         NEW order \in [Tasks -> Nat], NEW order2 \in [Tasks -> Nat],
         NEW next \in Nat, NEW next2 \in Nat, next <= next2,
         NEW clock \in Nat, NEW clock2 \in Nat, clock <= clock2,
         \A t \in Tasks : order[t] > 0 => order2[t] = order[t],
         WellFormed(qs, order, next, clock)
  PROVE  WellFormed(qs, order2, next2, clock2)
  <1>1. \A c \in Clients : \A i \in DOMAIN qs[c] :
          qs[c][i].id \in Tasks /\ qs[c][i].at \in Nat
    BY QueuedIdsFacts, TimeAssumption DEF Item
  <1>2. \A c \in Clients : \A i \in DOMAIN qs[c] :
          order2[qs[c][i].id] = order[qs[c][i].id]
    BY <1>1 DEF WellFormed, FromThePast
  <1>3. InOrder(qs, order2)
    BY <1>2 DEF WellFormed, InOrder
  <1>4. FromThePast(qs, order2, next2, clock2)
    BY <1>1, <1>2 DEF WellFormed, FromThePast
  <1>5. QED
    BY <1>3, <1>4 DEF WellFormed

\* qs2 is qs without the first cut[c] items of each queue.
HeadsDropped(qs, qs2, cut) ==
  \A c \in Clients :
    /\ Len(qs2[c]) = Len(qs[c]) - cut[c]
    /\ \A i \in DOMAIN qs2[c] : i + cut[c] \in DOMAIN qs[c]
                                /\ qs2[c][i] = qs[c][i + cut[c]]

\* Dropping items at the heads (pump, sweepExpired).
LEMMA DroppingKeepsWellFormed ==
  ASSUME NEW qs \in QueueMaps, NEW qs2 \in QueueMaps,
         NEW cut \in [Clients -> Nat], HeadsDropped(qs, qs2, cut),
         NEW order, NEW next, NEW clock,
         WellFormed(qs, order, next, clock)
  PROVE  /\ WellFormed(qs2, order, next, clock)
         /\ QueuedIds(qs2) \subseteq QueuedIds(qs)
  <1> USE DEF QueueMaps, HeadsDropped
  <1>1. WithinLimit(qs2)
    <2>1. \A c \in Clients : Len(qs[c]) \in Nat /\ Len(qs[c]) <= MaxPerClient
      BY DEF WellFormed, WithinLimit
    <2>2. QED
      BY <2>1, MaxPerClientAssumption DEF WithinLimit
  <1>2. InOrder(qs2, order)
    <2> SUFFICES ASSUME NEW c \in Clients, NEW i \in DOMAIN qs2[c], NEW j \in DOMAIN qs2[c],
                        i < j
                 PROVE  /\ order[qs2[c][i].id] < order[qs2[c][j].id]
                        /\ qs2[c][i].at <= qs2[c][j].at
      BY DEF InOrder
    <2>1. /\ i + cut[c] \in DOMAIN qs[c] /\ j + cut[c] \in DOMAIN qs[c]
          /\ i + cut[c] < j + cut[c]
      OBVIOUS
    <2>2. QED
      BY <2>1 DEF WellFormed, InOrder
  <1>3. NoSharedTask(qs2)
    <2> SUFFICES ASSUME NEW c \in Clients, NEW d \in Clients, c # d,
                        NEW i \in DOMAIN qs2[c], NEW j \in DOMAIN qs2[d]
                 PROVE  qs2[c][i].id # qs2[d][j].id
      BY DEF NoSharedTask
    <2>1. /\ i + cut[c] \in DOMAIN qs[c] /\ qs2[c][i] = qs[c][i + cut[c]]
          /\ j + cut[d] \in DOMAIN qs[d] /\ qs2[d][j] = qs[d][j + cut[d]]
      OBVIOUS
    <2> HIDE DEF HeadsDropped
    <2>2. qs[c][i + cut[c]].id # qs[d][j + cut[d]].id
      BY <2>1 DEF WellFormed, NoSharedTask
    <2>3. QED
      BY <2>1, <2>2
  <1>4. FromThePast(qs2, order, next, clock)
    <2> SUFFICES ASSUME NEW c \in Clients, NEW i \in DOMAIN qs2[c]
                 PROVE  order[qs2[c][i].id] \in 1..(next - 1) /\ qs2[c][i].at <= clock
      BY DEF FromThePast
    <2>1. i + cut[c] \in DOMAIN qs[c] /\ qs2[c][i] = qs[c][i + cut[c]]
      OBVIOUS
    <2>2. QED
      BY <2>1 DEF WellFormed, FromThePast
  <1>5. QueuedIds(qs2) \subseteq QueuedIds(qs)
    <2> SUFFICES ASSUME NEW t \in QueuedIds(qs2) PROVE t \in QueuedIds(qs)
      OBVIOUS
    <2>1. PICK c \in Clients : \E i \in DOMAIN qs2[c] : t = qs2[c][i].id
      BY QueuedIdsFacts
    <2>2. PICK i \in DOMAIN qs[c] : t = qs[c][i].id
      BY <2>1
    <2>3. QED
      BY <2>2, QueuedIdsFacts
  <1>6. QED
    BY <1>1, <1>2, <1>3, <1>4, <1>5 DEF WellFormed

\* Pushing a new task at one tail (enqueue).
LEMMA PushingKeepsWellFormed ==
  ASSUME NEW qs \in QueueMaps, NEW c \in Clients, NEW t \in Tasks,
         NEW order \in [Tasks -> Nat], order[t] = 0,
         NEW next \in Nat \ {0}, now \in 0..MaxTime,
         HasRoom(qs[c]), WellFormed(qs, order, next, now)
  PROVE  WellFormed([qs EXCEPT ![c] = Append(@, [id |-> t, at |-> now])],
                    [order EXCEPT ![t] = next], next + 1, now)
  <1> DEFINE order2 == [order EXCEPT ![t] = next]
             item == [id |-> t, at |-> now]
             qs2 == [qs EXCEPT ![c] = Append(@, item)]
             n == Len(qs[c])
  <1>1. WellFormed(qs, order2, next + 1, now)
    <2>1. order2 \in [Tasks -> Nat] /\ \A u \in Tasks : order[u] > 0 => order2[u] = order[u]
      OBVIOUS
    <2>2. next \in Nat /\ next + 1 \in Nat /\ next <= next + 1 /\ now \in Nat /\ now <= now
      BY TimeAssumption
    <2> HIDE DEF order2
    <2>3. QED
      BY <2>1, <2>2, AgingKeepsWellFormed
  <1>2. /\ qs[c] \in Seq(Item) /\ n \in Nat /\ DOMAIN qs[c] = 1..n
        /\ qs2[c] = Append(qs[c], item) /\ Len(qs2[c]) = n + 1
        /\ DOMAIN qs2[c] = 1..(n + 1)
        /\ qs2[c][n + 1] = item
        /\ \A i \in 1..n : qs2[c][i] = qs[c][i]
    BY AppendType DEF QueueMaps
  <1>3. \A d \in Clients \ {c} : qs2[d] = qs[d]
    BY DEF QueueMaps
  <1>4. \A d \in Clients : \A i \in DOMAIN qs[d] :
          /\ order2[qs[d][i].id] \in 1..next /\ order2[qs[d][i].id] < next
          /\ qs[d][i].at <= now
          /\ qs[d][i].id # t
    <2>1. \A d \in Clients : \A i \in DOMAIN qs[d] :
            /\ qs[d][i].id \in Tasks /\ qs[d][i].at <= now
            /\ order[qs[d][i].id] \in 1..(next - 1)
      BY QueuedIdsFacts DEF WellFormed, FromThePast, Item
    <2>2. \A u \in Tasks : order[u] \in 1..(next - 1) =>
            order2[u] = order[u] /\ order2[u] \in 1..next /\ order2[u] < next /\ u # t
      OBVIOUS
    <2> HIDE DEF order2, qs2, item, n
    <2>3. QED
      BY <2>1, <2>2
  <1> HIDE DEF qs2, order2
  <1>5. WithinLimit(qs2)
    BY <1>1, <1>2, <1>3, MaxPerClientAssumption DEF WellFormed, WithinLimit, HasRoom
  <1>6. order2[t] = next /\ item.id = t /\ item.at = now
    BY DEF order2
  <1> HIDE DEF item, n
  <1>a. \A i \in DOMAIN qs2[c] : i # n + 1 =>
          i \in 1..n /\ i \in DOMAIN qs[c] /\ qs2[c][i] = qs[c][i]
    BY <1>2
  <1>7. InOrder(qs2, order2)
    <2> SUFFICES ASSUME NEW d \in Clients, NEW i \in DOMAIN qs2[d], NEW j \in DOMAIN qs2[d],
                        i < j
                 PROVE  /\ order2[qs2[d][i].id] < order2[qs2[d][j].id]
                        /\ qs2[d][i].at <= qs2[d][j].at
      BY DEF InOrder
    <2>1. CASE d # c
      BY <1>1, <1>3, <2>1 DEF WellFormed, InOrder
    <2>2. CASE d = c /\ j <= n
      <3>1. i \in DOMAIN qs[c] /\ j \in DOMAIN qs[c] /\ qs2[d][i] = qs[c][i] /\ qs2[d][j] = qs[c][j]
        <4>1. i \in DOMAIN qs2[c] /\ j \in DOMAIN qs2[c] /\ i # n + 1 /\ j # n + 1
          BY <1>2, <2>2
        <4>2. QED
          BY <1>a, <2>2, <4>1
      <3>2. QED
        BY <1>1, <3>1 DEF WellFormed, InOrder
    <2>3. CASE d = c /\ j = n + 1
      <3>1. i \in DOMAIN qs[c] /\ qs2[d][i] = qs[c][i] /\ qs2[d][j] = item
        <4>1. i \in DOMAIN qs2[c] /\ i # n + 1
          BY <1>2, <2>3
        <4>2. QED
          BY <1>2, <1>a, <2>3, <4>1
      <3>2. QED
        BY <1>4, <1>6, <3>1
    <2>4. QED
      BY <1>2, <2>1, <2>2, <2>3
  <1>8. NoSharedTask(qs2)
    <2> SUFFICES ASSUME NEW d \in Clients, NEW e \in Clients, d # e,
                        NEW i \in DOMAIN qs2[d], NEW j \in DOMAIN qs2[e]
                 PROVE  qs2[d][i].id # qs2[e][j].id
      BY DEF NoSharedTask
    <2>1. CASE d # c /\ e # c
      BY <1>1, <1>3, <2>1 DEF WellFormed, NoSharedTask
    <2>2. CASE d = c
      <3>1. CASE i = n + 1
        BY <1>2, <1>3, <1>4, <1>6, <2>2, <3>1
      <3>2. CASE i <= n
        <4>1. i \in DOMAIN qs[c] /\ qs2[d][i] = qs[c][i] /\ qs2[e] = qs[e]
          BY <1>2, <1>3, <1>a, <2>2, <3>2
        <4>2. QED
          BY <1>1, <2>2, <4>1 DEF WellFormed, NoSharedTask
      <3>3. QED
        BY <1>2, <2>2, <3>1, <3>2
    <2>3. CASE e = c
      <3>1. CASE j = n + 1
        BY <1>2, <1>3, <1>4, <1>6, <2>3, <3>1
      <3>2. CASE j <= n
        <4>1. j \in DOMAIN qs[c] /\ qs2[e][j] = qs[c][j]
          BY <1>2, <1>a, <2>3, <3>2
        <4>2. QED
          BY <1>1, <1>3, <2>3, <4>1 DEF WellFormed, NoSharedTask
      <3>3. QED
        BY <1>2, <2>3, <3>1, <3>2
    <2>4. QED
      BY <2>1, <2>2, <2>3
  <1>9. FromThePast(qs2, order2, next + 1, now)
    <2> SUFFICES ASSUME NEW d \in Clients, NEW i \in DOMAIN qs2[d]
                 PROVE  /\ order2[qs2[d][i].id] \in 1..(next + 1 - 1)
                        /\ qs2[d][i].at <= now
      BY DEF FromThePast
    <2>1. CASE d = c /\ i = n + 1
      BY <1>2, <1>6, <2>1, TimeAssumption
    <2>2. CASE ~(d = c /\ i = n + 1)
      <3>1. i \in DOMAIN qs[d] /\ qs2[d][i] = qs[d][i]
        <4>1. CASE d = c
          BY <1>a, <2>2, <4>1
        <4>2. CASE d # c
          BY <1>3, <4>2
        <4>3. QED
          BY <4>1, <4>2
      <3>2. QED
        BY <1>4, <3>1
    <2>3. QED
      BY <2>1, <2>2
  <1>10. QED
    BY <1>5, <1>7, <1>8, <1>9 DEF WellFormed, qs2, order2, item

-----------------------------------------------------------------------------
(* The inductive invariant: the live queues are only as good as the file a  *)
(* restart restores them from and the write in progress that may become     *)
(* that file, and a fresh task is not in flight.                            *)

StoresWellFormed ==
  /\ QueuesWellFormed
  /\ WellFormed(file, ticket, nextTicket, now)
  /\ WellFormed(snapshot, ticket, nextTicket, now)

RunningWasAccepted == \A c \in Clients : running[c] # NoTask => ticket[running[c]] > 0

IndInv ==
  /\ TypeOK
  /\ StoresWellFormed
  /\ RunningWasAccepted
  /\ RunningIsNotQueued
  /\ OneOpenTaskPerAgent

LEMMA IndInvInit == Init => IndInv
  <1> SUFFICES ASSUME Init PROVE IndInv
    OBVIOUS
  <1>1. TypeOK
    BY TypeInit
  <1>2. StoresWellFormed
    BY NoQueuesFacts DEF Init, StoresWellFormed, QueuesWellFormed
  <1>3. RunningWasAccepted /\ RunningIsNotQueued /\ OneOpenTaskPerAgent
    BY DEF Init, RunningWasAccepted, RunningIsNotQueued, OneOpenTaskPerAgent
  <1>4. QED
    BY <1>1, <1>2, <1>3 DEF IndInv

\* The head pump takes is a task.
LEMMA HeadIsATask ==
  ASSUME IndInv, NEW c \in Clients, queues[c] # <<>>
  PROVE  Head(queues[c]).id \in Tasks
  <1>1. queues[c] \in Seq(Item)
    BY DEF IndInv, TypeOK, QueueMaps
  <1>2. QED
    BY <1>1, TailFacts DEF Item

\* Taking the head out of a queue: what pump leaves behind, whether or not the
\* dispatch succeeds.
LEMMA ShiftFacts ==
  ASSUME IndInv, NEW c \in Clients, queues[c] # <<>>,
         queues' = [queues EXCEPT ![c] = Tail(@)],
         NEW t \in Tasks, t = Head(queues[c]).id
  PROVE  /\ ticket[t] > 0
         /\ queues' \in QueueMaps
         /\ WellFormed(queues', ticket, nextTicket, now)
         /\ QueuedIds(queues') \subseteq QueuedIds(queues)
         /\ t \in QueuedIds(queues) /\ t \notin QueuedIds(queues')
         /\ \A u \in IdsOf(queues'[c]) : ticket[t] < ticket[u]
         /\ QueuedIds(queues) \subseteq QueuedIds(queues') \cup {t}
  <1>1. queues \in QueueMaps /\ queues[c] \in Seq(Item)
        /\ WellFormed(queues, ticket, nextTicket, now)
    BY DEF IndInv, TypeOK, QueueMaps, StoresWellFormed, QueuesWellFormed
  <1>2. /\ t = queues[c][1].id /\ 1 \in DOMAIN queues[c] /\ t \in Tasks
        /\ Tail(queues[c]) \in Seq(Item)
        /\ Len(Tail(queues[c])) = Len(queues[c]) - 1
        /\ \A i \in DOMAIN Tail(queues[c]) :
             i + 1 \in DOMAIN queues[c] /\ Tail(queues[c])[i] = queues[c][i + 1]
    BY <1>1, TailFacts DEF Item
  <1>3. /\ queues' \in QueueMaps /\ queues'[c] = Tail(queues[c])
        /\ \A d \in Clients \ {c} : queues'[d] = queues[d]
    BY <1>1, <1>2 DEF QueueMaps
  <1>4. ticket[t] > 0 /\ t \in QueuedIds(queues)
    BY <1>1, <1>2, QueuedIdsFacts DEF WellFormed, FromThePast
  <1>5. WellFormed(queues', ticket, nextTicket, now) /\ QueuedIds(queues') \subseteq QueuedIds(queues)
    <2> DEFINE cut == [d \in Clients |-> IF d = c THEN 1 ELSE 0]
    <2>1. cut \in [Clients -> Nat] /\ cut[c] = 1 /\ \A d \in Clients \ {c} : cut[d] = 0
      OBVIOUS
    <2> HIDE DEF cut
    <2>2. /\ Len(queues'[c]) = Len(queues[c]) - cut[c]
          /\ \A i \in DOMAIN queues'[c] : i + cut[c] \in DOMAIN queues[c]
                                      /\ queues'[c][i] = queues[c][i + cut[c]]
      <3>1. Len(queues'[c]) = Len(queues[c]) - 1
        BY <1>2, <1>3
      <3>2. \A i \in DOMAIN queues'[c] : i + 1 \in DOMAIN queues[c] /\ queues'[c][i] = queues[c][i + 1]
        BY <1>2, <1>3
      <3>3. QED
        BY <2>1, <3>1, <3>2
    <2>3. ASSUME NEW d \in Clients \ {c}
          PROVE  /\ Len(queues'[d]) = Len(queues[d]) - cut[d]
                 /\ \A i \in DOMAIN queues'[d] : i + cut[d] \in DOMAIN queues[d]
                                             /\ queues'[d][i] = queues[d][i + cut[d]]
      <3>1. queues[d] \in Seq(Item) /\ queues'[d] = queues[d] /\ cut[d] = 0
        BY <1>1, <1>3, <2>1 DEF QueueMaps
      <3>2. Len(queues[d]) \in Nat /\ \A i \in DOMAIN queues[d] : i \in Nat
        BY <3>1
      <3>3. QED
        BY <3>1, <3>2
    <2>4. HeadsDropped(queues, queues', cut)
      BY <2>2, <2>3 DEF HeadsDropped
    <2>5. QED
      BY <1>1, <1>3, <2>1, <2>4, DroppingKeepsWellFormed
  <1>6. \A u \in IdsOf(queues'[c]) : ticket[t] < ticket[u]
    <2> SUFFICES ASSUME NEW u \in IdsOf(queues'[c]) PROVE ticket[t] < ticket[u]
      OBVIOUS
    <2>1. PICK i \in DOMAIN Tail(queues[c]) : u = Tail(queues[c])[i].id
      BY <1>3 DEF IdsOf
    <2>2. u = queues[c][i + 1].id /\ i + 1 \in DOMAIN queues[c] /\ 1 < i + 1
      BY <1>2, <2>1
    <2>3. QED
      BY <1>1, <1>2, <2>2 DEF WellFormed, InOrder
  <1>7. t \notin QueuedIds(queues')
    <2> SUFFICES ASSUME t \in QueuedIds(queues') PROVE FALSE
      OBVIOUS
    <2>1. PICK d \in Clients : \E i \in DOMAIN queues'[d] : t = queues'[d][i].id
      BY <1>3, QueuedIdsFacts
    <2>2. PICK i \in DOMAIN queues'[d] : t = queues'[d][i].id
      BY <2>1
    <2>3. CASE d = c
      <3>1. t \in IdsOf(queues'[c])
        BY <2>2, <2>3 DEF IdsOf
      <3>2. ticket[t] \in Nat
        BY <1>2 DEF IndInv, TypeOK
      <3>3. QED
        BY <1>6, <3>1, <3>2
    <2>4. CASE d # c
      BY <1>1, <1>2, <1>3, <2>2, <2>4 DEF WellFormed, NoSharedTask
    <2>5. QED
      BY <2>3, <2>4
  <1>8. QueuedIds(queues) \subseteq QueuedIds(queues') \cup {t}
    <2> SUFFICES ASSUME NEW u \in QueuedIds(queues), u # t PROVE u \in QueuedIds(queues')
      OBVIOUS
    <2>1. PICK d \in Clients : \E i \in DOMAIN queues[d] : u = queues[d][i].id
      BY <1>1, QueuedIdsFacts
    <2>2. PICK i \in DOMAIN queues[d] : u = queues[d][i].id
      BY <2>1
    <2>3. \E j \in DOMAIN queues'[d] : u = queues'[d][j].id
      <3>1. CASE d = c
        <4>1. i \in 1..Len(queues[c]) /\ Len(queues[c]) \in Nat /\ i # 1
          BY <1>1, <1>2, <2>2, <3>1
        <4>2. i - 1 \in 1..Len(Tail(queues[c])) /\ (i - 1) + 1 = i
          BY <1>2, <4>1
        <4>3. i - 1 \in DOMAIN Tail(queues[c])
          BY <1>2, <4>2
        <4>4. Tail(queues[c])[i - 1] = queues[c][i]
          BY <1>2, <4>2, <4>3
        <4>5. QED
          BY <1>3, <2>2, <3>1, <4>3, <4>4
      <3>2. CASE d # c
        <4>1. queues'[d] = queues[d]
          BY <1>3, <3>2
        <4>2. QED
          BY <2>2, <4>1
      <3>3. QED
        BY <3>1, <3>2
    <2>4. u \in IdsOf(queues'[d])
      BY <2>3 DEF IdsOf
    <2>5. QED
      BY <2>4 DEF QueuedIds
  <1>9. QED
    BY <1>2, <1>3, <1>4, <1>5, <1>6, <1>7, <1>8

\* No stored map of queues changes, and nothing else WellFormed looks at.
LEMMA StoresUnchanged ==
  ASSUME StoresWellFormed, UNCHANGED <<queues, file, snapshot, ticket, nextTicket, now>>
  PROVE  StoresWellFormed'
  BY DEF StoresWellFormed, QueuesWellFormed, WellFormed, WithinLimit, InOrder,
         NoSharedTask, FromThePast

\* The slots and what the agents hold are as before and no task joins a queue.
LEMMA SlotsUnchanged ==
  ASSUME IndInv, UNCHANGED <<running, open, inherited>>,
         \A t \in Tasks : ticket[t] > 0 => ticket'[t] > 0,
         \A t \in QueuedIds(queues)' : t \in QueuedIds(queues) \/ ticket[t] = 0
  PROVE  RunningWasAccepted' /\ RunningIsNotQueued' /\ OneOpenTaskPerAgent'
  <1>1. RunningWasAccepted'
    BY DEF IndInv, RunningWasAccepted, TypeOK, Slot
  <1>2. RunningIsNotQueued'
    <2>1. \A c \in Clients : running[c] # NoTask =>
            running[c] \notin QueuedIds(queues) /\ ticket[running[c]] # 0
      BY DEF IndInv, RunningWasAccepted, RunningIsNotQueued
    <2>2. \A c \in Clients : running[c] # NoTask => running[c] \notin QueuedIds(queues)'
      BY <2>1
    <2>3. \A c, d \in Clients : running[c] # NoTask /\ running[d] = running[c] => c = d
      BY DEF IndInv, RunningIsNotQueued
    <2>4. QED
      BY <2>2, <2>3 DEF RunningIsNotQueued
  <1>3. OneOpenTaskPerAgent'
    BY DEF IndInv, OneOpenTaskPerAgent
  <1>4. QED
    BY <1>1, <1>2, <1>3

LEMMA EnqueueStep ==
  ASSUME IndInv, NEW c \in Clients, NEW t \in Tasks, Enqueue(c, t)
  PROVE  StoresWellFormed' /\ RunningWasAccepted' /\ RunningIsNotQueued' /\ OneOpenTaskPerAgent'
  <1>1. /\ queues \in QueueMaps /\ file \in QueueMaps /\ snapshot \in QueueMaps
        /\ ticket \in [Tasks -> Nat] /\ nextTicket \in Nat \ {0} /\ now \in 0..MaxTime
        /\ now \in Nat /\ now <= now
        /\ nextTicket \in Nat /\ nextTicket + 1 \in Nat /\ nextTicket <= nextTicket + 1
    BY TimeAssumption DEF IndInv, TypeOK
  <1>2. /\ ticket[t] = 0 /\ HasRoom(queues[c])
        /\ queues' = [queues EXCEPT ![c] = Append(@, [id |-> t, at |-> now])]
        /\ ticket' = [ticket EXCEPT ![t] = nextTicket] /\ nextTicket' = nextTicket + 1
        /\ now' = now /\ file' = file /\ snapshot' = snapshot
        /\ UNCHANGED <<running, open, inherited>>
    BY DEF Enqueue, Accept, Stamped, agentVars
  <1>3. /\ WellFormed(queues, ticket, nextTicket, now)
        /\ WellFormed(file, ticket, nextTicket, now)
        /\ WellFormed(snapshot, ticket, nextTicket, now)
    BY DEF IndInv, StoresWellFormed, QueuesWellFormed
  <1>4. WellFormed(queues', ticket', nextTicket', now')
    BY <1>1, <1>2, <1>3, PushingKeepsWellFormed
  <1>5. ticket' \in [Tasks -> Nat] /\ \A u \in Tasks : ticket[u] > 0 => ticket'[u] = ticket[u]
    BY <1>1, <1>2
  <1>6. WellFormed(file', ticket', nextTicket', now') /\ WellFormed(snapshot', ticket', nextTicket', now')
    <2>1. nextTicket' \in Nat /\ nextTicket <= nextTicket' /\ now' \in Nat /\ now <= now'
      BY <1>1, <1>2
    <2>2. WellFormed(file, ticket', nextTicket', now') /\ WellFormed(snapshot, ticket', nextTicket', now')
      BY <1>1, <1>3, <1>5, <2>1, AgingKeepsWellFormed
    <2>3. QED
      BY <1>2, <2>2
  <1>7. StoresWellFormed'
    BY <1>4, <1>6 DEF StoresWellFormed, QueuesWellFormed
  <1>8. \A u \in QueuedIds(queues)' : u \in QueuedIds(queues) \/ ticket[u] = 0
    <2> SUFFICES ASSUME NEW u \in QueuedIds(queues')
                 PROVE  u \in QueuedIds(queues) \/ u = t
      BY <1>2 DEF QueuedIds, IdsOf
    <2>0. queues' \in QueueMaps
      BY <1>1, <1>2, AppendType DEF QueueMaps
    <2>1. PICK d \in Clients : \E i \in DOMAIN queues'[d] : u = queues'[d][i].id
      BY <2>0, QueuedIdsFacts
    <2>2. PICK i \in DOMAIN queues'[d] : u = queues'[d][i].id
      BY <2>1
    <2>3. CASE d # c
      <3>1. queues'[d] = queues[d]
        BY <1>1, <1>2, <2>3 DEF QueueMaps
      <3>2. QED
        BY <1>1, <2>2, <3>1, QueuedIdsFacts
    <2>4. CASE d = c
      <3>1. /\ queues[c] \in Seq(Item)
            /\ queues'[c] = Append(queues[c], [id |-> t, at |-> now])
        BY <1>1, <1>2 DEF QueueMaps
      <3>2. CASE i \in DOMAIN queues[c]
        <4>1. queues'[c][i] = queues[c][i]
          BY <1>1, <3>1, <3>2, AppendType
        <4>2. QED
          BY <1>1, <2>2, <2>4, <3>2, <4>1, QueuedIdsFacts
      <3>3. CASE i \notin DOMAIN queues[c]
        <4>1. i = Len(queues[c]) + 1
          BY <2>2, <2>4, <3>1, <3>3
        <4>2. queues'[c][i] = [id |-> t, at |-> now]
          BY <1>1, <3>1, <4>1, AppendType
        <4>3. QED
          BY <2>2, <2>4, <4>2
      <3>4. QED
        BY <3>2, <3>3
    <2>5. QED
      BY <2>3, <2>4
  <1>9. \A u \in Tasks : ticket[u] > 0 => ticket'[u] > 0
    BY <1>5
  <1>10. QED
    BY <1>2, <1>7, <1>8, <1>9, SlotsUnchanged

\* Stored queues that were well formed stay so while only the live map changes.
LEMMA LiveChange ==
  ASSUME StoresWellFormed, UNCHANGED <<file, snapshot, ticket, nextTicket, now>>,
         WellFormed(queues', ticket, nextTicket, now)
  PROVE  StoresWellFormed'
  BY DEF StoresWellFormed, QueuesWellFormed, WellFormed, WithinLimit, InOrder,
         NoSharedTask, FromThePast

LEMMA PumpStep ==
  ASSUME IndInv, NEW c \in Clients, Pump(c)
  PROVE  StoresWellFormed' /\ RunningWasAccepted' /\ RunningIsNotQueued' /\ OneOpenTaskPerAgent'
  <1> DEFINE t == Head(queues[c]).id
  <1>1. /\ queues[c] # <<>> /\ running[c] = NoTask
        /\ queues' = [queues EXCEPT ![c] = Tail(@)]
        /\ running' = [running EXCEPT ![c] = t]
        /\ open' = [open EXCEPT ![c] = @ \cup {t}]
        /\ inherited' = [inherited EXCEPT ![c] = @ \ {t}]
        /\ UNCHANGED <<file, snapshot, ticket, nextTicket, now>>
    BY DEF Pump, Dispatch, CanPump
  <1>h. t = Head(queues[c]).id
    OBVIOUS
  <1> HIDE DEF t
  <1>2. /\ t \in Tasks /\ ticket[t] > 0
        /\ WellFormed(queues', ticket, nextTicket, now)
        /\ QueuedIds(queues') \subseteq QueuedIds(queues)
        /\ t \in QueuedIds(queues) /\ t \notin QueuedIds(queues')
    BY <1>1, <1>h, HeadIsATask, ShiftFacts
  <1>3. /\ running \in [Clients -> Slot] /\ open \in [Clients -> SUBSET Tasks]
        /\ inherited \in [Clients -> SUBSET Tasks] /\ NoTask \notin Tasks
    BY NoTaskAssumption DEF IndInv, TypeOK
  <1>4. StoresWellFormed'
    BY <1>1, <1>2, LiveChange DEF IndInv
  <1>5. running'[c] = t /\ \A d \in Clients \ {c} : running'[d] = running[d]
    BY <1>1, <1>3
  <1>6. RunningWasAccepted'
    BY <1>1, <1>2, <1>5 DEF IndInv, RunningWasAccepted
  <1>7. RunningIsNotQueued'
    <2>1. \A d \in Clients : running[d] # NoTask =>
            /\ running[d] \notin QueuedIds(queues)
            /\ \A e \in Clients : running[e] = running[d] => d = e
      BY DEF IndInv, RunningIsNotQueued
    <2>2. QueuedIds(queues)' = QueuedIds(queues')
      BY DEF QueuedIds, IdsOf
    <2>3. \A d \in Clients : running'[d] # NoTask => running'[d] \notin QueuedIds(queues')
      BY <1>2, <1>5, <2>1
    <2>4. \A d, e \in Clients : running'[d] # NoTask /\ running'[e] = running'[d] => d = e
      BY <1>2, <1>5, <2>1
    <2>5. QED
      BY <2>2, <2>3, <2>4 DEF RunningIsNotQueued
  <1>8. OneOpenTaskPerAgent'
    <2>1. \A d \in Clients : open[d] \ inherited[d] \subseteq {running[d]}
      BY DEF IndInv, OneOpenTaskPerAgent
    <2>2. \A d \in Clients \ {c} : open'[d] = open[d] /\ inherited'[d] = inherited[d]
      BY <1>1, <1>3
    <2>3. open'[c] = open[c] \cup {t} /\ inherited'[c] = inherited[c] \ {t}
      BY <1>1, <1>3
    <2>4. open[c] \ inherited[c] = {}
      <3>1. open[c] \ inherited[c] \subseteq {NoTask} /\ open[c] \ inherited[c] \subseteq Tasks
        BY <1>1, <1>3, <2>1
      <3>2. QED
        BY <1>3, <3>1
    <2>5. open'[c] \ inherited'[c] \subseteq {t}
      BY <2>3, <2>4
    <2>6. QED
      BY <1>5, <2>1, <2>2, <2>5 DEF OneOpenTaskPerAgent
  <1>9. QED
    BY <1>4, <1>6, <1>7, <1>8

LEMMA PumpFailsStep ==
  ASSUME IndInv, NEW c \in Clients, PumpFails(c)
  PROVE  StoresWellFormed' /\ RunningWasAccepted' /\ RunningIsNotQueued' /\ OneOpenTaskPerAgent'
  <1>1. /\ queues[c] # <<>>
        /\ queues' = [queues EXCEPT ![c] = Tail(@)]
        /\ UNCHANGED <<file, snapshot, ticket, nextTicket, now, running, open, inherited>>
    BY DEF PumpFails, CanPump, agentVars
  <1>2. /\ WellFormed(queues', ticket, nextTicket, now)
        /\ QueuedIds(queues') \subseteq QueuedIds(queues)
    BY <1>1, HeadIsATask, ShiftFacts
  <1>3. StoresWellFormed'
    BY <1>1, <1>2, LiveChange DEF IndInv
  <1>4. QueuedIds(queues)' = QueuedIds(queues')
    BY DEF QueuedIds, IdsOf
  <1>5. QED
    BY <1>1, <1>2, <1>3, <1>4, SlotsUnchanged

LEMMA MarkDoneStep ==
  ASSUME IndInv, NEW c \in Clients, NEW t \in Tasks, MarkDone(c, t)
  PROVE  StoresWellFormed' /\ RunningWasAccepted' /\ RunningIsNotQueued' /\ OneOpenTaskPerAgent'
  <1>1. /\ UNCHANGED <<queues, file, snapshot, ticket, nextTicket, now>>
        /\ running' = [running EXCEPT ![c] = Released(@, t)]
        /\ open' = [open EXCEPT ![c] = @ \ {t}]
        /\ inherited' = [inherited EXCEPT ![c] = @ \ {t}]
    BY DEF MarkDone
  <1>2. /\ running \in [Clients -> Slot] /\ open \in [Clients -> SUBSET Tasks]
        /\ inherited \in [Clients -> SUBSET Tasks]
    BY DEF IndInv, TypeOK
  <1>3. StoresWellFormed'
    BY <1>1, StoresUnchanged DEF IndInv
  <1>4. /\ running'[c] = Released(running[c], t)
        /\ \A d \in Clients \ {c} : running'[d] = running[d]
    BY <1>1, <1>2
  <1>5. \A d \in Clients : running'[d] # NoTask => running'[d] = running[d]
    BY <1>4 DEF Released
  <1>6. RunningWasAccepted'
    BY <1>1, <1>5 DEF IndInv, RunningWasAccepted
  <1>7. RunningIsNotQueued'
    <2>1. QueuedIds(queues)' = QueuedIds(queues)
      BY <1>1 DEF QueuedIds, IdsOf
    <2>2. QED
      BY <1>5, <2>1 DEF IndInv, RunningIsNotQueued
  <1>8. OneOpenTaskPerAgent'
    <2>1. \A d \in Clients : open[d] \ inherited[d] \subseteq {running[d]}
      BY DEF IndInv, OneOpenTaskPerAgent
    <2>2. \A d \in Clients \ {c} : open'[d] = open[d] /\ inherited'[d] = inherited[d]
      BY <1>1, <1>2
    <2>3. open'[c] = open[c] \ {t} /\ inherited'[c] = inherited[c] \ {t}
      BY <1>1, <1>2
    <2>4. open'[c] \ inherited'[c] \subseteq {running[c]} \ {t}
      BY <2>1, <2>3
    <2>5. {running[c]} \ {t} \subseteq {running'[c]}
      BY <1>4 DEF Released
    <2>6. QED
      BY <1>4, <2>1, <2>2, <2>4, <2>5 DEF OneOpenTaskPerAgent
  <1>9. QED
    BY <1>3, <1>6, <1>7, <1>8

LEMMA SweepStep ==
  ASSUME IndInv, SweepExpired
  PROVE  StoresWellFormed' /\ RunningWasAccepted' /\ RunningIsNotQueued' /\ OneOpenTaskPerAgent'
  <1>1. PICK cut \in [Clients -> 0..MaxPerClient] :
          /\ \A c \in Clients : cut[c] \in ExpiredPrefix(queues[c])
          /\ queues' = [c \in Clients |-> Without(queues[c], cut[c])]
    BY DEF SweepExpired
  <1>2. /\ UNCHANGED <<file, snapshot, ticket, nextTicket, now, running, open, inherited>>
        /\ queues \in QueueMaps /\ StoresWellFormed
        /\ WellFormed(queues, ticket, nextTicket, now)
    BY DEF SweepExpired, agentVars, IndInv, TypeOK, StoresWellFormed, QueuesWellFormed
  <1>3. \A c \in Clients :
          /\ queues[c] \in Seq(Item) /\ cut[c] \in 0..Len(queues[c])
          /\ queues'[c] = Without(queues[c], cut[c])
    BY <1>1, <1>2 DEF ExpiredPrefix, QueueMaps
  <1>4. queues' \in QueueMaps /\ HeadsDropped(queues, queues', cut) /\ cut \in [Clients -> Nat]
    BY <1>1, <1>3, WithoutFacts, MaxPerClientAssumption DEF QueueMaps, HeadsDropped
  <1>5. /\ WellFormed(queues', ticket, nextTicket, now)
        /\ QueuedIds(queues') \subseteq QueuedIds(queues)
    BY <1>2, <1>4, DroppingKeepsWellFormed
  <1>6. QueuedIds(queues)' = QueuedIds(queues')
    BY DEF QueuedIds, IdsOf
  <1>7. QED
    BY <1>2, <1>5, <1>6, LiveChange, SlotsUnchanged

LEMMA RestartStep ==
  ASSUME IndInv, Restart
  PROVE  StoresWellFormed' /\ RunningWasAccepted' /\ RunningIsNotQueued' /\ OneOpenTaskPerAgent'
  <1>1. PICK qs \in OnDisk : queues' = qs /\ file' = qs
    BY DEF Restart
  <1>2. /\ running' = [c \in Clients |-> NoTask] /\ inherited' = open /\ open' = open
        /\ snapshot' = NoQueues /\ UNCHANGED <<ticket, nextTicket, now>>
    BY DEF Restart
  <1>3. WellFormed(qs, ticket, nextTicket, now) /\ WellFormed(NoQueues, ticket, nextTicket, now)
    BY <1>1, NoQueuesFacts DEF OnDisk, IndInv, StoresWellFormed
  <1>4. StoresWellFormed'
    BY <1>1, <1>2, <1>3 DEF StoresWellFormed, QueuesWellFormed
  <1>5. RunningWasAccepted' /\ RunningIsNotQueued' /\ OneOpenTaskPerAgent'
    BY <1>2 DEF RunningWasAccepted, RunningIsNotQueued, OneOpenTaskPerAgent
  <1>6. QED
    BY <1>4, <1>5

\* The writer's three steps store the live map or an older one.
LEMMA WriterStep ==
  ASSUME IndInv, FlushTimerFires \/ WriteStarts \/ \E ok \in BOOLEAN : WriteEnds(ok)
  PROVE  StoresWellFormed' /\ RunningWasAccepted' /\ RunningIsNotQueued' /\ OneOpenTaskPerAgent'
  <1>1. /\ UNCHANGED <<queues, running, open, inherited, ticket, nextTicket, now>>
        /\ file' \in {file, snapshot, NoQueues} /\ snapshot' \in {snapshot, queues}
    BY DEF FlushTimerFires, WriteStarts, WriteEnds, agentVars
  <1>2. StoresWellFormed'
    BY <1>1, NoQueuesFacts DEF IndInv, StoresWellFormed, QueuesWellFormed
  <1>3. QueuedIds(queues)' = QueuedIds(queues)
    BY <1>1 DEF QueuedIds, IdsOf
  <1>4. QED
    BY <1>1, <1>2, <1>3, SlotsUnchanged

LEMMA TickStep ==
  ASSUME IndInv, Tick
  PROVE  StoresWellFormed' /\ RunningWasAccepted' /\ RunningIsNotQueued' /\ OneOpenTaskPerAgent'
  <1>1. /\ UNCHANGED <<queues, running, open, inherited, file, snapshot, ticket, nextTicket>>
        /\ now' = now + 1
    BY DEF Tick, agentVars, diskVars
  <1>2. /\ now \in Nat /\ now' \in Nat /\ now <= now'
        /\ nextTicket \in Nat /\ nextTicket <= nextTicket
        /\ ticket \in [Tasks -> Nat]
        /\ queues \in QueueMaps /\ file \in QueueMaps /\ snapshot \in QueueMaps
    BY <1>1, TimeAssumption DEF IndInv, TypeOK
  <1>3. ASSUME NEW qs \in QueueMaps, WellFormed(qs, ticket, nextTicket, now)
        PROVE  WellFormed(qs, ticket, nextTicket, now')
    BY <1>2, <1>3, AgingKeepsWellFormed
  <1>4. StoresWellFormed'
    BY <1>1, <1>2, <1>3 DEF IndInv, StoresWellFormed, QueuesWellFormed
  <1>5. QueuedIds(queues)' = QueuedIds(queues)
    BY <1>1 DEF QueuedIds, IdsOf
  <1>6. QED
    BY <1>1, <1>4, <1>5, SlotsUnchanged

LEMMA IndInvStep == IndInv /\ [Next]_vars => IndInv'
  <1> SUFFICES ASSUME IndInv, [Next]_vars PROVE IndInv'
    OBVIOUS
  <1>1. TypeOK'
    BY TypeStep DEF IndInv
  <1>2. StoresWellFormed' /\ RunningWasAccepted' /\ RunningIsNotQueued' /\ OneOpenTaskPerAgent'
    <2>1. CASE \E c \in Clients, t \in Tasks : Enqueue(c, t) \/ MarkDone(c, t)
      BY <2>1, EnqueueStep, MarkDoneStep
    <2>2. CASE \E c \in Clients : Pump(c) \/ PumpFails(c)
      BY <2>2, PumpStep, PumpFailsStep
    <2>3. CASE SweepExpired \/ Restart \/ Tick
      BY <2>3, SweepStep, RestartStep, TickStep
    <2>4. CASE FlushTimerFires \/ WriteStarts \/ \E ok \in BOOLEAN : WriteEnds(ok)
      BY <2>4, WriterStep
    <2>5. CASE UNCHANGED vars
      <3>1. UNCHANGED <<queues, running, open, inherited, file, snapshot, ticket, nextTicket, now>>
        BY <2>5 DEF vars
      <3>2. QueuedIds(queues)' = QueuedIds(queues)
        BY <3>1 DEF QueuedIds, IdsOf
      <3>3. QED
        BY <3>1, <3>2, StoresUnchanged, SlotsUnchanged DEF IndInv
    <2>6. QED
      BY <2>1, <2>2, <2>3, <2>4, <2>5 DEF Next
  <1>3. QED
    BY <1>1, <1>2 DEF IndInv

LEMMA IndInvCorrect == Spec => []IndInv
  BY IndInvInit, IndInvStep, PTL DEF Spec

-----------------------------------------------------------------------------
(* The theorems.                                                           *)

\* The live queues stay within the limit, in order and disjoint, whatever mix
\* of requests, dispatches, sweeps, crashes and restores happens (queue.js).
THEOREM QueuesStayWellFormed == Spec => []QueuesWellFormed
  <1>1. IndInv => QueuesWellFormed
    BY DEF IndInv, StoresWellFormed
  <1>2. QED
    BY <1>1, IndInvCorrect, PTL

\* pump's shift and running.set stay together: a task in a slot waits nowhere
\* and holds one slot only.
THEOREM RunningStaysOutOfQueues == Spec => []RunningIsNotQueued
  <1>1. IndInv => RunningIsNotQueued
    BY DEF IndInv
  <1>2. QED
    BY <1>1, IndInvCorrect, PTL

\* One agent runs one collection at a time, as far as one server process hands
\* out the tasks (queue.js:7).
THEOREM OneCollectionPerAgent == Spec => []OneOpenTaskPerAgent
  <1>1. IndInv => OneOpenTaskPerAgent
    BY DEF IndInv
  <1>2. QED
    BY <1>1, IndInvCorrect, PTL

-----------------------------------------------------------------------------
(* Nothing accepted vanishes.                                              *)

\* Where an accepted task that no longer waits went.
Gone == EverHanded \cup expired \cup abandoned \cup lost

\* The invariant before and after a step, by what left a trace.
LEMMA ConservedMeans ==
  /\ TasksAreConserved <=> Accepted \subseteq QueuedIds(queues) \cup Gone
  /\ TasksAreConserved' <=> Accepted' \subseteq QueuedIds(queues)' \cup Gone'
  BY DEF TasksAreConserved, Gone

\* A step that accepts nothing new and lets no task leave the queues without a
\* trace conserves the tasks.
LEMMA TraceKeepsTasks ==
  ASSUME TasksAreConserved, ticket' = ticket,
         Gone \subseteq Gone', QueuedIds(queues) \subseteq QueuedIds(queues') \cup Gone'
  PROVE  TasksAreConserved'
  <1>1. Accepted' = Accepted
    BY DEF Accepted
  <1>2. QueuedIds(queues)' = QueuedIds(queues')
    BY DEF QueuedIds, IdsOf
  <1>3. Accepted \subseteq QueuedIds(queues) \cup Gone
    BY ConservedMeans
  <1>4. Accepted' \subseteq QueuedIds(queues)' \cup Gone'
    BY <1>1, <1>2, <1>3
  <1>5. QED
    BY <1>4, ConservedMeans

LEMMA EnqueueConserves ==
  ASSUME IndInv, TasksAreConserved, NEW c \in Clients, NEW t \in Tasks, Enqueue(c, t)
  PROVE  TasksAreConserved'
  <1>1. /\ queues \in QueueMaps /\ ticket \in [Tasks -> Nat] /\ now \in 0..MaxTime
        /\ queues' = [queues EXCEPT ![c] = Append(@, [id |-> t, at |-> now])]
        /\ ticket' = [ticket EXCEPT ![t] = nextTicket]
        /\ UNCHANGED <<handed, expired, abandoned, lost>>
    BY DEF IndInv, TypeOK, Enqueue, Accept, Stamped, agentVars, endVars
  <1>2. queues[c] \in Seq(Item) /\ queues'[c] = Append(queues[c], [id |-> t, at |-> now])
    BY <1>1 DEF QueueMaps
  <1>3. /\ Len(queues[c]) + 1 \in DOMAIN queues'[c]
        /\ queues'[c][Len(queues[c]) + 1] = [id |-> t, at |-> now]
        /\ \A i \in DOMAIN queues[c] : i \in DOMAIN queues'[c] /\ queues'[c][i] = queues[c][i]
    BY <1>1, <1>2, AppendType
  <1>4. t \in IdsOf(queues'[c]) /\ IdsOf(queues[c]) \subseteq IdsOf(queues'[c])
    BY <1>3 DEF IdsOf
  <1>5. \A d \in Clients : IdsOf(queues[d]) \subseteq IdsOf(queues'[d])
    <2>1. \A d \in Clients \ {c} : queues'[d] = queues[d]
      BY <1>1 DEF QueueMaps
    <2>2. QED
      BY <1>4, <2>1
  <1>6. QueuedIds(queues) \cup {t} \subseteq QueuedIds(queues)'
    <2>1. QueuedIds(queues)' = QueuedIds(queues')
      BY DEF QueuedIds, IdsOf
    <2>2. QED
      BY <1>4, <1>5, <2>1 DEF QueuedIds
  <1>7. Accepted' \subseteq Accepted \cup {t}
    BY <1>1 DEF Accepted
  <1>8. Gone' = Gone /\ Accepted \subseteq QueuedIds(queues) \cup Gone
    <2>1. EverHanded' = EverHanded
      BY <1>1 DEF EverHanded
    <2>2. QED
      BY <1>1, <2>1, ConservedMeans DEF Gone
  <1>9. Accepted' \subseteq QueuedIds(queues)' \cup Gone'
    BY <1>6, <1>7, <1>8
  <1>10. QED
    BY <1>9, ConservedMeans

LEMMA PumpsConserve ==
  ASSUME IndInv, TasksAreConserved, NEW c \in Clients, Pump(c) \/ PumpFails(c)
  PROVE  TasksAreConserved'
  <1>1. /\ queues[c] # <<>> /\ queues' = [queues EXCEPT ![c] = Tail(@)]
        /\ ticket' = ticket
    BY DEF Pump, Dispatch, PumpFails, CanPump
  <1>2. PICK t \in Tasks : t = Head(queues[c]).id
    BY <1>1, HeadIsATask
  <1>3. QueuedIds(queues) \subseteq QueuedIds(queues') \cup {t}
    BY <1>1, <1>2, ShiftFacts
  <1>4. Gone \cup {t} \subseteq Gone'
    <2>1. CASE Pump(c)
      <3>1. /\ handed' = [handed EXCEPT ![c] = @ \cup {t}]
            /\ UNCHANGED <<expired, abandoned, lost>>
            /\ handed \in [Clients -> SUBSET Tasks]
        BY <1>2, <2>1 DEF Pump, Dispatch, endVars, IndInv, TypeOK
      <3>2. t \in handed'[c] /\ \A d \in Clients : handed[d] \subseteq handed'[d]
        BY <3>1
      <3>3. QED
        BY <3>1, <3>2 DEF Gone, EverHanded
    <2>2. CASE PumpFails(c)
      <3>1. abandoned' = abandoned \cup {t} /\ UNCHANGED <<handed, expired, lost>>
        BY <1>2, <2>2 DEF PumpFails, agentVars
      <3>2. EverHanded' = EverHanded
        BY <3>1 DEF EverHanded
      <3>3. QED
        BY <3>1, <3>2 DEF Gone
    <2>3. QED
      BY <2>1, <2>2
  <1>5. QED
    BY <1>1, <1>3, <1>4, TraceKeepsTasks

LEMMA ConservedStep == IndInv /\ TasksAreConserved /\ [Next]_vars => TasksAreConserved'
  <1> SUFFICES ASSUME IndInv, TasksAreConserved, [Next]_vars PROVE TasksAreConserved'
    OBVIOUS
  <1>1. CASE SweepExpired
    <2>1. /\ expired' = expired \cup (QueuedIds(queues) \ QueuedIds(queues'))
          /\ UNCHANGED <<ticket, handed, abandoned, lost>>
      BY <1>1 DEF SweepExpired, agentVars
    <2>2. EverHanded' = EverHanded
      BY <2>1 DEF EverHanded
    <2>3. Gone \subseteq Gone' /\ QueuedIds(queues) \subseteq QueuedIds(queues') \cup Gone'
      BY <2>1, <2>2 DEF Gone
    <2>4. QED
      BY <2>1, <2>3, TraceKeepsTasks
  <1>2. CASE Restart
    <2>1. /\ lost' = lost \cup (QueuedIds(queues) \ QueuedIds(queues'))
          /\ UNCHANGED <<ticket, handed, expired, abandoned>>
      BY <1>2 DEF Restart
    <2>2. EverHanded' = EverHanded
      BY <2>1 DEF EverHanded
    <2>3. Gone \subseteq Gone' /\ QueuedIds(queues) \subseteq QueuedIds(queues') \cup Gone'
      BY <2>1, <2>2 DEF Gone
    <2>4. QED
      BY <2>1, <2>3, TraceKeepsTasks
  <1>3. ASSUME UNCHANGED <<queues, ticket, handed, expired, abandoned, lost>>
        PROVE  TasksAreConserved'
    BY <1>3, TraceKeepsTasks DEF Gone, EverHanded
  <1>4. CASE \E c \in Clients, t \in Tasks : MarkDone(c, t)
    BY <1>3, <1>4 DEF MarkDone, endVars
  <1>5. CASE FlushTimerFires \/ WriteStarts \/ (\E ok \in BOOLEAN : WriteEnds(ok)) \/ Tick \/ UNCHANGED vars
    BY <1>3, <1>5 DEF FlushTimerFires, WriteStarts, WriteEnds, Tick, agentVars, endVars, vars
  <1>6. QED
    BY <1>1, <1>2, <1>4, <1>5, EnqueueConserves, PumpsConserve DEF Next

\* No accepted task vanishes: it waits, was handed out, expired, was given up
\* by pump's catch block, or went down with a crash.
THEOREM NoTaskVanishes == Spec => []TasksAreConserved
  <1>1. Init => TasksAreConserved
    BY DEF Init, TasksAreConserved, Accepted
  <1>2. QED
    BY <1>1, IndInvCorrect, ConservedStep, PTL DEF Spec

-----------------------------------------------------------------------------
(* Persistence.                                                            *)

\* DiskCatchesUp is not inductive: a write that ends well after one that failed
\* must store the live queues, so the write in progress is current as well.
WriteIsCurrent == writing /\ ~dirty /\ chained = 0 => snapshot = queues

LEMMA MarkDonePersists ==
  ASSUME NEW c \in Clients, NEW t \in Tasks, MarkDone(c, t),
         DiskCatchesUp, WriteIsCurrent
  PROVE  DiskCatchesUp' /\ WriteIsCurrent'
  <1>1. /\ dirty' = (dirty \/ running[c] = t)
        /\ UNCHANGED <<queues, chained, writing, snapshot, file, failed>>
    BY DEF MarkDone
  <1>2. ~dirty' => ~dirty
    BY <1>1
  <1>3. QED
    BY <1>1, <1>2, Zenon DEF DiskCatchesUp, WriteIsCurrent

LEMMA WriteEndsPersists ==
  ASSUME NEW ok \in BOOLEAN, WriteEnds(ok), DiskCatchesUp, WriteIsCurrent
  PROVE  DiskCatchesUp' /\ WriteIsCurrent'
  <1>1. writing /\ ~writing' /\ UNCHANGED <<queues, dirty, chained, snapshot>>
    BY DEF WriteEnds
  <1>2. WriteIsCurrent'
    BY <1>1 DEF WriteIsCurrent
  <1>3. CASE ok = TRUE
    <2>1. file' = snapshot
      BY <1>3 DEF WriteEnds
    <2>2. QED
      BY <1>1, <1>2, <2>1 DEF DiskCatchesUp, WriteIsCurrent
  <1>4. CASE ok = FALSE
    <2>1. failed' = TRUE
      BY <1>4 DEF WriteEnds
    <2>2. QED
      BY <1>2, <2>1 DEF DiskCatchesUp
  <1>5. QED
    BY <1>3, <1>4

LEMMA PersistenceStep ==
  TypeOK /\ DiskCatchesUp /\ WriteIsCurrent /\ [Next]_vars => DiskCatchesUp' /\ WriteIsCurrent'
  <1> SUFFICES ASSUME TypeOK, DiskCatchesUp, WriteIsCurrent, [Next]_vars
               PROVE  DiskCatchesUp' /\ WriteIsCurrent'
    OBVIOUS
  <1> USE DEF DiskCatchesUp, WriteIsCurrent
  <1>1. ASSUME NEW c \in Clients, NEW t \in Tasks, Enqueue(c, t)
        PROVE  DiskCatchesUp' /\ WriteIsCurrent'
    BY <1>1 DEF Enqueue, Accept
  <1>2. CASE \E c \in Clients, t \in Tasks : MarkDone(c, t)
    BY <1>2, MarkDonePersists
  <1>3. CASE \E c \in Clients : Pump(c) \/ PumpFails(c)
    BY <1>3 DEF Pump, Dispatch, PumpFails
  <1>4. CASE SweepExpired
    BY <1>4 DEF SweepExpired
  <1>5. CASE FlushTimerFires
    <2>1. chained' # 0
      BY <1>5 DEF FlushTimerFires, TypeOK
    <2>2. QED
      BY <2>1
  <1>6. CASE WriteStarts
    BY <1>6 DEF WriteStarts
  <1>7. CASE \E ok \in BOOLEAN : WriteEnds(ok)
    BY <1>7, WriteEndsPersists
  <1>8. CASE Restart \/ Tick \/ UNCHANGED vars
    BY <1>8 DEF Restart, Tick, diskVars, vars
  <1>9. QED
    BY <1>1, <1>2, <1>3, <1>4, <1>5, <1>6, <1>7, <1>8 DEF Next

\* Every operation that changes the queues calls onPersist, so with no flush
\* pending and no failed write the last write holds exactly what is in memory.
THEOREM DiskConverges == Spec => []DiskCatchesUp
  <1>1. Init => DiskCatchesUp /\ WriteIsCurrent
    BY DEF Init, DiskCatchesUp, WriteIsCurrent
  <1>2. QED
    BY <1>1, PersistenceStep, TypeCorrect, PTL DEF Spec

-----------------------------------------------------------------------------
(* What a step may do to a slot.                                           *)

\* Only pump fills a slot.
LEMMA SlotSteps ==
  ASSUME IndInv, [Next]_vars, NEW c \in Clients, running'[c] # running[c],
         running'[c] # NoTask
  PROVE  Pump(c)
  <1>1. running \in [Clients -> Slot]
    BY DEF IndInv, TypeOK
  <1>2. ASSUME NEW d \in Clients, Pump(d) PROVE Pump(c)
    BY <1>1, <1>2 DEF Pump, Dispatch
  <1>3. ASSUME NEW d \in Clients, NEW t \in Tasks, MarkDone(d, t) PROVE FALSE
    BY <1>1, <1>3 DEF MarkDone, Released
  <1>4. ASSUME NEW d \in Clients, NEW t \in Tasks, Enqueue(d, t) PROVE FALSE
    BY <1>4 DEF Enqueue, Accept
  <1>5. ASSUME NEW d \in Clients, PumpFails(d) PROVE FALSE
    BY <1>5 DEF PumpFails
  <1>6. ~Restart
    BY DEF Restart
  <1>7. ~(SweepExpired \/ FlushTimerFires \/ WriteStarts \/ (\E ok \in BOOLEAN : WriteEnds(ok)) \/ Tick \/ UNCHANGED vars)
    BY DEF SweepExpired, FlushTimerFires, WriteStarts, WriteEnds, Tick, vars
  <1>8. QED
    BY <1>2, <1>3, <1>4, <1>5, <1>6, <1>7 DEF Next

\* The task in flight is never overwritten by another one: a slot changes hands
\* through NoTask (pump's early return, queue.js:54).
THEOREM SlotsChangeThroughNoTask == Spec => SlotIsNeverOverwritten
  <1>1. IndInv /\ [Next]_vars =>
          [\A c \in Clients : running[c] # NoTask => running'[c] \in {NoTask, running[c]}]_vars
    BY SlotSteps DEF Pump, CanPump
  <1>2. QED
    BY <1>1, IndInvCorrect, PTL DEF Spec, SlotIsNeverOverwritten

\* Tasks are dispatched in the order they were accepted, also from queues a
\* restart restored.
THEOREM FifoDispatch == Spec => DispatchIsFifo
  <1>1. ASSUME IndInv, [Next]_vars, NEW c \in Clients, running'[c] \notin {NoTask, running[c]}
        PROVE  \A u \in IdsOf(queues'[c]) : ticket[running'[c]] < ticket[u]
    <2>1. Pump(c)
      BY <1>1, SlotSteps
    <2>2. PICK t \in Tasks : t = Head(queues[c]).id
      BY <1>1, <2>1, HeadIsATask DEF Pump, Dispatch, CanPump
    <2>3. /\ queues[c] # <<>> /\ queues' = [queues EXCEPT ![c] = Tail(@)]
          /\ running' = [running EXCEPT ![c] = t]
          /\ running \in [Clients -> Slot]
      BY <1>1, <2>1, <2>2 DEF Pump, Dispatch, CanPump, IndInv, TypeOK
    <2>4. running'[c] = t
      BY <2>3
    <2>5. QED
      BY <1>1, <2>2, <2>3, <2>4, ShiftFacts
  <1>2. IndInv /\ [Next]_vars =>
          [\A c \in Clients : running'[c] \notin {NoTask, running[c]} =>
             \A u \in IdsOf(queues'[c]) : ticket[running'[c]] < ticket[u]]_vars
    BY <1>1
  <1>3. QED
    BY <1>2, IndInvCorrect, PTL DEF Spec, DispatchIsFifo
-----------------------------------------------------------------------------
(* What a sweep drops.                                                     *)

\* Every set of natural numbers with a member has a least one.
LEMMA LeastNatural ==
  ASSUME NEW S \in SUBSET Nat, S # {}
  PROVE  \E k \in S : \A n \in S : k <= n
  <1> DEFINE Less == OpToRel(<, Nat)
  <1>1. IsWellFoundedOn(Less, Nat)
    BY NatLessThanWellFounded
  <1>2. ASSUME NEW n \in Nat, NEW k \in Nat, n < k PROVE <<n, k>> \in Less
    BY <1>2 DEF OpToRel
  <1> HIDE DEF Less
  <1>3. PICK k \in S : \A n \in S : ~(<<n, k>> \in Less)
    BY <1>1, WFMin
  <1>4. \A n \in S : ~(n < k)
    BY <1>2, <1>3
  <1>5. QED
    BY <1>4

\* In a queue whose stamps do not decrease, the expired items are a prefix, and
\* the loop of sweepExpired can stop at one place only.
LEMMA ExpiredAreAPrefix ==
  ASSUME NEW q \in Seq(Item), now \in Nat,
         \A i, j \in DOMAIN q : i < j => q[i].at <= q[j].at
  PROVE  \E k \in 0..Len(q) :
           /\ ExpiredPrefix(q) = {k}
           /\ \A i \in DOMAIN q : IsExpired(q[i]) <=> i <= k
  <1> DEFINE Fresh == {n \in Nat : n < Len(q) /\ ~IsExpired(q[n + 1])}
             S == Fresh \cup {Len(q)}
  <1>1. S \in SUBSET Nat /\ S # {}
    OBVIOUS
  <1>2. PICK k \in S : \A n \in S : k <= n
    <2> HIDE DEF S
    <2>1. QED
      BY <1>1, LeastNatural
  <1>3. k \in 0..Len(q)
    BY <1>2
  <1>4. ItemTtl \in Nat /\ \A i \in DOMAIN q : q[i].at \in Nat
    <2>1. \A item \in Item : item.at \in Nat
      BY TimeAssumption DEF Item
    <2>2. QED
      BY <2>1, TimeAssumption
  <1>5. \A i \in DOMAIN q : IsExpired(q[i]) <=> i <= k
    <2> SUFFICES ASSUME NEW i \in DOMAIN q PROVE IsExpired(q[i]) <=> i <= k
      OBVIOUS
    <2>1. CASE i <= k
      <3>1. i - 1 \in Nat /\ i - 1 < k /\ i - 1 < Len(q) /\ (i - 1) + 1 = i
        BY <2>1, <1>3
      <3>2. i - 1 \notin S
        BY <3>1, <1>2, <1>3
      <3>3. QED
        BY <3>1, <3>2, <2>1
    <2>2. CASE i > k
      <3>1. k < Len(q) /\ k + 1 \in DOMAIN q
        BY <2>2, <1>3
      <3>2. ~IsExpired(q[k + 1])
        BY <3>1, <1>2
      <3>3. q[k + 1].at <= q[i].at
        BY <2>2, <3>1, <1>3, <1>4
      <3>4. QED
        BY <3>1, <3>2, <3>3, <2>2, <1>4 DEF IsExpired
    <2>3. QED
      BY <2>1, <2>2, <1>3
  <1>6. ExpiredPrefix(q) = {k}
    <2>1. k \in ExpiredPrefix(q)
      BY <1>3, <1>5 DEF ExpiredPrefix
    <2>2. ASSUME NEW n \in ExpiredPrefix(q) PROVE n = k
      <3>1. /\ n \in 0..Len(q) /\ \A i \in 1..n : IsExpired(q[i])
            /\ n < Len(q) => ~IsExpired(q[n + 1])
        BY DEF ExpiredPrefix
      <3>2. ~(n < k)
        <4>1. n < k => n + 1 \in DOMAIN q /\ n < Len(q) /\ n + 1 <= k
          BY <3>1, <1>3
        <4>2. QED
          BY <4>1, <3>1, <1>5
      <3>3. ~(k < n)
        <4>1. k < n => k + 1 \in DOMAIN q /\ k + 1 \in 1..n /\ ~(k + 1 <= k)
          BY <3>1, <1>3
        <4>2. QED
          BY <4>1, <3>1, <1>5
      <3>4. QED
        BY <3>1, <3>2, <3>3, <1>3
    <2>3. QED
      BY <2>1, <2>2
  <1>7. QED
    BY <1>3, <1>5, <1>6

\* sweepExpired (queue.js:83) walks a whole queue, and what it drops is what it
\* would have dropped by stopping at the first item that is still fresh: the
\* queues are in the order of acceptance, also those a restart restored.
THEOREM SweepsDropTheExpired == Spec => []SweepIsFilter
  <1>1. ASSUME IndInv, NEW c \in Clients
        PROVE  \E k \in 0..Len(queues[c]) :
                 /\ ExpiredPrefix(queues[c]) = {k}
                 /\ \A i \in DOMAIN queues[c] : IsExpired(queues[c][i]) <=> i <= k
    <2>1. queues[c] \in Seq(Item) /\ now \in Nat
      BY <1>1, TimeAssumption DEF IndInv, TypeOK, QueueMaps
    <2>2. \A i, j \in DOMAIN queues[c] : i < j => queues[c][i].at <= queues[c][j].at
      BY <1>1 DEF IndInv, StoresWellFormed, QueuesWellFormed, WellFormed, InOrder
    <2>3. QED
      BY <2>1, <2>2, ExpiredAreAPrefix
  <1>2. IndInv => SweepIsFilter
    BY <1>1 DEF SweepIsFilter
  <1>3. QED
    BY <1>2, IndInvCorrect, PTL

-----------------------------------------------------------------------------
(* The refinement of SerialDispatch.                                       *)

(* The names of a queue's items, and what the operations do to them.       *)

\* The names are the tasks, place by place.
LEMMA NamesType ==
  ASSUME NEW q \in Seq(Item)
  PROVE  /\ Names(q) \in Seq(Tasks)
         /\ Len(Names(q)) = Len(q)
         /\ DOMAIN Names(q) = DOMAIN q
         /\ \A i \in DOMAIN q : Names(q)[i] = q[i].id
  <1>1. \A i \in 1..Len(q) : q[i].id \in Tasks
    <2>1. \A i \in 1..Len(q) : q[i] \in Item
      OBVIOUS
    <2>2. \A item \in Item : item.id \in Tasks
      BY DEF Item
    <2>3. QED
      BY <2>1, <2>2
  <1>2. Names(q) = [i \in 1..Len(q) |-> q[i].id]
    BY DEF Names
  <1>3. Names(q) \in [1..Len(q) -> Tasks] /\ Len(q) \in Nat
    BY <1>1, <1>2
  <1>4. Names(q) \in Seq(Tasks) /\ Len(Names(q)) = Len(q)
    BY <1>3
  <1>5. QED
    BY <1>2, <1>4

\* Pushing an item appends its name.
LEMMA NamesOfAppend ==
  ASSUME NEW q \in Seq(Item), NEW item \in Item
  PROVE  Names(Append(q, item)) = Append(Names(q), item.id)
  <1> DEFINE r == Append(q, item)
             n == Names(q)
             m == Append(n, item.id)
  <1>1. /\ r \in Seq(Item) /\ Len(r) = Len(q) + 1
        /\ \A i \in 1..Len(q) : r[i] = q[i]
        /\ r[Len(q) + 1] = item
    BY AppendProperties
  <1>2. /\ n \in Seq(Tasks) /\ Len(n) = Len(q)
        /\ \A i \in 1..Len(q) : n[i] = q[i].id
    BY NamesType
  <1>3. item.id \in Tasks
    BY DEF Item
  <1> HIDE DEF n
  <1>4. /\ m \in Seq(Tasks) /\ Len(m) = Len(q) + 1
        /\ \A i \in 1..Len(q) : m[i] = n[i]
        /\ m[Len(q) + 1] = item.id
    BY <1>2, <1>3, AppendProperties
  <1> HIDE DEF r, m
  <1>5. /\ Names(r) \in Seq(Tasks) /\ Len(Names(r)) = Len(q) + 1
        /\ \A i \in 1..(Len(q) + 1) : Names(r)[i] = r[i].id
    BY <1>1, NamesType
  <1>6. \A i \in 1..(Len(q) + 1) : Names(r)[i] = m[i]
    <2> SUFFICES ASSUME NEW i \in 1..(Len(q) + 1) PROVE Names(r)[i] = m[i]
      OBVIOUS
    <2>1. CASE i = Len(q) + 1
      BY <1>1, <1>4, <1>5, <2>1
    <2>2. CASE i # Len(q) + 1
      <3>1. i \in 1..Len(q)
        BY <2>2
      <3>2. QED
        BY <1>1, <1>2, <1>4, <1>5, <3>1
    <2>3. QED
      BY <2>1, <2>2
  <1>7. Names(r) = m
    BY <1>4, <1>5, <1>6, SeqEqual
  <1>8. QED
    BY <1>7 DEF r, m, n

\* Dropping items at the head drops their names.
LEMMA NamesOfWithout ==
  ASSUME NEW q \in Seq(Item), NEW k \in 0..Len(q)
  PROVE  Names(Without(q, k)) = SubSeq(Names(q), k + 1, Len(Names(q)))
  <1>1. /\ Names(q) \in Seq(Tasks) /\ Len(Names(q)) = Len(q)
        /\ \A i \in DOMAIN q : Names(q)[i] = q[i].id
    BY NamesType
  <1>2. /\ Without(q, k) \in Seq(Item) /\ Len(Without(q, k)) = Len(q) - k
        /\ \A i \in DOMAIN Without(q, k) : i + k \in DOMAIN q /\ Without(q, k)[i] = q[i + k]
    BY WithoutFacts
  <1>3. /\ Names(Without(q, k)) \in Seq(Tasks)
        /\ Len(Names(Without(q, k))) = Len(q) - k
        /\ \A i \in 1..(Len(q) - k) : Names(Without(q, k))[i] = q[i + k].id
    BY <1>2, NamesType
  <1> DEFINE s == SubSeq(Names(q), k + 1, Len(Names(q)))
  <1>4. /\ s \in Seq(Tasks) /\ Len(s) = Len(q) - k
        /\ \A i \in 1..(Len(q) - k) : s[i] = Names(q)[i + k]
    BY <1>1
  <1>5. \A i \in 1..(Len(q) - k) : i + k \in DOMAIN q
    OBVIOUS
  <1>6. \A i \in 1..(Len(q) - k) : Names(Without(q, k))[i] = s[i]
    BY <1>1, <1>3, <1>4, <1>5
  <1>7. QED
    BY <1>3, <1>4, <1>6, SeqEqual

\* The head's name is the head of the names, and so is the tail.
LEMMA NamesOfShift ==
  ASSUME NEW q \in Seq(Item), q # <<>>
  PROVE  /\ Names(q) # <<>>
         /\ Head(Names(q)) = Head(q).id
         /\ Names(Tail(q)) = Tail(Names(q))
  <1>1. /\ Names(q) \in Seq(Tasks) /\ Len(Names(q)) = Len(q)
        /\ \A i \in DOMAIN q : Names(q)[i] = q[i].id
    BY NamesType
  <1>2. Len(q) \in Nat /\ Len(q) > 0 /\ 1 \in DOMAIN q /\ Head(q) = q[1]
    OBVIOUS
  <1>3. Names(q) # <<>> /\ Head(Names(q)) = Head(q).id
    BY <1>1, <1>2
  <1>4. Tail(q) = SubSeq(q, 2, Len(q)) /\ Tail(Names(q)) = SubSeq(Names(q), 2, Len(Names(q)))
    BY <1>1, <1>3, TailIsSubSeq
  <1>5. Tail(q) = Without(q, 1) /\ 1 \in 0..Len(q)
    BY <1>2, <1>4 DEF Without
  <1>6. Names(Without(q, 1)) = SubSeq(Names(q), 2, Len(Names(q)))
    <2>1. Names(Without(q, 1)) = SubSeq(Names(q), 1 + 1, Len(Names(q)))
      BY <1>5, NamesOfWithout
    <2>2. QED
      BY <2>1
  <1>7. Names(Tail(q)) = Tail(Names(q))
    BY <1>4, <1>5, <1>6, Zenon
  <1>8. QED
    BY <1>3, <1>7

-----------------------------------------------------------------------------
(* The mapping.                                                            *)

\* A change of one queue is a change of one line.
LEMMA LineChange ==
  ASSUME NEW c \in Clients, NEW q, queues \in QueueMaps,
         queues' = [queues EXCEPT ![c] = q]
  PROVE  Line' = [Line EXCEPT ![c] = Names(q)]
  <1>1. \A d \in Clients : queues'[d] = IF d = c THEN q ELSE queues[d]
    BY DEF QueueMaps
  <1>2. Line' = [d \in Clients |-> Names(queues'[d])]
    BY DEF Line, Names
  <1>3. \A d \in Clients : Names(queues'[d]) = IF d = c THEN Names(q) ELSE Names(queues[d])
    <2> SUFFICES ASSUME NEW d \in Clients
                 PROVE  Names(queues'[d]) = IF d = c THEN Names(q) ELSE Names(queues[d])
      OBVIOUS
    <2>1. CASE d = c
      <3>1. queues'[d] = q
        BY <1>1, <2>1
      <3>2. QED
        BY <2>1, <3>1
    <2>2. CASE d # c
      <3>1. queues'[d] = queues[d]
        BY <1>1, <2>2
      <3>2. QED
        BY <2>2, <3>1
    <2>3. QED
      BY <2>1, <2>2
  <1>4. Line = [d \in Clients |-> Names(queues[d])]
    BY DEF Line
  <1>5. Line' = [d \in Clients |-> IF d = c THEN Names(q) ELSE Names(queues[d])]
    BY <1>2, <1>3
  <1>6. QED
    BY <1>4, <1>5

\* What the state of the class says about the state it stands for.
LEMMA LineFacts ==
  ASSUME IndInv, NEW c \in Clients
  PROVE  /\ queues[c] \in Seq(Item) /\ queues \in QueueMaps
         /\ Line[c] = Names(queues[c]) /\ Len(Line[c]) = Len(queues[c])
         /\ running \in [Clients -> Slot]
         /\ ticket \in [Tasks -> Nat] /\ nextTicket \in Nat \ {0}
  <1>1. queues[c] \in Seq(Item) /\ queues \in QueueMaps
    BY DEF IndInv, TypeOK, QueueMaps
  <1>2. Line[c] = Names(queues[c])
    BY DEF Line
  <1>3. QED
    BY <1>1, <1>2, NamesType DEF IndInv, TypeOK

LEMMA AcceptedUnchanged ==
  ASSUME UNCHANGED ticket PROVE UNCHANGED Accepted
  BY DEF Accepted

LEMMA LineUnchanged ==
  ASSUME UNCHANGED queues PROVE UNCHANGED Line
  BY DEF Line, Names

LEMMA InitRefines == Init => Abstract!Init
  <1> SUFFICES ASSUME Init PROVE Abstract!Init
    OBVIOUS
  <1>1. Line = [c \in Clients |-> <<>>]
    BY DEF Init, Line, Names, NoQueues
  <1>2. Accepted = {}
    BY DEF Init, Accepted
  <1>3. QED
    BY <1>1, <1>2 DEF Init, Abstract!Init

\* enqueue is a request.
LEMMA EnqueueRefines ==
  ASSUME IndInv, NEW c \in Clients, NEW t \in Tasks, Enqueue(c, t)
  PROVE  Abstract!Request(c, t)
  <1>1. Stamped(t) \in Item /\ Stamped(t).id = t
    BY DEF Stamped, Item, IndInv, TypeOK
  <1>2. /\ ticket[t] = 0 /\ HasRoom(queues[c])
        /\ queues' = [queues EXCEPT ![c] = Append(queues[c], Stamped(t))]
        /\ ticket' = [ticket EXCEPT ![t] = nextTicket]
        /\ UNCHANGED running
    BY DEF Enqueue, Accept
  <1>3. Line' = [Line EXCEPT ![c] = Append(@, t)]
    <2>1. /\ queues[c] \in Seq(Item) /\ queues \in QueueMaps
          /\ Line[c] = Names(queues[c])
      BY LineFacts
    <2>2. Line' = [Line EXCEPT ![c] = Names(Append(queues[c], Stamped(t)))]
      BY <1>2, <2>1, LineChange
    <2>3. Names(Append(queues[c], Stamped(t))) = Append(Line[c], t)
      BY <1>1, <2>1, NamesOfAppend
    <2>4. QED
      BY <2>2, <2>3
  <1>4. t \notin Accepted /\ Accepted' = Accepted \cup {t}
    BY <1>2, LineFacts DEF Accepted
  <1>5. HasRoom(Line[c])
    BY <1>2, LineFacts DEF HasRoom
  <1>6. QED
    BY <1>2, <1>3, <1>4, <1>5 DEF Abstract!Request, Abstract!HasRoom, HasRoom

\* The head of a queue leaves: so does the head of the line.
LEMMA ShiftRefines ==
  ASSUME IndInv, NEW c \in Clients, queues[c] # <<>>,
         queues' = [queues EXCEPT ![c] = Tail(@)]
  PROVE  /\ Line[c] # <<>> /\ Head(Line[c]) = Head(queues[c]).id
         /\ Line' = [Line EXCEPT ![c] = Tail(@)]
  <1>1. /\ queues[c] \in Seq(Item) /\ queues \in QueueMaps
        /\ Line[c] = Names(queues[c])
    BY LineFacts
  <1>2. /\ Line[c] # <<>> /\ Head(Line[c]) = Head(queues[c]).id
        /\ Names(Tail(queues[c])) = Tail(Line[c])
    BY <1>1, NamesOfShift
  <1>3. Line' = [Line EXCEPT ![c] = Names(Tail(queues[c]))]
    BY <1>1, LineChange
  <1>4. QED
    BY <1>2, <1>3

\* pump serves the head of the line.
LEMMA PumpRefines ==
  ASSUME IndInv, NEW c \in Clients, Pump(c)
  PROVE  Abstract!Serve(c)
  <1>1. /\ running[c] = NoTask /\ queues[c] # <<>>
        /\ queues' = [queues EXCEPT ![c] = Tail(@)]
        /\ running' = [running EXCEPT ![c] = Head(queues[c]).id]
        /\ UNCHANGED ticket
    BY DEF Pump, CanPump, Dispatch
  <1>2. UNCHANGED Accepted
    BY <1>1, AcceptedUnchanged
  <1>3. QED
    BY <1>1, <1>2, ShiftRefines DEF Abstract!Serve, Abstract!CanPump

\* A dispatch that throws gives the head of the line up.
LEMMA PumpFailsRefines ==
  ASSUME IndInv, NEW c \in Clients, PumpFails(c)
  PROVE  Abstract!GiveUp(c)
  <1>1. /\ running[c] = NoTask /\ queues[c] # <<>>
        /\ queues' = [queues EXCEPT ![c] = Tail(@)]
        /\ UNCHANGED <<running, ticket>>
    BY DEF PumpFails, CanPump
  <1>2. UNCHANGED Accepted
    BY <1>1, AcceptedUnchanged
  <1>3. QED
    BY <1>1, <1>2, ShiftRefines DEF Abstract!GiveUp, Abstract!CanPump

\* markDone finishes the task in the slot, or changes nothing of the mapping.
LEMMA MarkDoneRefines ==
  ASSUME IndInv, NEW c \in Clients, NEW t \in Tasks, MarkDone(c, t)
  PROVE  Abstract!Finish(c) \/ UNCHANGED <<Line, running, Accepted>>
  <1>1. UNCHANGED <<Line, Accepted>>
    BY AcceptedUnchanged, LineUnchanged DEF MarkDone
  <1>2. running' = [running EXCEPT ![c] = Released(@, t)] /\ running \in [Clients -> Slot]
    BY LineFacts DEF MarkDone
  <1>3. CASE running[c] = t
    <2>1. running[c] # NoTask
      BY <1>3, NoTaskAssumption
    <2>2. running' = [running EXCEPT ![c] = NoTask]
      BY <1>2, <1>3 DEF Released
    <2>3. QED
      BY <1>1, <2>1, <2>2 DEF Abstract!Finish
  <1>4. CASE running[c] # t
    BY <1>1, <1>2, <1>4 DEF Released
  <1>5. QED
    BY <1>3, <1>4

\* A sweep times out the oldest requests.
LEMMA SweepRefines ==
  ASSUME IndInv, SweepExpired
  PROVE  Abstract!TimeOut
  <1>1. PICK cut \in [Clients -> 0..MaxPerClient] :
          /\ \A c \in Clients : cut[c] \in ExpiredPrefix(queues[c])
          /\ queues' = [c \in Clients |-> Without(queues[c], cut[c])]
    BY DEF SweepExpired
  <1>2. UNCHANGED <<running, Accepted>>
    BY AcceptedUnchanged DEF SweepExpired
  <1>3. \A c \in Clients :
          Names(Without(queues[c], cut[c])) = SubSeq(Line[c], cut[c] + 1, Len(Line[c]))
    BY <1>1, LineFacts, NamesOfWithout DEF ExpiredPrefix
  <1>4. Line' = [c \in Clients |-> Names(queues'[c])]
    BY DEF Line, Names
  <1>5. Line' = [c \in Clients |-> SubSeq(Line[c], cut[c] + 1, Len(Line[c]))]
    BY <1>1, <1>3, <1>4
  <1>6. QED
    BY <1>1, <1>2, <1>5 DEF Abstract!TimeOut

\* A restart reads back only requests that were made.
LEMMA RestartRefines ==
  ASSUME IndInv, Restart
  PROVE  Abstract!Crash
  <1>1. /\ running' = [c \in Clients |-> NoTask] /\ UNCHANGED <<ticket, nextTicket, now>>
        /\ StoresWellFormed'
    BY RestartStep DEF Restart
  <1>2. UNCHANGED Accepted
    BY <1>1, AcceptedUnchanged
  <1>3. queues' \in QueueMaps /\ WellFormed(queues', ticket, nextTicket, now)
    <2>1. TypeOK'
      BY TypeStep DEF IndInv, Next
    <2>2. QED
      BY <1>1, <2>1 DEF TypeOK, StoresWellFormed, QueuesWellFormed, WellFormed, WithinLimit,
                        InOrder, NoSharedTask, FromThePast
  <1>4. ASSUME NEW c \in Clients PROVE Names(queues'[c]) \in Seq(Accepted)
    <2>1. queues'[c] \in Seq(Item)
      BY <1>3 DEF QueueMaps
    <2>2. \A i \in DOMAIN queues'[c] : ticket[queues'[c][i].id] \in 1..(nextTicket - 1)
      BY <1>3 DEF WellFormed, FromThePast
    <2>3. /\ Names(queues'[c]) \in Seq(Tasks)
          /\ \A i \in 1..Len(Names(queues'[c])) :
               i \in DOMAIN queues'[c] /\ Names(queues'[c])[i] = queues'[c][i].id
      BY <2>1, NamesType
    <2>4. \A i \in 1..Len(Names(queues'[c])) : Names(queues'[c])[i] \in Accepted
      BY <2>2, <2>3 DEF Accepted
    <2>5. QED
      BY <2>3, <2>4
  <1>5. Line' = [c \in Clients |-> Names(queues'[c])]
    BY DEF Line, Names
  <1>6. Line' \in [Clients -> Seq(Accepted)]
    BY <1>4, <1>5
  <1>7. QED
    BY <1>1, <1>2, <1>6 DEF Abstract!Crash

LEMMA StepRefines == IndInv /\ [Next]_vars => [Abstract!Next]_(Abstract!vars)
  <1> SUFFICES ASSUME IndInv, [Next]_vars
               PROVE  Abstract!Next \/ UNCHANGED <<Line, running, Accepted>>
    BY DEF Abstract!vars
  <1>1. CASE \E c \in Clients, t \in Tasks : Enqueue(c, t)
    BY <1>1, EnqueueRefines DEF Abstract!Next
  <1>2. CASE \E c \in Clients, t \in Tasks : MarkDone(c, t)
    BY <1>2, MarkDoneRefines DEF Abstract!Next
  <1>3. CASE \E c \in Clients : Pump(c) \/ PumpFails(c)
    BY <1>3, PumpRefines, PumpFailsRefines DEF Abstract!Next
  <1>4. CASE SweepExpired \/ Restart
    BY <1>4, SweepRefines, RestartRefines DEF Abstract!Next
  <1>5. CASE FlushTimerFires \/ WriteStarts \/ (\E ok \in BOOLEAN : WriteEnds(ok)) \/ Tick
             \/ UNCHANGED vars
    <2>1. UNCHANGED <<queues, running, ticket>>
      BY <1>5 DEF FlushTimerFires, WriteStarts, WriteEnds, Tick, vars
    <2>2. QED
      BY <2>1, LineUnchanged, AcceptedUnchanged
  <1>6. QED
    BY <1>1, <1>2, <1>3, <1>4, <1>5 DEF Next

\* queue.js, its writer and its restarts keep the promise of the file's header:
\* serial per agent, FIFO, a line never longer than its limit.
THEOREM QueueIsASerialDispatcher == Spec => ImplementsSerialDispatch
  BY InitRefines, StepRefines, IndInvCorrect, PTL
     DEF Spec, ImplementsSerialDispatch, Abstract!Spec
=============================================================================
