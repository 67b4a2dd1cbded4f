--------------------------- MODULE CollectionQueue ---------------------------
(***************************************************************************)
(* The class CollectionQueue of src/server/dashboard/queue.js with the     *)
(* queues.json persistence dashboardServer.js injects into it.             *)
(*                                                                         *)
(* Every public operation is one action: enqueue, pump, markDone,          *)
(* sweepExpired, and the toJSON/fromJSON pair seen through the debounced   *)
(* writer (schedulePersist) and a server restart.  onDispatch is the       *)
(* synchronous body of dispatchQueuedTask, so a pump either hands its task *)
(* to the agent or fails and releases the slot within one event-loop turn. *)
(*                                                                         *)
(* The agents are the environment: an agent that was handed a task may     *)
(* report a result for it at any later time, any number of times, also to  *)
(* a server that restarted in between.                                     *)
(***************************************************************************)
EXTENDS QueueOps

CONSTANTS
  Clients,        \* clientIds
  ItemTtl,        \* QUEUE_ITEM_TTL_MS, in clock ticks
  MaxTime,        \* bound: the clock stops there
  MaxRestarts,    \* bound: how often the server crashes and boots again
  MaxFlushes      \* bound: how many flushes wait on the chain at once

ASSUME TimeAssumption == ItemTtl \in Nat /\ MaxTime \in Nat
ASSUME RestartAssumption == MaxRestarts \in Nat
ASSUME FlushAssumption == MaxFlushes \in Nat

VARIABLES
  queues,         \* CollectionQueue.queues
  running,        \* CollectionQueue.running
  now,            \* the injected clock
  dirty,          \* _persistPending.queues: a flush timer is armed
  chained,        \* the flushes that wait on _persistChain
  writing,        \* fs.writeFile(QUEUES_FILE) is in progress
  snapshot,       \* the JSON that write is storing
  file,           \* what loadFromDisk(QUEUES_FILE) would return
  failed,         \* the last write failed: saveToDisk only logged it
  ticket,         \* history: the place of a task in the order of acceptance
  nextTicket,     \* history: the next such place
  handed,         \* history: handed[c] are the tasks agent c ever received
  open,           \* history: the received tasks agent c has not reported
  inherited,      \* history: the ones of open[c] a dead server had dispatched
  expired,        \* history: tasks sweepExpired returned to its caller
  abandoned,      \* history: tasks whose dispatch threw
  lost,           \* history: tasks that vanished in a crash
  restarts

queueVars == <<queues, running>>
diskVars  == <<dirty, chained, writing, snapshot, file, failed>>
agentVars == <<handed, open, inherited>>
endVars   == <<expired, abandoned, lost>>
vars == <<queues, running, now, dirty, chained, writing, snapshot, file, failed,
          ticket, nextTicket, handed, open, inherited, expired, abandoned, lost, restarts>>

\* A queued item: its id, and the clock when it was pushed.
Item == [id : Tasks, at : 0..MaxTime]

NoQueues == [c \in Clients |-> <<>>]
QueueMaps == [Clients -> Seq(Item)]

IdsOf(q) == {q[i].id : i \in DOMAIN q}
QueuedIds(qs) == UNION {IdsOf(qs[c]) : c \in Clients}
Accepted == {t \in Tasks : ticket[t] > 0}

Init ==
  /\ queues = NoQueues
  /\ running = [c \in Clients |-> NoTask]
  /\ now = 0
  /\ dirty = FALSE /\ chained = 0 /\ writing = FALSE /\ failed = FALSE
  /\ snapshot = NoQueues /\ file = NoQueues
  /\ ticket = [t \in Tasks |-> 0] /\ nextTicket = 1
  /\ handed = [c \in Clients |-> {}]
  /\ open = [c \in Clients |-> {}]
  /\ inherited = [c \in Clients |-> {}]
  /\ expired = {} /\ abandoned = {} /\ lost = {}
  /\ restarts = 0

-----------------------------------------------------------------------------
(* The operations of the class.                                            *)

\* The accepting end of enqueue: the queue of c becomes `rest`, onPersist arms a
\* flush, and t gets its place in the order of acceptance.
Accept(c, t, rest) ==
  /\ queues' = [queues EXCEPT ![c] = rest]
  /\ dirty' = TRUE
  /\ ticket' = [ticket EXCEPT ![t] = nextTicket]
  /\ nextTicket' = nextTicket + 1
  /\ UNCHANGED <<running, now, chained, writing, snapshot, file, failed, restarts>>
  /\ UNCHANGED agentVars
  /\ UNCHANGED endVars

Stamped(t) == [id |-> t, at |-> now]

\* Mutant of Enqueue: unshift for push.
EnqueueAtHead(c, t) ==
  /\ ticket[t] = 0
  /\ HasRoom(queues[c])
  /\ Accept(c, t, <<Stamped(t)>> \o queues[c])

\* Mutant of Enqueue: the item is pushed without enqueuedAt.
EnqueueUnstamped(c, t) ==
  /\ ticket[t] = 0
  /\ HasRoom(queues[c])
  /\ Accept(c, t, Append(queues[c], [id |-> t]))

\* A request for a fresh task: a full queue rejects it and changes nothing,
\* otherwise the item goes to the tail, stamped.
Enqueue(c, t) ==
  /\ ticket[t] = 0
  /\ HasRoom(queues[c])
  /\ Accept(c, t, Append(queues[c], Stamped(t)))

\* Task t takes c's slot and reaches the agent; `rest` keeps waiting.
Dispatch(c, t, rest) ==
  /\ running' = [running EXCEPT ![c] = t]
  /\ handed' = [handed EXCEPT ![c] = @ \cup {t}]
  /\ open' = [open EXCEPT ![c] = @ \cup {t}]
  /\ inherited' = [inherited EXCEPT ![c] = @ \ {t}]
  /\ queues' = [queues EXCEPT ![c] = rest]
  /\ dirty' = TRUE
  /\ UNCHANGED <<now, chained, writing, snapshot, file, failed, ticket, nextTicket, restarts>>
  /\ UNCHANGED endVars

\* Mutant of Pump: q[0] for q.shift().
PumpWithoutShift(c) ==
  /\ CanPump(queues[c], running[c])
  /\ Dispatch(c, Head(queues[c]).id, queues[c])

\* Mutant of Pump: q.pop() for q.shift().
PumpLast(c) ==
  /\ CanPump(queues[c], running[c])
  /\ LET n == Len(queues[c]) IN
       Dispatch(c, queues[c][n].id, SubSeq(queues[c], 1, n - 1))

\* Mutant of Pump: queues.delete(clientId) after the shift.
PumpForgetsTail(c) ==
  /\ CanPump(queues[c], running[c])
  /\ Dispatch(c, Head(queues[c]).id, <<>>)

\* Mutant of Pump: the early return for a busy agent is gone.
PumpWhileBusy(c) ==
  /\ queues[c] # <<>>
  /\ Dispatch(c, Head(queues[c]).id, Tail(queues[c]))

\* pump shifts the head, takes the slot and dispatches.
Pump(c) ==
  /\ CanPump(queues[c], running[c])
  /\ Dispatch(c, Head(queues[c]).id, Tail(queues[c]))

\* The dispatch throws: the catch block deletes the slot again.  The item was
\* shifted and nobody puts it back.
PumpFails(c) ==
  /\ CanPump(queues[c], running[c])
  /\ abandoned' = abandoned \cup {Head(queues[c]).id}
  /\ queues' = [queues EXCEPT ![c] = Tail(@)]
  /\ dirty' = TRUE
  /\ UNCHANGED <<running, now, chained, writing, snapshot, file, failed, ticket, nextTicket,
                 expired, lost, restarts>>
  /\ UNCHANGED agentVars

\* Mutant of MarkDone: any result frees the slot.
MarkDoneAnyTask(c, t) ==
  /\ t \in handed[c]
  /\ running' = [running EXCEPT ![c] = NoTask]
  /\ dirty' = TRUE
  /\ open' = [open EXCEPT ![c] = @ \ {t}]
  /\ inherited' = [inherited EXCEPT ![c] = @ \ {t}]
  /\ UNCHANGED <<queues, now, chained, writing, snapshot, file, failed, ticket, nextTicket,
                 handed, restarts>>
  /\ UNCHANGED endVars

\* The server calls markDone for every TASK_RESULT, whatever task it names.
MarkDone(c, t) ==
  /\ t \in handed[c]
  /\ running' = [running EXCEPT ![c] = Released(@, t)]
  /\ dirty' = (dirty \/ running[c] = t)
  /\ open' = [open EXCEPT ![c] = @ \ {t}]
  /\ inherited' = [inherited EXCEPT ![c] = @ \ {t}]
  /\ UNCHANGED <<queues, now, chained, writing, snapshot, file, failed, ticket, nextTicket,
                 handed, restarts>>
  /\ UNCHANGED endVars

IsExpired(item) == item.at + ItemTtl <= now

\* Mutant of ExpiredPrefix: the loop may stop early.
SomeExpiredPrefix(q) == {k \in 0..Len(q) : \A i \in 1..k : IsExpired(q[i])}

\* The number of items at the head of q that waited past the TTL.  Items are
\* stamped by a clock that does not run backwards, so these are all the expired
\* ones, and the set has one member: SweepIsFilter compares what it drops with
\* what the loop of the code drops.
ExpiredPrefix(q) ==
  {k \in 0..Len(q) : /\ \A i \in 1..k : IsExpired(q[i])
                     /\ k < Len(q) => ~IsExpired(q[k + 1])}

Without(q, k) == SubSeq(q, k + 1, Len(q))

\* Mutant of SweepExpired: dropped items are not persisted.
SweepWithoutPersist ==
  /\ \E cut \in [Clients -> 0..MaxPerClient] :
       /\ \A c \in Clients : cut[c] \in ExpiredPrefix(queues[c])
       /\ queues' = [c \in Clients |-> Without(queues[c], cut[c])]
  /\ expired' = expired \cup (QueuedIds(queues) \ QueuedIds(queues'))
  /\ UNCHANGED <<running, now, ticket, nextTicket, abandoned, lost, restarts>>
  /\ UNCHANGED diskVars
  /\ UNCHANGED agentVars

\* sweepExpired persists only when something was dropped.
SweepExpired ==
  /\ \E cut \in [Clients -> 0..MaxPerClient] :
       /\ \A c \in Clients : cut[c] \in ExpiredPrefix(queues[c])
       /\ queues' = [c \in Clients |-> Without(queues[c], cut[c])]
  /\ expired' = expired \cup (QueuedIds(queues) \ QueuedIds(queues'))
  /\ dirty' = (dirty \/ queues' # queues)
  /\ UNCHANGED <<running, now, chained, writing, snapshot, file, failed, ticket, nextTicket,
                 abandoned, lost, restarts>>
  /\ UNCHANGED agentVars

-----------------------------------------------------------------------------
(* schedulePersist: a debounced flush onto a chain of whole-file writes.    *)

\* The debounce timer fires: the flags are reset and one more flush is chained.
FlushTimerFires ==
  /\ dirty /\ chained < MaxFlushes
  /\ dirty' = FALSE
  /\ chained' = chained + 1
  /\ UNCHANGED <<queues, running, now, writing, snapshot, file, failed, ticket,
                 nextTicket, restarts>>
  /\ UNCHANGED agentVars
  /\ UNCHANGED endVars

\* saveToDisk serializes the queues it finds when its turn on the chain comes.
WriteStarts ==
  /\ chained > 0 /\ ~writing
  /\ chained' = chained - 1
  /\ writing' = TRUE
  /\ snapshot' = queues
  /\ UNCHANGED <<queues, running, now, dirty, file, failed, ticket, nextTicket, restarts>>
  /\ UNCHANGED agentVars
  /\ UNCHANGED endVars

\* fs.writeFile succeeded, or it threw and saveToDisk logged the error: the file
\* is then still the old one, or cut short, which loadFromDisk reads as the
\* default.  Nobody tries again.
WriteEnds(ok) ==
  /\ writing
  /\ writing' = FALSE
  /\ failed' = ~ok
  /\ file' \in IF ok THEN {snapshot} ELSE {file, NoQueues}
  /\ UNCHANGED <<queues, running, now, dirty, chained, snapshot, ticket, nextTicket, restarts>>
  /\ UNCHANGED agentVars
  /\ UNCHANGED endVars

\* What a boot can find: fs.writeFile truncates in place, so a crash inside a
\* write leaves the old content, the new one, or a torn file that does not parse
\* and is replaced by the default.
OnDisk == IF writing THEN {file, snapshot, NoQueues} ELSE {file}

\* fromJSON restores the queues and leaves `running` empty.
Restart ==
  /\ restarts < MaxRestarts
  /\ restarts' = restarts + 1
  /\ \E qs \in OnDisk :
       /\ queues' = qs
       /\ file' = qs
       /\ lost' = lost \cup (QueuedIds(queues) \ QueuedIds(qs))
  /\ running' = [c \in Clients |-> NoTask]
  /\ inherited' = open
  /\ dirty' = FALSE /\ chained' = 0 /\ writing' = FALSE /\ failed' = FALSE
  /\ snapshot' = NoQueues
  /\ UNCHANGED <<now, ticket, nextTicket, handed, open, expired, abandoned>>

Tick ==
  /\ now < MaxTime
  /\ now' = now + 1
  /\ UNCHANGED <<queues, running, ticket, nextTicket, restarts>>
  /\ UNCHANGED diskVars
  /\ UNCHANGED agentVars
  /\ UNCHANGED endVars

Next ==
  \/ \E c \in Clients, t \in Tasks : Enqueue(c, t) \/ MarkDone(c, t)
  \/ \E c \in Clients : Pump(c) \/ PumpFails(c)
  \/ SweepExpired
  \/ FlushTimerFires \/ WriteStarts
  \/ \E ok \in BOOLEAN : WriteEnds(ok)
  \/ Restart
  \/ Tick

Spec == Init /\ [][Next]_vars
-----------------------------------------------------------------------------
(* Correctness.                                                            *)

\* Every variable holds a value of its kind.
TypeOK ==
  /\ queues \in QueueMaps /\ snapshot \in QueueMaps /\ file \in QueueMaps
  /\ running \in [Clients -> Slot]
  /\ now \in 0..MaxTime
  /\ dirty \in BOOLEAN /\ chained \in 0..MaxFlushes
  /\ writing \in BOOLEAN /\ failed \in BOOLEAN
  /\ ticket \in [Tasks -> Nat] /\ nextTicket \in Nat \ {0}
  /\ handed \in [Clients -> SUBSET Tasks]
  /\ open \in [Clients -> SUBSET Tasks]
  /\ inherited \in [Clients -> SUBSET Tasks]
  /\ expired \in SUBSET Tasks /\ abandoned \in SUBSET Tasks /\ lost \in SUBSET Tasks
  /\ restarts \in 0..MaxRestarts

\* A map of queues the class may hold, given the order of acceptance and the
\* clock: within the limit, oldest accepted and oldest stamped first, and no
\* task in two places.
WithinLimit(qs) == \A c \in Clients : Len(qs[c]) <= MaxPerClient

InOrder(qs, order) ==
  \A c \in Clients : \A i, j \in DOMAIN qs[c] : i < j =>
    /\ order[qs[c][i].id] < order[qs[c][j].id]
    /\ qs[c][i].at <= qs[c][j].at

NoSharedTask(qs) ==
  \A c, d \in Clients : c # d =>
    \A i \in DOMAIN qs[c], j \in DOMAIN qs[d] : qs[c][i].id # qs[d][j].id

FromThePast(qs, order, next, clock) ==
  \A c \in Clients : \A i \in DOMAIN qs[c] :
    order[qs[c][i].id] \in 1..(next - 1) /\ qs[c][i].at <= clock

WellFormed(qs, order, next, clock) ==
  /\ WithinLimit(qs)
  /\ InOrder(qs, order)
  /\ NoSharedTask(qs)
  /\ FromThePast(qs, order, next, clock)

\* The live queues stay well formed through any mix of requests, dispatches,
\* sweeps, crashes and restores from an old file (queue.js as a whole).
QueuesWellFormed == WellFormed(queues, ticket, nextTicket, now)

\* A task that holds an agent's slot waits in no queue and holds no second
\* slot: pump's shift and running.set stay together, also after fromJSON.
RunningIsNotQueued ==
  \A c \in Clients : running[c] # NoTask =>
    /\ running[c] \notin QueuedIds(queues)
    /\ \A d \in Clients : running[d] = running[c] => c = d

\* "One agent runs one collection at a time" (queue.js:7): of the tasks this
\* server process handed to an agent, at most the one that holds the slot is
\* unreported.  A result for some other task never frees the slot.
OneOpenTaskPerAgent ==
  \A c \in Clients : open[c] \ inherited[c] \subseteq {running[c]}

\* The tasks some agent received.
EverHanded == UNION {handed[c] : c \in Clients}

\* "A full queue is the only rejection" (queue.js:8): no accepted task
\* vanishes.  It waits, was handed to its agent, was returned by a sweep, was
\* given up by the catch block of pump, or went down with a crash.
TasksAreConserved ==
  Accepted \subseteq QueuedIds(queues) \cup EverHanded \cup expired \cup abandoned \cup lost

\* onPersist is called by every operation that changes the queues: once no
\* flush is armed or waiting, the last write holds exactly what is in memory,
\* unless that write failed.
DiskCatchesUp ==
  ~dirty /\ chained = 0 /\ ~failed => queues = IF writing THEN snapshot ELSE file

\* What a sweep drops is a prefix that is determined, and it has exactly the items
\* that its loop over the whole queue finds expired.
SweepIsFilter ==
  \A c \in Clients :
    \E k \in 0..Len(queues[c]) :
      /\ ExpiredPrefix(queues[c]) = {k}
      /\ \A i \in DOMAIN queues[c] : IsExpired(queues[c][i]) <=> i <= k

\* Dispatch is FIFO per client: a task that takes the slot was accepted before
\* every task it leaves waiting.
DispatchIsFifo ==
  [][\A c \in Clients : running'[c] \notin {NoTask, running[c]} =>
       \A u \in IdsOf(queues'[c]) : ticket[running'[c]] < ticket[u]]_vars

\* A slot changes hands only through NoTask: no operation overwrites the task
\* in flight with another one.
SlotIsNeverOverwritten ==
  [][\A c \in Clients : running[c] # NoTask => running'[c] \in {NoTask, running[c]}]_vars

\* "enqueue persists so a restart does not lose the queue" (queue.test.js:154):
\* a task that waits, and already waited in the last finished write of
\* queues.json, still waits after a restart.
RestartKeepsDurableTasks ==
  [][restarts' # restarts =>
       QueuedIds(queues) \cap QueuedIds(file) \subseteq QueuedIds(queues')]_vars
-----------------------------------------------------------------------------
(* The class implements its header: SerialDispatch under this mapping.     *)

Names(q) == [i \in DOMAIN q |-> q[i].id]

Line == [c \in Clients |-> Names(queues[c])]

Abstract == INSTANCE SerialDispatch WITH line <- Line, busy <- running, made <- Accepted

\* Every step of queue.js, its writer and its restarts is a step of the serial
\* dispatcher the header promises, or invisible to it: beside a crash, a line
\* changes only by a request at its end, by dispatch or failure of its head while
\* the agent is free, and by a sweep of its oldest requests.
ImplementsSerialDispatch == Abstract!Spec
=============================================================================
