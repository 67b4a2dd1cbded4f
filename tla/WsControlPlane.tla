--------------------------- MODULE WsControlPlane ---------------------------
(***************************************************************************)
(* The WebSocket control plane between dashboardServer.js and one agent    *)
(* (client/src/ws.rs, task_runner.rs): sessions, heartbeats, dispatch, the *)
(* dispatch watchdog, task results, the sweep of expired items, and a      *)
(* restart of either side.                                                 *)
(*                                                                         *)
(* One action is one turn of the server's event loop or one branch of the  *)
(* agent's select loop.  Agents are independent of each other in the       *)
(* server, so one of them shows every interleaving; the queue's own        *)
(* invariants over several agents are in CollectionQueue.  Time is         *)
(* abstract: a timer that is armed may fire at any moment.                 *)
(***************************************************************************)
EXTENDS QueueOps, FiniteSets

CONSTANTS
  MaxSessions,    \* bound: how many WebSockets the agent ever opens
  MaxFaults,      \* bound: connection losses, timeouts and agent crashes
  MaxRestarts     \* bound: server restarts

ASSUME SessionsAssumption == MaxSessions \in Nat \ {0}
ASSUME FaultsAssumption == MaxFaults \in Nat /\ MaxRestarts \in Nat

VARIABLES
  queue,          \* collectionQueue.queues.get(clientId): tasks, head first
  slot,           \* collectionQueue.running.get(clientId)
  status,         \* profilingClients.get(clientId).status; "none": no record
  armed,          \* the keys of dispatchWatchdogs
  current,        \* wsConnections.get(clientId); NoSession: absent
  sock,           \* readyState of the server's end of each session
  known,          \* the sessions whose handler closure has a clientId
  results,        \* taskResults: the status of each task; "none": no entry
  diskQueue,      \* what queues.json holds
  diskResults,    \* what tasks.json holds
  session,        \* the session the agent runs; NoSession: it reconnects
  lastSession,    \* how many sessions the agent has opened
  runner,         \* TaskRunner.current
  runnerSession,  \* the session whose result_tx the running task holds
  unsent,         \* results of tasks that freed the runner, not yet in their channel
  outbox,         \* the agent's result_rx, in order
  up, down,       \* frames on the wire, per session
  accepted,       \* history: tasks whose start_ai_analysis was accepted
  dropped,        \* history: tasks whose dispatch threw
  rejected,       \* history: tasks the agent answered with "busy"
  inherited,      \* history: tasks in the agent's hands when the server restarted
  revived,        \* history: tasks a restart read back from queues.json
  faults, restarts

storeVars == <<results, diskQueue, diskResults>>
agentVars == <<session, lastSession, runner, runnerSession, unsent, outbox>>
histVars  == <<accepted, dropped, rejected, inherited, revived, faults, restarts>>
vars == <<queue, slot, status, armed, current, sock, known, results, diskQueue,
          diskResults, session, lastSession, runner, runnerSession, unsent, outbox, up,
          down, accepted, dropped, rejected, inherited, revived, faults, restarts>>

Sessions == 1..MaxSessions
NoSession == 0
Outcomes == {"Succeeded", "Failed"}

Register == [type |-> "REGISTER"]
Heartbeat(s) == [type |-> "HEARTBEAT", status |-> s]
TaskResult(t, o) == [type |-> "TASK_RESULT", task |-> t, status |-> o]
NewTask(t) == [type |-> "NEW_TASK", task |-> t]
Close == [type |-> "CLOSE"]

FromAgent == {Register} \cup {Heartbeat(s) : s \in {"Idle", "Profiling"}}
               \cup {TaskResult(t, o) : t \in Tasks, o \in Outcomes}
FromServer == {Close} \cup {NewTask(t) : t \in Tasks}

Init ==
  /\ queue = <<>> /\ slot = NoTask /\ status = "none" /\ armed = {}
  /\ current = NoSession
  /\ sock = [s \in Sessions |-> "none"] /\ known = {}
  /\ results = [t \in Tasks |-> "none"] /\ diskQueue = <<>>
  /\ diskResults = [t \in Tasks |-> "none"]
  /\ session = NoSession /\ lastSession = 0
  /\ runner = NoTask /\ runnerSession = NoSession /\ unsent = {} /\ outbox = <<>>
  /\ up = [s \in Sessions |-> <<>>] /\ down = [s \in Sessions |-> <<>>]
  /\ accepted = {} /\ dropped = {} /\ rejected = {} /\ inherited = {} /\ revived = {}
  /\ faults = 0 /\ restarts = 0

-----------------------------------------------------------------------------
(* The server.                                                             *)

\* dispatchQueuedTask finds a socket it can send on.
Connected == current # NoSession /\ sock[current] = "open"

\* The turn leaves queue q, slot sl, client status st and armed watchdogs wd.
NoPump(q, sl, st, wd) ==
  /\ queue' = q /\ slot' = sl /\ status' = st /\ armed' = wd
  /\ UNCHANGED <<down, dropped>>

\* collectionQueue.pump(clientId) on such a state: nothing to do, the head goes
\* out over the current socket, or dispatchQueuedTask throws and the catch block
\* leaves the slot free again.
PumpIdle(q, sl, st, wd) == ~CanPump(q, sl) /\ NoPump(q, sl, st, wd)

PumpSends(q, sl, st, wd) ==
  /\ CanPump(q, sl) /\ Connected
  /\ queue' = Tail(q) /\ slot' = Head(q)
  /\ status' = "Dispatching" /\ armed' = wd \cup {Head(q)}
  /\ down' = [down EXCEPT ![current] = Append(@, NewTask(Head(q)))]
  /\ UNCHANGED dropped

PumpThrows(q, sl, st, wd) ==
  /\ CanPump(q, sl) /\ ~Connected
  /\ queue' = Tail(q) /\ slot' = NoTask /\ status' = st /\ armed' = wd
  /\ dropped' = dropped \cup {Head(q)}
  /\ UNCHANGED down

Pump(q, sl, st, wd) ==
  PumpIdle(q, sl, st, wd) \/ PumpSends(q, sl, st, wd) \/ PumpThrows(q, sl, st, wd)

\* start_ai_analysis: a client without a live socket and a full queue reject
\* the request; an idle client is pumped in the same turn.
StartAnalysis(t) ==
  /\ t \notin accepted
  /\ status # "none" /\ Connected /\ HasRoom(queue)
  /\ accepted' = accepted \cup {t}
  /\ IF status = "Idle" THEN Pump(Append(queue, t), slot, status, armed)
                        ELSE NoPump(Append(queue, t), slot, status, armed)
  /\ UNCHANGED <<current, sock, known, up, rejected, inherited, revived, faults, restarts>>
  /\ UNCHANGED storeVars
  /\ UNCHANGED agentVars

\* The server's end of s still delivers messages, in order: while it is open and
\* while it waits for the peer to answer its close frame.
Receives(s, type) ==
  /\ sock[s] \in {"open", "closing"}
  /\ up[s] # <<>> /\ Head(up[s]).type = type
  /\ up' = [up EXCEPT ![s] = Tail(@)]

\* Mutant of HandleRegister: a reconnect also frees the slot.
RegisterFreesSlot(s) ==
  /\ Receives(s, "REGISTER")
  /\ known' = known \cup {s}
  /\ current' = s
  /\ status' = "Idle" /\ slot' = NoTask
  /\ UNCHANGED <<queue, armed, sock, down, accepted, dropped, rejected, inherited,
                 revived, faults, restarts>>
  /\ UNCHANGED storeVars
  /\ UNCHANGED agentVars

\* REGISTER replaces the client's connection, whatever it was, and resets its
\* record.  The slot is left alone.
HandleRegister(s) ==
  /\ Receives(s, "REGISTER")
  /\ known' = known \cup {s}
  /\ current' = s
  /\ status' = "Idle"
  /\ UNCHANGED <<queue, slot, armed, sock, down, accepted, dropped, rejected,
                 inherited, revived, faults, restarts>>
  /\ UNCHANGED storeVars
  /\ UNCHANGED agentVars

\* HEARTBEAT: the reported status is trusted, and an idle client is pumped.
HandleHeartbeat(s) ==
  /\ Receives(s, "HEARTBEAT")
  /\ IF s \notin known THEN NoPump(queue, slot, status, armed)
     ELSE LET st == Head(up[s]).status IN
            IF st = "Idle" THEN Pump(queue, slot, st, armed)
                           ELSE NoPump(queue, slot, st, armed)
  /\ UNCHANGED <<current, sock, known, accepted, rejected, inherited, revived, faults, restarts>>
  /\ UNCHANGED storeVars
  /\ UNCHANGED agentVars

\* What a TASK_RESULT writes besides the queue and the client.
RecordResult(m) ==
  /\ results' = [results EXCEPT ![m.task] = m.status]
  /\ UNCHANGED <<current, sock, known, diskQueue, diskResults, accepted, rejected,
                 inherited, revived, faults, restarts>>
  /\ UNCHANGED agentVars

\* A Dispatching flag is cleared, a status the agent reported is kept.
StatusReleased == IF status = "Dispatching" THEN "Idle" ELSE status

\* Mutant of HandleTaskResult: clearDispatchWatchdog is forgotten.
ResultKeepsWatchdog(s) ==
  /\ Receives(s, "TASK_RESULT")
  /\ LET m == Head(up[s]) IN
       /\ RecordResult(m)
       /\ Pump(queue, Released(slot, m.task), StatusReleased, armed)

\* Mutant of HandleTaskResult: markDone is forgotten.
ResultKeepsSlot(s) ==
  /\ Receives(s, "TASK_RESULT")
  /\ LET m == Head(up[s]) IN
       /\ RecordResult(m)
       /\ Pump(queue, slot, StatusReleased, armed \ {m.task})

\* TASK_RESULT: the result is recorded, a Dispatching flag and the task's
\* watchdog are cleared, the slot is released if the task holds it, and the
\* queue is pumped.  (The agent registers before it sends anything else.)
HandleTaskResult(s) ==
  /\ Receives(s, "TASK_RESULT")
  /\ LET m == Head(up[s]) IN
       /\ RecordResult(m)
       /\ Pump(queue, Released(slot, m.task), StatusReleased, armed \ {m.task})

\* Mutant of WatchdogFires: the slot is released with the flag.
WatchdogFreesSlot(t) ==
  /\ t \in armed
  /\ armed' = armed \ {t}
  /\ status' = StatusReleased
  /\ slot' = Released(slot, t)
  /\ UNCHANGED <<queue, current, sock, known, up, down>>
  /\ UNCHANGED storeVars
  /\ UNCHANGED agentVars
  /\ UNCHANGED histVars

\* The dispatch watchdog of t fires: a client that is still Dispatching goes
\* back to Idle.  It looks at the client, not at the task, and the slot is left
\* alone.
WatchdogFires(t) ==
  /\ t \in armed
  /\ armed' = armed \ {t}
  /\ status' = StatusReleased
  /\ UNCHANGED <<queue, slot, current, sock, known, up, down>>
  /\ UNCHANGED storeVars
  /\ UNCHANGED agentVars
  /\ UNCHANGED histVars

\* Mutant of SweptStatus: an outcome no reader of tasks.json knows.
SweptAsExpired(t, k) ==
  IF \E i \in 1..k : queue[i] = t THEN "Expired" ELSE results[t]

\* The outcome of t once the first k items are swept.
SweptStatus(t, k) ==
  IF \E i \in 1..k : queue[i] = t THEN "Failed" ELSE results[t]

\* The sweep drops the items whose TTL has passed, which are at the head, and
\* leaves a Failed entry for each.
SweepExpired ==
  /\ \E k \in 1..Len(queue) :
       /\ queue' = SubSeq(queue, k + 1, Len(queue))
       /\ results' = [t \in Tasks |-> SweptStatus(t, k)]
  /\ UNCHANGED <<slot, status, armed, current, sock, known, up, down, diskQueue,
                 diskResults>>
  /\ UNCHANGED agentVars
  /\ UNCHANGED histVars

\* Mutant of Closed: wsConnections.delete is forgotten.
ClosedKeepsConnection(s) ==
  /\ sock' = [sock EXCEPT ![s] = "closed"]
  /\ status' = IF s \in known /\ current = s THEN "Offline" ELSE status
  /\ UNCHANGED <<current, queue, slot, armed, known, down>>
  /\ UNCHANGED storeVars
  /\ UNCHANGED agentVars

\* 'close' on a socket: only the client's current connection turns it Offline.
Closed(s) ==
  /\ sock' = [sock EXCEPT ![s] = "closed"]
  /\ IF s \in known /\ current = s
       THEN current' = NoSession /\ status' = "Offline"
       ELSE UNCHANGED <<current, status>>
  /\ UNCHANGED <<queue, slot, armed, known, down>>
  /\ UNCHANGED storeVars
  /\ UNCHANGED agentVars

\* The peer is gone and everything it sent was delivered.
PeerCloses(s) ==
  /\ sock[s] \in {"open", "closing"}
  /\ session # s /\ up[s] = <<>>
  /\ Closed(s)
  /\ UNCHANGED up
  /\ UNCHANGED histVars

\* No message for 60 s on the client's current connection: ws.close(1001).
HeartbeatTimeout(s) ==
  /\ faults < MaxFaults
  /\ current = s /\ sock[s] = "open"
  /\ sock' = [sock EXCEPT ![s] = "closing"]
  /\ down' = [down EXCEPT ![s] = Append(@, Close)]
  /\ faults' = faults + 1
  /\ UNCHANGED <<queue, slot, status, armed, current, known, up, accepted, dropped,
                 rejected, inherited, revived, restarts>>
  /\ UNCHANGED storeVars
  /\ UNCHANGED agentVars

\* The peer did not answer the close frame within 5 s: ws.terminate().
Terminate(s) ==
  /\ current = s /\ sock[s] = "closing"
  /\ Closed(s)
  /\ up' = [up EXCEPT ![s] = <<>>]
  /\ UNCHANGED histVars

\* One flush of the persist chain stores the task results before the queues.
FlushTasks ==
  /\ diskResults # results
  /\ diskResults' = results
  /\ UNCHANGED <<queue, slot, status, armed, current, sock, known, up, down, results,
                 diskQueue>>
  /\ UNCHANGED agentVars
  /\ UNCHANGED histVars

FlushQueues ==
  /\ diskQueue # queue
  /\ diskQueue' = queue
  /\ UNCHANGED <<queue, slot, status, armed, current, sock, known, up, down, results,
                 diskResults>>
  /\ UNCHANGED agentVars
  /\ UNCHANGED histVars

-----------------------------------------------------------------------------
(* The agent.                                                              *)

\* send_heartbeat reports what the runner does.
AgentStatus == IF runner = NoTask THEN "Idle" ELSE "Profiling"

\* run_session: the new socket starts with REGISTER and a heartbeat, and a fresh
\* result channel.
AgentConnects ==
  /\ session = NoSession /\ lastSession < MaxSessions
  /\ LET s == lastSession + 1 IN
       /\ session' = s /\ lastSession' = s
       /\ sock' = [sock EXCEPT ![s] = "open"]
       /\ up' = [up EXCEPT ![s] = <<Register, Heartbeat(AgentStatus)>>]
  /\ outbox' = <<>>
  /\ UNCHANGED <<queue, slot, status, armed, current, known, down, runner, runnerSession,
                 unsent>>
  /\ UNCHANGED storeVars
  /\ UNCHANGED histVars

\* The heartbeat interval ticks.  Bound: one heartbeat at a time on the wire.
AgentHeartbeats ==
  /\ session # NoSession
  /\ \A i \in DOMAIN up[session] : up[session][i].type # "HEARTBEAT"
  /\ up' = [up EXCEPT ![session] = Append(@, Heartbeat(AgentStatus))]
  /\ UNCHANGED <<queue, slot, status, armed, current, sock, known, down>>
  /\ UNCHANGED storeVars
  /\ UNCHANGED agentVars
  /\ UNCHANGED histVars

\* The select loop sends the next message of its result channel.
AgentSends ==
  /\ session # NoSession /\ outbox # <<>>
  /\ up' = [up EXCEPT ![session] = Append(@, Head(outbox))]
  /\ outbox' = Tail(outbox)
  /\ UNCHANGED <<queue, slot, status, armed, current, sock, known, down, session,
                 lastSession, runner, runnerSession, unsent>>
  /\ UNCHANGED storeVars
  /\ UNCHANGED histVars

\* NEW_TASK: try_run admits a task when idle, ignores the one it already runs,
\* and answers any other one with a Failed result.
AgentReceivesTask(t) ==
  /\ session # NoSession
  /\ down[session] # <<>> /\ Head(down[session]) = NewTask(t)
  /\ down' = [down EXCEPT ![session] = Tail(@)]
  /\ \/ /\ runner = NoTask
        /\ runner' = t /\ runnerSession' = session
        /\ UNCHANGED <<outbox, rejected>>
     \/ /\ runner = t
        /\ UNCHANGED <<runner, runnerSession, outbox, rejected>>
     \/ /\ runner \notin {NoTask, t}
        /\ outbox' = Append(outbox, TaskResult(t, "Failed"))
        /\ rejected' = rejected \cup {t}
        /\ UNCHANGED <<runner, runnerSession>>
  /\ UNCHANGED <<queue, slot, status, armed, current, sock, known, up, session,
                 lastSession, unsent, accepted, dropped, inherited, revived, faults, restarts>>
  /\ UNCHANGED storeVars

\* The spawned task ends: first the runner is free ...
AgentFinishes(o) ==
  /\ runner # NoTask
  /\ runner' = NoTask /\ runnerSession' = NoSession
  /\ unsent' = unsent \cup {[result |-> TaskResult(runner, o), session |-> runnerSession]}
  /\ UNCHANGED <<queue, slot, status, armed, current, sock, known, up, down, session,
                 lastSession, outbox>>
  /\ UNCHANGED storeVars
  /\ UNCHANGED histVars

\* ... then the result goes into the channel of the session that started it.
\* When that session is over the receiver is gone and `let _ = tx.send(msg)`
\* drops the result.
AgentReports ==
  /\ \E u \in unsent :
       /\ unsent' = unsent \ {u}
       /\ outbox' = IF u.session = session THEN Append(outbox, u.result) ELSE outbox
  /\ UNCHANGED <<queue, slot, status, armed, current, sock, known, up, down, session,
                 lastSession, runner, runnerSession>>
  /\ UNCHANGED storeVars
  /\ UNCHANGED histVars

\* The session ends on the agent's side: what waits in its channels is lost.
SessionEnds ==
  /\ session # NoSession
  /\ session' = NoSession /\ outbox' = <<>>
  /\ down' = [down EXCEPT ![session] = <<>>]
  /\ UNCHANGED <<queue, slot, status, armed, current, known, lastSession, accepted,
                 dropped, rejected, revived>>
  /\ UNCHANGED storeVars

\* A close frame, or the end of the stream, makes run_session return.
AgentSeesClose ==
  /\ session # NoSession
  /\ sock[session] = "closed" \/ (down[session] # <<>> /\ Head(down[session]) = Close)
  /\ SessionEnds
  /\ UNCHANGED <<sock, up, runner, runnerSession, unsent, inherited, faults, restarts>>

-----------------------------------------------------------------------------
(* Faults.                                                                 *)

\* The connection breaks: some suffix of what the agent sent never arrives.
\* With `crash` the agent's process dies and the task with it.
LoseConnection(crash) ==
  /\ faults < MaxFaults
  /\ SessionEnds
  /\ \E n \in 0..Len(up[session]) : up' = [up EXCEPT ![session] = SubSeq(@, 1, n)]
  /\ IF crash THEN runner' = NoTask /\ runnerSession' = NoSession /\ unsent' = {}
              ELSE UNCHANGED <<runner, runnerSession, unsent>>
  /\ faults' = faults + 1
  /\ UNCHANGED <<sock, inherited, restarts>>

\* The tasks the agent was sent and the server has not heard of since.
Outstanding ==
  ({runner} \ {NoTask}) \cup {u.result.task : u \in unsent}
    \cup {t \in Tasks : session # NoSession
                         /\ \E i \in DOMAIN down[session] : down[session][i] = NewTask(t)}
    \cup {t \in Tasks : \E o \in Outcomes :
                         \/ \E i \in DOMAIN outbox : outbox[i] = TaskResult(t, o)
                         \/ \E s \in Sessions : \E i \in DOMAIN up[s] : up[s][i] = TaskResult(t, o)}

\* The server process restarts: sockets, timers, waiters and the slot are gone,
\* the files are read back, and every client it still knows is Offline.  Frames
\* already sent to the agent may still arrive.
ServerRestarts ==
  /\ restarts < MaxRestarts
  /\ restarts' = restarts + 1
  /\ queue' = diskQueue /\ results' = diskResults
  /\ slot' = NoTask /\ armed' = {} /\ current' = NoSession /\ known' = {}
  /\ status' \in IF status = "none" THEN {"none"} ELSE {"none", "Offline"}
  /\ sock' = [s \in Sessions |-> IF sock[s] = "none" THEN "none" ELSE "closed"]
  /\ up' = [s \in Sessions |-> <<>>]
  /\ inherited' = inherited \cup Outstanding
  /\ revived' = revived \cup {diskQueue[i] : i \in DOMAIN diskQueue}
  /\ UNCHANGED <<down, diskQueue, diskResults, accepted, dropped, rejected, faults>>
  /\ UNCHANGED agentVars

ServerStep ==
  \/ \E t \in Tasks : StartAnalysis(t) \/ WatchdogFires(t)
  \/ \E s \in Sessions :
       \/ HandleRegister(s) \/ HandleHeartbeat(s) \/ HandleTaskResult(s)
       \/ PeerCloses(s) \/ HeartbeatTimeout(s) \/ Terminate(s)
  \/ SweepExpired
  \/ FlushTasks \/ FlushQueues

AgentStep ==
  \/ AgentConnects \/ AgentHeartbeats \/ AgentReports \/ AgentSends \/ AgentSeesClose
  \/ \E t \in Tasks : AgentReceivesTask(t)
  \/ \E o \in Outcomes : AgentFinishes(o)

Fault ==
  \/ \E crash \in BOOLEAN : LoseConnection(crash)
  \/ ServerRestarts

Next == ServerStep \/ AgentStep \/ Fault

Spec == Init /\ [][Next]_vars

\* The event loop serves every socket and timer, the agent's select loop every
\* branch, profiling ends, and the network delivers what it does not lose.
\* Nothing is assumed of users, faults and the TTL sweep.
Fairness ==
  /\ \A t \in Tasks : WF_vars(WatchdogFires(t)) /\ WF_vars(AgentReceivesTask(t))
  /\ \A s \in Sessions :
       /\ WF_vars(HandleRegister(s)) /\ WF_vars(HandleHeartbeat(s))
       /\ WF_vars(HandleTaskResult(s)) /\ WF_vars(PeerCloses(s)) /\ WF_vars(Terminate(s))
  /\ WF_vars(AgentConnects) /\ WF_vars(AgentHeartbeats) /\ WF_vars(AgentSends)
  /\ WF_vars(AgentReports) /\ WF_vars(AgentSeesClose)
  /\ WF_vars(\E o \in Outcomes : AgentFinishes(o))

FairSpec == Spec /\ Fairness
-----------------------------------------------------------------------------
(* Correctness.                                                            *)

\* Every variable holds a value of its kind.
TypeOK ==
  /\ queue \in Seq(Tasks) /\ diskQueue \in Seq(Tasks)
  /\ slot \in Slot /\ runner \in Slot
  /\ status \in {"none", "Idle", "Dispatching", "Profiling", "Offline"}
  /\ armed \subseteq Tasks
  /\ {current, session, runnerSession} \subseteq Sessions \cup {NoSession}
  /\ lastSession \in 0..MaxSessions
  /\ sock \in [Sessions -> {"none", "open", "closing", "closed"}]
  /\ known \subseteq Sessions
  /\ {results, diskResults} \subseteq [Tasks -> Outcomes \cup {"none"}]
  /\ outbox \in Seq(FromAgent)
  /\ unsent \subseteq [result : FromAgent, session : Sessions]
  /\ up \in [Sessions -> Seq(FromAgent)] /\ down \in [Sessions -> Seq(FromServer)]
  /\ accepted \subseteq Tasks /\ dropped \subseteq Tasks
  /\ rejected \subseteq Tasks /\ inherited \subseteq Tasks /\ revived \subseteq Tasks
  /\ faults \in 0..MaxFaults /\ restarts \in 0..MaxRestarts

\* "One agent runs one collection at a time" (queue.js:7), across the wire: of
\* what this server process sent to the agent, only the task in the slot can be
\* on its way, running, or finished and not yet reported, whatever connections
\* break and whichever side restarts.
OnlyTheSlotIsOutstanding == Outstanding \ inherited \subseteq {slot}

\* The busy answer of task_runner.rs is never needed while the server keeps
\* running: the slot is freed by a result only after the runner is free.
BusyOnlyAfterRestart == rejected # {} => inherited # {}

\* A watchdog belongs to the task in the slot, and a client is Dispatching only
\* while one is armed: no timer of an earlier task resets a later dispatch, and
\* no Dispatching flag is left without a timer (dashboardServer.js:205-231).
WatchdogMatchesDispatch ==
  /\ armed \subseteq {slot}
  /\ status = "Dispatching" => armed # {}

\* wsConnections never keeps a socket whose 'close' was handled, although an old
\* session's close and REGISTER may come after a newer session's.
CurrentIsAlive ==
  current # NoSession => current \in known /\ sock[current] \in {"open", "closing"}

\* A task with a recorded outcome is finished for the server: it neither waits
\* nor holds the slot, unless a restart read it back from an older queues.json.
ResolvedIsFinished ==
  \A t \in Tasks \ revived : results[t] # "none" =>
    t # slot /\ \A i \in DOMAIN queue : queue[i] # t

\* Without faults every accepted task gets a recorded outcome, and none of them
\* needs the TTL sweep for it.
AcceptedIsResolved ==
  \A t \in Tasks : t \in accepted ~> results[t] # "none"

\* "a 30s watchdog so a lost TASK_RESULT cannot pin the client forever"
\* (dashboardServer.js:7-8): a task the agent runs leaves the client's slot in
\* the end, whatever happens to its result.
SlotIsReleased == \A t \in Tasks : slot = t /\ runner = t ~> slot # t

\* "a full queue is the only rejection" (queue.js:8): an accepted task waits,
\* holds the slot, or has an outcome its owner can see.
AcceptedIsAccountedFor ==
  \A t \in accepted :
    t = slot \/ results[t] # "none" \/ \E i \in DOMAIN queue : queue[i] = t

\* "the agent that was running a task does not survive a server restart"
\* (queue.js:103-105): no task is handed to an agent that still runs another.
NoTaskIsRejectedBusy == rejected = {}
=============================================================================
