------------------------ MODULE WsControlPlaneProofs ------------------------
(***************************************************************************)
(* Proofs about WsControlPlane for every set of tasks, every queue limit   *)
(* and any number of sessions, faults and server restarts.                 *)
(***************************************************************************)
EXTENDS WsControlPlane, TLAPS

(* Frames.                                                                 *)

Statuses == {"none", "Idle", "Dispatching", "Profiling", "Offline"}

\* A TASK_RESULT frame names a task and its outcome, and is determined by the two.
LEMMA ResultFrame ==
  ASSUME NEW m \in FromAgent, m.type = "TASK_RESULT"
  PROVE  m.task \in Tasks /\ m.status \in Outcomes /\ m = TaskResult(m.task, m.status)
  <1>1. m # Register /\ \A s \in {"Idle", "Profiling"} : m # Heartbeat(s)
    BY DEF Register, Heartbeat
  <1>2. PICK t \in Tasks, o \in Outcomes : m = TaskResult(t, o)
    BY <1>1 DEF FromAgent
  <1>3. QED
    BY <1>2 DEF TaskResult

\* A HEARTBEAT frame carries one of the agent's two statuses.
LEMMA HeartbeatFrame ==
  ASSUME NEW m \in FromAgent, m.type = "HEARTBEAT"
  PROVE  m.status \in {"Idle", "Profiling"}
  <1>1. m # Register /\ \A t \in Tasks, o \in Outcomes : m # TaskResult(t, o)
    BY DEF Register, TaskResult
  <1>2. PICK s \in {"Idle", "Profiling"} : m = Heartbeat(s)
    BY <1>1 DEF FromAgent
  <1>3. QED
    BY <1>2 DEF Heartbeat

\* The frames the two sides build are frames.
LEMMA FrameTypes ==
  /\ Register \in FromAgent /\ Heartbeat(AgentStatus) \in FromAgent
  /\ Close \in FromServer
  /\ \A t \in Tasks : NewTask(t) \in FromServer
  /\ \A t \in Tasks, o \in Outcomes : TaskResult(t, o) \in FromAgent
  BY DEF FromAgent, FromServer, AgentStatus

-----------------------------------------------------------------------------
(* Type correctness.                                                       *)

\* What is on the agent's side: a running task has the channel of a session, and what
\* waits to be sent are results.
AgentSound ==
  /\ runner # NoTask => runnerSession # NoSession
  /\ \A u \in unsent : u.result.type = "TASK_RESULT"

LEMMA PumpType ==
  ASSUME TypeOK, NEW q \in Seq(Tasks), NEW sl \in Slot, NEW st \in Statuses,
         NEW wd \in SUBSET Tasks, Pump(q, sl, st, wd) \/ NoPump(q, sl, st, wd)
  PROVE  /\ queue' \in Seq(Tasks) /\ slot' \in Slot /\ status' \in Statuses
         /\ armed' \subseteq Tasks /\ dropped' \subseteq Tasks
         /\ down' \in [Sessions -> Seq(FromServer)]
  <1>1. CASE NoPump(q, sl, st, wd) \/ PumpIdle(q, sl, st, wd)
    BY <1>1 DEF NoPump, PumpIdle, TypeOK
  <1>2. ASSUME CanPump(q, sl) PROVE Head(q) \in Tasks /\ Tail(q) \in Seq(Tasks)
    BY <1>2 DEF CanPump
  <1>3. CASE PumpSends(q, sl, st, wd)
    <2>1. CanPump(q, sl) /\ Head(q) \in Tasks /\ Tail(q) \in Seq(Tasks)
      BY <1>2, <1>3 DEF PumpSends
    <2>2. Append(down[current], NewTask(Head(q))) \in Seq(FromServer)
      BY <1>3, <2>1, FrameTypes DEF PumpSends, Connected, TypeOK
    <2>3. QED
      BY <1>3, <2>1, <2>2 DEF PumpSends, TypeOK, Slot, Statuses
  <1>4. CASE PumpThrows(q, sl, st, wd)
    BY <1>2, <1>4 DEF PumpThrows, TypeOK, Slot
  <1>5. QED
    BY <1>1, <1>3, <1>4 DEF Pump

LEMMA TypeServer ==
  ASSUME TypeOK, ServerStep
  PROVE  TypeOK'
  <1> USE DEF storeVars, agentVars, histVars
  <1>1. ASSUME NEW t \in Tasks, StartAnalysis(t) PROVE TypeOK'
    <2>1. Append(queue, t) \in Seq(Tasks) /\ accepted' \subseteq Tasks
      BY <1>1 DEF StartAnalysis, TypeOK
    <2>2. Pump(Append(queue, t), slot, status, armed) \/ NoPump(Append(queue, t), slot, status, armed)
      BY <1>1 DEF StartAnalysis
    <2>3. /\ queue' \in Seq(Tasks) /\ slot' \in Slot /\ status' \in Statuses
          /\ armed' \subseteq Tasks /\ dropped' \subseteq Tasks
          /\ down' \in [Sessions -> Seq(FromServer)]
      BY <2>1, <2>2, PumpType DEF TypeOK, Statuses
    <2>4. QED
      BY <1>1, <2>1, <2>3 DEF StartAnalysis, TypeOK, Statuses
  <1>2. ASSUME NEW t \in Tasks, WatchdogFires(t) PROVE TypeOK'
    BY <1>2 DEF WatchdogFires, StatusReleased, TypeOK
  <1>3. ASSUME NEW s \in Sessions, NEW type, Receives(s, type)
        PROVE  /\ Head(up[s]) \in FromAgent /\ Head(up[s]).type = type
               /\ up' \in [Sessions -> Seq(FromAgent)]
    BY <1>3 DEF Receives, TypeOK
  <1>4. ASSUME NEW s \in Sessions, HandleRegister(s) PROVE TypeOK'
    BY <1>3, <1>4 DEF HandleRegister, TypeOK
  <1>5. ASSUME NEW s \in Sessions, HandleHeartbeat(s) PROVE TypeOK'
    <2>1. Head(up[s]).status \in {"Idle", "Profiling"} /\ up' \in [Sessions -> Seq(FromAgent)]
      BY <1>3, <1>5, HeartbeatFrame DEF HandleHeartbeat
    <2>2. \E st \in Statuses : Pump(queue, slot, st, armed) \/ NoPump(queue, slot, st, armed)
      BY <1>5, <2>1 DEF HandleHeartbeat, TypeOK, Statuses
    <2>3. /\ queue' \in Seq(Tasks) /\ slot' \in Slot /\ status' \in Statuses
          /\ armed' \subseteq Tasks /\ dropped' \subseteq Tasks
          /\ down' \in [Sessions -> Seq(FromServer)]
      BY <2>2, PumpType DEF TypeOK
    <2>4. QED
      BY <1>5, <2>1, <2>3 DEF HandleHeartbeat, TypeOK, Statuses
  <1>6. ASSUME NEW s \in Sessions, HandleTaskResult(s) PROVE TypeOK'
    <2> DEFINE m == Head(up[s])
    <2>1. m.task \in Tasks /\ m.status \in Outcomes /\ up' \in [Sessions -> Seq(FromAgent)]
      BY <1>3, <1>6, ResultFrame DEF HandleTaskResult
    <2>2. results' \in [Tasks -> Outcomes \cup {"none"}]
      BY <1>6, <2>1 DEF HandleTaskResult, RecordResult, TypeOK
    <2>3. Released(slot, m.task) \in Slot /\ StatusReleased \in Statuses
          /\ armed \ {m.task} \in SUBSET Tasks
      BY DEF Released, StatusReleased, TypeOK, Slot, Statuses
    <2>4. Pump(queue, Released(slot, m.task), StatusReleased, armed \ {m.task})
      BY <1>6 DEF HandleTaskResult
    <2>5. /\ queue' \in Seq(Tasks) /\ slot' \in Slot /\ status' \in Statuses
          /\ armed' \subseteq Tasks /\ dropped' \subseteq Tasks
          /\ down' \in [Sessions -> Seq(FromServer)]
      BY <2>3, <2>4, PumpType DEF TypeOK
    <2>6. QED
      BY <1>6, <2>1, <2>2, <2>5 DEF HandleTaskResult, RecordResult, TypeOK, Statuses
  <1>7. ASSUME NEW s \in Sessions, PeerCloses(s) \/ Terminate(s) PROVE TypeOK'
    <2>1. <<>> \in Seq(FromAgent)
      OBVIOUS
    <2>2. up' \in [Sessions -> Seq(FromAgent)]
      <3>1. CASE PeerCloses(s)
        BY <3>1 DEF PeerCloses, TypeOK
      <3>2. CASE Terminate(s)
        BY <2>1, <3>2 DEF Terminate, TypeOK
      <3>3. QED
        BY <1>7, <3>1, <3>2
    <2>3. Closed(s) /\ UNCHANGED histVars
      BY <1>7 DEF PeerCloses, Terminate
    <2>4. /\ sock' \in [Sessions -> {"none", "open", "closing", "closed"}]
          /\ current' \in Sessions \cup {NoSession} /\ status' \in Statuses
      BY <2>3 DEF Closed, TypeOK, Statuses
    <2>5. QED
      BY <2>2, <2>3, <2>4 DEF Closed, TypeOK, Statuses
  <1>8. ASSUME NEW s \in Sessions, HeartbeatTimeout(s) PROVE TypeOK'
    <2>1. down' \in [Sessions -> Seq(FromServer)]
      BY <1>8, FrameTypes DEF HeartbeatTimeout, TypeOK
    <2>2. faults' \in 0..MaxFaults
      BY <1>8, FaultsAssumption DEF HeartbeatTimeout, TypeOK
    <2>3. QED
      BY <1>8, <2>1, <2>2 DEF HeartbeatTimeout, TypeOK
  <1>9. CASE SweepExpired
    <2>1. queue' \in Seq(Tasks)
      BY <1>9 DEF SweepExpired, TypeOK
    <2>2. \A t \in Tasks, k \in Nat : SweptStatus(t, k) \in Outcomes \cup {"none"}
      BY DEF SweptStatus, TypeOK, Outcomes
    <2>3. results' \in [Tasks -> Outcomes \cup {"none"}]
      BY <1>9, <2>2 DEF SweepExpired
    <2>4. QED
      BY <1>9, <2>1, <2>3 DEF SweepExpired, TypeOK
  <1>10. CASE FlushTasks \/ FlushQueues
    BY <1>10 DEF FlushTasks, FlushQueues, TypeOK
  <1>11. QED
    BY <1>1, <1>2, <1>4, <1>5, <1>6, <1>7, <1>8, <1>9, <1>10 DEF ServerStep

\* Every step of the agent, provided that a running task has a session.
LEMMA TypeAgent ==
  ASSUME TypeOK, AgentSound, AgentStep \/ \E crash \in BOOLEAN : LoseConnection(crash)
  PROVE  TypeOK'
  <1> USE DEF storeVars, agentVars, histVars
  <1>1. <<>> \in Seq(FromAgent) /\ <<>> \in Seq(FromServer)
    OBVIOUS
  <1>2. CASE AgentConnects
    <2>1. lastSession + 1 \in Sessions /\ lastSession + 1 \in 0..MaxSessions
      BY <1>2, SessionsAssumption DEF AgentConnects, Sessions, TypeOK
    <2>2. <<Register, Heartbeat(AgentStatus)>> \in Seq(FromAgent)
      BY FrameTypes
    <2>3. up' \in [Sessions -> Seq(FromAgent)]
      BY <1>2, <2>2 DEF AgentConnects, TypeOK
    <2>4. QED
      BY <1>1, <1>2, <2>1, <2>3 DEF AgentConnects, TypeOK
  <1>3. CASE AgentHeartbeats
    <2>1. Append(up[session], Heartbeat(AgentStatus)) \in Seq(FromAgent)
      BY <1>3, FrameTypes DEF AgentHeartbeats, TypeOK
    <2>2. QED
      BY <1>3, <2>1 DEF AgentHeartbeats, TypeOK
  <1>4. CASE AgentSends
    <2>1. Append(up[session], Head(outbox)) \in Seq(FromAgent) /\ Tail(outbox) \in Seq(FromAgent)
      BY <1>4 DEF AgentSends, TypeOK
    <2>2. QED
      BY <1>4, <2>1 DEF AgentSends, TypeOK
  <1>5. CASE AgentReports
    <2>1. PICK u \in unsent :
            /\ unsent' = unsent \ {u}
            /\ outbox' = IF u.session = session THEN Append(outbox, u.result) ELSE outbox
      BY <1>5 DEF AgentReports
    <2>2. u.result \in FromAgent
      BY DEF TypeOK
    <2>3. outbox' \in Seq(FromAgent) /\ unsent' \subseteq [result : FromAgent, session : Sessions]
      BY <2>1, <2>2 DEF TypeOK
    <2>4. QED
      BY <1>5, <2>3 DEF AgentReports, TypeOK
  <1>6. SessionEnds => /\ down' \in [Sessions -> Seq(FromServer)] /\ session' = NoSession
                       /\ outbox' \in Seq(FromAgent)
    BY <1>1 DEF SessionEnds, TypeOK
  <1>7. CASE AgentSeesClose
    BY <1>6, <1>7 DEF AgentSeesClose, SessionEnds, TypeOK
  <1>8. ASSUME NEW t \in Tasks, AgentReceivesTask(t) PROVE TypeOK'
    <2>1. down' \in [Sessions -> Seq(FromServer)]
      BY <1>8 DEF AgentReceivesTask, TypeOK
    <2>2. Append(outbox, TaskResult(t, "Failed")) \in Seq(FromAgent)
      BY FrameTypes DEF TypeOK, Outcomes
    <2>3. runner' \in Slot /\ runnerSession' \in Sessions \cup {NoSession}
            /\ outbox' \in Seq(FromAgent) /\ rejected' \subseteq Tasks
      BY <1>8, <2>2 DEF AgentReceivesTask, TypeOK, Slot
    <2>4. QED
      BY <1>8, <2>1, <2>3 DEF AgentReceivesTask, TypeOK
  <1>9. ASSUME NEW o \in Outcomes, AgentFinishes(o) PROVE TypeOK'
    <2>1. runner \in Tasks /\ runnerSession \in Sessions
      BY <1>9 DEF AgentFinishes, AgentSound, TypeOK, Slot
    <2>2. [result |-> TaskResult(runner, o), session |-> runnerSession]
            \in [result : FromAgent, session : Sessions]
      BY <2>1, FrameTypes
    <2>3. unsent' \subseteq [result : FromAgent, session : Sessions]
      BY <1>9, <2>2 DEF AgentFinishes, TypeOK
    <2>4. QED
      BY <1>9, <2>3 DEF AgentFinishes, TypeOK, Slot
  <1>10. ASSUME NEW crash \in BOOLEAN, LoseConnection(crash) PROVE TypeOK'
    <2>1. up' \in [Sessions -> Seq(FromAgent)]
      <3>1. PICK n \in 0..Len(up[session]) : up' = [up EXCEPT ![session] = SubSeq(@, 1, n)]
        BY <1>10 DEF LoseConnection
      <3>2. session \in Sessions
        BY <1>10 DEF LoseConnection, SessionEnds, TypeOK
      <3>3. SubSeq(up[session], 1, n) \in Seq(FromAgent)
        BY <3>2 DEF TypeOK
      <3>4. QED
        BY <3>1, <3>3 DEF TypeOK
    <2>2. faults' \in 0..MaxFaults
      BY <1>10, FaultsAssumption DEF LoseConnection, TypeOK
    <2>3. runner' \in Slot /\ runnerSession' \in Sessions \cup {NoSession}
            /\ unsent' \subseteq [result : FromAgent, session : Sessions]
      BY <1>10 DEF LoseConnection, TypeOK, Slot
    <2>4. QED
      BY <1>6, <1>10, <2>1, <2>2, <2>3 DEF LoseConnection, SessionEnds, TypeOK
  <1>11. QED
    BY <1>2, <1>3, <1>4, <1>5, <1>7, <1>8, <1>9, <1>10 DEF AgentStep

\* What the agent has in its hands are tasks.
LEMMA OutstandingTasks ==
  ASSUME TypeOK, AgentSound
  PROVE  Outstanding \subseteq Tasks
  <1>1. \A u \in unsent : u.result.task \in Tasks
    BY ResultFrame DEF TypeOK, AgentSound
  <1>2. QED
    BY <1>1 DEF Outstanding, TypeOK, Slot

\* A restart of the server.
LEMMA TypeRestart ==
  ASSUME TypeOK, AgentSound, ServerRestarts
  PROVE  TypeOK'
  <1> USE DEF agentVars
  <1>1. <<>> \in Seq(FromAgent)
    OBVIOUS
  <1>2. up' \in [Sessions -> Seq(FromAgent)]
    BY <1>1 DEF ServerRestarts
  <1>3. sock' \in [Sessions -> {"none", "open", "closing", "closed"}]
    BY DEF ServerRestarts, TypeOK
  <1>4. inherited' \subseteq Tasks /\ revived' \subseteq Tasks
    BY OutstandingTasks DEF ServerRestarts, TypeOK
  <1>5. status' \in Statuses /\ restarts' \in 0..MaxRestarts
    BY FaultsAssumption DEF ServerRestarts, TypeOK, Statuses
  <1>6. QED
    BY <1>2, <1>3, <1>4, <1>5 DEF ServerRestarts, TypeOK, Statuses, Slot

LEMMA AgentSoundStep == TypeOK /\ AgentSound /\ [Next]_vars => AgentSound'
  <1> SUFFICES ASSUME TypeOK, AgentSound, [Next]_vars PROVE AgentSound'
    OBVIOUS
  <1> USE DEF AgentSound
  <1>1. CASE UNCHANGED <<runner, runnerSession, unsent>>
    BY <1>1
  <1>2. CASE ServerStep
    <2>1. UNCHANGED agentVars
      BY <1>2 DEF ServerStep, StartAnalysis, WatchdogFires, HandleRegister, HandleHeartbeat,
           HandleTaskResult, RecordResult, PeerCloses, HeartbeatTimeout, Terminate, Closed,
           SweepExpired, FlushTasks, FlushQueues
    <2>2. QED
      BY <1>1, <2>1 DEF agentVars
  <1>3. CASE AgentStep
    <2>1. CASE AgentConnects \/ AgentHeartbeats \/ AgentSends \/ AgentSeesClose
      BY <1>1, <2>1 DEF AgentConnects, AgentHeartbeats, AgentSends, AgentSeesClose, agentVars
    <2>2. CASE AgentReports
      BY <2>2 DEF AgentReports
    <2>3. ASSUME NEW t \in Tasks, AgentReceivesTask(t) PROVE AgentSound'
      BY <2>3 DEF AgentReceivesTask
    <2>4. ASSUME NEW o \in Outcomes, AgentFinishes(o) PROVE AgentSound'
      BY <2>4 DEF AgentFinishes, TaskResult
    <2>5. QED
      BY <1>3, <2>1, <2>2, <2>3, <2>4 DEF AgentStep
  <1>4. CASE Fault
    <2>1. ASSUME NEW crash \in BOOLEAN, LoseConnection(crash) PROVE AgentSound'
      BY <2>1 DEF LoseConnection
    <2>2. CASE ServerRestarts
      BY <1>1, <2>2 DEF ServerRestarts, agentVars
    <2>3. QED
      BY <1>4, <2>1, <2>2 DEF Fault
  <1>5. CASE UNCHANGED vars
    BY <1>1, <1>5 DEF vars
  <1>6. QED
    BY <1>2, <1>3, <1>4, <1>5 DEF Next

LEMMA TypeStep == TypeOK /\ AgentSound /\ [Next]_vars => TypeOK'
  <1>1. ASSUME TypeOK, UNCHANGED vars PROVE TypeOK'
    BY <1>1 DEF TypeOK, vars
  <1>2. QED
    BY <1>1, TypeServer, TypeAgent, TypeRestart DEF Next, Fault

LEMMA TypeInit == Init => TypeOK /\ AgentSound
  BY SessionsAssumption, FaultsAssumption DEF Init, TypeOK, AgentSound, Slot

\* Every variable of the control plane keeps its type (TypeOK).
THEOREM TypeCorrect == Spec => []TypeOK
  <1>1. Spec => [](TypeOK /\ AgentSound)
    BY TypeInit, TypeStep, AgentSoundStep, PTL DEF Spec
  <1>2. QED
    BY <1>1, PTL

-----------------------------------------------------------------------------
(* Connections and watchdogs.                                              *)

\* A session that was not opened yet has no socket and nothing sent to it.
NewSessionsAreFresh ==
  \A s \in Sessions : s > lastSession => sock[s] = "none" /\ down[s] = <<>>

\* What a pump does to the watchdogs.
LEMMA PumpWatchdog ==
  ASSUME NEW q \in Seq(Tasks), NEW sl \in Slot, NEW st, NEW wd \in SUBSET Tasks,
         Pump(q, sl, st, wd) \/ NoPump(q, sl, st, wd),
         wd \subseteq {sl}, st = "Dispatching" => wd # {}
  PROVE  WatchdogMatchesDispatch'
  <1>1. CASE NoPump(q, sl, st, wd) \/ PumpIdle(q, sl, st, wd)
    BY <1>1 DEF NoPump, PumpIdle, WatchdogMatchesDispatch
  <1>2. CanPump(q, sl) => wd = {}
    BY NoTaskAssumption DEF CanPump
  <1>3. QED
    BY <1>1, <1>2 DEF Pump, PumpSends, PumpThrows, WatchdogMatchesDispatch

LEMMA WatchdogStep == TypeOK /\ WatchdogMatchesDispatch /\ [Next]_vars => WatchdogMatchesDispatch'
  <1> SUFFICES ASSUME TypeOK, WatchdogMatchesDispatch, [Next]_vars PROVE WatchdogMatchesDispatch'
    OBVIOUS
  <1> USE DEF storeVars, agentVars, histVars
  <1>1. CASE UNCHANGED <<slot, status, armed>>
    BY <1>1 DEF WatchdogMatchesDispatch
  <1>2. ASSUME NEW t \in Tasks, StartAnalysis(t) PROVE WatchdogMatchesDispatch'
    <2>1. Append(queue, t) \in Seq(Tasks)
      BY DEF TypeOK
    <2>2. Pump(Append(queue, t), slot, status, armed) \/ NoPump(Append(queue, t), slot, status, armed)
      BY <1>2 DEF StartAnalysis
    <2>3. slot \in Slot /\ armed \in SUBSET Tasks
      BY DEF TypeOK
    <2>4. armed \subseteq {slot} /\ (status = "Dispatching" => armed # {})
      BY DEF WatchdogMatchesDispatch
    <2>5. QED
      BY <2>1, <2>2, <2>3, <2>4, PumpWatchdog
  <1>3. ASSUME NEW t \in Tasks, WatchdogFires(t) PROVE WatchdogMatchesDispatch'
    BY <1>3 DEF WatchdogFires, StatusReleased, WatchdogMatchesDispatch
  <1>4. ASSUME NEW s \in Sessions, HandleRegister(s) PROVE WatchdogMatchesDispatch'
    BY <1>4 DEF HandleRegister, WatchdogMatchesDispatch
  <1>5. ASSUME NEW s \in Sessions, HandleHeartbeat(s) PROVE WatchdogMatchesDispatch'
    <2>1. Head(up[s]).status # "Dispatching"
      BY <1>5, HeartbeatFrame DEF HandleHeartbeat, Receives, TypeOK
    <2>2. \/ NoPump(queue, slot, status, armed)
          \/ \E st : st # "Dispatching" /\ (Pump(queue, slot, st, armed) \/ NoPump(queue, slot, st, armed))
      BY <1>5, <2>1 DEF HandleHeartbeat
    <2>3. queue \in Seq(Tasks) /\ slot \in Slot /\ armed \in SUBSET Tasks
      BY DEF TypeOK
    <2>4. armed \subseteq {slot} /\ (status = "Dispatching" => armed # {})
      BY DEF WatchdogMatchesDispatch
    <2>5. CASE NoPump(queue, slot, status, armed)
      BY <2>3, <2>4, <2>5, PumpWatchdog
    <2>6. ASSUME NEW st, st # "Dispatching",
                 Pump(queue, slot, st, armed) \/ NoPump(queue, slot, st, armed)
          PROVE  WatchdogMatchesDispatch'
      BY <2>3, <2>4, <2>6, PumpWatchdog
    <2>7. QED
      BY <2>2, <2>5, <2>6
  <1>6. ASSUME NEW s \in Sessions, HandleTaskResult(s) PROVE WatchdogMatchesDispatch'
    <2> DEFINE m == Head(up[s])
    <2>1. Pump(queue, Released(slot, m.task), StatusReleased, armed \ {m.task})
      BY <1>6 DEF HandleTaskResult
    <2>2. Released(slot, m.task) \in Slot /\ armed \ {m.task} \in SUBSET Tasks
      BY DEF Released, TypeOK, Slot
    <2>3. armed \ {m.task} \subseteq {Released(slot, m.task)} /\ StatusReleased # "Dispatching"
      BY DEF Released, StatusReleased, WatchdogMatchesDispatch
    <2>4. queue \in Seq(Tasks)
      BY DEF TypeOK
    <2>5. QED
      BY <2>1, <2>2, <2>3, <2>4, PumpWatchdog
  <1>7. ASSUME NEW s \in Sessions, PeerCloses(s) \/ Terminate(s) PROVE WatchdogMatchesDispatch'
    BY <1>7 DEF PeerCloses, Terminate, Closed, WatchdogMatchesDispatch
  <1>8. CASE ServerRestarts
    BY <1>8 DEF ServerRestarts, WatchdogMatchesDispatch
  <1>9. CASE (\E s \in Sessions : HeartbeatTimeout(s)) \/ SweepExpired \/ FlushTasks \/ FlushQueues
    BY <1>1, <1>9 DEF HeartbeatTimeout, SweepExpired, FlushTasks, FlushQueues
  <1>10. CASE AgentStep \/ \E crash \in BOOLEAN : LoseConnection(crash)
    BY <1>1, <1>10 DEF AgentStep, AgentConnects, AgentHeartbeats, AgentReports, AgentSends,
         AgentSeesClose, SessionEnds, AgentReceivesTask, AgentFinishes, LoseConnection
  <1>11. CASE UNCHANGED vars
    BY <1>1, <1>11 DEF vars
  <1>12. QED
    BY <1>2, <1>3, <1>4, <1>5, <1>6, <1>7, <1>8, <1>9, <1>10, <1>11 DEF Next, ServerStep, Fault

\* A pump sends only over a connection that is open.
LEMMA PumpKeepsDown ==
  ASSUME NEW q, NEW sl, NEW st, NEW wd, NEW s \in Sessions, TypeOK,
         Pump(q, sl, st, wd) \/ NoPump(q, sl, st, wd), sock[s] = "none"
  PROVE  down'[s] = down[s]
  BY DEF Pump, PumpIdle, PumpSends, PumpThrows, NoPump, Connected, TypeOK

ConnectionsSound == CurrentIsAlive /\ NewSessionsAreFresh

\* The steps of the server leave the connection in use alive and new sessions fresh.
LEMMA ConnectionsServer ==
  ASSUME TypeOK, ConnectionsSound, ServerStep
  PROVE  ConnectionsSound'
  <1> USE DEF storeVars, agentVars, histVars, ConnectionsSound
  <1>1. ASSUME UNCHANGED <<lastSession, sock>>,
               \A s \in Sessions : sock[s] = "none" => down'[s] = down[s]
        PROVE  NewSessionsAreFresh'
    BY <1>1 DEF NewSessionsAreFresh
  <1>2. CASE UNCHANGED <<current, sock, known, lastSession, down>>
    BY <1>2 DEF CurrentIsAlive, NewSessionsAreFresh
  <1>3. ASSUME NEW t \in Tasks, StartAnalysis(t) PROVE ConnectionsSound'
    <2>1. Pump(Append(queue, t), slot, status, armed) \/ NoPump(Append(queue, t), slot, status, armed)
      BY <1>3 DEF StartAnalysis
    <2>2. QED
      BY <1>1, <1>3, <2>1, PumpKeepsDown DEF StartAnalysis, CurrentIsAlive
  <1>4. ASSUME NEW s \in Sessions, HandleRegister(s) PROVE ConnectionsSound'
    BY <1>1, <1>4 DEF HandleRegister, Receives, CurrentIsAlive
  <1>5. ASSUME NEW s \in Sessions, HandleHeartbeat(s) PROVE ConnectionsSound'
    <2>1. \E st : Pump(queue, slot, st, armed) \/ NoPump(queue, slot, st, armed)
      BY <1>5 DEF HandleHeartbeat
    <2>2. QED
      BY <1>1, <1>5, <2>1, PumpKeepsDown DEF HandleHeartbeat, CurrentIsAlive
  <1>6. ASSUME NEW s \in Sessions, HandleTaskResult(s) PROVE ConnectionsSound'
    <2>1. \E sl, st, wd : Pump(queue, sl, st, wd)
      BY <1>6 DEF HandleTaskResult
    <2>2. QED
      BY <1>1, <1>6, <2>1, PumpKeepsDown DEF HandleTaskResult, RecordResult, CurrentIsAlive
  <1>7. ASSUME NEW s \in Sessions, PeerCloses(s) \/ Terminate(s) PROVE ConnectionsSound'
    <2>1. Closed(s) /\ sock[s] # "none"
      BY <1>7 DEF PeerCloses, Terminate
    <2>2. CurrentIsAlive'
      BY <2>1 DEF Closed, CurrentIsAlive, TypeOK
    <2>3. NewSessionsAreFresh'
      BY <2>1 DEF Closed, NewSessionsAreFresh, TypeOK
    <2>4. QED
      BY <2>2, <2>3
  <1>8. ASSUME NEW s \in Sessions, HeartbeatTimeout(s) PROVE ConnectionsSound'
    BY <1>8 DEF HeartbeatTimeout, CurrentIsAlive, NewSessionsAreFresh, TypeOK
  <1>9. CASE (\E t \in Tasks : WatchdogFires(t)) \/ SweepExpired \/ FlushTasks \/ FlushQueues
    BY <1>2, <1>9 DEF WatchdogFires, SweepExpired, FlushTasks, FlushQueues
  <1>10. QED
    BY <1>3, <1>4, <1>5, <1>6, <1>7, <1>8, <1>9 DEF ServerStep

LEMMA ConnectionsStep == TypeOK /\ ConnectionsSound /\ [Next]_vars => ConnectionsSound'
  <1> SUFFICES ASSUME TypeOK, ConnectionsSound, [Next]_vars PROVE ConnectionsSound'
    OBVIOUS
  <1> USE DEF storeVars, agentVars, histVars, ConnectionsSound
  <1>1. CASE UNCHANGED <<current, sock, known, lastSession, down>>
    BY <1>1 DEF CurrentIsAlive, NewSessionsAreFresh
  <1>2. CASE AgentConnects
    <2> DEFINE s == lastSession + 1
    <2>1. s \in Sessions /\ s > lastSession /\ lastSession' = s /\ UNCHANGED <<current, known, down>>
          /\ sock' = [sock EXCEPT ![s] = "open"]
      BY <1>2, SessionsAssumption DEF AgentConnects, Sessions, TypeOK
    <2>2. CurrentIsAlive'
      BY <2>1 DEF CurrentIsAlive, TypeOK
    <2>3. \A r \in Sessions : r > s => r > lastSession /\ r # s
      BY DEF Sessions, TypeOK
    <2>4. NewSessionsAreFresh'
      BY <2>1, <2>3 DEF NewSessionsAreFresh, TypeOK
    <2>5. QED
      BY <2>2, <2>4
  <1>3. CASE AgentSeesClose \/ \E crash \in BOOLEAN : LoseConnection(crash)
    <2>1. SessionEnds /\ UNCHANGED sock
      BY <1>3 DEF AgentSeesClose, LoseConnection
    <2>2. QED
      BY <2>1 DEF SessionEnds, CurrentIsAlive, NewSessionsAreFresh, TypeOK
  <1>4. ASSUME NEW t \in Tasks, AgentReceivesTask(t) PROVE ConnectionsSound'
    BY <1>4 DEF AgentReceivesTask, CurrentIsAlive, NewSessionsAreFresh, TypeOK
  <1>5. CASE AgentHeartbeats \/ AgentSends \/ AgentReports \/ \E o \in Outcomes : AgentFinishes(o)
    BY <1>1, <1>5 DEF AgentHeartbeats, AgentSends, AgentReports, AgentFinishes
  <1>6. CASE ServerRestarts
    BY <1>6 DEF ServerRestarts, CurrentIsAlive, NewSessionsAreFresh
  <1>7. CASE UNCHANGED vars
    BY <1>1, <1>7 DEF vars
  <1>8. QED
    BY <1>2, <1>3, <1>4, <1>5, <1>6, <1>7, ConnectionsServer DEF Next, AgentStep, Fault

LEMMA ConnectionsInit == Init => WatchdogMatchesDispatch /\ ConnectionsSound
  BY DEF Init, WatchdogMatchesDispatch, ConnectionsSound, CurrentIsAlive, NewSessionsAreFresh

\* The watchdog of the task in the slot is the only one, and a Dispatching client has it
\* (WatchdogMatchesDispatch).
THEOREM WatchdogsMatch == Spec => []WatchdogMatchesDispatch
  <1>1. Spec => [](TypeOK /\ AgentSound /\ WatchdogMatchesDispatch)
    BY TypeInit, ConnectionsInit, TypeStep, AgentSoundStep, WatchdogStep, PTL DEF Spec
  <1>2. QED
    BY <1>1, PTL

\* The connection the server uses for the client is registered and was not closed
\* (CurrentIsAlive).
THEOREM ConnectionIsAlive == Spec => []CurrentIsAlive
  <1>1. Spec => [](TypeOK /\ AgentSound /\ ConnectionsSound)
    BY TypeInit, ConnectionsInit, TypeStep, AgentSoundStep, ConnectionsStep, PTL DEF Spec
  <1>2. QED
    BY <1>1, PTL DEF ConnectionsSound

-----------------------------------------------------------------------------
(* What occurs in a sequence of frames or tasks, and how often.            *)

Occurs(q, S) == \E i \in DOMAIN q : q[i] \in S
AtMostOnce(q, S) == \A i, j \in DOMAIN q : q[i] \in S /\ q[j] \in S => i = j

\* q holds no more of S than p does.
NoMore(q, p, S) == (Occurs(q, S) => Occurs(p, S)) /\ (AtMostOnce(p, S) => AtMostOnce(q, S))

LEMMA EmptyFacts == \A S : ~Occurs(<<>>, S) /\ AtMostOnce(<<>>, S) /\ \A p : NoMore(<<>>, p, S)
  BY DEF Occurs, AtMostOnce, NoMore

LEMMA AppendFacts ==
  ASSUME NEW X, NEW q \in Seq(X), NEW x \in X, NEW S
  PROVE  /\ Occurs(Append(q, x), S) <=> Occurs(q, S) \/ x \in S
         /\ AtMostOnce(q, S) /\ (x \in S => ~Occurs(q, S)) => AtMostOnce(Append(q, x), S)
         /\ x \notin S => NoMore(Append(q, x), q, S)
  <1>1. /\ DOMAIN q = 1..Len(q) /\ Len(q) \in Nat /\ DOMAIN Append(q, x) = 1..(Len(q) + 1)
        /\ \A i \in 1..Len(q) : Append(q, x)[i] = q[i]
        /\ Append(q, x)[Len(q) + 1] = x
    OBVIOUS
  <1>2. Occurs(Append(q, x), S) <=> Occurs(q, S) \/ x \in S
    <2>1. ASSUME Occurs(q, S) PROVE Occurs(Append(q, x), S)
      BY <1>1, <2>1 DEF Occurs
    <2>2. ASSUME x \in S PROVE Occurs(Append(q, x), S)
      BY <1>1, <2>2 DEF Occurs
    <2>3. ASSUME Occurs(Append(q, x), S), x \notin S PROVE Occurs(q, S)
      BY <1>1, <2>3 DEF Occurs
    <2>4. QED
      BY <2>1, <2>2, <2>3
  <1>3. ASSUME AtMostOnce(q, S), x \in S => ~Occurs(q, S) PROVE AtMostOnce(Append(q, x), S)
    BY <1>1, <1>3 DEF AtMostOnce, Occurs
  <1>4. QED
    BY <1>2, <1>3 DEF NoMore

LEMMA TailFacts ==
  ASSUME NEW X, NEW q \in Seq(X), q # <<>>, NEW S
  PROVE  /\ NoMore(Tail(q), q, S) /\ (Head(q) \in S => Occurs(q, S))
         /\ AtMostOnce(q, S) /\ Head(q) \in S => ~Occurs(Tail(q), S)
  <1>1. /\ DOMAIN q = 1..Len(q) /\ Len(q) \in Nat \ {0} /\ DOMAIN Tail(q) = 1..(Len(q) - 1)
        /\ \A i \in 1..(Len(q) - 1) : Tail(q)[i] = q[i + 1]
        /\ Head(q) = q[1]
    OBVIOUS
  <1>2. Occurs(Tail(q), S) => Occurs(q, S)
    BY <1>1 DEF Occurs
  <1>3. ASSUME AtMostOnce(q, S), NEW i \in DOMAIN Tail(q), NEW j \in DOMAIN Tail(q),
               Tail(q)[i] \in S, Tail(q)[j] \in S
        PROVE  i = j
    <2>1. i + 1 \in DOMAIN q /\ j + 1 \in DOMAIN q /\ q[i + 1] \in S /\ q[j + 1] \in S
      BY <1>1, <1>3
    <2>2. i + 1 = j + 1
      BY <1>3, <2>1 DEF AtMostOnce
    <2>3. QED
      BY <1>1, <2>2
  <1>4. ASSUME AtMostOnce(q, S), Head(q) \in S, Occurs(Tail(q), S) PROVE FALSE
    <2>1. PICK i \in DOMAIN Tail(q) : Tail(q)[i] \in S
      BY <1>4 DEF Occurs
    <2>2. i + 1 \in DOMAIN q /\ q[i + 1] \in S /\ 1 \in DOMAIN q /\ q[1] \in S /\ i + 1 # 1
      BY <1>1, <1>4, <2>1
    <2>3. QED
      BY <1>4, <2>2 DEF AtMostOnce
  <1>5. Head(q) \in S => Occurs(q, S)
    BY <1>1 DEF Occurs
  <1>6. QED
    BY <1>2, <1>3, <1>4, <1>5 DEF NoMore, AtMostOnce

\* Dropping the first k items, or keeping the first k.
LEMMA PartFacts ==
  ASSUME NEW X, NEW q \in Seq(X), NEW k \in 0..Len(q), NEW S
  PROVE  /\ NoMore(SubSeq(q, 1, k), q, S) /\ NoMore(SubSeq(q, k + 1, Len(q)), q, S)
         /\ \A i \in 1..k : AtMostOnce(q, {q[i]}) => ~Occurs(SubSeq(q, k + 1, Len(q)), {q[i]})
  <1> DEFINE kept == SubSeq(q, 1, k)
             rest == SubSeq(q, k + 1, Len(q))
  <1>1. /\ DOMAIN q = 1..Len(q) /\ Len(q) \in Nat
        /\ DOMAIN kept = 1..k /\ \A i \in 1..k : kept[i] = q[i]
        /\ DOMAIN rest = 1..(Len(q) - k) /\ \A i \in 1..(Len(q) - k) : rest[i] = q[i + k]
    OBVIOUS
  <1> HIDE DEF kept, rest
  <1>2. NoMore(kept, q, S)
    BY <1>1 DEF NoMore, Occurs, AtMostOnce
  <1>3. Occurs(rest, S) => Occurs(q, S)
    BY <1>1 DEF Occurs
  <1>4. ASSUME AtMostOnce(q, S), NEW i \in DOMAIN rest, NEW j \in DOMAIN rest,
               rest[i] \in S, rest[j] \in S
        PROVE  i = j
    <2>1. i + k \in DOMAIN q /\ j + k \in DOMAIN q /\ q[i + k] \in S /\ q[j + k] \in S
      BY <1>1, <1>4
    <2>2. i + k = j + k
      BY <1>4, <2>1 DEF AtMostOnce
    <2>3. QED
      BY <1>1, <2>2
  <1>5. ASSUME NEW i \in 1..k, AtMostOnce(q, {q[i]}), Occurs(rest, {q[i]}) PROVE FALSE
    <2>1. PICK j \in DOMAIN rest : rest[j] = q[i]
      BY <1>5 DEF Occurs
    <2>2. j + k \in DOMAIN q /\ q[j + k] = q[i] /\ i \in DOMAIN q /\ j + k # i
      BY <1>1, <2>1
    <2>3. QED
      BY <1>5, <2>2 DEF AtMostOnce
  <1>6. NoMore(rest, q, S)
    BY <1>3, <1>4 DEF NoMore, AtMostOnce
  <1>7. QED
    BY <1>2, <1>5, <1>6 DEF kept, rest

-----------------------------------------------------------------------------
(* The places a task can be in once the server has sent it.                *)

ResultsOf(t) == {TaskResult(t, o) : o \in Outcomes}

OnTheWay(t) == session # NoSession /\ Occurs(down[session], {NewTask(t)})
Finished(t) == \E u \in unsent : u.result.task = t
Waiting(t) == Occurs(outbox, ResultsOf(t))
Answered(t) == \E s \in Sessions : Occurs(up[s], ResultsOf(t))

InHand(t) == OnTheWay(t) \/ runner = t \/ Finished(t) \/ Waiting(t) \/ Answered(t)

\* It is in one of them, and there once.
InOnePlace(t) ==
  /\ session # NoSession => AtMostOnce(down[session], {NewTask(t)})
  /\ \A u, v \in unsent : u.result.task = t /\ v.result.task = t => u = v
  /\ AtMostOnce(outbox, ResultsOf(t))
  /\ \A s \in Sessions : AtMostOnce(up[s], ResultsOf(t))
  /\ \A r, s \in Sessions : Occurs(up[r], ResultsOf(t)) /\ Occurs(up[s], ResultsOf(t)) => r = s
  /\ ~(OnTheWay(t) /\ (runner = t \/ Finished(t) \/ Waiting(t) \/ Answered(t)))
  /\ ~(runner = t /\ (Finished(t) \/ Waiting(t) \/ Answered(t)))
  /\ ~(Finished(t) /\ (Waiting(t) \/ Answered(t)))
  /\ ~(Waiting(t) /\ Answered(t))

\* A task is in the agent's hands when it is in one of these places.
LEMMA OutstandingIsInHand ==
  ASSUME TypeOK, NEW t \in Tasks
  PROVE  t \in Outstanding <=> InHand(t)
  <1>1. (\E o \in Outcomes : \E i \in DOMAIN outbox : outbox[i] = TaskResult(t, o)) <=> Waiting(t)
    BY DEF Waiting, Occurs, ResultsOf
  <1>2. (\E o \in Outcomes : \E s \in Sessions : \E i \in DOMAIN up[s] : up[s][i] = TaskResult(t, o))
          <=> Answered(t)
    BY DEF Answered, Occurs, ResultsOf
  <1>3. OnTheWay(t) <=> session # NoSession /\ \E i \in DOMAIN down[session] : down[session][i] = NewTask(t)
    BY DEF OnTheWay, Occurs
  <1>4. t \in {u.result.task : u \in unsent} <=> Finished(t)
    BY DEF Finished
  <1>5. t \in {runner} \ {NoTask} <=> runner = t
    BY NoTaskAssumption
  <1>6. t \in {x \in Tasks : session # NoSession /\ \E i \in DOMAIN down[session] : down[session][i] = NewTask(x)}
          <=> OnTheWay(t)
    BY <1>3
  <1>7. t \in {x \in Tasks : \E o \in Outcomes :
                 \/ \E i \in DOMAIN outbox : outbox[i] = TaskResult(x, o)
                 \/ \E s \in Sessions : \E i \in DOMAIN up[s] : up[s][i] = TaskResult(x, o)}
          <=> Waiting(t) \/ Answered(t)
    BY <1>1, <1>2
  <1>8. QED
    BY <1>4, <1>5, <1>6, <1>7 DEF Outstanding, InHand

\* Which frames speak of a task.
LEMMA FrameFacts ==
  ASSUME NEW t \in Tasks
  PROVE  /\ Register \notin ResultsOf(t) /\ Heartbeat(AgentStatus) \notin ResultsOf(t)
         /\ Close \notin {NewTask(t)}
         /\ \A x \in Tasks : NewTask(x) \in {NewTask(t)} <=> x = t
         /\ \A x \in Tasks, o \in Outcomes : TaskResult(x, o) \in ResultsOf(t) <=> x = t
         /\ \A m \in FromAgent : m.type = "TASK_RESULT" => (m \in ResultsOf(t) <=> m.task = t)
         /\ \A m \in FromAgent : m \in ResultsOf(t) => m.type = "TASK_RESULT" /\ m.task = t
  <1>1. Register \notin ResultsOf(t) /\ Heartbeat(AgentStatus) \notin ResultsOf(t)
    BY DEF ResultsOf, Register, Heartbeat, TaskResult
  <1>2. Close \notin {NewTask(t)}
    BY DEF Close, NewTask
  <1>3. \A x \in Tasks : NewTask(x) \in {NewTask(t)} <=> x = t
    BY DEF NewTask
  <1>4. ASSUME NEW m \in ResultsOf(t) PROVE m.type = "TASK_RESULT" /\ m.task = t
    BY DEF ResultsOf, TaskResult
  <1>5. \A x \in Tasks, o \in Outcomes : TaskResult(x, o).task = x
    BY DEF TaskResult
  <1>6. \A x \in Tasks, o \in Outcomes : TaskResult(x, o) \in ResultsOf(t) <=> x = t
    BY <1>4, <1>5 DEF ResultsOf
  <1>7. \A m \in FromAgent : m.type = "TASK_RESULT" => (m \in ResultsOf(t) <=> m.task = t)
    BY <1>4, <1>6, ResultFrame
  <1>8. QED
    BY <1>1, <1>2, <1>3, <1>4, <1>6, <1>7

\* A step that takes nothing but frames of other tasks to the places adds t to none.
LEMMA LosesOnly ==
  ASSUME NEW t \in Tasks,
         OnTheWay(t)' => OnTheWay(t),
         session' # NoSession /\ (session # NoSession => AtMostOnce(down[session], {NewTask(t)}))
           => AtMostOnce(down'[session'], {NewTask(t)}),
         runner' = t => runner = t,
         \A u \in unsent' : u.result.task = t => u \in unsent,
         NoMore(outbox', outbox, ResultsOf(t)),
         \A s \in Sessions : NoMore(up'[s], up[s], ResultsOf(t))
  PROVE  /\ InHand(t)' => InHand(t)
         /\ InOnePlace(t) => InOnePlace(t)'
  <1>1. (Finished(t)' => Finished(t)) /\ (Waiting(t)' => Waiting(t)) /\ (Answered(t)' => Answered(t))
    BY DEF Finished, Waiting, Answered, NoMore
  <1>2. ASSUME InOnePlace(t) PROVE InOnePlace(t)'
    <2>1. /\ session' # NoSession => AtMostOnce(down'[session'], {NewTask(t)})
          /\ AtMostOnce(outbox', ResultsOf(t))
          /\ \A s \in Sessions : AtMostOnce(up'[s], ResultsOf(t))
      BY <1>2 DEF InOnePlace, NoMore
    <2>2. \A u, v \in unsent' : u.result.task = t /\ v.result.task = t => u = v
      BY <1>2 DEF InOnePlace
    <2>3. \A r, s \in Sessions : Occurs(up'[r], ResultsOf(t)) /\ Occurs(up'[s], ResultsOf(t)) => r = s
      BY <1>2 DEF InOnePlace, NoMore
    <2>4. QED
      BY <1>1, <1>2, <2>1, <2>2, <2>3 DEF InOnePlace
  <1>3. QED
    BY <1>1, <1>2 DEF InHand

\* Every task that this server process has sent and not heard of holds the slot, and
\* is in one place; a restart hands tasks to the agent that the new process knows nothing of.
HandsSound == \A t \in Tasks \ inherited : InOnePlace(t) /\ (InHand(t) => t = slot)

Carries(t) == (InHand(t)' => InHand(t)) /\ (InOnePlace(t) => InOnePlace(t)')

LEMMA CarriedHands ==
  ASSUME HandsSound, \A t \in Tasks : Carries(t), slot' = slot, inherited \subseteq inherited'
  PROVE  HandsSound'
  BY DEF HandsSound, Carries

\* A pump puts no task into the agent's hands but the one that gets the slot, and it finds
\* that one in no other place.
LEMMA PumpHands ==
  ASSUME TypeOK, NEW q \in Seq(Tasks), NEW sl \in Slot, NEW st, NEW wd,
         Pump(q, sl, st, wd) \/ NoPump(q, sl, st, wd), UNCHANGED agentVars, NEW t \in Tasks,
         \A s \in Sessions : NoMore(up'[s], up[s], ResultsOf(t))
  PROVE  /\ InHand(t)' => InHand(t) \/ t = slot'
         /\ InOnePlace(t)
              /\ (OnTheWay(t) \/ runner = t \/ Finished(t) \/ Waiting(t) \/ Answered(t)' => t = sl)
            => InOnePlace(t)' /\ (InHand(t)' => t = slot')
  <1>1. ASSUME \/ down' = down
               \/ \E x \in Tasks \ {t} : current \in Sessions
                    /\ down' = [down EXCEPT ![current] = Append(@, NewTask(x))]
        PROVE  Carries(t) /\ (OnTheWay(t)' => OnTheWay(t))
    <2>1. \A s \in Sessions : NoMore(down'[s], down[s], {NewTask(t)})
      <3>1. CASE down' = down
        BY <3>1 DEF NoMore
      <3>2. ASSUME NEW x \in Tasks \ {t}, current \in Sessions,
                   down' = [down EXCEPT ![current] = Append(@, NewTask(x))],
                   NEW s \in Sessions
            PROVE  NoMore(down'[s], down[s], {NewTask(t)})
        <4>1. NewTask(x) \in FromServer /\ NewTask(x) \notin {NewTask(t)}
          BY FrameTypes, FrameFacts
        <4>2. down[s] \in Seq(FromServer)
          BY DEF TypeOK
        <4>3. NoMore(Append(down[s], NewTask(x)), down[s], {NewTask(t)})
          BY <4>1, <4>2, AppendFacts
        <4>4. down'[s] = IF s = current THEN Append(down[s], NewTask(x)) ELSE down[s]
          BY <3>2 DEF TypeOK
        <4>5. QED
          BY <4>3, <4>4 DEF NoMore
      <3>3. QED
        BY <1>1, <3>1, <3>2
    <2>2. /\ OnTheWay(t)' => OnTheWay(t)
          /\ session' # NoSession /\ (session # NoSession => AtMostOnce(down[session], {NewTask(t)}))
               => AtMostOnce(down'[session'], {NewTask(t)})
      BY <2>1 DEF OnTheWay, NoMore, agentVars, TypeOK
    <2>3. NoMore(outbox', outbox, ResultsOf(t)) /\ UNCHANGED <<runner, unsent>>
      BY DEF NoMore, agentVars
    <2>4. QED
      BY <2>2, <2>3, LosesOnly DEF Carries
  <1>2. ASSUME down' = down, slot' = sl \/ (slot' = NoTask /\ sl = NoTask)
        PROVE  /\ InHand(t)' => InHand(t) \/ t = slot'
               /\ InOnePlace(t)
                    /\ (OnTheWay(t) \/ runner = t \/ Finished(t) \/ Waiting(t) \/ Answered(t)' => t = sl)
                  => InOnePlace(t)' /\ (InHand(t)' => t = slot')
    <2>1. Carries(t) /\ (OnTheWay(t)' => OnTheWay(t))
      BY <1>1, <1>2
    <2>2. UNCHANGED <<runner, unsent, outbox>>
      BY DEF agentVars
    <2>3. (Finished(t)' <=> Finished(t)) /\ (Waiting(t)' <=> Waiting(t))
      BY <2>2 DEF Finished, Waiting
    <2>4. QED
      BY <1>2, <2>1, <2>2, <2>3 DEF Carries, InHand
  <1>3. CASE NoPump(q, sl, st, wd) \/ PumpIdle(q, sl, st, wd)
    BY <1>2, <1>3 DEF NoPump, PumpIdle
  <1>4. CASE PumpThrows(q, sl, st, wd)
    BY <1>2, <1>4 DEF PumpThrows, CanPump
  <1>5. CASE PumpSends(q, sl, st, wd)
    <2> DEFINE x == Head(q)
    <2>1. /\ x \in Tasks /\ sl = NoTask /\ slot' = x /\ current \in Sessions
          /\ down' = [down EXCEPT ![current] = Append(@, NewTask(x))]
      BY <1>5 DEF PumpSends, CanPump, Connected, TypeOK
    <2>2. UNCHANGED <<session, runner, unsent, outbox>>
      BY DEF agentVars
    <2>3. (Finished(t)' <=> Finished(t)) /\ (Waiting(t)' <=> Waiting(t)) /\ (Answered(t)' => Answered(t))
      BY <2>2 DEF Finished, Waiting, Answered, NoMore
    <2> HIDE DEF x
    <2>4. CASE x # t
      <3>1. Carries(t) /\ (OnTheWay(t)' => OnTheWay(t))
        BY <1>1, <2>1, <2>4
      <3>2. t # sl
        BY <2>1, NoTaskAssumption
      <3>3. QED
        BY <2>2, <2>3, <3>1, <3>2 DEF Carries, InHand
    <2>5. CASE x = t
      <3>1. ASSUME InOnePlace(t), ~OnTheWay(t), runner # t, ~Finished(t), ~Waiting(t), ~Answered(t)'
            PROVE  InOnePlace(t)'
        <4>1. ASSUME session # NoSession PROVE AtMostOnce(down'[session], {NewTask(t)})
          <5>1. session \in Sessions /\ down[session] \in Seq(FromServer) /\ NewTask(t) \in FromServer
            BY <4>1, FrameTypes DEF TypeOK
          <5>2. AtMostOnce(Append(down[session], NewTask(t)), {NewTask(t)})
                  /\ AtMostOnce(down[session], {NewTask(t)})
            BY <3>1, <4>1, <5>1, AppendFacts DEF OnTheWay, InOnePlace
          <5>3. down'[session] \in {down[session], Append(down[session], NewTask(t))}
            BY <2>1, <2>5, <5>1 DEF TypeOK
          <5>4. QED
            BY <5>2, <5>3
        <4>2. /\ AtMostOnce(outbox', ResultsOf(t))
              /\ \A u, v \in unsent' : u.result.task = t /\ v.result.task = t => u = v
              /\ \A s \in Sessions : AtMostOnce(up'[s], ResultsOf(t))
          BY <2>2, <3>1 DEF InOnePlace, NoMore
        <4>3. ~Finished(t)' /\ ~Waiting(t)' /\ runner' # t
          BY <2>2, <2>3, <3>1
        <4>4. \A r, s \in Sessions : Occurs(up'[r], ResultsOf(t)) /\ Occurs(up'[s], ResultsOf(t)) => r = s
          BY <3>1 DEF InOnePlace, NoMore
        <4>5. QED
          BY <2>2, <3>1, <4>1, <4>2, <4>3, <4>4 DEF InOnePlace
      <3>2. t # sl /\ t = slot'
        BY <2>1, <2>5, NoTaskAssumption
      <3>3. QED
        BY <3>1, <3>2
    <2>6. QED
      BY <2>4, <2>5
  <1>6. QED
    BY <1>3, <1>4, <1>5 DEF Pump

\* What a handler leaves of the frames it takes from.
LEMMA ReceivedFacts ==
  ASSUME TypeOK, NEW s \in Sessions, NEW type, Receives(s, type), NEW t \in Tasks
  PROVE  /\ \A r \in Sessions : NoMore(up'[r], up[r], ResultsOf(t))
         /\ Head(up[s]) \in FromAgent /\ Head(up[s]).type = type
         /\ Head(up[s]) \in ResultsOf(t) => Answered(t) /\ (InOnePlace(t) => ~Answered(t)')
  <1>1. /\ up[s] \in Seq(FromAgent) /\ up[s] # <<>> /\ Head(up[s]).type = type
        /\ up' = [up EXCEPT ![s] = Tail(@)] /\ Head(up[s]) \in FromAgent
    BY DEF Receives, TypeOK
  <1>2. NoMore(Tail(up[s]), up[s], ResultsOf(t))
    BY <1>1, TailFacts
  <1>3. \A r \in Sessions : up'[r] = IF r = s THEN Tail(up[s]) ELSE up[r]
    BY <1>1 DEF TypeOK
  <1>4. \A r \in Sessions : NoMore(up'[r], up[r], ResultsOf(t))
    BY <1>2, <1>3 DEF NoMore
  <1>5. ASSUME Head(up[s]) \in ResultsOf(t)
        PROVE  Answered(t) /\ (InOnePlace(t) => ~Answered(t)')
    <2>1. Occurs(up[s], ResultsOf(t))
      BY <1>1, <1>5, TailFacts
    <2>2. AtMostOnce(up[s], ResultsOf(t)) => ~Occurs(Tail(up[s]), ResultsOf(t))
      BY <1>1, <1>5, TailFacts
    <2>3. QED
      BY <1>3, <2>1, <2>2 DEF Answered, InOnePlace
  <1>6. QED
    BY <1>1, <1>4, <1>5

\* Frames that are none of t's may come, and frames may go.
LEMMA WireCarries ==
  ASSUME NEW t \in Tasks, UNCHANGED agentVars,
         \A s \in Sessions : NoMore(up'[s], up[s], ResultsOf(t)),
         \A s \in Sessions : NoMore(down'[s], down[s], {NewTask(t)}),
         session \in Sessions \cup {NoSession}
  PROVE  Carries(t)
  <1>1. /\ OnTheWay(t)' => OnTheWay(t)
        /\ session' # NoSession /\ (session # NoSession => AtMostOnce(down[session], {NewTask(t)}))
             => AtMostOnce(down'[session'], {NewTask(t)})
    BY DEF OnTheWay, NoMore, agentVars
  <1>2. NoMore(outbox', outbox, ResultsOf(t)) /\ UNCHANGED <<runner, unsent>>
    BY DEF NoMore, agentVars
  <1>3. QED
    BY <1>1, <1>2, LosesOnly DEF Carries

\* The pumps of the server.
LEMMA HandsPump ==
  ASSUME TypeOK, HandsSound, ServerStep,
         ~\E t \in Tasks : WatchdogFires(t),
         ~\E s \in Sessions : HandleRegister(s) \/ PeerCloses(s) \/ HeartbeatTimeout(s) \/ Terminate(s),
         ~(SweepExpired \/ FlushTasks \/ FlushQueues)
  PROVE  HandsSound' /\ \A t \in Tasks : InHand(t)' => InHand(t) \/ t = slot'
  <1> USE DEF storeVars
  <1>1. queue \in Seq(Tasks) /\ slot \in Slot
    BY DEF TypeOK
  <1>2. ASSUME NEW t \in Tasks, StartAnalysis(t)
        PROVE  HandsSound' /\ \A x \in Tasks : InHand(x)' => InHand(x) \/ x = slot'
    <2>1. /\ Append(queue, t) \in Seq(Tasks)
          /\ Pump(Append(queue, t), slot, status, armed) \/ NoPump(Append(queue, t), slot, status, armed)
          /\ UNCHANGED <<up, inherited>> /\ UNCHANGED agentVars
      BY <1>1, <1>2 DEF StartAnalysis
    <2>2. ASSUME NEW x \in Tasks
          PROVE  /\ InHand(x)' => InHand(x) \/ x = slot'
                 /\ x \notin inherited => InOnePlace(x)' /\ (InHand(x)' => x = slot')
      <3>1. (\A s \in Sessions : NoMore(up'[s], up[s], ResultsOf(x))) /\ (Answered(x)' => Answered(x))
        BY <2>1 DEF NoMore, Answered
      <3>2. /\ InHand(x)' => InHand(x) \/ x = slot'
            /\ InOnePlace(x)
                 /\ (OnTheWay(x) \/ runner = x \/ Finished(x) \/ Waiting(x) \/ Answered(x)' => x = slot)
               => InOnePlace(x)' /\ (InHand(x)' => x = slot')
        BY <1>1, <2>1, <3>1, PumpHands
      <3>3. QED
        BY <3>1, <3>2 DEF HandsSound, InHand
    <2>3. QED
      BY <2>1, <2>2 DEF HandsSound
  <1>3. ASSUME NEW s \in Sessions, HandleHeartbeat(s)
        PROVE  HandsSound' /\ \A x \in Tasks : InHand(x)' => InHand(x) \/ x = slot'
    <2>1. PICK st : Pump(queue, slot, st, armed) \/ NoPump(queue, slot, st, armed)
      BY <1>3 DEF HandleHeartbeat
    <2>2. UNCHANGED inherited /\ UNCHANGED agentVars /\ Receives(s, "HEARTBEAT")
      BY <1>3 DEF HandleHeartbeat
    <2>3. ASSUME NEW x \in Tasks
          PROVE  /\ InHand(x)' => InHand(x) \/ x = slot'
                 /\ x \notin inherited => InOnePlace(x)' /\ (InHand(x)' => x = slot')
      <3>1. (\A r \in Sessions : NoMore(up'[r], up[r], ResultsOf(x))) /\ (Answered(x)' => Answered(x))
        BY <2>2, ReceivedFacts DEF NoMore, Answered
      <3>2. /\ InHand(x)' => InHand(x) \/ x = slot'
            /\ InOnePlace(x)
                 /\ (OnTheWay(x) \/ runner = x \/ Finished(x) \/ Waiting(x) \/ Answered(x)' => x = slot)
               => InOnePlace(x)' /\ (InHand(x)' => x = slot')
        BY <1>1, <2>1, <2>2, <3>1, PumpHands
      <3>3. QED
        BY <3>1, <3>2 DEF HandsSound, InHand
    <2>4. QED
      BY <2>2, <2>3 DEF HandsSound
  <1>4. ASSUME NEW s \in Sessions, HandleTaskResult(s)
        PROVE  HandsSound' /\ \A x \in Tasks : InHand(x)' => InHand(x) \/ x = slot'
    <2> DEFINE m == Head(up[s])
    <2>1. PICK st, wd : Pump(queue, Released(slot, m.task), st, wd)
      BY <1>4 DEF HandleTaskResult
    <2>2. UNCHANGED inherited /\ UNCHANGED agentVars /\ Receives(s, "TASK_RESULT")
      BY <1>4 DEF HandleTaskResult, RecordResult
    <2>3. Released(slot, m.task) \in Slot
      BY <1>1 DEF Released, Slot
    <2>4. ASSUME NEW x \in Tasks
          PROVE  /\ InHand(x)' => InHand(x) \/ x = slot'
                 /\ x \notin inherited => InOnePlace(x)' /\ (InHand(x)' => x = slot')
      <3>1. (\A r \in Sessions : NoMore(up'[r], up[r], ResultsOf(x))) /\ (Answered(x)' => Answered(x))
        BY <2>2, ReceivedFacts DEF NoMore, Answered
      <3>2. m \in FromAgent /\ m.type = "TASK_RESULT"
              /\ (m \in ResultsOf(x) => Answered(x) /\ (InOnePlace(x) => ~Answered(x)'))
        BY <2>2, ReceivedFacts
      <3>3. m \in ResultsOf(x) <=> m.task = x
        BY <3>2, FrameFacts
      <3>4. /\ InHand(x)' => InHand(x) \/ x = slot'
            /\ InOnePlace(x)
                 /\ (OnTheWay(x) \/ runner = x \/ Finished(x) \/ Waiting(x) \/ Answered(x)'
                       => x = Released(slot, m.task))
               => InOnePlace(x)' /\ (InHand(x)' => x = slot')
        BY <1>1, <2>1, <2>2, <2>3, <3>1, PumpHands
      <3>5. ASSUME x \notin inherited PROVE InOnePlace(x)' /\ (InHand(x)' => x = slot')
        <4>1. InOnePlace(x) /\ (InHand(x) => x = slot)
          BY <3>5 DEF HandsSound
        <4>2. CASE m.task = x
          <5>1. ~(OnTheWay(x) \/ runner = x \/ Finished(x) \/ Waiting(x)) /\ ~Answered(x)'
            BY <3>2, <3>3, <4>1, <4>2 DEF InOnePlace
          <5>2. QED
            BY <3>4, <4>1, <5>1
        <4>3. CASE m.task # x
          BY <3>1, <3>4, <4>1, <4>3 DEF Released, InHand
        <4>4. QED
          BY <4>2, <4>3
      <3>6. QED
        BY <3>4, <3>5
    <2>5. QED
      BY <2>2, <2>4 DEF HandsSound
  <1>5. QED
    BY <1>2, <1>3, <1>4 DEF ServerStep

\* The other handlers and timers of the server.
LEMMA HandsServer ==
  ASSUME TypeOK, HandsSound, ServerStep
  PROVE  HandsSound' /\ \A t \in Tasks : InHand(t)' => InHand(t) \/ t = slot'
  <1> USE DEF storeVars, histVars
  <1>1. session \in Sessions \cup {NoSession}
    BY DEF TypeOK
  <1>2. ASSUME UNCHANGED <<slot, inherited>>, UNCHANGED agentVars,
               \A t \in Tasks, s \in Sessions : NoMore(up'[s], up[s], ResultsOf(t))
                                                  /\ NoMore(down'[s], down[s], {NewTask(t)})
        PROVE  HandsSound' /\ \A t \in Tasks : InHand(t)' => InHand(t) \/ t = slot'
    <2>1. \A t \in Tasks : Carries(t)
      BY <1>1, <1>2, WireCarries
    <2>2. QED
      BY <1>2, <2>1, CarriedHands DEF Carries
  <1>3. CASE \/ \E t \in Tasks : WatchdogFires(t)
             \/ \E s \in Sessions : PeerCloses(s)
             \/ SweepExpired \/ FlushTasks \/ FlushQueues
    <2>1. UNCHANGED <<slot, inherited, up, down>> /\ UNCHANGED agentVars
      BY <1>3 DEF WatchdogFires, PeerCloses, Closed, SweepExpired, FlushTasks, FlushQueues
    <2>2. QED
      BY <1>2, <2>1 DEF NoMore
  <1>4. ASSUME NEW s \in Sessions, HandleRegister(s)
        PROVE  HandsSound' /\ \A t \in Tasks : InHand(t)' => InHand(t) \/ t = slot'
    <2>1. UNCHANGED <<slot, inherited, down>> /\ UNCHANGED agentVars /\ Receives(s, "REGISTER")
      BY <1>4 DEF HandleRegister
    <2>2. \A t \in Tasks : \A r \in Sessions : NoMore(up'[r], up[r], ResultsOf(t))
      BY <2>1, ReceivedFacts
    <2>3. QED
      BY <1>2, <2>1, <2>2 DEF NoMore
  <1>5. ASSUME NEW s \in Sessions, Terminate(s)
        PROVE  HandsSound' /\ \A t \in Tasks : InHand(t)' => InHand(t) \/ t = slot'
    <2>1. UNCHANGED <<slot, inherited, down>> /\ UNCHANGED agentVars /\ up' = [up EXCEPT ![s] = <<>>]
      BY <1>5 DEF Terminate, Closed
    <2>2. \A t \in Tasks : \A r \in Sessions : NoMore(up'[r], up[r], ResultsOf(t))
      BY <2>1, EmptyFacts DEF TypeOK, NoMore
    <2>3. QED
      BY <1>2, <2>1, <2>2 DEF NoMore
  <1>6. ASSUME NEW s \in Sessions, HeartbeatTimeout(s)
        PROVE  HandsSound' /\ \A t \in Tasks : InHand(t)' => InHand(t) \/ t = slot'
    <2>1. UNCHANGED <<slot, inherited, up>> /\ UNCHANGED agentVars
            /\ down' = [down EXCEPT ![s] = Append(@, Close)]
      BY <1>6 DEF HeartbeatTimeout
    <2>2. ASSUME NEW t \in Tasks, NEW r \in Sessions PROVE NoMore(down'[r], down[r], {NewTask(t)})
      <3>1. down[s] \in Seq(FromServer) /\ Close \in FromServer /\ Close \notin {NewTask(t)}
        BY FrameTypes, FrameFacts DEF TypeOK
      <3>2. NoMore(Append(down[s], Close), down[s], {NewTask(t)})
        BY <3>1, AppendFacts
      <3>3. down'[r] = IF r = s THEN Append(down[s], Close) ELSE down[r]
        BY <2>1 DEF TypeOK
      <3>4. QED
        BY <3>2, <3>3 DEF NoMore
    <2>3. QED
      BY <1>2, <2>1, <2>2 DEF NoMore
  <1>7. QED
    BY <1>3, <1>4, <1>5, <1>6, HandsPump

\* What the agent does moves a task from one place to the next, or loses it.
LEMMA HandsAgent ==
  ASSUME TypeOK, AgentSound, ConnectionsSound, AgentStep, NEW t \in Tasks
  PROVE  Carries(t)
  <1> USE DEF storeVars, histVars
  <1>1. ASSUME UNCHANGED <<session, down>>
        PROVE  /\ OnTheWay(t)' <=> OnTheWay(t)
               /\ session' # NoSession /\ (session # NoSession => AtMostOnce(down[session], {NewTask(t)}))
                    => AtMostOnce(down'[session'], {NewTask(t)})
    BY <1>1 DEF OnTheWay
  <1>2. outbox \in Seq(FromAgent) /\ \A s \in Sessions : up[s] \in Seq(FromAgent)
    BY DEF TypeOK
  <1>3. CASE AgentConnects
    <2> DEFINE s == lastSession + 1
    <2>1. /\ s \in Sessions /\ session' = s /\ outbox' = <<>> /\ UNCHANGED <<down, runner, unsent>>
          /\ up' = [up EXCEPT ![s] = <<Register, Heartbeat(AgentStatus)>>] /\ s > lastSession
      BY <1>3, SessionsAssumption DEF AgentConnects, Sessions, TypeOK
    <2> HIDE DEF s
    <2>2. down'[s] = <<>>
      BY <2>1 DEF ConnectionsSound, NewSessionsAreFresh
    <2>3. ~OnTheWay(t)' /\ AtMostOnce(down'[session'], {NewTask(t)}) /\ NoMore(outbox', outbox, ResultsOf(t))
      BY <2>1, <2>2, EmptyFacts DEF OnTheWay
    <2>4. NoMore(<<Register, Heartbeat(AgentStatus)>>, up[s], ResultsOf(t))
      <3>1. ~Occurs(<<Register, Heartbeat(AgentStatus)>>, ResultsOf(t))
        BY FrameFacts DEF Occurs
      <3>2. QED
        BY <3>1 DEF NoMore, Occurs, AtMostOnce
    <2>5. \A r \in Sessions : NoMore(up'[r], up[r], ResultsOf(t))
      BY <2>1, <2>4 DEF TypeOK, NoMore
    <2>6. QED
      BY <2>1, <2>3, <2>5, LosesOnly DEF Carries
  <1>4. CASE AgentHeartbeats
    <2>1. /\ UNCHANGED down /\ UNCHANGED agentVars /\ session \in Sessions
          /\ up' = [up EXCEPT ![session] = Append(@, Heartbeat(AgentStatus))]
      BY <1>4 DEF AgentHeartbeats, TypeOK
    <2>2. NoMore(Append(up[session], Heartbeat(AgentStatus)), up[session], ResultsOf(t))
      BY <1>2, <2>1, FrameTypes, FrameFacts, AppendFacts
    <2>3. \A r \in Sessions : NoMore(up'[r], up[r], ResultsOf(t))
      BY <2>1, <2>2 DEF TypeOK, NoMore
    <2>4. QED
      BY <2>1, <2>3, WireCarries DEF NoMore
  <1>5. CASE AgentSends
    <2> DEFINE m == Head(outbox)
    <2>1. /\ UNCHANGED <<session, down, runner, unsent>> /\ session \in Sessions /\ outbox # <<>>
          /\ up' = [up EXCEPT ![session] = Append(@, m)] /\ outbox' = Tail(outbox) /\ m \in FromAgent
      BY <1>2, <1>5 DEF AgentSends, TypeOK
    <2> HIDE DEF m
    <2>2. NoMore(outbox', outbox, ResultsOf(t))
      BY <1>2, <2>1, TailFacts
    <2>3. \A r \in Sessions : up'[r] = IF r = session THEN Append(up[session], m) ELSE up[r]
      BY <2>1 DEF TypeOK
    <2>4. CASE m \notin ResultsOf(t)
      <3>1. NoMore(Append(up[session], m), up[session], ResultsOf(t))
        BY <1>2, <2>1, <2>4, AppendFacts
      <3>2. \A r \in Sessions : NoMore(up'[r], up[r], ResultsOf(t))
        BY <2>3, <3>1 DEF NoMore
      <3>3. QED
        BY <1>1, <2>1, <2>2, <3>2, LosesOnly DEF Carries
    <2>5. CASE m \in ResultsOf(t)
      <3>1. Waiting(t) /\ (AtMostOnce(outbox, ResultsOf(t)) => ~Waiting(t)')
        BY <1>2, <2>1, <2>5, TailFacts DEF Waiting, m
      <3>2. (Finished(t)' <=> Finished(t)) /\ (OnTheWay(t)' <=> OnTheWay(t))
        BY <1>1, <2>1 DEF Finished
      <3>3. InHand(t)
        BY <3>1 DEF InHand
      <3>4. ASSUME InOnePlace(t) PROVE InOnePlace(t)'
        <4>1. \A r \in Sessions : ~Occurs(up[r], ResultsOf(t))
          BY <3>1, <3>4 DEF InOnePlace, Answered
        <4>2. AtMostOnce(Append(up[session], m), ResultsOf(t))
          BY <1>2, <2>1, <3>4, <4>1, AppendFacts DEF InOnePlace
        <4>3. \A r \in Sessions : AtMostOnce(up'[r], ResultsOf(t))
                                    /\ (Occurs(up'[r], ResultsOf(t)) => r = session)
          BY <2>3, <3>4, <4>1, <4>2 DEF InOnePlace
        <4>4. AtMostOnce(outbox', ResultsOf(t)) /\ ~Waiting(t)'
          BY <2>2, <3>1, <3>4 DEF InOnePlace, NoMore
        <4>5. ~OnTheWay(t)' /\ runner' # t /\ ~Finished(t)'
          BY <2>1, <3>1, <3>2, <3>4 DEF InOnePlace
        <4>6. /\ session' # NoSession => AtMostOnce(down'[session'], {NewTask(t)})
              /\ \A u, v \in unsent' : u.result.task = t /\ v.result.task = t => u = v
          BY <2>1, <3>4 DEF InOnePlace
        <4>7. QED
          BY <4>3, <4>4, <4>5, <4>6 DEF InOnePlace
      <3>5. QED
        BY <3>3, <3>4 DEF Carries
    <2>6. QED
      BY <2>4, <2>5
  <1>6. CASE AgentReports
    <2>1. PICK u \in unsent :
            /\ unsent' = unsent \ {u}
            /\ outbox' = IF u.session = session THEN Append(outbox, u.result) ELSE outbox
      BY <1>6 DEF AgentReports
    <2>2. UNCHANGED <<session, down, runner, up>>
      BY <1>6 DEF AgentReports
    <2>3. u.result \in FromAgent /\ u.result.type = "TASK_RESULT"
      BY DEF TypeOK, AgentSound
    <2>4. \A r \in Sessions : NoMore(up'[r], up[r], ResultsOf(t))
      BY <2>2 DEF NoMore
    <2>5. CASE u.session # session \/ u.result.task # t
      <3>1. u.result.task # t => NoMore(Append(outbox, u.result), outbox, ResultsOf(t))
        BY <1>2, <2>3, FrameFacts, AppendFacts
      <3>2. NoMore(outbox', outbox, ResultsOf(t))
        BY <2>1, <2>5, <3>1 DEF NoMore
      <3>3. QED
        BY <1>1, <2>1, <2>2, <2>4, <3>2, LosesOnly DEF Carries
    <2>6. CASE u.session = session /\ u.result.task = t
      <3>1. Finished(t) /\ outbox' = Append(outbox, u.result) /\ u.result \in ResultsOf(t)
        BY <2>1, <2>3, <2>6, FrameFacts DEF Finished
      <3>2. InHand(t)
        BY <3>1 DEF InHand
      <3>3. ASSUME InOnePlace(t) PROVE InOnePlace(t)'
        <4>1. ~Finished(t)' /\ \A v, w \in unsent' : v.result.task = t /\ w.result.task = t => v = w
          BY <2>1, <2>6, <3>3 DEF InOnePlace, Finished
        <4>2. ~Occurs(outbox, ResultsOf(t)) /\ AtMostOnce(outbox, ResultsOf(t))
          BY <3>1, <3>3 DEF InOnePlace, Waiting
        <4>3. AtMostOnce(outbox', ResultsOf(t))
          BY <1>2, <2>3, <3>1, <4>2, AppendFacts
        <4>4. ~OnTheWay(t)' /\ runner' # t /\ ~Answered(t)'
          BY <1>1, <2>2, <3>1, <3>3 DEF InOnePlace, Answered
        <4>5. /\ session' # NoSession => AtMostOnce(down'[session'], {NewTask(t)})
              /\ \A r \in Sessions : AtMostOnce(up'[r], ResultsOf(t))
              /\ \A r, s \in Sessions : Occurs(up'[r], ResultsOf(t)) /\ Occurs(up'[s], ResultsOf(t)) => r = s
          BY <2>2, <3>3 DEF InOnePlace
        <4>6. QED
          BY <4>1, <4>3, <4>4, <4>5 DEF InOnePlace
      <3>4. QED
        BY <3>2, <3>3 DEF Carries
    <2>7. QED
      BY <2>5, <2>6
  <1>7. CASE AgentSeesClose
    <2>1. /\ session' = NoSession /\ outbox' = <<>> /\ UNCHANGED <<up, runner, unsent>>
      BY <1>7 DEF AgentSeesClose, SessionEnds
    <2>2. ~OnTheWay(t)' /\ NoMore(outbox', outbox, ResultsOf(t))
            /\ \A r \in Sessions : NoMore(up'[r], up[r], ResultsOf(t))
      BY <2>1, EmptyFacts DEF OnTheWay, NoMore
    <2>3. QED
      BY <2>1, <2>2, LosesOnly DEF Carries
  <1>8. ASSUME NEW x \in Tasks, AgentReceivesTask(x) PROVE Carries(t)
    <2>1. /\ session \in Sessions /\ UNCHANGED <<session, up, unsent>>
          /\ down[session] \in Seq(FromServer) /\ down[session] # <<>> /\ Head(down[session]) = NewTask(x)
          /\ down'[session] = Tail(down[session])
      BY <1>8 DEF AgentReceivesTask, TypeOK
    <2>2. NoMore(down'[session], down[session], {NewTask(t)})
      BY <2>1, TailFacts
    <2>3. /\ OnTheWay(t)' => OnTheWay(t)
          /\ AtMostOnce(down[session], {NewTask(t)}) => AtMostOnce(down'[session'], {NewTask(t)})
      BY <2>1, <2>2 DEF OnTheWay, NoMore
    <2>4. \A r \in Sessions : NoMore(up'[r], up[r], ResultsOf(t))
      BY <2>1 DEF NoMore
    <2>5. TaskResult(x, "Failed") \in FromAgent /\ (TaskResult(x, "Failed") \in ResultsOf(t) <=> x = t)
      BY FrameTypes, FrameFacts DEF Outcomes
    <2>6. CASE x # t
      <3>1. (runner' = t => runner = t) /\ outbox' \in {outbox, Append(outbox, TaskResult(x, "Failed"))}
        BY <1>8, <2>6 DEF AgentReceivesTask
      <3>2. NoMore(outbox', outbox, ResultsOf(t))
        <4>1. NoMore(Append(outbox, TaskResult(x, "Failed")), outbox, ResultsOf(t))
          BY <1>2, <2>5, <2>6, AppendFacts
        <4>2. NoMore(outbox, outbox, ResultsOf(t))
          BY DEF NoMore
        <4>3. QED
          BY <3>1, <4>1, <4>2
      <3>3. session # NoSession
        BY <1>8 DEF AgentReceivesTask
      <3>4. QED
        BY <2>1, <2>3, <2>4, <3>1, <3>2, <3>3, LosesOnly DEF Carries
    <2>7. CASE x = t
      <3>1. OnTheWay(t) /\ (AtMostOnce(down[session], {NewTask(t)}) => ~OnTheWay(t)')
        <4>1. Occurs(down[session], {NewTask(t)}) /\ session # NoSession
          BY <1>8, <2>1, <2>7, TailFacts DEF AgentReceivesTask
        <4>2. AtMostOnce(down[session], {NewTask(t)}) => ~Occurs(down'[session], {NewTask(t)})
          BY <2>1, <2>7, TailFacts
        <4>3. QED
          BY <2>1, <4>1, <4>2 DEF OnTheWay
      <3>2. InHand(t)
        BY <3>1 DEF InHand
      <3>3. ASSUME InOnePlace(t) PROVE InOnePlace(t)'
        <4>1. AtMostOnce(down'[session'], {NewTask(t)}) /\ ~OnTheWay(t)'
          BY <2>3, <3>1, <3>3 DEF InOnePlace, OnTheWay
        <4>2. runner # t /\ ~Finished(t) /\ ~Waiting(t) /\ ~Answered(t)
          BY <3>1, <3>3 DEF InOnePlace
        <4>3. ~Finished(t)' /\ ~Answered(t)'
          BY <2>1, <4>2 DEF Finished, Answered
        <4>4. \/ outbox' = outbox
              \/ runner' # t /\ outbox' = Append(outbox, TaskResult(t, "Failed"))
          BY <1>8, <2>7, <4>2 DEF AgentReceivesTask
        <4>5. AtMostOnce(outbox', ResultsOf(t)) /\ ~(runner' = t /\ Waiting(t)')
          <5>1. AtMostOnce(outbox, ResultsOf(t)) /\ ~Occurs(outbox, ResultsOf(t))
            BY <3>3, <4>2 DEF InOnePlace, Waiting
          <5>2. AtMostOnce(Append(outbox, TaskResult(t, "Failed")), ResultsOf(t))
            BY <1>2, <2>5, <2>7, <5>1, AppendFacts
          <5>3. QED
            BY <4>4, <5>1, <5>2 DEF Waiting
        <4>6. /\ \A v, w \in unsent' : v.result.task = t /\ w.result.task = t => v = w
              /\ \A r \in Sessions : AtMostOnce(up'[r], ResultsOf(t))
              /\ \A r, s \in Sessions : Occurs(up'[r], ResultsOf(t)) /\ Occurs(up'[s], ResultsOf(t)) => r = s
          BY <2>1, <3>3 DEF InOnePlace
        <4>7. QED
          BY <4>1, <4>3, <4>5, <4>6 DEF InOnePlace
      <3>4. QED
        BY <3>2, <3>3 DEF Carries
    <2>8. QED
      BY <2>6, <2>7
  <1>9. ASSUME NEW o \in Outcomes, AgentFinishes(o) PROVE Carries(t)
    <2> DEFINE done == [result |-> TaskResult(runner, o), session |-> runnerSession]
    <2>1. /\ runner # NoTask /\ runner' = NoTask /\ unsent' = unsent \cup {done}
          /\ UNCHANGED <<session, down, up, outbox>>
      BY <1>9 DEF AgentFinishes
    <2>2. done.result.task = runner
      BY DEF TaskResult
    <2> HIDE DEF done
    <2>3. NoMore(outbox', outbox, ResultsOf(t)) /\ \A r \in Sessions : NoMore(up'[r], up[r], ResultsOf(t))
      BY <2>1 DEF NoMore
    <2>4. NoTask # t
      BY NoTaskAssumption
    <2>5. CASE runner # t
      BY <1>1, <2>1, <2>2, <2>3, <2>4, <2>5, LosesOnly DEF Carries
    <2>6. CASE runner = t
      <3>1. InHand(t)
        BY <2>6 DEF InHand
      <3>2. ASSUME InOnePlace(t) PROVE InOnePlace(t)'
        <4>1. ~OnTheWay(t)' /\ ~Waiting(t)' /\ ~Answered(t)' /\ runner' # t
          BY <1>1, <2>1, <2>4, <2>6, <3>2 DEF InOnePlace, Waiting, Answered
        <4>2. \A v, w \in unsent' : v.result.task = t /\ w.result.task = t => v = w
          BY <2>1, <2>6, <3>2 DEF InOnePlace, Finished
        <4>3. /\ session' # NoSession => AtMostOnce(down'[session'], {NewTask(t)})
              /\ AtMostOnce(outbox', ResultsOf(t))
              /\ \A r \in Sessions : AtMostOnce(up'[r], ResultsOf(t))
              /\ \A r, s \in Sessions : Occurs(up'[r], ResultsOf(t)) /\ Occurs(up'[s], ResultsOf(t)) => r = s
          BY <2>1, <3>2 DEF InOnePlace
        <4>4. QED
          BY <4>1, <4>2, <4>3 DEF InOnePlace
      <3>3. QED
        BY <3>1, <3>2 DEF Carries
    <2>7. QED
      BY <2>5, <2>6
  <1>10. QED
    BY <1>3, <1>4, <1>5, <1>6, <1>7, <1>8, <1>9 DEF AgentStep

\* A connection that breaks and an agent that dies lose frames, a run or its result.
LEMMA HandsLoss ==
  ASSUME TypeOK, NEW crash \in BOOLEAN, LoseConnection(crash), NEW t \in Tasks
  PROVE  Carries(t)
  <1>1. /\ session' = NoSession /\ outbox' = <<>> /\ session \in Sessions
        /\ (runner' = t => runner = t) /\ unsent' \subseteq unsent
    BY NoTaskAssumption DEF LoseConnection, SessionEnds, TypeOK
  <1>2. PICK n \in 0..Len(up[session]) : up' = [up EXCEPT ![session] = SubSeq(@, 1, n)]
    BY DEF LoseConnection
  <1>3. NoMore(SubSeq(up[session], 1, n), up[session], ResultsOf(t))
    BY <1>1, PartFacts DEF TypeOK
  <1>4. \A r \in Sessions : NoMore(up'[r], up[r], ResultsOf(t))
    BY <1>1, <1>2, <1>3 DEF TypeOK, NoMore
  <1>5. ~OnTheWay(t)' /\ NoMore(outbox', outbox, ResultsOf(t))
    BY <1>1, EmptyFacts DEF OnTheWay
  <1>6. QED
    BY <1>1, <1>4, <1>5, LosesOnly DEF Carries

\* A restart of the server makes every task in the agent's hands an inherited one.
LEMMA HandsRestart ==
  ASSUME TypeOK, HandsSound, ServerRestarts
  PROVE  HandsSound' /\ \A t \in Tasks : InHand(t)' => InHand(t)
  <1>1. /\ up' = [s \in Sessions |-> <<>>] /\ UNCHANGED down /\ UNCHANGED agentVars
        /\ inherited' = inherited \cup Outstanding
    BY DEF ServerRestarts
  <1>2. ASSUME NEW t \in Tasks PROVE Carries(t)
    <2>1. \A s \in Sessions : NoMore(up'[s], up[s], ResultsOf(t)) /\ NoMore(down'[s], down[s], {NewTask(t)})
      BY <1>1, EmptyFacts DEF NoMore
    <2>2. session \in Sessions \cup {NoSession}
      BY DEF TypeOK
    <2>3. QED
      BY <1>1, <2>1, <2>2, WireCarries
  <1>3. ASSUME NEW t \in Tasks \ inherited' PROVE InOnePlace(t)' /\ ~InHand(t)'
    <2>1. t \in Tasks \ inherited /\ ~InHand(t)
      BY <1>1, <1>3, OutstandingIsInHand
    <2>2. QED
      BY <1>2, <2>1 DEF HandsSound, Carries
  <1>4. QED
    BY <1>2, <1>3 DEF HandsSound, Carries

\* The state the lemmas above assume.
Base == TypeOK /\ AgentSound /\ ConnectionsSound

LEMMA BaseInvariant == Spec => []Base
  BY TypeInit, ConnectionsInit, TypeStep, AgentSoundStep, ConnectionsStep, PTL DEF Spec, Base

\* No step puts a task into the agent's hands but a dispatch.
LEMMA HandsStep ==
  ASSUME Base, HandsSound, [Next]_vars
  PROVE  HandsSound' /\ \A t \in Tasks : InHand(t)' => InHand(t) \/ t = slot'
  <1> USE DEF Base
  <1>1. CASE ServerStep
    BY <1>1, HandsServer
  <1>2. CASE AgentStep \/ \E crash \in BOOLEAN : LoseConnection(crash)
    <2>1. \A t \in Tasks : Carries(t)
      BY <1>2, HandsAgent, HandsLoss
    <2>2. UNCHANGED <<slot, inherited>>
      BY <1>2 DEF AgentStep, AgentConnects, AgentHeartbeats, AgentReports, AgentSends,
         AgentSeesClose, SessionEnds, AgentReceivesTask, AgentFinishes, LoseConnection, histVars
    <2>3. QED
      BY <2>1, <2>2, CarriedHands DEF Carries
  <1>3. CASE ServerRestarts
    BY <1>3, HandsRestart
  <1>4. CASE UNCHANGED vars
    BY <1>4 DEF vars, HandsSound, InHand, InOnePlace, OnTheWay, Finished, Waiting, Answered
  <1>5. QED
    BY <1>1, <1>2, <1>3, <1>4 DEF Next, Fault

LEMMA HandsInit == Init => HandsSound
  <1> SUFFICES ASSUME Init, NEW t \in Tasks PROVE InOnePlace(t) /\ ~InHand(t)
    BY DEF HandsSound
  <1>1. ~OnTheWay(t) /\ ~Waiting(t) /\ ~Answered(t) /\ ~Finished(t) /\ runner # t
    BY EmptyFacts, NoTaskAssumption DEF Init, OnTheWay, Waiting, Answered, Finished
  <1>2. AtMostOnce(outbox, ResultsOf(t)) /\ \A s \in Sessions : AtMostOnce(up[s], ResultsOf(t))
    BY EmptyFacts DEF Init
  <1>3. \A s \in Sessions : ~Occurs(up[s], ResultsOf(t))
    BY <1>1 DEF Answered
  <1>4. session = NoSession /\ unsent = {}
    BY DEF Init
  <1>5. QED
    BY <1>1, <1>2, <1>3, <1>4 DEF InOnePlace, InHand

\* Of what this server process sent, only the task in the slot can be on its way, running,
\* or finished and not yet reported (OnlyTheSlotIsOutstanding).
THEOREM OnlyTheSlot == Spec => []OnlyTheSlotIsOutstanding
  <1>1. Base /\ HandsSound => OnlyTheSlotIsOutstanding
    BY OutstandingTasks, OutstandingIsInHand DEF Base, HandsSound, OnlyTheSlotIsOutstanding
  <1>2. Base /\ HandsSound /\ [Next]_vars => HandsSound'
    BY HandsStep
  <1>3. QED
    BY <1>1, <1>2, HandsInit, BaseInvariant, PTL DEF Spec

\* A step that rejects a task takes it to an agent that runs another one.
LEMMA BusyStep ==
  ASSUME Base, HandsSound, BusyOnlyAfterRestart, [Next]_vars
  PROVE  BusyOnlyAfterRestart'
  <1> USE DEF storeVars, agentVars, histVars, BusyOnlyAfterRestart
  <1>1. CASE rejected' = rejected /\ inherited \subseteq inherited'
    BY <1>1
  <1>2. ASSUME NEW t \in Tasks, AgentReceivesTask(t) PROVE BusyOnlyAfterRestart'
    <2>1. CASE runner \in {NoTask, t}
      BY <1>2, <2>1 DEF AgentReceivesTask
    <2>2. CASE runner \notin {NoTask, t}
      <3>1. runner \in Tasks /\ InHand(runner)
        BY <2>2 DEF Base, TypeOK, Slot, InHand
      <3>2. InHand(t)
        <4>1. session \in Sessions /\ session # NoSession /\ down[session] \in Seq(FromServer)
                /\ down[session] # <<>> /\ Head(down[session]) \in {NewTask(t)}
          BY <1>2 DEF AgentReceivesTask, Base, TypeOK
        <4>2. QED
          BY <4>1, TailFacts DEF InHand, OnTheWay
      <3>3. inherited # {}
        BY <2>2, <3>1, <3>2 DEF HandsSound
      <3>4. QED
        BY <1>2, <3>3 DEF AgentReceivesTask
    <2>3. QED
      BY <2>1, <2>2
  <1>3. CASE ServerStep
    BY <1>1, <1>3 DEF ServerStep, StartAnalysis, WatchdogFires, HandleRegister, HandleHeartbeat,
         HandleTaskResult, RecordResult, PeerCloses, HeartbeatTimeout, Terminate, SweepExpired,
         FlushTasks, FlushQueues
  <1>4. CASE \/ AgentConnects \/ AgentHeartbeats \/ AgentReports \/ AgentSends \/ AgentSeesClose
             \/ \E o \in Outcomes : AgentFinishes(o)
             \/ Fault
    BY <1>1, <1>4 DEF AgentConnects, AgentHeartbeats, AgentReports, AgentSends, AgentSeesClose,
         SessionEnds, AgentFinishes, Fault, LoseConnection, ServerRestarts
  <1>5. CASE UNCHANGED vars
    BY <1>1, <1>5 DEF vars
  <1>6. QED
    BY <1>2, <1>3, <1>4, <1>5 DEF Next, AgentStep

\* The agent answers "busy" only if the server restarted while it ran a task
\* (BusyOnlyAfterRestart).
THEOREM BusyAfterRestart == Spec => []BusyOnlyAfterRestart
  <1>1. Init => HandsSound /\ BusyOnlyAfterRestart
    BY HandsInit DEF Init, BusyOnlyAfterRestart
  <1>2. Base /\ HandsSound /\ BusyOnlyAfterRestart /\ [Next]_vars
          => HandsSound' /\ BusyOnlyAfterRestart'
    BY HandsStep, BusyStep
  <1>3. QED
    BY <1>1, <1>2, BaseInvariant, PTL DEF Spec

-----------------------------------------------------------------------------
(* The queue of the server.                                                *)

\* Whatever the server, its files or the agent hold of a task, it was accepted.
Admitted(t) ==
  \/ t = slot \/ InHand(t) \/ Occurs(queue, {t}) \/ Occurs(diskQueue, {t})
  \/ results[t] # "none" \/ diskResults[t] # "none"
  => t \in accepted

\* It waits once, and not while it holds the slot or the agent has it.
WaitsOnce(t) ==
  AtMostOnce(queue, {t}) /\ (t = slot \/ InHand(t) => ~Occurs(queue, {t}))

Resolved(t) == results[t] # "none" => t # slot /\ ~Occurs(queue, {t})

QueueSound(t) == Admitted(t) /\ (t \notin revived => WaitsOnce(t) /\ Resolved(t))

\* What a pump does to the queue and the slot, seen from one task.
LEMMA PumpQueue ==
  ASSUME NEW q \in Seq(Tasks), NEW sl \in Slot, NEW st, NEW wd, NEW t \in Tasks,
         Pump(q, sl, st, wd) \/ NoPump(q, sl, st, wd),
         InHand(t)' => InHand(t) \/ t = slot'
  PROVE  /\ t = slot' \/ Occurs(queue', {t}) => t = sl \/ Occurs(q, {t})
         /\ AtMostOnce(q, {t}) /\ (t = sl \/ InHand(t) => ~Occurs(q, {t})) => WaitsOnce(t)'
  <1>1. CASE NoPump(q, sl, st, wd) \/ PumpIdle(q, sl, st, wd)
    BY <1>1 DEF NoPump, PumpIdle, WaitsOnce
  <1>2. ASSUME CanPump(q, sl)
        PROVE  /\ NoMore(Tail(q), q, {t}) /\ (Head(q) = t => Occurs(q, {t}))
               /\ AtMostOnce(q, {t}) /\ Head(q) = t => ~Occurs(Tail(q), {t})
    BY <1>2, TailFacts DEF CanPump
  <1>3. CASE PumpThrows(q, sl, st, wd)
    BY <1>2, <1>3, NoTaskAssumption DEF PumpThrows, WaitsOnce, NoMore
  <1>4. CASE PumpSends(q, sl, st, wd)
    BY <1>2, <1>4 DEF PumpSends, WaitsOnce, NoMore
  <1>5. QED
    BY <1>1, <1>3, <1>4 DEF Pump

\* The steps that pump.
LEMMA QueuePump ==
  ASSUME Base, NEW t \in Tasks, QueueSound(t), InHand(t)' => InHand(t) \/ t = slot',
         \/ \E x \in Tasks : StartAnalysis(x)
         \/ \E s \in Sessions : HandleHeartbeat(s) \/ HandleTaskResult(s)
  PROVE  QueueSound(t)'
  <1> USE DEF storeVars
  <1>1. queue \in Seq(Tasks) /\ slot \in Slot /\ results \in [Tasks -> Outcomes \cup {"none"}]
    BY DEF Base, TypeOK
  <1>2. ASSUME NEW x \in Tasks, StartAnalysis(x) PROVE QueueSound(t)'
    <2> DEFINE q == Append(queue, x)
    <2>1. /\ q \in Seq(Tasks) /\ x \notin accepted /\ accepted' = accepted \cup {x}
          /\ Pump(q, slot, status, armed) \/ NoPump(q, slot, status, armed)
          /\ UNCHANGED <<revived, results, diskQueue, diskResults>>
      BY <1>1, <1>2 DEF StartAnalysis
    <2>2. /\ Occurs(q, {t}) <=> Occurs(queue, {t}) \/ x = t
          /\ AtMostOnce(queue, {t}) /\ (x = t => ~Occurs(queue, {t})) => AtMostOnce(q, {t})
      BY <1>1, AppendFacts
    <2> HIDE DEF q
    <2>3. /\ t = slot' \/ Occurs(queue', {t}) => t = slot \/ Occurs(q, {t})
          /\ AtMostOnce(q, {t}) /\ (t = slot \/ InHand(t) => ~Occurs(q, {t})) => WaitsOnce(t)'
      BY <1>1, <2>1, PumpQueue
    <2>4. x = t => t # slot /\ ~InHand(t) /\ ~Occurs(queue, {t}) /\ results[t] = "none"
      BY <2>1 DEF QueueSound, Admitted
    <2>5. Admitted(t)'
      BY <2>1, <2>2, <2>3 DEF QueueSound, Admitted
    <2>6. t \notin revived => WaitsOnce(t)' /\ Resolved(t)'
      BY <2>1, <2>2, <2>3, <2>4 DEF QueueSound, WaitsOnce, Resolved
    <2>7. QED
      BY <2>1, <2>5, <2>6 DEF QueueSound
  <1>3. ASSUME NEW s \in Sessions, HandleHeartbeat(s) PROVE QueueSound(t)'
    <2>1. PICK st : Pump(queue, slot, st, armed) \/ NoPump(queue, slot, st, armed)
      BY <1>3 DEF HandleHeartbeat
    <2>2. UNCHANGED <<accepted, revived, results, diskQueue, diskResults>>
      BY <1>3 DEF HandleHeartbeat
    <2>3. /\ t = slot' \/ Occurs(queue', {t}) => t = slot \/ Occurs(queue, {t})
          /\ AtMostOnce(queue, {t}) /\ (t = slot \/ InHand(t) => ~Occurs(queue, {t})) => WaitsOnce(t)'
      BY <1>1, <2>1, PumpQueue
    <2>4. Admitted(t)' /\ (t \notin revived => WaitsOnce(t)' /\ Resolved(t)')
      BY <2>2, <2>3 DEF QueueSound, Admitted, WaitsOnce, Resolved
    <2>5. QED
      BY <2>2, <2>4 DEF QueueSound
  <1>4. ASSUME NEW s \in Sessions, HandleTaskResult(s) PROVE QueueSound(t)'
    <2> DEFINE m == Head(up[s])
               sl == Released(slot, m.task)
    <2>1. PICK st, wd : Pump(queue, sl, st, wd)
      BY <1>4 DEF HandleTaskResult
    <2>2. /\ UNCHANGED <<accepted, revived, diskQueue, diskResults>> /\ Receives(s, "TASK_RESULT")
          /\ results' = [results EXCEPT ![m.task] = m.status]
      BY <1>4 DEF HandleTaskResult, RecordResult
    <2>3. m.task = t => InHand(t)
      <3>1. m \in FromAgent /\ m.type = "TASK_RESULT" /\ (m \in ResultsOf(t) => Answered(t))
        BY <2>2, ReceivedFacts DEF Base
      <3>2. m \in ResultsOf(t) <=> m.task = t
        BY <3>1, FrameFacts
      <3>3. QED
        BY <3>1, <3>2 DEF InHand
    <2>4. sl \in Slot /\ (t = sl => t = slot /\ m.task # t)
      BY <1>1, NoTaskAssumption DEF Released, Slot
    <2>5. m.task # t => results'[t] = results[t]
      BY <1>1, <2>2
    <2> HIDE DEF m, sl
    <2>6. /\ t = slot' \/ Occurs(queue', {t}) => t = sl \/ Occurs(queue, {t})
          /\ AtMostOnce(queue, {t}) /\ (t = sl \/ InHand(t) => ~Occurs(queue, {t})) => WaitsOnce(t)'
      BY <1>1, <2>1, <2>4, PumpQueue
    <2>7. Admitted(t)'
      BY <2>2, <2>3, <2>4, <2>5, <2>6 DEF QueueSound, Admitted
    <2>8. t \notin revived => WaitsOnce(t)' /\ Resolved(t)'
      BY <2>3, <2>4, <2>5, <2>6 DEF QueueSound, WaitsOnce, Resolved
    <2>9. QED
      BY <2>2, <2>7, <2>8 DEF QueueSound
  <1>5. QED
    BY <1>2, <1>3, <1>4

\* The sweep takes a task out of the queue with the outcome it records for it.
LEMMA QueueSweep ==
  ASSUME Base, NEW t \in Tasks, QueueSound(t), InHand(t)' => InHand(t) \/ t = slot', SweepExpired
  PROVE  QueueSound(t)'
  <1>1. PICK k \in 1..Len(queue) :
          queue' = SubSeq(queue, k + 1, Len(queue)) /\ results' = [x \in Tasks |-> SweptStatus(x, k)]
    BY DEF SweepExpired
  <1>2. UNCHANGED <<slot, diskQueue, diskResults, accepted, revived>>
    BY DEF SweepExpired, histVars
  <1>3. queue \in Seq(Tasks) /\ k \in 0..Len(queue)
    BY <1>1 DEF Base, TypeOK
  <1>4. NoMore(queue', queue, {t})
    BY <1>1, <1>3, PartFacts
  <1>5. ASSUME results'[t] # results[t]
        PROVE  Occurs(queue, {t}) /\ (AtMostOnce(queue, {t}) => ~Occurs(queue', {t}))
    <2>1. PICK i \in 1..k : queue[i] = t
      BY <1>1, <1>5 DEF SweptStatus
    <2>2. AtMostOnce(queue, {t}) => ~Occurs(queue', {t})
      BY <1>1, <1>3, <2>1, PartFacts
    <2>3. i \in DOMAIN queue
      BY <1>3
    <2>4. QED
      BY <2>1, <2>2, <2>3 DEF Occurs
  <1>6. Admitted(t)'
    BY <1>2, <1>4, <1>5 DEF QueueSound, Admitted, NoMore
  <1>7. t \notin revived => WaitsOnce(t)' /\ Resolved(t)'
    BY <1>2, <1>4, <1>5 DEF QueueSound, WaitsOnce, Resolved, NoMore
  <1>8. QED
    BY <1>2, <1>6, <1>7 DEF QueueSound

LEMMA QueueStep ==
  ASSUME Base, HandsSound, [Next]_vars, NEW t \in Tasks, QueueSound(t)
  PROVE  QueueSound(t)'
  <1> USE DEF storeVars, agentVars, histVars
  <1>1. InHand(t)' => InHand(t) \/ t = slot'
    BY HandsStep
  <1>2. ASSUME UNCHANGED <<queue, slot, results, accepted, revived>>,
               diskQueue' \in {diskQueue, queue}, diskResults' \in {diskResults, results}
        PROVE  QueueSound(t)'
    BY <1>1, <1>2 DEF QueueSound, Admitted, WaitsOnce, Resolved
  <1>3. CASE \/ \E x \in Tasks : WatchdogFires(x)
             \/ \E s \in Sessions : HandleRegister(s) \/ PeerCloses(s) \/ HeartbeatTimeout(s) \/ Terminate(s)
             \/ FlushTasks \/ FlushQueues
    BY <1>2, <1>3 DEF WatchdogFires, HandleRegister, PeerCloses, HeartbeatTimeout, Terminate, Closed,
         FlushTasks, FlushQueues
  <1>4. CASE ServerStep
    BY <1>1, <1>3, <1>4, QueuePump, QueueSweep DEF ServerStep
  <1>5. CASE AgentStep \/ \E crash \in BOOLEAN : LoseConnection(crash)
    BY <1>2, <1>5 DEF AgentStep, AgentConnects, AgentHeartbeats, AgentReports, AgentSends,
         AgentSeesClose, SessionEnds, AgentReceivesTask, AgentFinishes, LoseConnection
  <1>6. CASE ServerRestarts
    <2>1. /\ queue' = diskQueue /\ results' = diskResults /\ slot' = NoTask
          /\ UNCHANGED <<diskQueue, diskResults, accepted>>
          /\ revived' = revived \cup {diskQueue[i] : i \in DOMAIN diskQueue}
      BY <1>6 DEF ServerRestarts
    <2>2. t # slot'
      BY <2>1, NoTaskAssumption
    <2>3. Occurs(queue', {t}) => t \in revived'
      BY <2>1 DEF Occurs
    <2>4. ~Occurs(queue', {t}) => AtMostOnce(queue', {t})
      BY DEF Occurs, AtMostOnce
    <2>5. Admitted(t)'
      BY <1>1, <2>1, <2>2 DEF QueueSound, Admitted
    <2>6. QED
      BY <2>2, <2>3, <2>4, <2>5 DEF QueueSound, WaitsOnce, Resolved
  <1>7. CASE UNCHANGED vars
    BY <1>2, <1>7 DEF vars
  <1>8. QED
    BY <1>4, <1>5, <1>6, <1>7 DEF Next, Fault

\* A task with an outcome neither waits nor holds the slot, unless a restart read it back
\* from queues.json (ResolvedIsFinished).
THEOREM ResolvedStaysFinished == Spec => []ResolvedIsFinished
  <1> DEFINE Sound == HandsSound /\ \A t \in Tasks : QueueSound(t)
  <1>1. Init => Sound
    <2>1. ASSUME Init, NEW t \in Tasks PROVE QueueSound(t)
      <3>1. ~InHand(t)
        <4>1. ~OnTheWay(t) /\ ~Waiting(t) /\ ~Answered(t) /\ ~Finished(t) /\ runner # t
          BY <2>1, EmptyFacts, NoTaskAssumption DEF Init, OnTheWay, Waiting, Answered, Finished
        <4>2. QED
          BY <4>1 DEF InHand
      <3>2. /\ ~Occurs(queue, {t}) /\ AtMostOnce(queue, {t}) /\ ~Occurs(diskQueue, {t})
            /\ slot # t /\ results[t] = "none" /\ diskResults[t] = "none"
        BY <2>1, EmptyFacts, NoTaskAssumption DEF Init
      <3>3. QED
        BY <3>1, <3>2 DEF QueueSound, Admitted, WaitsOnce, Resolved
    <2>2. QED
      BY <2>1, HandsInit
  <1>2. Base /\ Sound /\ [Next]_vars => Sound'
    BY HandsStep, QueueStep
  <1>3. Sound => ResolvedIsFinished
    BY DEF QueueSound, Resolved, Occurs, ResolvedIsFinished
  <1>4. QED
    BY <1>1, <1>2, <1>3, BaseInvariant, PTL DEF Spec
=============================================================================
