--------------------------- MODULE CuptiSinkProofs ---------------------------
(***************************************************************************)
(* Proofs about CuptiSink for every number of cuprof_start calls, activity *)
(* kinds and records.                                                      *)
(***************************************************************************)
EXTENDS CuptiSink, FiniteSetTheorems, TLAPS

\* A notification keeps the messages of every call a sequence of messages.
LEMMA NotifyType ==
  ASSUME TypeOK, NEW c, NEW m \in Messages, Notify(c, m)
  PROVE  msgs' \in [Calls -> Seq(Messages)]
  <1>1. \A d \in Calls : Append(msgs[d], m) \in Seq(Messages)
    BY DEF TypeOK
  <1>2. QED
    BY <1>1 DEF TypeOK, Notify

\* Type correctness of every step of cuprof_start and CuptiSink::Start.
LEMMA TypeStart ==
  ASSUME TypeOK, CuprofStart \/ \E c \in Calls : Start(c)
  PROVE  TypeOK'
  <1> USE DEF TypeOK, Calls, Stoppers, None, Exit, sinkVars, startVars, stopVars, cuptiVars
  <1>1. CASE CuprofStart
    BY <1>1, CallsAssumption DEF CuprofStart, CallMoves
  <1>2. ASSUME NEW c \in Calls, Start(c) PROVE TypeOK'
    <2>1. CASE StartRetired(c)
      BY <2>1 DEF StartRetired, StartReturns, StartFrame, CallMoves, Notify, Messages, Terminal
    <2>2. CASE StartWhileStopping(c) \/ StartJoins(c)
      BY <2>2 DEF StartWhileStopping, StartJoins, StartReturns, StartFrame, CallMoves
    <2>3. CASE StartOpens(c)
      BY <2>3 DEF StartOpens, Rearm, StartFrame, CallMoves
    <2>4. CASE StartFails(c)
      BY <2>4 DEF StartFails, StartFrame, CallMoves
    <2>5. CASE StartRuns(c)
      BY <2>5 DEF StartRuns, StartFrame, CallMoves, Kinds
    <2>6. CASE StartNotifies(c)
      BY <2>6 DEF StartNotifies, StartReturns, StartFrame, CallMoves, Notify, Messages
    <2>7. CASE \E timed \in BOOLEAN : InstallHooks(c, timed)
      BY <2>7 DEF InstallHooks, CallMoves
    <2>8. QED
      BY <1>2, <2>1, <2>2, <2>3, <2>4, <2>5, <2>6, <2>7 DEF Start
  <1>3. QED
    BY <1>1, <1>2

\* Type correctness of every step of CuptiSink::Stop and of the end of the process.
LEMMA TypeStop ==
  ASSUME TypeOK,
         (\E s \in Stoppers : StopIsIdle(s) \/ StopBegins(s) \/ StopSequence(s)) \/ CallExit \/ Die
  PROVE  TypeOK'
  <1> USE DEF TypeOK, Stoppers, Exit, sinkVars, startVars, stopVars, cuptiVars, StopFrame, StopMoves
  <1>1. ASSUME NEW s \in Stoppers, StopIsIdle(s) \/ StopBegins(s) \/ StopSequence(s) PROVE TypeOK'
    <2>1. CASE StopIsIdle(s)
      BY <2>1 DEF StopIsIdle
    <2>2. CASE StopBegins(s)
      BY <2>2 DEF StopBegins
    <2>3. CASE LaunchTeardown(s)
      <3>1. 1 \in 0..Finished
        BY KindsAssumption DEF Finished
      <3>2. worker' \in [Calls -> 0..Finished]
        BY <2>3, <3>1 DEF LaunchTeardown
      <3>3. inline' \subseteq Calls \cup {None}
        BY <2>3 DEF LaunchTeardown
      <3>4. QED
        BY <2>3, <3>2, <3>3 DEF LaunchTeardown
    <2>4. CASE TeardownDone(s)
      <3>1. msgs' \in [Calls -> Seq(Messages)]
        BY <2>4, NotifyType DEF TeardownDone, Messages
      <3>2. QED
        BY <2>4, <3>1 DEF TeardownDone
    <2>5. CASE TeardownTimedOut(s)
      BY <2>5 DEF TeardownTimedOut, TimesOut
    <2>6. CASE SwapEvents(s)
      BY <2>6 DEF SwapEvents
    <2>7. CASE WriteFails(s)
      <3>1. msgs' \in [Calls -> Seq(Messages)]
        BY <2>7, NotifyType DEF WriteFails, Messages, Terminal
      <3>2. QED
        BY <2>7, <3>1 DEF WriteFails, Writes
    <2>8. CASE WriteSucceeds(s)
      <3>1. msgs' \in [Calls -> Seq(Messages)]
        BY <2>8, NotifyType DEF WriteSucceeds, Messages, Terminal
      <3>2. file' \in [Calls -> (SUBSET Records) \cup {NoFile}]
        BY <2>8 DEF WriteSucceeds
      <3>3. QED
        BY <2>8, <3>1, <3>2 DEF WriteSucceeds, Writes
    <2>9. CASE StopEnds(s)
      BY <2>9 DEF StopEnds
    <2>10. QED
      BY <1>1, <2>1, <2>2, <2>3, <2>4, <2>5, <2>6, <2>7, <2>8, <2>9 DEF StopSequence
  <1>2. CASE CallExit
    BY <1>2 DEF CallExit
  <1>3. CASE Die
    BY <1>3 DEF Die
  <1>4. QED
    BY <1>1, <1>2, <1>3

\* Type correctness of every step of CUPTI and of the teardown workers.
LEMMA TypeCupti ==
  ASSUME TypeOK, Cupti
  PROVE  TypeOK'
  <1> USE DEF TypeOK, sinkVars, startVars, stopVars, CuptiFrame
  <1>1. ASSUME NEW k \in Kinds, LaunchWork(k) PROVE TypeOK'
    BY <1>1 DEF LaunchWork
  <1>2. ASSUME NEW r \in Records, WorkEnds(r) \/ DeliverRecord(r) PROVE TypeOK'
    <2>1. work' \in [Records -> {"none", "running", "ended", "kept", "dropped"}]
      BY <1>2 DEF WorkEnds, DeliverRecord
    <2>2. events' \subseteq Records
      BY <1>2 DEF WorkEnds, DeliverRecord
    <2>3. QED
      BY <1>2, <2>1, <2>2 DEF WorkEnds, DeliverRecord
  <1>3. ASSUME NEW w \in Calls, WorkerDisables(w) PROVE TypeOK'
    <2>1. worker[w] + 1 \in 0..Finished
      BY <1>3, KindsAssumption DEF WorkerDisables, Kinds, Finished
    <2>2. worker' \in [Calls -> 0..Finished]
      BY <1>3, <2>1 DEF WorkerDisables
    <2>3. QED
      BY <1>3, <2>2 DEF WorkerDisables
  <1>4. ASSUME NEW w \in Calls, WorkerFinishes(w) PROVE TypeOK'
    <2>1. Finished \in 0..Finished
      BY KindsAssumption DEF Finished
    <2>2. worker' \in [Calls -> 0..Finished]
      BY <1>4, <2>1 DEF WorkerFinishes
    <2>3. QED
      BY <1>4, <2>2 DEF WorkerFinishes
  <1>5. QED
    BY <1>1, <1>2, <1>3, <1>4 DEF Cupti

LEMMA TypeStep == TypeOK /\ [Next]_vars => TypeOK'
  <1>1. ASSUME TypeOK, UNCHANGED vars PROVE TypeOK'
    BY <1>1 DEF TypeOK, vars
  <1>2. QED
    BY <1>1, TypeStart, TypeStop, TypeCupti DEF Next

LEMMA TypeInit == Init => TypeOK
  <1> SUFFICES ASSUME Init PROVE TypeOK
    OBVIOUS
  <1>1. 0 \in 0..Finished /\ 0 \in 0..MaxCalls
    BY CallsAssumption, KindsAssumption DEF Finished
  <1>2. worker \in [Calls -> 0..Finished] /\ msgs \in [Calls -> Seq(Messages)]
    BY <1>1 DEF Init
  <1>3. QED
    BY <1>1, <1>2 DEF Init, TypeOK

\* Every variable of the sink, of the threads that drive it and of CUPTI keeps its type.
THEOREM TypeCorrect == Spec => []TypeOK
  <1>1. QED
    BY TypeInit, TypeStep, PTL DEF Spec

-----------------------------------------------------------------------------
(* Who may touch the window: the guards of Start and Stop, and the worker of a     *)
(* teardown.                                                                       *)

InStop == {"launch", "wait", "swap", "write", "clear"}
NotOpened == {"none", "start"}
AtWork == 1..Flushing

\* stopped_ and running_ let one Stop past the guard, and it holds teardown_in_flight_.
StopsAreGuarded ==
  /\ \A s \in Stoppers : stopPc[s] \in InStop => inFlight
  /\ \A s, q \in Stoppers : stopPc[s] \in InStop /\ stopPc[q] \in InStop => s = q
  /\ inFlight => \E s \in Stoppers : stopPc[s] \in InStop
  /\ inFlight => ~running

\* A call that enables kinds holds mu_, and its window is the next one.
StartsAreGuarded ==
  /\ \A c \in Calls : callPc[c] = "enable" => mu = c /\ cfg = c /\ ~running /\ ~inFlight /\ ~wedged
  /\ \A c \in Calls : c > lastCall => callPc[c] = "none"
  /\ \A c \in Calls : callPc[c] # "returned" => stopPc[c] = "none"
  /\ running \/ inFlight => cfg \in Calls
  /\ cfg \in Calls => callPc[cfg] \notin NotOpened

\* A worker that is not finished has a stop that waits for it, or the instance is retired.
WorkersAreOwned ==
  /\ wedged => ~running
  /\ \A w \in Calls : worker[w] \in AtWork =>
       wedged \/ (cfg = w /\ \E s \in Stoppers : stopPc[s] = "wait")

Guards == StopsAreGuarded /\ StartsAreGuarded /\ WorkersAreOwned

-----------------------------------------------------------------------------
(* The verdicts of a window.                                                       *)

Verdicts(m) == {i \in DOMAIN m : m[i] \in Terminal}

\* A call that has not opened a window was sent nothing and has no worker.
NothingBeforeTheWindow ==
  \A c \in Calls : callPc[c] \in NotOpened \cup {"enable"} =>
    /\ msgs[c] = <<>> /\ worker[c] = 0
    /\ \A k \in Kinds : work[<<c, k>>] = "none"

\* The verdict of a window is sent by the write of the stop that ends it.
VerdictsFollowTheStop ==
  /\ running => Verdicts(msgs[cfg]) = {} /\ worker[cfg] = 0
  /\ \A s \in Stoppers :
       /\ stopPc[s] = "launch" => worker[cfg] = 0
       /\ stopPc[s] \in InStop \ {"clear"} => Verdicts(msgs[cfg]) = {}
       /\ stopPc[s] = "clear" => Verdicts(msgs[cfg]) # {}
  /\ \A c \in Calls :
       /\ \A i, j \in Verdicts(msgs[c]) : i = j
       /\ worker[c] # 0 /\ ~(inFlight /\ cfg = c) => Verdicts(msgs[c]) # {}

-----------------------------------------------------------------------------
(* The records of a window.                                                        *)

Pending == {r \in Records : work[r] \in {"running", "ended"}}
Drained == enabled = {} /\ Pending = {}

\* What CUPTI holds, what it delivered and what is written belong to the window of cfg_.
RecordsAreOfTheWindow ==
  /\ \A r \in Pending : r[1] = cfg
  /\ \A r \in events : r[1] = cfg
  /\ \A s \in Stoppers : stopPc[s] = "write" => \A r \in snapshot[s] : r[1] = cfg
  /\ \A c \in Calls : file[c] # NoFile => \A r \in file[c] : r[1] = c

\* A teardown that ends leaves nothing behind in CUPTI.
TeardownsDrain ==
  \/ wedged \/ running \/ Drained
  \/ \E s \in Stoppers :
       \/ stopPc[s] = "launch"
       \/ /\ stopPc[s] = "wait" /\ worker[cfg] \in 1..Finished
          /\ \A k \in Kinds : k < worker[cfg] => k \notin enabled
          /\ worker[cfg] = Finished => Drained

Ind == TypeOK /\ Guards /\ NothingBeforeTheWindow /\ VerdictsFollowTheStop
        /\ RecordsAreOfTheWindow /\ TeardownsDrain

-----------------------------------------------------------------------------
LEMMA GuardsInit == Init => Guards
  BY CallsAssumption, KindsAssumption
  DEF Init, Guards, StopsAreGuarded, StartsAreGuarded, WorkersAreOwned, InStop, NotOpened, AtWork,
      Calls, None, Flushing, Stoppers

\* Steps of cuprof_start and Start keep the guards.
LEMMA GuardsStart ==
  ASSUME TypeOK, Guards, CuprofStart \/ \E c \in Calls : Start(c)
  PROVE  Guards'
  <1> USE DEF Guards, StopsAreGuarded, StartsAreGuarded, WorkersAreOwned, NotOpened,
              sinkVars, startVars, stopVars, cuptiVars, CallMoves
  <1>1. CASE CuprofStart
    <2>1. lastCall + 1 \in Calls
      BY <1>1, CallsAssumption DEF CuprofStart, TypeOK, Calls
    <2>2. StopsAreGuarded' /\ WorkersAreOwned'
      BY <1>1 DEF CuprofStart
    <2>3. ASSUME NEW c \in Calls, callPc'[c] = "enable" PROVE callPc[c] = "enable"
      BY <1>1, <2>1, <2>3 DEF CuprofStart, TypeOK
    <2>4. ASSUME NEW c \in Calls, c > lastCall' PROVE callPc'[c] = "none"
      BY <1>1, <2>1, <2>4, CallsAssumption DEF CuprofStart, TypeOK, Calls
    <2>5. ASSUME cfg \in Calls PROVE callPc'[cfg] \notin NotOpened
      <3>1. cfg # lastCall + 1
        BY <2>5, <2>1, CallsAssumption DEF TypeOK, Calls
      <3>2. QED
        BY <1>1, <2>5, <3>1 DEF CuprofStart, TypeOK
    <2>6. \A c \in Calls : callPc'[c] # "returned" => stopPc'[c] = "none"
      BY <1>1, <2>1, <2>4, CallsAssumption DEF CuprofStart, TypeOK, Calls
    <2>7. StartsAreGuarded'
      BY <1>1, <2>3, <2>4, <2>5, <2>6 DEF CuprofStart
    <2>8. QED
      BY <2>2, <2>7
  <1>2. ASSUME NEW c \in Calls, Start(c) PROVE Guards'
    <2>1. CASE StartRetired(c) \/ StartWhileStopping(c) \/ StartJoins(c)
      BY <2>1 DEF StartRetired, StartWhileStopping, StartJoins, StartReturns, StartFrame, AtStart, TypeOK
    <2>2. CASE StartOpens(c)
      BY <2>2 DEF StartOpens, AtStart, Rearm, StartFrame, TypeOK, None, Calls, InStop
    <2>3. CASE StartFails(c)
      BY <2>3 DEF StartFails, StartFrame, TypeOK
    <2>4. CASE StartRuns(c)
      BY <2>4 DEF StartRuns, StartFrame, TypeOK, InStop
    <2>5. CASE StartNotifies(c)
      BY <2>5 DEF StartNotifies, StartReturns, StartFrame, TypeOK
    <2>6. ASSUME NEW timed \in BOOLEAN, InstallHooks(c, timed) PROVE Guards'
      BY <2>6 DEF InstallHooks, TypeOK, InStop, Stoppers
    <2>7. QED
      BY <1>2, <2>1, <2>2, <2>3, <2>4, <2>5, <2>6 DEF Start
  <1>3. QED
    BY <1>1, <1>2

\* Steps of Stop, and the end of the process, keep the guards.
LEMMA GuardsStop ==
  ASSUME TypeOK, Guards,
         (\E s \in Stoppers : StopIsIdle(s) \/ StopBegins(s) \/ StopSequence(s)) \/ CallExit \/ Die
  PROVE  Guards'
  <1> USE DEF Guards, StopsAreGuarded, StartsAreGuarded, WorkersAreOwned, InStop, TypeOK,
              sinkVars, startVars, stopVars, cuptiVars, StopFrame, StopMoves
  <1>1. ASSUME NEW s \in Stoppers, StopIsIdle(s) \/ StopBegins(s) \/ StopSequence(s) PROVE Guards'
    <2>1. CASE StopIsIdle(s)
      BY <2>1 DEF StopIsIdle, CallsStop
    <2>2. CASE StopBegins(s)
      <3>1. \A q \in Stoppers : stopPc[q] \notin InStop
        BY <2>2 DEF StopBegins
      <3>2. \A c \in Calls : callPc[c] # "enable"
        BY <2>2 DEF StopBegins, CallsStop, None, Calls
      <3>3. \A q \in Stoppers \ {s} : stopPc'[q] = stopPc[q]
        BY <2>2 DEF StopBegins
      <3>4. stopPc'[s] = "launch" /\ inFlight' /\ ~running' /\ running
        BY <2>2 DEF StopBegins
      <3>5. StopsAreGuarded'
        BY <3>1, <3>3, <3>4
      <3>6. StartsAreGuarded' /\ WorkersAreOwned'
        BY <2>2, <3>1, <3>2, <3>3, <3>4 DEF StopBegins, CallsStop
      <3>7. QED
        BY <3>5, <3>6
    <2>3. CASE LaunchTeardown(s)
      BY <2>3 DEF LaunchTeardown
    <2>4. CASE TeardownDone(s)
      BY <2>4, KindsAssumption DEF TeardownDone, AtWork, Finished, Flushing
    <2>5. CASE TeardownTimedOut(s)
      BY <2>5 DEF TeardownTimedOut, TimesOut, None, Calls
    <2>6. CASE SwapEvents(s)
      BY <2>6 DEF SwapEvents
    <2>7. CASE WriteFails(s) \/ WriteSucceeds(s)
      <3>1. /\ stopPc[s] = "write" /\ stopPc' = [stopPc EXCEPT ![s] = "clear"]
            /\ UNCHANGED <<mu, cfg, running, wedged, inFlight, lastCall, callPc, worker>>
        BY <2>7 DEF WriteFails, WriteSucceeds, Writes
      <3>2. QED
        BY <3>1
    <2>8. CASE StopEnds(s)
      BY <2>8 DEF StopEnds
    <2>9. QED
      BY <1>1, <2>1, <2>2, <2>3, <2>4, <2>5, <2>6, <2>7, <2>8 DEF StopSequence
  <1>2. CASE CallExit
    BY <1>2 DEF CallExit, Stoppers, Calls, Exit
  <1>3. CASE Die
    BY <1>3 DEF Die
  <1>4. QED
    BY <1>1, <1>2, <1>3

\* Steps of CUPTI and of the workers keep the guards.
LEMMA GuardsCupti ==
  ASSUME TypeOK, Guards, Cupti
  PROVE  Guards'
  <1> USE DEF Guards, StopsAreGuarded, StartsAreGuarded, WorkersAreOwned, TypeOK,
              sinkVars, startVars, stopVars, CuptiFrame
  <1>1. ASSUME NEW k \in Kinds, LaunchWork(k) PROVE Guards'
    BY <1>1 DEF LaunchWork
  <1>2. ASSUME NEW r \in Records, WorkEnds(r) \/ DeliverRecord(r) PROVE Guards'
    BY <1>2 DEF WorkEnds, DeliverRecord
  <1>3. ASSUME NEW w \in Calls, WorkerDisables(w) \/ WorkerFinishes(w) PROVE Guards'
    <2>1. worker[w] \in AtWork
      BY <1>3, KindsAssumption DEF WorkerDisables, WorkerFinishes, Kinds, AtWork, Flushing
    <2>2. \A v \in Calls : v # w => worker'[v] = worker[v]
      BY <1>3 DEF WorkerDisables, WorkerFinishes
    <2>3. QED
      BY <1>3, <2>1, <2>2 DEF WorkerDisables, WorkerFinishes
  <1>4. QED
    BY <1>1, <1>2, <1>3 DEF Cupti

LEMMA GuardsStep == TypeOK /\ Guards /\ [Next]_vars => Guards'
  <1>1. ASSUME Guards, UNCHANGED vars PROVE Guards'
    BY <1>1 DEF Guards, StopsAreGuarded, StartsAreGuarded, WorkersAreOwned, vars
  <1>2. QED
    BY <1>1, GuardsStart, GuardsStop, GuardsCupti DEF Next

LEMMA GuardsHold == Spec => [](TypeOK /\ Guards)
  BY TypeInit, TypeStep, GuardsInit, GuardsStep, PTL DEF Spec

\* OneStopAtATime: the stops past the guard are one when teardown_in_flight_ is set, and
\* none when it is not.
LEMMA GuardsGiveOneStop == Guards => OneStopAtATime
  <1> SUFFICES ASSUME Guards PROVE OneStopAtATime
    OBVIOUS
  <1> DEFINE Stopping == {s \in Stoppers : stopPc[s] \in {"launch", "wait", "swap", "write", "clear"}}
  <1>1. CASE inFlight
    <2>1. PICK s \in Stoppers : stopPc[s] \in InStop
      BY <1>1 DEF Guards, StopsAreGuarded
    <2>2. Stopping = {s}
      BY <2>1 DEF Guards, StopsAreGuarded, InStop
    <2>3. Cardinality(Stopping) = 1
      BY <2>2, FS_Singleton
    <2>4. QED
      BY <1>1, <2>3 DEF OneStopAtATime, Guards, StopsAreGuarded
  <1>2. CASE ~inFlight
    <2>1. Stopping = {}
      BY <1>2 DEF Guards, StopsAreGuarded, InStop
    <2>2. Cardinality(Stopping) = 0
      BY <2>1, FS_EmptySet
    <2>3. QED
      BY <1>2, <2>2 DEF OneStopAtATime
  <1>3. QED
    BY <1>1, <1>2

\* However many timers and exit handlers call Stop, one of them is past its guard while
\* teardown_in_flight_ is set, and none otherwise.
THEOREM OneStop == Spec => []OneStopAtATime
  BY GuardsHold, GuardsGiveOneStop, PTL

\* No teardown worker disables a kind of a running window: an abandoned one has retired
\* the instance, and any other belongs to a stop that is still in flight.
THEOREM RunningWindowsAreLeftAlone == Spec => NothingDisablesARunningWindow
  <1>1. ASSUME TypeOK, Guards, [Next]_vars, running, running' PROVE enabled \subseteq enabled'
    <2>1. CASE UNCHANGED vars
      BY <2>1 DEF vars
    <2>2. CASE CuprofStart
      BY <2>2 DEF CuprofStart, cuptiVars
    <2>3. ASSUME NEW c \in Calls, Start(c) PROVE enabled \subseteq enabled'
      BY <2>3 DEF Start, StartRetired, StartWhileStopping, StartJoins, StartReturns, StartOpens, Rearm,
                  StartFails, StartRuns, StartNotifies, InstallHooks, cuptiVars
    <2>4. ASSUME NEW s \in Stoppers, StopIsIdle(s) \/ StopBegins(s) \/ StopSequence(s)
          PROVE  enabled \subseteq enabled'
      BY <2>4 DEF StopIsIdle, StopBegins, StopSequence, LaunchTeardown, TeardownDone, TeardownTimedOut,
                  TimesOut, SwapEvents, WriteFails, WriteSucceeds, Writes, StopEnds, cuptiVars
    <2>5. CASE CallExit \/ Die
      BY <2>5 DEF CallExit, Die, cuptiVars
    <2>6. ASSUME NEW w \in Calls PROVE ~WorkerDisables(w)
      <3>1. worker[w] \notin AtWork
        BY <1>1 DEF Guards, StopsAreGuarded, WorkersAreOwned, InStop
      <3>2. QED
        BY <3>1, KindsAssumption DEF WorkerDisables, Kinds, AtWork, Flushing
    <2>7. CASE Cupti
      BY <2>6, <2>7 DEF Cupti, LaunchWork, WorkEnds, DeliverRecord, WorkerFinishes
    <2>8. QED
      BY <1>1, <2>1, <2>2, <2>3, <2>4, <2>5, <2>7 DEF Next
  <1>2. TypeOK /\ Guards /\ [Next]_vars => [running /\ running' => enabled \subseteq enabled']_vars
    BY <1>1
  <1>3. QED
    BY <1>2, GuardsHold, PTL DEF Spec, NothingDisablesARunningWindow

-----------------------------------------------------------------------------
\* What one more message does to the verdicts of a window.
LEMMA VerdictsOfAppend ==
  ASSUME NEW m \in Seq(Messages), NEW x \in Messages
  PROVE  /\ x \in Terminal => Verdicts(Append(m, x)) = Verdicts(m) \cup {Len(m) + 1}
         /\ x \notin Terminal => Verdicts(Append(m, x)) = Verdicts(m)
         /\ Len(m) + 1 \notin Verdicts(m)
  <1>1. /\ DOMAIN Append(m, x) = DOMAIN m \cup {Len(m) + 1}
        /\ \A i \in DOMAIN m : Append(m, x)[i] = m[i]
        /\ Append(m, x)[Len(m) + 1] = x
        /\ Len(m) + 1 \notin DOMAIN m
    OBVIOUS
  <1>2. QED
    BY <1>1 DEF Verdicts

LEMMA NoVerdicts == Verdicts(<<>>) = {}
  BY DEF Verdicts

LEMMA VerdictsInit == Init => NothingBeforeTheWindow /\ VerdictsFollowTheStop
  BY NoVerdicts
  DEF Init, NothingBeforeTheWindow, VerdictsFollowTheStop, InStop, Records, Stoppers

\* While a call enables kinds, and whenever no window runs or is being stopped, CUPTI is
\* drained, unless the instance is retired.
LEMMA DrainedBetweenWindows ==
  ASSUME Ind, ~running, ~inFlight, ~wedged
  PROVE  Drained
  BY DEF Ind, Guards, StopsAreGuarded, TeardownsDrain, InStop

\* A call that has not opened a window was sent nothing, has no worker and no work.
LEMMA NothingBeforeStep ==
  ASSUME Ind, [Next]_vars
  PROVE  NothingBeforeTheWindow'
  <1> USE DEF NothingBeforeTheWindow, NotOpened
  <1>1. CASE UNCHANGED vars
    BY <1>1 DEF Ind, vars
  <1>2. CASE CuprofStart
    <2>1. lastCall + 1 \in Calls /\ callPc[lastCall + 1] = "none"
      BY <1>2, CallsAssumption DEF CuprofStart, Ind, TypeOK, Calls, Guards, StartsAreGuarded
    <2>2. QED
      BY <1>2, <2>1 DEF CuprofStart, CallMoves, Ind, TypeOK, cuptiVars
  <1>3. ASSUME NEW c \in Calls, Start(c) PROVE NothingBeforeTheWindow'
    <2>1. UNCHANGED <<worker, work>>
      BY <1>3 DEF Start, StartRetired, StartWhileStopping, StartJoins, StartReturns, StartOpens, Rearm,
                  StartFails, StartRuns, StartNotifies, InstallHooks, StartFrame, cuptiVars
    <2>2. \A d \in Calls \ {c} : callPc'[d] = callPc[d] /\ msgs'[d] = msgs[d]
      BY <1>3 DEF Start, StartRetired, StartWhileStopping, StartJoins, StartReturns, StartOpens, Rearm,
                  StartFails, StartRuns, StartNotifies, InstallHooks, CallMoves, Notify, Ind, TypeOK
    <2>3. callPc'[c] \in {"none", "start", "enable"} => callPc[c] = "start" /\ msgs' = msgs
      BY <1>3 DEF Start, StartRetired, StartWhileStopping, StartJoins, StartReturns, StartOpens, Rearm,
                  StartFails, StartRuns, StartNotifies, InstallHooks, CallMoves, AtStart, Ind, TypeOK
    <2>4. QED
      BY <2>1, <2>2, <2>3 DEF Ind
  <1>4. ASSUME NEW s \in Stoppers, StopIsIdle(s) \/ StopBegins(s) PROVE NothingBeforeTheWindow'
    BY <1>4 DEF StopIsIdle, StopBegins, StopFrame, startVars, cuptiVars, Ind
  <1>5. ASSUME NEW s \in Stoppers, StopSequence(s) PROVE NothingBeforeTheWindow'
    <2>1. UNCHANGED <<callPc, work>>
      BY <1>5 DEF StopSequence, LaunchTeardown, TeardownDone, TeardownTimedOut, TimesOut, SwapEvents,
                  WriteFails, WriteSucceeds, Writes, StopEnds, StopFrame, startVars, cuptiVars
    <2>2. \A c \in Calls : c # cfg => worker'[c] = worker[c] /\ msgs'[c] = msgs[c]
      BY <1>5 DEF StopSequence, LaunchTeardown, TeardownDone, TeardownTimedOut, TimesOut, SwapEvents,
                  WriteFails, WriteSucceeds, Writes, StopEnds, StopFrame, cuptiVars, Notify, Ind, TypeOK
    <2>3. inFlight
      BY <1>5 DEF StopSequence, LaunchTeardown, TeardownDone, TeardownTimedOut, TimesOut, SwapEvents,
                  WriteFails, WriteSucceeds, Writes, StopEnds, Ind, Guards, StopsAreGuarded, InStop
    <2>4. cfg \in Calls /\ callPc[cfg] \notin {"none", "start", "enable"}
      BY <2>3 DEF Ind, Guards, StartsAreGuarded
    <2>5. QED
      BY <2>1, <2>2, <2>4 DEF Ind
  <1>6. CASE CallExit \/ Die
    BY <1>6 DEF CallExit, Die, startVars, cuptiVars, Ind
  <1>7. CASE Cupti
    <2>1. ASSUME NEW k \in Kinds, LaunchWork(k) PROVE NothingBeforeTheWindow'
      <3>1. \A c \in Calls : callPc[c] \in {"none", "start", "enable"} => c # cfg
        <4>1. \A c \in Calls : callPc[c] # "enable"
          BY <2>1, DrainedBetweenWindows DEF LaunchWork, Drained, Ind, Guards, StartsAreGuarded
        <4>2. QED
          BY <4>1 DEF Ind, Guards, StartsAreGuarded
      <3>2. \A c \in Calls, l \in Kinds : c # cfg => work'[<<c, l>>] = work[<<c, l>>]
        BY <2>1 DEF LaunchWork, Ind, TypeOK, Records
      <3>3. UNCHANGED <<callPc, msgs, worker>>
        BY <2>1 DEF LaunchWork, CuptiFrame, startVars
      <3>4. QED
        BY <3>1, <3>2, <3>3 DEF Ind
    <2>2. ASSUME NEW r \in Records, WorkEnds(r) \/ DeliverRecord(r) PROVE NothingBeforeTheWindow'
      <3>1. work[r] # "none" /\ UNCHANGED <<callPc, msgs, worker>>
        BY <2>2 DEF WorkEnds, DeliverRecord, CuptiFrame, startVars
      <3>2. \A q \in Records : work[q] = "none" => work'[q] = "none"
        BY <2>2, <3>1 DEF WorkEnds, DeliverRecord, Ind, TypeOK
      <3>3. QED
        BY <3>1, <3>2 DEF Ind, Records
    <2>3. ASSUME NEW w \in Calls, WorkerDisables(w) \/ WorkerFinishes(w) PROVE NothingBeforeTheWindow'
      <3>1. worker[w] # 0
        BY <2>3, KindsAssumption DEF WorkerDisables, WorkerFinishes, Kinds, Flushing
      <3>2. \A v \in Calls : worker[v] = 0 => worker'[v] = 0
        BY <2>3, <3>1 DEF WorkerDisables, WorkerFinishes, Ind, TypeOK
      <3>3. UNCHANGED <<callPc, msgs, work>>
        BY <2>3 DEF WorkerDisables, WorkerFinishes, CuptiFrame, startVars
      <3>4. QED
        BY <3>2, <3>3 DEF Ind
    <2>4. QED
      BY <1>7, <2>1, <2>2, <2>3 DEF Cupti
  <1>8. QED
    BY <1>1, <1>2, <1>3, <1>4, <1>5, <1>6, <1>7 DEF Next

\* A step that sends no verdict and leaves the stops and the workers alone keeps the
\* account of the verdicts.
LEMMA VerdictsUntouched ==
  ASSUME Ind, UNCHANGED <<cfg, inFlight, stopPc>>, running' => running,
         \A c \in Calls : worker[c] = 0 <=> worker'[c] = 0,
         \A c \in Calls : Verdicts(msgs'[c]) = Verdicts(msgs[c])
  PROVE  VerdictsFollowTheStop'
  BY DEF Ind, VerdictsFollowTheStop, Guards, StopsAreGuarded, StartsAreGuarded, InStop

\* Steps of Start keep the account: a window opens with none, and a retired instance
\* reports once.
LEMMA VerdictsStart ==
  ASSUME Ind, NEW c \in Calls, Start(c)
  PROVE  VerdictsFollowTheStop'
  <1>1. CASE StartRetired(c)
    <2>1. cfg # c /\ msgs[c] = <<>> /\ worker[c] = 0
      BY <1>1 DEF StartRetired, AtStart, Ind, Guards, StartsAreGuarded, NothingBeforeTheWindow, NotOpened
    <2>2. msgs'[c] = Append(<<>>, "Failed") /\ \A d \in Calls : d # c => msgs'[d] = msgs[d]
      BY <1>1, <2>1 DEF StartRetired, Notify, Ind, TypeOK
    <2>3. Verdicts(msgs'[c]) = {1}
      <3>1. msgs[c] \in Seq(Messages) /\ Len(msgs[c]) = 0 /\ Verdicts(msgs[c]) = {}
        BY <2>1, NoVerdicts DEF Ind, TypeOK
      <3>2. "Failed" \in Terminal /\ "Failed" \in Messages /\ msgs'[c] = Append(msgs[c], "Failed")
        BY <2>1, <2>2 DEF Messages, Terminal
      <3>3. Verdicts(Append(msgs[c], "Failed")) = Verdicts(msgs[c]) \cup {Len(msgs[c]) + 1}
        BY <3>1, <3>2, VerdictsOfAppend
      <3>4. QED
        BY <3>1, <3>2, <3>3
    <2>4. UNCHANGED <<cfg, running, inFlight, stopPc, worker>>
      BY <1>1 DEF StartRetired, StartReturns, StartFrame, sinkVars, stopVars
    <2>5. QED
      <3>1. running \/ inFlight => msgs'[cfg] = msgs[cfg]
        BY <2>1, <2>2 DEF Ind, Guards, StartsAreGuarded
      <3>2. \A s \in Stoppers : stopPc[s] \in InStop => inFlight
        BY DEF Ind, Guards, StopsAreGuarded
      <3>3. \A d \in Calls :
              /\ \A i, j \in Verdicts(msgs'[d]) : i = j
              /\ worker[d] # 0 => msgs'[d] = msgs[d]
        BY <2>1, <2>2, <2>3 DEF Ind, VerdictsFollowTheStop
      <3>4. \A d \in Calls : worker[d] # 0 /\ ~(inFlight /\ cfg = d) => Verdicts(msgs'[d]) # {}
        BY <3>3 DEF Ind, VerdictsFollowTheStop
      <3>5. /\ running => Verdicts(msgs'[cfg]) = {} /\ worker[cfg] = 0
            /\ \A s \in Stoppers :
                 /\ stopPc[s] = "launch" => worker[cfg] = 0
                 /\ stopPc[s] \in InStop \ {"clear"} => Verdicts(msgs'[cfg]) = {}
                 /\ stopPc[s] = "clear" => Verdicts(msgs'[cfg]) # {}
        BY <3>1, <3>2 DEF Ind, VerdictsFollowTheStop, InStop
      <3>6. cfg' = cfg /\ running' = running /\ inFlight' = inFlight /\ stopPc' = stopPc /\ worker' = worker
        BY <2>4
      <3>7. /\ running' => Verdicts(msgs'[cfg']) = {} /\ worker'[cfg'] = 0
            /\ \A s \in Stoppers :
                 /\ stopPc'[s] = "launch" => worker'[cfg'] = 0
                 /\ stopPc'[s] \in InStop \ {"clear"} => Verdicts(msgs'[cfg']) = {}
                 /\ stopPc'[s] = "clear" => Verdicts(msgs'[cfg']) # {}
        BY <3>5, <3>6
      <3>8. \A d \in Calls :
              /\ \A i, j \in Verdicts(msgs'[d]) : i = j
              /\ worker'[d] # 0 /\ ~(inFlight' /\ cfg' = d) => Verdicts(msgs'[d]) # {}
        BY <3>3, <3>4, <3>6
      <3>9. QED
        BY <3>7, <3>8 DEF VerdictsFollowTheStop
  <1>2. CASE StartOpens(c)
    <2>1. /\ ~running /\ ~inFlight /\ UNCHANGED <<running, inFlight, stopPc, worker, msgs>>
      BY <1>2 DEF StartOpens, Rearm, StartFrame, stopVars
    <2>2. \A s \in Stoppers : stopPc[s] \notin InStop
      BY <2>1 DEF Ind, Guards, StopsAreGuarded
    <2>3. QED
      BY <2>1, <2>2 DEF Ind, VerdictsFollowTheStop, InStop
  <1>3. CASE StartRuns(c)
    <2>1. cfg = c /\ ~inFlight /\ msgs[c] = <<>> /\ worker[c] = 0
      BY <1>3 DEF StartRuns, Ind, Guards, StartsAreGuarded, NothingBeforeTheWindow
    <2>2. UNCHANGED <<cfg, inFlight, stopPc, worker, msgs>>
      BY <1>3 DEF StartRuns, StartFrame, stopVars
    <2>3. QED
      BY <2>1, <2>2, NoVerdicts DEF Ind, VerdictsFollowTheStop
  <1>4. CASE StartWhileStopping(c) \/ StartJoins(c) \/ StartFails(c)
    <2>1. UNCHANGED <<cfg, inFlight, stopPc, running, worker, msgs>>
      BY <1>4
      DEF StartWhileStopping, StartJoins, StartFails, StartReturns, StartFrame, sinkVars, stopVars
    <2>2. QED
      BY <2>1, VerdictsUntouched
  <1>5. CASE StartNotifies(c)
    <2>1. msgs' = [msgs EXCEPT ![c] = Append(@, "Start")]
      BY <1>5 DEF StartNotifies, Notify
    <2>2. \A d \in Calls : Verdicts(msgs'[d]) = Verdicts(msgs[d])
      BY <2>1, VerdictsOfAppend DEF Ind, TypeOK, Messages, Terminal
    <2>3. QED
      BY <1>5, <2>2, VerdictsUntouched DEF StartNotifies, StartReturns, StartFrame, sinkVars, stopVars
  <1>6. ASSUME NEW timed \in BOOLEAN, InstallHooks(c, timed) PROVE VerdictsFollowTheStop'
    <2>1. UNCHANGED <<cfg, running, inFlight, worker, msgs>>
      BY <1>6 DEF InstallHooks, sinkVars, cuptiVars
    <2>2. \A s \in Stoppers : stopPc'[s] # stopPc[s] => stopPc'[s] = "armed"
      BY <1>6 DEF InstallHooks, Ind, TypeOK
    <2>3. QED
      BY <2>1, <2>2 DEF Ind, VerdictsFollowTheStop, InStop
  <1>7. QED
    BY <1>1, <1>2, <1>3, <1>4, <1>5, <1>6 DEF Start

\* Steps of Stop keep the account: its write sends the one verdict.
LEMMA VerdictsStop ==
  ASSUME Ind, NEW s \in Stoppers, StopIsIdle(s) \/ StopBegins(s) \/ StopSequence(s)
  PROVE  VerdictsFollowTheStop'
  <1> USE DEF InStop
  <1>1. CASE StopIsIdle(s)
    <2>1. UNCHANGED <<cfg, running, inFlight, worker, msgs>>
      BY <1>1 DEF StopIsIdle, sinkVars, cuptiVars
    <2>2. \A q \in Stoppers : stopPc'[q] # stopPc[q] => stopPc'[q] = "done"
      BY <1>1 DEF StopIsIdle, StopMoves, Ind, TypeOK
    <2>3. QED
      BY <2>1, <2>2 DEF Ind, VerdictsFollowTheStop
  <1>2. CASE StopBegins(s)
    <2>1. /\ running /\ ~running' /\ inFlight' /\ UNCHANGED <<cfg, worker, msgs>>
          /\ \A q \in Stoppers : stopPc'[q] = IF q = s THEN "launch" ELSE stopPc[q]
      BY <1>2 DEF StopBegins, StopMoves, Ind, TypeOK, cuptiVars
    <2>2. QED
      BY <2>1 DEF Ind, VerdictsFollowTheStop, Guards, StopsAreGuarded
  <1>3. ASSUME StopSequence(s) PROVE inFlight /\ cfg \in Calls /\ \A q \in Stoppers \ {s} : stopPc[q] \notin InStop
    BY <1>3 DEF StopSequence, LaunchTeardown, TeardownDone, TeardownTimedOut, TimesOut, SwapEvents,
                WriteFails, WriteSucceeds, Writes, StopEnds, Ind, Guards, StopsAreGuarded, StartsAreGuarded
  <1>4. ASSUME StopSequence(s)
        PROVE  \A q \in Stoppers \ {s} : stopPc'[q] = stopPc[q]
    BY <1>4 DEF StopSequence, LaunchTeardown, TeardownDone, TeardownTimedOut, TimesOut, SwapEvents,
                WriteFails, WriteSucceeds, Writes, StopEnds, StopMoves, Ind, TypeOK
  <1>5. ASSUME StopSequence(s)
        PROVE  UNCHANGED <<cfg, running>>
    BY <1>5 DEF StopSequence, LaunchTeardown, TeardownDone, TeardownTimedOut, TimesOut, SwapEvents,
                WriteFails, WriteSucceeds, Writes, StopEnds, sinkVars
  <1>6. CASE LaunchTeardown(s)
    <2>1. /\ stopPc'[s] = "wait" /\ stopPc[s] = "launch" /\ UNCHANGED <<inFlight, msgs>>
          /\ \A c \in Calls : worker'[c] = IF c = cfg THEN 1 ELSE worker[c]
      BY <1>6 DEF LaunchTeardown, StopMoves, sinkVars, Ind, TypeOK
    <2>2. QED
      BY <1>3, <1>4, <1>5, <1>6, <2>1
      DEF StopSequence, Ind, VerdictsFollowTheStop, Guards, StopsAreGuarded
  <1>7. CASE TeardownDone(s)
    <2>1. /\ stopPc'[s] = "swap" /\ stopPc[s] = "wait" /\ UNCHANGED <<inFlight, worker>>
          /\ msgs' = [msgs EXCEPT ![cfg] = Append(@, "Stop")]
      BY <1>7 DEF TeardownDone, StopMoves, Notify, sinkVars, cuptiVars, Ind, TypeOK
    <2>2. \A c \in Calls : Verdicts(msgs'[c]) = Verdicts(msgs[c])
      BY <2>1, VerdictsOfAppend DEF Ind, TypeOK, Messages, Terminal
    <2>3. Verdicts(msgs[cfg]) = {} /\ Verdicts(msgs'[cfg]) = {}
      BY <1>3, <1>7, <2>1, <2>2 DEF StopSequence, Ind, VerdictsFollowTheStop
    <2>4. ~running /\ inFlight
      BY <1>3, <1>7 DEF StopSequence, Ind, Guards, StopsAreGuarded
    <2>5. \A c \in Calls : \A i, j \in Verdicts(msgs'[c]) : i = j
      BY <2>2 DEF Ind, VerdictsFollowTheStop
    <2>6. \A q \in Stoppers \ {s} : stopPc'[q] \notin InStop
      BY <1>3, <1>4, <1>7 DEF StopSequence
    <2>7. \A c \in Calls : worker[c] # 0 /\ ~(inFlight /\ cfg = c) => Verdicts(msgs'[c]) # {}
      BY <2>2 DEF Ind, VerdictsFollowTheStop
    <2>8. UNCHANGED <<cfg, running>>
      BY <1>5, <1>7 DEF StopSequence
    <2>9. QED
      BY <2>1, <2>3, <2>4, <2>5, <2>6, <2>7, <2>8 DEF VerdictsFollowTheStop
  <1>8. CASE TeardownTimedOut(s) \/ SwapEvents(s)
    <2>1. /\ stopPc'[s] \in {"swap", "write"} /\ stopPc[s] \in {"wait", "swap"}
          /\ UNCHANGED <<inFlight, worker, msgs>>
      BY <1>8 DEF TeardownTimedOut, TimesOut, SwapEvents, StopMoves, sinkVars, cuptiVars, Ind, TypeOK
    <2>2. QED
      BY <1>3, <1>4, <1>5, <1>8, <2>1
      DEF StopSequence, Ind, VerdictsFollowTheStop, Guards, StopsAreGuarded
  <1>9. CASE WriteFails(s) \/ WriteSucceeds(s)
    <2>1. /\ stopPc'[s] = "clear" /\ stopPc[s] = "write" /\ UNCHANGED <<inFlight, worker>>
          /\ \E x \in Terminal : msgs' = [msgs EXCEPT ![cfg] = Append(@, x)]
      BY <1>9 DEF WriteFails, WriteSucceeds, Writes, StopMoves, Notify, sinkVars, cuptiVars, Ind, TypeOK, Terminal
    <2>2. /\ Verdicts(msgs'[cfg]) = Verdicts(msgs[cfg]) \cup {Len(msgs[cfg]) + 1}
          /\ \A c \in Calls \ {cfg} : msgs'[c] = msgs[c]
      <3>1. PICK x \in Terminal : msgs' = [msgs EXCEPT ![cfg] = Append(@, x)]
        BY <2>1
      <3>2. x \in Messages /\ cfg \in Calls
        BY <1>3, <1>9 DEF StopSequence, Messages
      <3>3. msgs[cfg] \in Seq(Messages) /\ msgs'[cfg] = Append(msgs[cfg], x)
        BY <3>1, <3>2 DEF Ind, TypeOK
      <3>4. Verdicts(Append(msgs[cfg], x)) = Verdicts(msgs[cfg]) \cup {Len(msgs[cfg]) + 1}
        BY <3>1, <3>2, <3>3, VerdictsOfAppend
      <3>5. QED
        BY <3>1, <3>3, <3>4 DEF Ind, TypeOK
    <2>3. Verdicts(msgs[cfg]) = {}
      BY <2>1 DEF Ind, VerdictsFollowTheStop
    <2>4. ~running /\ inFlight
      BY <1>3, <1>9 DEF StopSequence, Ind, Guards, StopsAreGuarded
    <2>5. \A c \in Calls : \A i, j \in Verdicts(msgs'[c]) : i = j
      <3>1. \A i, j \in Verdicts(msgs'[cfg]) : i = j
        BY <2>2, <2>3
      <3>2. \A c \in Calls \ {cfg} : Verdicts(msgs'[c]) = Verdicts(msgs[c])
        BY <2>2
      <3>3. QED
        BY <3>1, <3>2 DEF Ind, VerdictsFollowTheStop
    <2>6. Verdicts(msgs'[cfg]) # {}
      BY <2>2
    <2>7. \A q \in Stoppers \ {s} : stopPc'[q] \notin InStop
      BY <1>3, <1>4, <1>9 DEF StopSequence
    <2>8. \A c \in Calls : worker[c] # 0 /\ ~(inFlight /\ cfg = c) => Verdicts(msgs'[c]) # {}
      BY <2>2 DEF Ind, VerdictsFollowTheStop
    <2>9. UNCHANGED <<cfg, running>>
      BY <1>5, <1>9 DEF StopSequence
    <2>10. QED
      BY <2>1, <2>4, <2>5, <2>6, <2>7, <2>8, <2>9 DEF VerdictsFollowTheStop
  <1>10. CASE StopEnds(s)
    <2>1. /\ stopPc'[s] = "done" /\ stopPc[s] = "clear" /\ UNCHANGED <<worker, msgs>>
      BY <1>10 DEF StopEnds, StopMoves, cuptiVars, Ind, TypeOK
    <2>2. Verdicts(msgs[cfg]) # {}
      BY <2>1 DEF Ind, VerdictsFollowTheStop
    <2>3. QED
      BY <1>3, <1>4, <1>5, <1>10, <2>1, <2>2
      DEF StopSequence, Ind, VerdictsFollowTheStop, Guards, StopsAreGuarded
  <1>11. QED
    BY <1>1, <1>2, <1>6, <1>7, <1>8, <1>9, <1>10 DEF StopSequence

LEMMA VerdictsStep ==
  ASSUME Ind, [Next]_vars
  PROVE  VerdictsFollowTheStop'
  <1>1. CASE UNCHANGED vars
    BY <1>1 DEF Ind, VerdictsFollowTheStop, vars
  <1>2. CASE CuprofStart
    BY <1>2, VerdictsUntouched DEF CuprofStart, sinkVars, stopVars, cuptiVars
  <1>3. CASE CallExit
    <2>1. \A s \in Stoppers : stopPc'[s] # stopPc[s] => stopPc'[s] \in {"armed", "done"}
      BY <1>3 DEF CallExit, StopMoves, Ind, TypeOK
    <2>2. QED
      BY <1>3, <2>1 DEF CallExit, sinkVars, cuptiVars, Ind, VerdictsFollowTheStop, InStop
  <1>4. CASE Die
    BY <1>4, VerdictsUntouched DEF Die, sinkVars, stopVars, cuptiVars
  <1>5. CASE Cupti
    <2>1. UNCHANGED <<cfg, inFlight, stopPc, running, msgs>>
      BY <1>5 DEF Cupti, LaunchWork, WorkEnds, DeliverRecord, WorkerDisables, WorkerFinishes, CuptiFrame,
                  sinkVars, stopVars
    <2>2. \A c \in Calls : worker[c] = 0 <=> worker'[c] = 0
      <3>1. CASE worker' = worker
        BY <3>1
      <3>2. ASSUME NEW w \in Calls, WorkerDisables(w) \/ WorkerFinishes(w)
            PROVE  \A c \in Calls : worker[c] = 0 <=> worker'[c] = 0
        <4>1. worker[w] # 0 /\ worker[w] \in Nat
          BY <3>2, KindsAssumption DEF WorkerDisables, WorkerFinishes, Kinds, Flushing
        <4>2. worker'[w] # 0
          BY <3>2, <4>1, KindsAssumption DEF WorkerDisables, WorkerFinishes, Finished, Ind, TypeOK
        <4>3. \A c \in Calls \ {w} : worker'[c] = worker[c]
          BY <3>2 DEF WorkerDisables, WorkerFinishes, Ind, TypeOK
        <4>4. QED
          BY <4>1, <4>2, <4>3
      <3>3. QED
        BY <1>5, <3>1, <3>2 DEF Cupti, LaunchWork, WorkEnds, DeliverRecord
    <2>3. QED
      BY <2>1, <2>2, VerdictsUntouched
  <1>6. QED
    BY <1>1, <1>2, <1>3, <1>4, <1>5, VerdictsStart, VerdictsStop DEF Next

-----------------------------------------------------------------------------
LEMMA RecordsInit == Init => RecordsAreOfTheWindow /\ TeardownsDrain
  BY DEF Init, RecordsAreOfTheWindow, TeardownsDrain, Drained, Pending, Stoppers

\* Nothing is pending or delivered when a window opens, and until then everything is of
\* the window before.
LEMMA RecordsStart ==
  ASSUME Ind, NEW c \in Calls, Start(c)
  PROVE  RecordsAreOfTheWindow'
  <1>1. UNCHANGED <<work, snapshot, file>>
    BY DEF Start, StartRetired, StartWhileStopping, StartJoins, StartReturns, StartOpens, Rearm,
                StartFails, StartRuns, StartNotifies, InstallHooks, StartFrame, stopVars, cuptiVars
  <1>2. CASE StartOpens(c)
    <2>1. Drained /\ events' = {} /\ UNCHANGED stopPc
      BY <1>2, DrainedBetweenWindows DEF StartOpens, AtStart, Rearm, StartFrame, stopVars
    <2>2. \A s \in Stoppers : stopPc[s] # "write"
      BY <1>2 DEF StartOpens, Ind, Guards, StopsAreGuarded, InStop
    <2>3. QED
      BY <1>1, <2>1, <2>2 DEF Drained, Pending, Ind, RecordsAreOfTheWindow
  <1>3. CASE ~StartOpens(c)
    <2>1. UNCHANGED <<cfg, events>>
      BY <1>3 DEF Start, StartRetired, StartWhileStopping, StartJoins, StartReturns,
                  StartFails, StartRuns, StartNotifies, InstallHooks, sinkVars
    <2>2. \A s \in Stoppers : stopPc'[s] = "write" => stopPc[s] = "write"
      BY <1>3 DEF Start, StartRetired, StartWhileStopping, StartJoins, StartReturns, StartFrame,
                  StartFails, StartRuns, StartNotifies, InstallHooks, stopVars, Ind, TypeOK
    <2>3. QED
      BY <1>1, <2>1, <2>2 DEF Pending, Ind, RecordsAreOfTheWindow
  <1>4. QED
    BY <1>2, <1>3

\* A stop writes the records of its own window into its own file.
LEMMA RecordsStop ==
  ASSUME Ind, NEW s \in Stoppers, StopIsIdle(s) \/ StopBegins(s) \/ StopSequence(s)
  PROVE  RecordsAreOfTheWindow'
  <1>1. UNCHANGED <<cfg, work>>
    BY DEF StopIsIdle, StopBegins, StopSequence, LaunchTeardown, TeardownDone, TeardownTimedOut, TimesOut,
           SwapEvents, WriteFails, WriteSucceeds, Writes, StopEnds, sinkVars, cuptiVars
  <1>2. CASE SwapEvents(s)
    <2>1. /\ \A q \in Stoppers : snapshot'[q] = IF q = s THEN events ELSE snapshot[q]
          /\ \A q \in Stoppers \ {s} : stopPc'[q] = stopPc[q]
          /\ events' = {} /\ UNCHANGED file
      BY <1>2 DEF SwapEvents, StopMoves, Ind, TypeOK
    <2>2. QED
      BY <1>1, <2>1 DEF Pending, Ind, RecordsAreOfTheWindow
  <1>3. CASE WriteSucceeds(s)
    <2>1. /\ stopPc[s] = "write" /\ UNCHANGED <<snapshot, events>>
          /\ \A q \in Stoppers : stopPc'[q] = IF q = s THEN "clear" ELSE stopPc[q]
          /\ \A c \in Calls : file'[c] = IF c = cfg THEN snapshot[s] ELSE file[c]
      BY <1>3 DEF WriteSucceeds, Writes, StopMoves, Ind, TypeOK
    <2>2. QED
      BY <1>1, <2>1 DEF Pending, Ind, RecordsAreOfTheWindow
  <1>4. CASE ~SwapEvents(s) /\ ~WriteSucceeds(s)
    <2>1. UNCHANGED <<snapshot, events, file>>
      BY <1>4 DEF StopIsIdle, StopBegins, StopSequence, LaunchTeardown, TeardownDone, TeardownTimedOut,
                  TimesOut, WriteFails, Writes, StopEnds
    <2>2. \A q \in Stoppers : stopPc'[q] = "write" => stopPc[q] = "write"
      BY <1>4 DEF StopIsIdle, StopBegins, StopSequence, LaunchTeardown, TeardownDone, TeardownTimedOut,
                  TimesOut, WriteFails, Writes, StopEnds, StopMoves, Ind, TypeOK
    <2>3. QED
      BY <1>1, <2>1, <2>2 DEF Pending, Ind, RecordsAreOfTheWindow
  <1>5. QED
    BY <1>2, <1>3, <1>4

\* Work is launched under the window of cfg_, and delivered to it.
LEMMA RecordsCupti ==
  ASSUME Ind, Cupti
  PROVE  RecordsAreOfTheWindow'
  <1>1. UNCHANGED <<cfg, stopPc, snapshot, file>>
    BY DEF Cupti, LaunchWork, WorkEnds, DeliverRecord, WorkerDisables, WorkerFinishes, CuptiFrame,
           sinkVars, stopVars
  <1>2. ASSUME NEW k \in Kinds, LaunchWork(k) PROVE RecordsAreOfTheWindow'
    <2>1. \A r \in Pending' : r = <<cfg, k>> \/ r \in Pending
      BY <1>2 DEF LaunchWork, Pending, Ind, TypeOK
    <2>2. QED
      BY <1>1, <1>2, <2>1 DEF LaunchWork, Ind, RecordsAreOfTheWindow
  <1>3. ASSUME NEW r \in Records, WorkEnds(r) \/ DeliverRecord(r) PROVE RecordsAreOfTheWindow'
    <2>1. r \in Pending /\ Pending' \subseteq Pending
      BY <1>3 DEF WorkEnds, DeliverRecord, Pending, Ind, TypeOK
    <2>2. events' \subseteq events \cup {r}
      BY <1>3 DEF WorkEnds, DeliverRecord
    <2>3. QED
      BY <1>1, <2>1, <2>2 DEF Ind, RecordsAreOfTheWindow
  <1>4. ASSUME NEW w \in Calls, WorkerDisables(w) \/ WorkerFinishes(w) PROVE RecordsAreOfTheWindow'
    BY <1>1, <1>4 DEF WorkerDisables, WorkerFinishes, Ind, RecordsAreOfTheWindow, Pending
  <1>5. QED
    BY <1>2, <1>3, <1>4 DEF Cupti

LEMMA RecordsStep ==
  ASSUME Ind, [Next]_vars
  PROVE  RecordsAreOfTheWindow'
  <1>1. CASE UNCHANGED vars
    BY <1>1 DEF Ind, RecordsAreOfTheWindow, Pending, vars
  <1>2. CASE CuprofStart \/ Die
    BY <1>2 DEF CuprofStart, Die, sinkVars, stopVars, cuptiVars, Ind, RecordsAreOfTheWindow, Pending
  <1>3. CASE CallExit
    <2>1. \A s \in Stoppers : stopPc'[s] = "write" => stopPc[s] = "write"
      BY <1>3 DEF CallExit, StopMoves, Ind, TypeOK
    <2>2. QED
      BY <1>3, <2>1 DEF CallExit, sinkVars, cuptiVars, Ind, RecordsAreOfTheWindow, Pending
  <1>4. QED
    BY <1>1, <1>2, <1>3, RecordsStart, RecordsStop, RecordsCupti DEF Next

\* Steps of Start keep CUPTI drained until a window runs.
LEMMA DrainStart ==
  ASSUME Ind, NEW c \in Calls, Start(c)
  PROVE  TeardownsDrain'
  <1>1. UNCHANGED <<work, worker, wedged>>
    BY DEF Start, StartRetired, StartWhileStopping, StartJoins, StartReturns, StartOpens, Rearm,
           StartFails, StartRuns, StartNotifies, InstallHooks, StartFrame, sinkVars, cuptiVars
  <1>2. CASE StartRuns(c)
    BY <1>2 DEF StartRuns, TeardownsDrain
  <1>3. CASE StartOpens(c)
    <2>1. Drained /\ UNCHANGED enabled
      BY <1>3, DrainedBetweenWindows DEF StartOpens, AtStart, Rearm
    <2>2. QED
      BY <1>1, <2>1 DEF TeardownsDrain, Drained, Pending
  <1>4. CASE ~StartRuns(c) /\ ~StartOpens(c)
    <2>1. UNCHANGED <<cfg, running, enabled>>
      BY <1>4 DEF Start, StartRetired, StartWhileStopping, StartJoins, StartReturns,
                  StartFails, StartNotifies, InstallHooks, sinkVars, cuptiVars
    <2>2. \A s \in Stoppers : stopPc[s] \in InStop => stopPc'[s] = stopPc[s]
      BY <1>4 DEF Start, StartRetired, StartWhileStopping, StartJoins, StartReturns, StartFrame, StartFails,
                  StartNotifies, InstallHooks, stopVars, Ind, TypeOK, InStop, Guards, StartsAreGuarded
    <2>3. QED
      BY <1>1, <2>1, <2>2 DEF TeardownsDrain, Drained, Pending, Ind, InStop
  <1>5. QED
    BY <1>2, <1>3, <1>4

\* A stop goes past its wait with CUPTI drained, or retires the instance.
LEMMA DrainStop ==
  ASSUME Ind, NEW s \in Stoppers, StopIsIdle(s) \/ StopBegins(s) \/ StopSequence(s)
  PROVE  TeardownsDrain'
  <1>1. UNCHANGED <<cfg, enabled, work>>
    BY DEF StopIsIdle, StopBegins, StopSequence, LaunchTeardown, TeardownDone, TeardownTimedOut, TimesOut,
           SwapEvents, WriteFails, WriteSucceeds, Writes, StopEnds, sinkVars, cuptiVars
  <1>2. ASSUME Drained PROVE TeardownsDrain'
    BY <1>1, <1>2 DEF TeardownsDrain, Drained, Pending
  <1>3. CASE StopBegins(s)
    BY <1>3 DEF StopBegins, StopMoves, TeardownsDrain, Ind, TypeOK
  <1>4. CASE LaunchTeardown(s)
    <2>1. stopPc'[s] = "wait" /\ cfg \in Calls /\ worker'[cfg] = 1
      BY <1>4 DEF LaunchTeardown, StopMoves, Ind, TypeOK, Guards, StopsAreGuarded, StartsAreGuarded, InStop
    <2>2. 1 \in 1..Finished /\ 1 # Finished /\ \A k \in Kinds : ~(k < 1)
      BY KindsAssumption DEF Finished, Kinds
    <2>3. QED
      BY <1>1, <2>1, <2>2 DEF TeardownsDrain
  <1>5. CASE TeardownTimedOut(s)
    BY <1>5 DEF TeardownTimedOut, TeardownsDrain
  <1>6. CASE StopIsIdle(s)
    <2>1. \A q \in Stoppers \ {s} : stopPc'[q] = stopPc[q]
      BY <1>6 DEF StopIsIdle, StopMoves, Ind, TypeOK
    <2>2. stopPc[s] = "armed" /\ UNCHANGED <<running, wedged, worker>>
      BY <1>6 DEF StopIsIdle, CallsStop, sinkVars, cuptiVars
    <2>3. QED
      BY <1>1, <2>1, <2>2 DEF TeardownsDrain, Drained, Pending, Ind
  <1>7. CASE TeardownDone(s) \/ SwapEvents(s) \/ WriteFails(s) \/ WriteSucceeds(s) \/ StopEnds(s)
    <2>1. stopPc[s] \in InStop \ {"launch"} /\ (stopPc[s] = "wait" => worker[cfg] = Finished)
      BY <1>7 DEF TeardownDone, SwapEvents, WriteFails, WriteSucceeds, Writes, StopEnds, InStop
    <2>2. \A q \in Stoppers : stopPc[q] \in {"launch", "wait"} => q = s
      BY <2>1 DEF Ind, Guards, StopsAreGuarded, InStop
    <2>3. ~running
      BY <2>1 DEF Ind, Guards, StopsAreGuarded
    <2>4. wedged \/ Drained
      BY <2>1, <2>2, <2>3 DEF Ind, TeardownsDrain
    <2>5. UNCHANGED wedged
      BY <1>7 DEF TeardownDone, SwapEvents, WriteFails, WriteSucceeds, Writes, StopEnds, sinkVars
    <2>6. QED
      BY <1>2, <2>4, <2>5 DEF TeardownsDrain
  <1>8. QED
    BY <1>3, <1>4, <1>5, <1>6, <1>7 DEF StopSequence

\* The worker of a teardown disables the kinds in turn and flushes last.
LEMMA DrainCupti ==
  ASSUME Ind, Cupti
  PROVE  TeardownsDrain'
  <1>1. UNCHANGED <<cfg, stopPc, running, wedged>>
    BY DEF Cupti, LaunchWork, WorkEnds, DeliverRecord, WorkerDisables, WorkerFinishes, CuptiFrame,
           sinkVars, stopVars
  <1>2. CASE wedged \/ running \/ \E s \in Stoppers : stopPc[s] = "launch"
    BY <1>1, <1>2 DEF TeardownsDrain
  <1>3. SUFFICES ASSUME ~wedged, ~running, \A s \in Stoppers : stopPc[s] # "launch"
                 PROVE  TeardownsDrain'
    BY <1>2
  <1>4. ASSUME NEW k \in Kinds, LaunchWork(k) PROVE TeardownsDrain'
    <2>1. ~Drained
      BY <1>4 DEF LaunchWork, Drained
    <2>2. QED
      BY <1>1, <1>3, <1>4, <2>1 DEF LaunchWork, Ind, TeardownsDrain
  <1>5. ASSUME NEW r \in Records, WorkEnds(r) \/ DeliverRecord(r) PROVE TeardownsDrain'
    <2>1. ~Drained
      BY <1>5 DEF WorkEnds, DeliverRecord, Drained, Pending
    <2>2. QED
      BY <1>1, <1>3, <1>5, <2>1 DEF WorkEnds, DeliverRecord, Ind, TeardownsDrain
  <1>6. ASSUME NEW w \in Calls, WorkerDisables(w) \/ WorkerFinishes(w) PROVE TeardownsDrain'
    <2>1. worker[w] \in AtWork
      BY <1>6, KindsAssumption DEF WorkerDisables, WorkerFinishes, Kinds, AtWork, Flushing
    <2>2. cfg = w
      BY <1>3, <2>1 DEF Ind, Guards, WorkersAreOwned
    <2>3. CASE Drained
      BY <1>1, <1>6, <2>3 DEF WorkerDisables, WorkerFinishes, TeardownsDrain, Drained, Pending
    <2>4. CASE ~Drained
      <3>1. PICK s \in Stoppers : stopPc[s] = "wait" /\ \A k \in Kinds : k < worker[w] => k \notin enabled
        BY <1>3, <2>2, <2>4 DEF Ind, TeardownsDrain
      <3>2. CASE WorkerDisables(w)
        <4>1. worker[w] \in Kinds /\ worker'[w] = worker[w] + 1 /\ enabled' = enabled \ {worker[w]}
          BY <3>2 DEF WorkerDisables, Ind, TypeOK
        <4>2. worker'[w] \in 1..Finished /\ worker'[w] # Finished
          BY <4>1, KindsAssumption DEF Kinds, Finished
        <4>3. \A k \in Kinds : k < worker'[w] => k \notin enabled'
          BY <3>1, <4>1, KindsAssumption DEF Kinds
        <4>4. QED
          BY <1>1, <2>2, <3>1, <4>2, <4>3 DEF TeardownsDrain
      <3>3. CASE WorkerFinishes(w)
        <4>1. enabled = {}
          BY <3>1, <3>3, KindsAssumption DEF WorkerFinishes, Kinds, Flushing, Ind, TypeOK
        <4>2. Pending = {}
          BY <3>3 DEF WorkerFinishes, Pending
        <4>3. QED
          BY <2>4, <4>1, <4>2 DEF Drained
      <3>4. QED
        BY <1>6, <3>2, <3>3
    <2>5. QED
      BY <2>3, <2>4
  <1>7. QED
    BY <1>4, <1>5, <1>6 DEF Cupti

LEMMA DrainStep ==
  ASSUME Ind, [Next]_vars
  PROVE  TeardownsDrain'
  <1>1. CASE UNCHANGED vars
    BY <1>1 DEF Ind, TeardownsDrain, Drained, Pending, vars
  <1>2. CASE CuprofStart \/ Die
    BY <1>2 DEF CuprofStart, Die, sinkVars, stopVars, cuptiVars, Ind, TeardownsDrain, Drained, Pending
  <1>3. CASE CallExit
    <2>1. \A s \in Stoppers \ {Exit} : stopPc'[s] = stopPc[s]
      BY <1>3 DEF CallExit, StopMoves, Ind, TypeOK
    <2>2. stopPc[Exit] = "none" /\ UNCHANGED <<cfg, running, wedged, worker, enabled, work>>
      BY <1>3 DEF CallExit, sinkVars, cuptiVars
    <2>3. QED
      BY <2>1, <2>2 DEF Ind, TeardownsDrain, Drained, Pending
  <1>4. QED
    BY <1>1, <1>2, <1>3, DrainStart, DrainStop, DrainCupti DEF Next

-----------------------------------------------------------------------------
LEMMA IndInit == Init => Ind
  BY TypeInit, GuardsInit, VerdictsInit, RecordsInit DEF Ind

LEMMA IndStep == Ind /\ [Next]_vars => Ind'
  <1> SUFFICES ASSUME Ind, [Next]_vars PROVE Ind'
    OBVIOUS
  <1>1. TypeOK' /\ Guards'
    BY TypeStep, GuardsStep DEF Ind
  <1>2. QED
    BY <1>1, NothingBeforeStep, VerdictsStep, RecordsStep, DrainStep DEF Ind

LEMMA IndHolds == Spec => []Ind
  BY IndInit, IndStep, PTL DEF Spec

\* A window ends with WriterOver or with Failed, never with both and never with neither.
THEOREM OneVerdict == Spec => []OneVerdictPerWindow
  <1>1. ASSUME Ind, NEW c \in Calls
        PROVE  LET verdicts == {i \in DOMAIN msgs[c] : msgs[c][i] \in Terminal} IN
               /\ Cardinality(verdicts) <= 1
               /\ worker[c] # 0 /\ ~(inFlight /\ cfg = c) => verdicts # {}
    <2>1. \A i, j \in Verdicts(msgs[c]) : i = j
      BY <1>1 DEF Ind, VerdictsFollowTheStop
    <2>2. Verdicts(msgs[c]) = {} \/ \E i : Verdicts(msgs[c]) = {i}
      BY <2>1
    <2>3. Cardinality(Verdicts(msgs[c])) <= 1
      BY <2>2, FS_EmptySet, FS_Singleton
    <2>4. worker[c] # 0 /\ ~(inFlight /\ cfg = c) => Verdicts(msgs[c]) # {}
      BY <1>1 DEF Ind, VerdictsFollowTheStop
    <2>5. QED
      BY <2>3, <2>4 DEF Verdicts
  <1>2. Ind => OneVerdictPerWindow
    BY <1>1 DEF OneVerdictPerWindow
  <1>3. QED
    BY <1>2, IndHolds, PTL

\* A record that CUPTI delivers late, or that an abandoned window left behind, is never in
\* the file of another window.
THEOREM OneWindowPerTrace == Spec => []OneTraceHoldsOneWindow
  <1>1. Ind => OneTraceHoldsOneWindow
    BY DEF Ind, RecordsAreOfTheWindow, OneTraceHoldsOneWindow
  <1>2. QED
    BY <1>1, IndHolds, PTL

-----------------------------------------------------------------------------
(* The WriterOver signal.                                                          *)

Kept(c) == {r \in Records : r[1] = c /\ work[r] = "kept"}
Announced(c) == \E i \in DOMAIN msgs[c] : msgs[c][i] = "WriterOver"
Collecting == running \/ (\E c \in Calls : callPc[c] = "enable")
                \/ (\E s \in Stoppers : stopPc[s] \in {"launch", "wait", "swap"})

\* The buffer of a window that is open holds what CUPTI delivered of it, and so does the
\* snapshot of a stop whose teardown finished in time.
DeliveriesAreKept ==
  /\ Collecting => events = Kept(cfg)
  /\ \A s \in Stoppers :
       /\ stopPc[s] \in {"launch", "wait"} => ~wedged
       /\ torn[s] => stopPc[s] \in {"swap", "write", "clear", "done"}
       /\ torn[s] /\ stopPc[s] \in {"swap", "write"} => ~wedged /\ Drained
       /\ torn[s] /\ stopPc[s] = "write" => snapshot[s] = Kept(cfg)
  /\ \A c \in Calls : Announced(c) => file[c] = Kept(c) /\ (c = cfg => ~running /\ Drained)

LEMMA DeliveriesInit == Init => DeliveriesAreKept
  <1> SUFFICES ASSUME Init PROVE DeliveriesAreKept
    OBVIOUS
  <1>1. ~Collecting
    BY DEF Init, Collecting, Calls, Stoppers
  <1>2. \A c \in Calls : ~Announced(c)
    BY DEF Init, Announced
  <1>3. QED
    BY <1>1, <1>2 DEF Init, DeliveriesAreKept, Stoppers

\* WriterOver is a verdict: a window without one was not announced.
LEMMA AnnouncedIsVerdict ==
  ASSUME NEW c \in Calls, Announced(c)
  PROVE  Verdicts(msgs[c]) # {}
  BY DEF Announced, Verdicts, Terminal

\* What one message adds to the announcements.
LEMMA AnnouncedOfAppend ==
  ASSUME TypeOK, NEW c \in Calls, NEW d, NEW x \in Messages, Notify(d, x), Announced(c)'
  PROVE  Announced(c) \/ (c = d /\ x = "WriterOver")
  <1>1. msgs[c] \in Seq(Messages)
    BY DEF TypeOK
  <1>2. CASE c # d
    BY <1>2 DEF Notify, Announced, TypeOK
  <1>3. CASE c = d
    <2>1. msgs'[c] = Append(msgs[c], x)
      BY <1>3 DEF Notify, TypeOK
    <2>2. QED
      BY <1>1, <1>3, <2>1 DEF Announced
  <1>4. QED
    BY <1>2, <1>3

LEMMA DeliveriesStart ==
  ASSUME Ind, DeliveriesAreKept, NEW c \in Calls, Start(c)
  PROVE  DeliveriesAreKept'
  <1>1. UNCHANGED <<work, wedged, torn, snapshot, file>>
    BY DEF Start, StartRetired, StartWhileStopping, StartJoins, StartReturns, StartOpens, Rearm,
           StartFails, StartRuns, StartNotifies, InstallHooks, StartFrame, sinkVars, stopVars, cuptiVars
  <1>2. \A d \in Calls : Kept(d)' = Kept(d)
    BY <1>1 DEF Kept
  <1>3. \A d \in Calls : Announced(d)' => Announced(d)
    <2>1. CASE msgs' = msgs
      BY <2>1 DEF Announced
    <2>2. CASE Notify(c, "Failed") \/ Notify(c, "Start")
      BY <2>2, AnnouncedOfAppend DEF Ind, Messages, Terminal
    <2>3. QED
      BY <2>1, <2>2 DEF Start, StartRetired, StartWhileStopping, StartJoins, StartReturns, StartOpens, Rearm,
                        StartFails, StartRuns, StartNotifies, InstallHooks
  <1>4. CASE StartOpens(c)
    <2>1. Drained /\ ~wedged /\ events' = {} /\ cfg' = c /\ UNCHANGED <<enabled, running, stopPc, msgs>>
      BY <1>4, DrainedBetweenWindows DEF StartOpens, AtStart, Rearm, StartFrame, stopVars
    <2>2. callPc[c] = "start" /\ msgs[c] = <<>> /\ \A k \in Kinds : work[<<c, k>>] = "none"
      BY <1>4 DEF StartOpens, AtStart, Ind, NothingBeforeTheWindow, NotOpened
    <2>3. Kept(c) = {} /\ ~Announced(c)
      BY <2>2 DEF Kept, Records, Announced
    <2>4. Drained' /\ ~running /\ \A s \in Stoppers : stopPc[s] \notin InStop
      BY <1>1, <1>4, <2>1 DEF Drained, Pending, StartOpens, Ind, Guards, StopsAreGuarded
    <2>5. QED
      BY <1>1, <1>2, <1>3, <2>1, <2>3, <2>4 DEF DeliveriesAreKept, InStop
  <1>5. CASE StartRuns(c)
    <2>1. Collecting /\ cfg = c /\ ~inFlight
      BY <1>5 DEF StartRuns, Collecting, Ind, Guards, StartsAreGuarded
    <2>2. ~Announced(c)
      BY <1>5 DEF StartRuns, Ind, NothingBeforeTheWindow, Announced
    <2>3. \A s \in Stoppers : stopPc[s] \notin InStop
      BY <2>1 DEF Ind, Guards, StopsAreGuarded
    <2>4. UNCHANGED <<cfg, events, stopPc>>
      BY <1>5 DEF StartRuns, StartFrame, stopVars
    <2>5. \A d \in Calls : Announced(d)' => d # cfg
      BY <1>3, <2>1, <2>2
    <2>6. QED
      BY <1>1, <1>2, <1>3, <2>1, <2>3, <2>4, <2>5 DEF DeliveriesAreKept, InStop
  <1>6. CASE ~StartOpens(c) /\ ~StartRuns(c)
    <2>1. UNCHANGED <<cfg, running, events, enabled>>
      BY <1>6 DEF Start, StartRetired, StartWhileStopping, StartJoins, StartReturns,
                  StartFails, StartNotifies, InstallHooks, sinkVars, cuptiVars
    <2>2. \A s \in Stoppers : stopPc'[s] = stopPc[s] \/ (stopPc[s] = "none" /\ stopPc'[s] = "armed")
      BY <1>6 DEF Start, StartRetired, StartWhileStopping, StartJoins, StartReturns, StartFrame, StartFails,
                  StartNotifies, InstallHooks, stopVars, Ind, TypeOK, Guards, StartsAreGuarded
    <2>3. \A d \in Calls : callPc'[d] = "enable" => callPc[d] = "enable"
      BY <1>6 DEF Start, StartRetired, StartWhileStopping, StartJoins, StartReturns, StartFails,
                  StartNotifies, InstallHooks, CallMoves, Ind, TypeOK
    <2>4. Collecting' => Collecting
      BY <2>1, <2>2, <2>3 DEF Collecting
    <2>5. Drained' = Drained
      BY <1>1, <2>1 DEF Drained, Pending
    <2>6. Kept(cfg)' = Kept(cfg)
      BY <1>1, <2>1 DEF Kept
    <2>7. QED
      BY <1>1, <1>2, <1>3, <2>1, <2>2, <2>4, <2>5, <2>6 DEF DeliveriesAreKept
  <1>7. QED
    BY <1>4, <1>5, <1>6

LEMMA DeliveriesStop ==
  ASSUME Ind, DeliveriesAreKept, NEW s \in Stoppers, StopIsIdle(s) \/ StopBegins(s) \/ StopSequence(s)
  PROVE  DeliveriesAreKept'
  <1>1. UNCHANGED <<cfg, enabled, work, callPc>>
    BY DEF StopIsIdle, StopBegins, StopSequence, LaunchTeardown, TeardownDone, TeardownTimedOut, TimesOut,
           SwapEvents, WriteFails, WriteSucceeds, Writes, StopEnds, StopFrame, startVars, sinkVars, cuptiVars
  <1>2. /\ \A d \in Calls : Kept(d)' = Kept(d)
        /\ Kept(cfg)' = Kept(cfg) /\ Drained' = Drained
    BY <1>1 DEF Kept, Drained, Pending
  <1>3. \A q \in Stoppers \ {s} : stopPc'[q] = stopPc[q] /\ torn'[q] = torn[q] /\ snapshot'[q] = snapshot[q]
    BY DEF StopIsIdle, StopBegins, StopSequence, LaunchTeardown, TeardownDone, TeardownTimedOut, TimesOut,
           SwapEvents, WriteFails, WriteSucceeds, Writes, StopEnds, StopMoves, Ind, TypeOK
  <1>4. \A c \in Calls : callPc[c] = "enable" => ~running /\ ~inFlight
    BY DEF Ind, Guards, StartsAreGuarded
  <1>5. stopPc[s] \in InStop =>
          /\ inFlight /\ ~running /\ cfg \in Calls
          /\ \A q \in Stoppers \ {s} : stopPc[q] \notin InStop
    BY DEF Ind, Guards, StopsAreGuarded, StartsAreGuarded
  <1> USE DEF InStop
  <1>6. CASE StopIsIdle(s)
    <2>1. /\ stopPc[s] = "armed" /\ stopPc'[s] = "done"
          /\ UNCHANGED <<running, wedged, torn, snapshot, events, msgs, file>>
      BY <1>6 DEF StopIsIdle, CallsStop, StopMoves, sinkVars, Ind, TypeOK
    <2>2. Collecting' => Collecting
      BY <1>1, <1>3, <2>1 DEF Collecting
    <2>3. QED
      BY <1>1, <1>2, <1>3, <2>1, <2>2 DEF DeliveriesAreKept, Announced
  <1>7. CASE StopBegins(s)
    <2>1. /\ stopPc[s] = "armed" /\ stopPc'[s] = "launch" /\ running /\ ~running'
          /\ UNCHANGED <<wedged, torn, snapshot, events, msgs, file>>
      BY <1>7 DEF StopBegins, CallsStop, StopMoves, Ind, TypeOK
    <2>2. ~wedged /\ Collecting
      BY <2>1 DEF Ind, Guards, WorkersAreOwned, Collecting
    <2>3. QED
      BY <1>1, <1>2, <1>3, <2>1, <2>2 DEF DeliveriesAreKept, Announced
  <1>8. CASE LaunchTeardown(s)
    <2>1. /\ stopPc[s] = "launch" /\ stopPc'[s] = "wait"
          /\ UNCHANGED <<running, wedged, torn, snapshot, events, msgs, file>>
      BY <1>8 DEF LaunchTeardown, StopMoves, sinkVars, Ind, TypeOK
    <2>2. Collecting
      BY <2>1 DEF Collecting
    <2>3. QED
      BY <1>1, <1>2, <1>3, <2>1, <2>2 DEF DeliveriesAreKept, Announced
  <1>9. CASE TeardownDone(s)
    <2>1. /\ stopPc[s] = "wait" /\ stopPc'[s] = "swap" /\ worker[cfg] = Finished
          /\ UNCHANGED <<running, wedged, snapshot, events, file>>
      BY <1>9 DEF TeardownDone, StopMoves, sinkVars, Ind, TypeOK
    <2>2. Collecting /\ ~wedged
      BY <2>1 DEF Collecting, DeliveriesAreKept
    <2>3. Drained
      BY <1>5, <2>1, <2>2 DEF Ind, TeardownsDrain
    <2>4. \A d \in Calls : Announced(d)' => Announced(d)
      BY <1>9, AnnouncedOfAppend DEF TeardownDone, Ind, Messages
    <2>5. QED
      BY <1>1, <1>2, <1>3, <2>1, <2>2, <2>3, <2>4 DEF DeliveriesAreKept
  <1>10. CASE TeardownTimedOut(s)
    <2>1. /\ stopPc[s] = "wait" /\ stopPc'[s] = "swap"
          /\ UNCHANGED <<running, torn, snapshot, events, msgs, file>>
      BY <1>10 DEF TeardownTimedOut, TimesOut, StopMoves, Ind, TypeOK
    <2>2. Collecting /\ ~torn[s]
      BY <2>1 DEF Collecting, DeliveriesAreKept
    <2>3. QED
      BY <1>1, <1>2, <1>3, <1>5, <2>1, <2>2 DEF DeliveriesAreKept, Announced
  <1>11. CASE SwapEvents(s)
    <2>1. /\ stopPc[s] = "swap" /\ stopPc'[s] = "write" /\ snapshot'[s] = events
          /\ UNCHANGED <<running, wedged, torn, msgs, file>>
      BY <1>11 DEF SwapEvents, StopMoves, sinkVars, Ind, TypeOK
    <2>2. Collecting /\ ~Collecting'
      BY <1>1, <1>3, <1>4, <1>5, <2>1 DEF Collecting
    <2>3. QED
      BY <1>1, <1>2, <1>3, <2>1, <2>2 DEF DeliveriesAreKept, Announced
  <1>12. CASE WriteFails(s) \/ WriteSucceeds(s)
    <2>1. /\ stopPc[s] = "write" /\ stopPc'[s] = "clear"
          /\ UNCHANGED <<running, wedged, torn, snapshot>>
      BY <1>12 DEF WriteFails, WriteSucceeds, Writes, StopMoves, sinkVars, Ind, TypeOK
    <2>2. ~Collecting'
      BY <1>1, <1>3, <1>4, <1>5, <2>1 DEF Collecting
    <2>3. ~Announced(cfg)
      BY <1>5, <2>1, AnnouncedIsVerdict DEF Ind, VerdictsFollowTheStop
    <2>4. ASSUME NEW d \in Calls, Announced(d)'
          PROVE  file'[d] = Kept(d) /\ (d = cfg => ~running /\ Drained)
      <3>1. CASE d = cfg
        <4>1. WriteSucceeds(s) /\ torn[s]
          BY <1>12, <2>3, <2>4, <3>1, AnnouncedOfAppend DEF WriteFails, WriteSucceeds, Ind, Messages, Terminal
        <4>2. file'[cfg] = snapshot[s]
          BY <2>1, <1>5, <4>1 DEF WriteSucceeds, Ind, TypeOK
        <4>3. QED
          BY <1>5, <2>1, <3>1, <4>1, <4>2 DEF DeliveriesAreKept
      <3>2. CASE d # cfg
        <4>1. Announced(d)
          BY <1>12, <2>4, <3>2, AnnouncedOfAppend DEF WriteFails, WriteSucceeds, Ind, Messages, Terminal
        <4>2. file'[d] = file[d]
          BY <1>12, <3>2 DEF WriteFails, WriteSucceeds, Ind, TypeOK
        <4>3. QED
          BY <3>2, <4>1, <4>2 DEF DeliveriesAreKept
      <3>3. QED
        BY <3>1, <3>2
    <2>5. QED
      BY <1>1, <1>2, <1>3, <2>1, <2>2, <2>4 DEF DeliveriesAreKept
  <1>13. CASE StopEnds(s)
    <2>1. /\ stopPc[s] = "clear" /\ stopPc'[s] = "done"
          /\ UNCHANGED <<running, wedged, torn, snapshot, events, msgs, file>>
      BY <1>13 DEF StopEnds, StopMoves, Ind, TypeOK
    <2>2. Collecting' => Collecting
      BY <1>1, <1>3, <2>1 DEF Collecting
    <2>3. QED
      BY <1>1, <1>2, <1>3, <2>1, <2>2 DEF DeliveriesAreKept, Announced
  <1>14. QED
    BY <1>6, <1>7, <1>8, <1>9, <1>10, <1>11, <1>12, <1>13 DEF StopSequence

LEMMA DeliveriesCupti ==
  ASSUME Ind, DeliveriesAreKept, Cupti
  PROVE  DeliveriesAreKept'
  <1>1. UNCHANGED <<cfg, callPc, stopPc, torn, snapshot, running, wedged, msgs, file>>
    BY DEF Cupti, LaunchWork, WorkEnds, DeliverRecord, WorkerDisables, WorkerFinishes, CuptiFrame,
           startVars, sinkVars, stopVars
  <1>2. Collecting' = Collecting /\ \A c \in Calls : Announced(c)' = Announced(c)
    BY <1>1 DEF Collecting, Announced
  <1>3. ASSUME NEW k \in Kinds, LaunchWork(k) PROVE DeliveriesAreKept'
    <2>1. ~Drained
      BY <1>3 DEF LaunchWork, Drained
    <2>2. \A r \in Records : work'[r] = "kept" <=> work[r] = "kept"
      BY <1>3 DEF LaunchWork, Ind, TypeOK
    <2>3. UNCHANGED events /\ Kept(cfg)' = Kept(cfg) /\ \A c \in Calls : Kept(c)' = Kept(c)
      BY <1>1, <1>3, <2>2 DEF LaunchWork, Kept
    <2>4. QED
      BY <1>1, <1>2, <2>1, <2>3 DEF DeliveriesAreKept
  <1>4. ASSUME NEW r \in Records, WorkEnds(r) \/ DeliverRecord(r) PROVE DeliveriesAreKept'
    <2>1. r \in Pending
      BY <1>4 DEF WorkEnds, DeliverRecord, Pending
    <2>2. ~Drained /\ r[1] = cfg
      BY <2>1 DEF Drained, Ind, RecordsAreOfTheWindow
    <2>3. \A q \in Records : q # r => work'[q] = work[q]
      BY <1>4 DEF WorkEnds, DeliverRecord, Ind, TypeOK
    <2>4. \A c \in Calls : c # cfg => Kept(c)' = Kept(c)
      BY <2>2, <2>3 DEF Kept
    <2>5. Collecting => events' = Kept(cfg)'
      <3>1. CASE work'[r] = "kept"
        <4>1. events' = events \cup {r}
          BY <1>4, <2>1, <3>1 DEF WorkEnds, DeliverRecord, Pending, Ind, TypeOK
        <4>2. Kept(cfg)' = Kept(cfg) \cup {r}
          BY <1>1, <2>2, <2>3, <3>1 DEF Kept
        <4>3. QED
          BY <4>1, <4>2 DEF DeliveriesAreKept
      <3>2. CASE work'[r] # "kept"
        <4>1. UNCHANGED events
          BY <1>4, <3>2 DEF WorkEnds, DeliverRecord, Ind, TypeOK
        <4>2. Kept(cfg)' = Kept(cfg)
          BY <1>1, <2>1, <2>3, <3>2 DEF Kept, Pending
        <4>3. QED
          BY <4>1, <4>2 DEF DeliveriesAreKept
      <3>3. QED
        BY <3>1, <3>2
    <2>6. QED
      BY <1>1, <1>2, <2>2, <2>4, <2>5 DEF DeliveriesAreKept
  <1>5. ASSUME NEW w \in Calls, WorkerDisables(w) \/ WorkerFinishes(w) PROVE DeliveriesAreKept'
    <2>1. UNCHANGED <<events, work>> /\ enabled' \subseteq enabled
      BY <1>5 DEF WorkerDisables, WorkerFinishes
    <2>2. (Drained => Drained') /\ Kept(cfg)' = Kept(cfg) /\ \A c \in Calls : Kept(c)' = Kept(c)
      BY <1>1, <2>1 DEF Drained, Pending, Kept
    <2>3. QED
      BY <1>1, <1>2, <2>1, <2>2 DEF DeliveriesAreKept
  <1>6. QED
    BY <1>3, <1>4, <1>5 DEF Cupti

LEMMA DeliveriesStep ==
  ASSUME Ind, DeliveriesAreKept, [Next]_vars
  PROVE  DeliveriesAreKept'
  <1>1. CASE UNCHANGED vars
    BY <1>1 DEF DeliveriesAreKept, Collecting, Announced, Kept, Drained, Pending, vars
  <1>2. CASE CuprofStart
    <2>1. \A c \in Calls : callPc'[c] = "enable" => callPc[c] = "enable"
      BY <1>2 DEF CuprofStart, CallMoves, Ind, TypeOK
    <2>2. UNCHANGED <<cfg, running, wedged, events, enabled, work, stopPc, torn, snapshot, msgs, file>>
      BY <1>2 DEF CuprofStart, sinkVars, stopVars, cuptiVars
    <2>3. QED
      BY <2>1, <2>2 DEF DeliveriesAreKept, Collecting, Announced, Kept, Drained, Pending
  <1>3. CASE CallExit
    <2>1. \A s \in Stoppers : stopPc'[s] = stopPc[s] \/ (stopPc[s] = "none" /\ stopPc'[s] \in {"armed", "done"})
      BY <1>3 DEF CallExit, StopMoves, Ind, TypeOK
    <2>2. UNCHANGED <<cfg, running, wedged, events, enabled, work, callPc, torn, snapshot, msgs, file>>
      BY <1>3 DEF CallExit, sinkVars, startVars, cuptiVars
    <2>3. QED
      BY <2>1, <2>2 DEF DeliveriesAreKept, Collecting, Announced, Kept, Drained, Pending
  <1>4. CASE Die
    BY <1>4 DEF Die, sinkVars, startVars, stopVars, cuptiVars,
                DeliveriesAreKept, Collecting, Announced, Kept, Drained, Pending
  <1>5. QED
    BY <1>1, <1>2, <1>3, <1>4, DeliveriesStart, DeliveriesStop, DeliveriesCupti DEF Next

\* WriterOver, the signal that the file may be read, is sent for files that hold
\* all that CUPTI had of the window.
THEOREM WriterOverMeansComplete == Spec => []WriterOverIsComplete
  <1>1. ASSUME Ind, DeliveriesAreKept PROVE WriterOverIsComplete
    <2>1. SUFFICES ASSUME NEW c \in Calls, Contains(msgs[c], "WriterOver")
                   PROVE  /\ file[c] = {r \in Records : r[1] = c /\ work[r] = "kept"}
                          /\ \A k \in Kinds : work[<<c, k>>] \notin {"running", "ended"}
      BY DEF WriterOverIsComplete
    <2>2. Announced(c)
      BY <1>1, <2>1 DEF Contains, Announced, Ind, TypeOK
    <2>3. file[c] = Kept(c) /\ (c = cfg => Pending = {})
      BY <1>1, <2>2 DEF DeliveriesAreKept, Drained
    <2>4. ASSUME NEW k \in Kinds PROVE <<c, k>> \notin Pending
      BY <1>1, <2>3 DEF Ind, RecordsAreOfTheWindow
    <2>5. QED
      BY <2>3, <2>4 DEF Kept, Pending, Records
  <1>2. Ind /\ DeliveriesAreKept /\ [Next]_vars => DeliveriesAreKept'
    BY DeliveriesStep
  <1>3. QED
    BY <1>1, <1>2, DeliveriesInit, IndHolds, PTL DEF Spec
=============================================================================
