------------------------------ MODULE CuptiSink ------------------------------
(***************************************************************************)
(* The GPU collector that cuprof injects into a CUDA process: cuprof_start *)
(* and its duration timers (injection.cc), the sink with its windows       *)
(* (cupti_sink.cc), the bounded CUPTI teardown (bounded_call.cc) and the   *)
(* end of the process.                                                     *)
(*                                                                         *)
(* A window is named by the cuprof_start call that opened it.  Every call, *)
(* every duration timer, the thread that runs exit() and every teardown    *)
(* worker is a thread of its own.  Time is abstract: an armed timer and a  *)
(* deadline may pass at any moment.  The CUDA driver may hang for ever in  *)
(* any call, so nothing it does is fair.                                   *)
(***************************************************************************)
EXTENDS Integers, FiniteSets, Sequences, SequencesExt

CONSTANTS
  MaxCalls,       \* bound: how often cuprof_start is called
  NumKinds,       \* activity kinds: kernel, memcpy and memset in the code
  MaxWork         \* bound: how many records the target's work produces

ASSUME CallsAssumption == MaxCalls \in Nat \ {0}
ASSUME KindsAssumption == NumKinds \in Nat \ {0} /\ MaxWork \in Nat

Calls == 1..MaxCalls
Kinds == 1..NumKinds
None == 0                \* no call, no window; as a thread: the one in exit()
Exit == 0
Stoppers == Calls \cup {Exit}
Records == Calls \X Kinds            \* work of one kind under one window
Terminal == {"WriterOver", "Failed"}
Messages == Terminal \cup {"Start", "Stop"}

\* Where the worker of a teardown is: it disables kind 1..NumKinds next, flushes,
\* or has finished.
Flushing == NumKinds + 1
Finished == NumKinds + 2

VARIABLES
  mu,             \* the call that holds mu_ while CUPTI enables; None: free
  cfg,            \* whose configuration cfg_ holds
  running, stopped, wedged, inFlight,   \* running_, stopped_, wedged_, teardown_in_flight_
  events,         \* events_
  registered,     \* Start's static `registered`
  hooked,         \* cuprof_start's static `hooks_installed`
  lastCall,       \* how many cuprof_start calls were made
  callPc,         \* where each cuprof_start is
  wasRunning,     \* its local was_running
  stopPc,         \* where each timer's, and exit's, Stop is
  torn,           \* Stop's local torn_down
  snapshot,       \* Stop's local snapshot
  worker,         \* the teardown worker of each window
  inline,         \* windows whose teardown runs on the stopping thread
  enabled,        \* CUPTI: the activity kinds that are enabled
  work,           \* CUPTI: what became of the work of each record
  msgs,           \* history: notifications sent under each call's configuration
  file,           \* the trace file of each window; NoFile: not written
  alive           \* the process runs

sinkVars == <<running, stopped, wedged, inFlight, cfg>>
startVars == <<mu, registered, hooked, lastCall, callPc, wasRunning>>
stopVars == <<stopPc, torn, snapshot>>
cuptiVars == <<worker, inline, enabled, work>>
vars == <<mu, cfg, running, stopped, wedged, inFlight, events, registered, hooked,
          lastCall, callPc, wasRunning, stopPc, torn, snapshot, worker, inline,
          enabled, work, msgs, file, alive>>

NoFile == {<<None, None>>}

Init ==
  /\ mu = None /\ cfg = None
  /\ running = FALSE /\ stopped = FALSE /\ wedged = FALSE /\ inFlight = FALSE
  /\ events = {} /\ registered = FALSE /\ hooked = FALSE /\ lastCall = 0
  /\ callPc = [c \in Calls |-> "none"] /\ wasRunning = [c \in Calls |-> FALSE]
  /\ stopPc = [s \in Stoppers |-> "none"] /\ torn = [s \in Stoppers |-> FALSE]
  /\ snapshot = [s \in Stoppers |-> {}]
  /\ worker = [c \in Calls |-> 0] /\ inline = {}
  /\ enabled = {} /\ work = [r \in Records |-> "none"]
  /\ msgs = [c \in Calls |-> <<>>] /\ file = [c \in Calls |-> NoFile]
  /\ alive = TRUE

Notify(c, m) == msgs' = [msgs EXCEPT ![c] = Append(@, m)]
CallMoves(c, to) == callPc' = [callPc EXCEPT ![c] = to]
StopMoves(s, to) == stopPc' = [stopPc EXCEPT ![s] = to]

-----------------------------------------------------------------------------
(* cuprof_start and CuptiSink::Start.                                      *)

\* cuprof_start reads running() without the lock and loads its configuration.
CuprofStart ==
  /\ alive /\ lastCall < MaxCalls
  /\ lastCall' = lastCall + 1
  /\ CallMoves(lastCall', "start")
  /\ wasRunning' = [wasRunning EXCEPT ![lastCall'] = running]
  /\ UNCHANGED <<mu, registered, hooked, events, msgs, file, alive>>
  /\ UNCHANGED sinkVars /\ UNCHANGED stopVars /\ UNCHANGED cuptiVars

StartReturns(c, to) ==
  /\ CallMoves(c, to)
  /\ UNCHANGED <<mu, registered, events, enabled>> /\ UNCHANGED sinkVars

AtStart(c) == alive /\ callPc[c] = "start" /\ mu = None
StartFrame(c) ==
  /\ UNCHANGED <<hooked, lastCall, wasRunning, worker, inline, work, file, alive>>
  /\ UNCHANGED stopVars

\* Start refuses a retired instance and says so.
StartRetired(c) ==
  /\ AtStart(c) /\ wedged
  /\ Notify(c, "Failed")
  /\ StartReturns(c, "returned") /\ StartFrame(c)

\* Start refuses to overlap a stop, silently.
StartWhileStopping(c) ==
  /\ AtStart(c) /\ ~wedged /\ inFlight
  /\ StartReturns(c, "returned") /\ StartFrame(c) /\ UNCHANGED msgs

\* Start joins the window that runs.
StartJoins(c) ==
  /\ AtStart(c) /\ ~wedged /\ ~inFlight /\ running
  /\ StartReturns(c, "hooks") /\ StartFrame(c) /\ UNCHANGED msgs

\* Past the guards: the sink is re-armed, the callbacks are registered once, and
\* mu_ stays locked while CUPTI enables the kinds.
Rearm(c) ==
  /\ mu' = c /\ cfg' = c /\ stopped' = FALSE /\ events' = {}
  /\ CallMoves(c, "enable")
  /\ UNCHANGED <<registered, running, wedged, inFlight, enabled, msgs>> /\ StartFrame(c)

\* Mutant of StartOpens: a stop in flight, or a retired instance, is no obstacle.
StartOpensOverStop(c) == AtStart(c) /\ ~running /\ ~wedged /\ Rearm(c)
StartOpensRetired(c) == AtStart(c) /\ ~running /\ ~inFlight /\ Rearm(c)

StartOpens(c) == AtStart(c) /\ ~wedged /\ ~inFlight /\ ~running /\ Rearm(c)

\* cuptiActivityRegisterCallbacks fails, or none of the kinds can be enabled.
StartFails(c) ==
  /\ alive /\ callPc[c] = "enable" /\ mu = c
  /\ mu' = None /\ CallMoves(c, "returned")
  /\ registered' \in {registered, TRUE}
  /\ UNCHANGED <<events, enabled, msgs>> /\ UNCHANGED sinkVars /\ StartFrame(c)

\* Mutant of StartRuns: the loop over the kinds runs one too far.
StartRunsTooFar(c) ==
  /\ alive /\ callPc[c] = "enable" /\ mu = c
  /\ mu' = None /\ registered' = TRUE /\ running' = TRUE
  /\ enabled' = 1..(NumKinds + 1)
  /\ CallMoves(c, "notify")
  /\ UNCHANGED <<events, msgs, cfg, stopped, wedged, inFlight>> /\ StartFrame(c)

\* At least one kind is enabled: the window runs.
StartRuns(c) ==
  /\ alive /\ callPc[c] = "enable" /\ mu = c
  /\ mu' = None /\ registered' = TRUE
  /\ \E ks \in SUBSET Kinds : ks # {} /\ enabled' = enabled \cup ks
  /\ running' = TRUE
  /\ CallMoves(c, "notify")
  /\ UNCHANGED <<events, msgs, cfg, stopped, wedged, inFlight>> /\ StartFrame(c)

\* Start notifies after it has released mu_.
StartNotifies(c) ==
  /\ alive /\ callPc[c] = "notify"
  /\ Notify(c, "Start")
  /\ StartReturns(c, "hooks") /\ StartFrame(c)

\* The rest of cuprof_start: atexit once, and a duration timer (timed: the
\* configuration has a duration and pthread_create succeeded).
InstallHooks(c, timed) ==
  /\ alive /\ callPc[c] = "hooks"
  /\ hooked' = TRUE
  /\ stopPc' = [stopPc EXCEPT ![c] = IF ~wasRunning[c] /\ timed THEN "armed" ELSE @]
  /\ CallMoves(c, "returned")
  /\ UNCHANGED <<mu, registered, lastCall, wasRunning, events, torn, snapshot, msgs, file, alive>>
  /\ UNCHANGED sinkVars /\ UNCHANGED cuptiVars

-----------------------------------------------------------------------------
(* CuptiSink::Stop, called by a duration timer or by exit.                 *)

CallsStop(s) == alive /\ stopPc[s] = "armed" /\ mu = None
StopFrame == UNCHANGED <<alive>> /\ UNCHANGED startVars

\* No window runs, or another call stops it: return at once.
StopIsIdle(s) ==
  /\ CallsStop(s) /\ (~running \/ stopped)
  /\ StopMoves(s, "done")
  /\ UNCHANGED <<torn, snapshot, events, msgs, file>>
  /\ UNCHANGED sinkVars /\ UNCHANGED cuptiVars /\ StopFrame

StopBegins(s) ==
  /\ CallsStop(s) /\ running /\ ~stopped
  /\ stopped' = TRUE /\ running' = FALSE /\ inFlight' = TRUE
  /\ StopMoves(s, "launch")
  /\ UNCHANGED <<torn, snapshot, events, msgs, file, wedged, cfg>>
  /\ UNCHANGED cuptiVars /\ StopFrame

\* RunBounded hands the teardown to a detached thread, or runs it on the
\* stopping thread when the condvar, the clock or the thread cannot be had.
LaunchTeardown(s) ==
  /\ alive /\ stopPc[s] = "launch"
  /\ worker' = [worker EXCEPT ![cfg] = 1]
  /\ inline' \in {inline, inline \cup {cfg}}
  /\ StopMoves(s, "wait")
  /\ UNCHANGED <<torn, snapshot, events, msgs, file, enabled, work>>
  /\ UNCHANGED sinkVars /\ StopFrame

\* RunBounded sees `done`: the stop is announced.
TeardownDone(s) ==
  /\ alive /\ stopPc[s] = "wait" /\ worker[cfg] = Finished
  /\ torn' = [torn EXCEPT ![s] = TRUE]
  /\ Notify(cfg, "Stop")
  /\ StopMoves(s, "swap")
  /\ UNCHANGED <<snapshot, events, file>>
  /\ UNCHANGED sinkVars /\ UNCHANGED cuptiVars /\ StopFrame

TimesOut(s) ==
  /\ alive /\ stopPc[s] = "wait" /\ worker[cfg] # Finished /\ cfg \notin inline
  /\ StopMoves(s, "swap")
  /\ UNCHANGED <<snapshot, events, msgs, file, running, stopped, inFlight, cfg>>
  /\ UNCHANGED cuptiVars /\ StopFrame

\* Mutant of TeardownTimedOut: the deadline is taken for success.
TimeoutCountsAsDone(s) == TimesOut(s) /\ torn' = [torn EXCEPT ![s] = TRUE] /\ UNCHANGED wedged
\* Mutant of TeardownTimedOut: RunBounded waits without a deadline.
NoDeadline(s) == FALSE /\ TimesOut(s) /\ UNCHANGED <<torn, wedged>>

\* The deadline passes first: the instance is retired and its worker abandoned.
TeardownTimedOut(s) == mu = None /\ TimesOut(s) /\ wedged' = TRUE /\ UNCHANGED torn

\* The sink is left empty for the next window.
SwapEvents(s) ==
  /\ alive /\ stopPc[s] = "swap" /\ mu = None
  /\ snapshot' = [snapshot EXCEPT ![s] = events] /\ events' = {}
  /\ StopMoves(s, "write")
  /\ UNCHANGED <<torn, msgs, file>>
  /\ UNCHANGED sinkVars /\ UNCHANGED cuptiVars /\ StopFrame

Writes(s) ==
  /\ alive /\ stopPc[s] = "write" /\ StopMoves(s, "clear")
  /\ UNCHANGED <<torn, snapshot, events>>
  /\ UNCHANGED sinkVars /\ UNCHANGED cuptiVars /\ StopFrame

\* WriteChromeTrace fails: Failed stands in for WriterOver.
WriteFails(s) == Writes(s) /\ UNCHANGED file /\ Notify(cfg, "Failed")

\* Mutant of WriteSucceeds: the two failure reports are not alternatives.
WriteReportsTwice(s) ==
  /\ Writes(s)
  /\ file' = [file EXCEPT ![cfg] = snapshot[s]]
  /\ msgs' = [msgs EXCEPT ![cfg] =
                @ \o (IF torn[s] THEN <<>> ELSE <<"Failed">>) \o <<"WriterOver">>]

\* The file is written; after a timeout it is partial and reported as failed.
WriteSucceeds(s) ==
  /\ Writes(s)
  /\ file' = [file EXCEPT ![cfg] = snapshot[s]]
  /\ Notify(cfg, IF torn[s] THEN "WriterOver" ELSE "Failed")

StopEnds(s) ==
  /\ alive /\ stopPc[s] = "clear" /\ mu = None
  /\ inFlight' = FALSE
  /\ StopMoves(s, "done")
  /\ UNCHANGED <<torn, snapshot, events, msgs, file, running, stopped, wedged, cfg>>
  /\ UNCHANGED cuptiVars /\ StopFrame

\* exit(): FlushAtExit runs when it was installed, and the process dies when it
\* returns, whatever the other threads are in the middle of.
CallExit ==
  /\ alive /\ stopPc[Exit] = "none"
  /\ StopMoves(Exit, IF hooked THEN "armed" ELSE "done") /\ alive' = hooked
  /\ UNCHANGED <<torn, snapshot, events, msgs, file>>
  /\ UNCHANGED sinkVars /\ UNCHANGED cuptiVars /\ UNCHANGED startVars

Die ==
  /\ alive /\ stopPc[Exit] = "done"
  /\ alive' = FALSE
  /\ UNCHANGED <<events, msgs, file>>
  /\ UNCHANGED sinkVars /\ UNCHANGED startVars /\ UNCHANGED stopVars /\ UNCHANGED cuptiVars

-----------------------------------------------------------------------------
(* CUPTI and the teardown worker.                                          *)

CuptiFrame ==
  UNCHANGED <<msgs, file, alive>> /\ UNCHANGED sinkVars /\ UNCHANGED startVars
    /\ UNCHANGED stopVars

\* The target launches work of an enabled kind, and later it ends.
LaunchWork(k) ==
  /\ alive /\ k \in enabled /\ work[<<cfg, k>>] = "none"
  /\ Cardinality({r \in Records : work[r] # "none"}) < MaxWork
  /\ work' = [work EXCEPT ![<<cfg, k>>] = "running"]
  /\ UNCHANGED <<events, worker, inline, enabled>> /\ CuptiFrame

WorkEnds(r) ==
  /\ alive /\ work[r] = "running"
  /\ work' = [work EXCEPT ![r] = "ended"]
  /\ UNCHANGED <<events, worker, inline, enabled>> /\ CuptiFrame

\* OnBufferFilled, IngestRecord, Append: CUPTI delivers a record, when a buffer is
\* full or because of the forced flush; work that still runs has no end and is dropped.
DeliverRecord(r) ==
  /\ alive /\ mu = None
  /\ \/ work[r] = "ended" /\ events' = events \cup {r}
        /\ work' = [work EXCEPT ![r] = "kept"]
     \/ work[r] = "running" /\ UNCHANGED events
        /\ (\E w \in Calls : worker[w] = Flushing)
        /\ work' = [work EXCEPT ![r] = "dropped"]
  /\ UNCHANGED <<worker, inline, enabled>> /\ CuptiFrame

\* The worker disables the kinds one after the other.
WorkerDisables(w) ==
  /\ alive /\ worker[w] \in Kinds
  /\ enabled' = enabled \ {worker[w]}
  /\ worker' = [worker EXCEPT ![w] = @ + 1]
  /\ UNCHANGED <<events, inline, work>> /\ CuptiFrame

\* cuptiActivityFlushAll(1) returns when CUPTI holds nothing any more; RunAndSignal.
WorkerFinishes(w) ==
  /\ alive /\ worker[w] = Flushing
  /\ \A r \in Records : work[r] \notin {"running", "ended"}
  /\ worker' = [worker EXCEPT ![w] = Finished]
  /\ UNCHANGED <<events, inline, enabled, work>> /\ CuptiFrame

-----------------------------------------------------------------------------
Start(c) ==
  \/ StartRetired(c) \/ StartWhileStopping(c) \/ StartJoins(c) \/ StartOpens(c)
  \/ StartFails(c) \/ StartRuns(c) \/ StartNotifies(c)
  \/ \E timed \in BOOLEAN : InstallHooks(c, timed)

\* The steps of a Stop once it is past its guard.
StopSequence(s) ==
  \/ LaunchTeardown(s) \/ TeardownDone(s) \/ TeardownTimedOut(s) \/ SwapEvents(s)
  \/ WriteFails(s) \/ WriteSucceeds(s) \/ StopEnds(s)

Cupti ==
  \/ \E k \in Kinds : LaunchWork(k)
  \/ \E r \in Records : WorkEnds(r) \/ DeliverRecord(r)
  \/ \E w \in Calls : WorkerDisables(w) \/ WorkerFinishes(w)

Next ==
  \/ CuprofStart
  \/ \E c \in Calls : Start(c)
  \/ \E s \in Stoppers : StopIsIdle(s) \/ StopBegins(s) \/ StopSequence(s)
  \/ CallExit \/ Die
  \/ Cupti

\* The stopping thread is scheduled and its deadline passes; CUPTI owes nothing.
Fairness == WF_vars(\E s \in Stoppers : StopSequence(s))
Spec == Init /\ [][Next]_vars /\ Fairness

-----------------------------------------------------------------------------
TypeOK ==
  /\ mu \in Calls \cup {None} /\ cfg \in Calls \cup {None}
  /\ running \in BOOLEAN /\ stopped \in BOOLEAN /\ wedged \in BOOLEAN /\ inFlight \in BOOLEAN
  /\ events \subseteq Records
  /\ registered \in BOOLEAN /\ hooked \in BOOLEAN /\ lastCall \in 0..MaxCalls
  /\ callPc \in [Calls -> {"none", "start", "enable", "notify", "hooks", "returned"}]
  /\ wasRunning \in [Calls -> BOOLEAN]
  /\ stopPc \in [Stoppers -> {"none", "armed", "launch", "wait", "swap", "write", "clear", "done"}]
  /\ torn \in [Stoppers -> BOOLEAN] /\ snapshot \in [Stoppers -> SUBSET Records]
  /\ worker \in [Calls -> 0..Finished] /\ inline \subseteq Calls \cup {None}
  /\ enabled \subseteq Kinds
  /\ work \in [Records -> {"none", "running", "ended", "kept", "dropped"}]
  /\ msgs \in [Calls -> Seq(Messages)]
  /\ file \in [Calls -> (SUBSET Records) \cup {NoFile}]
  /\ alive \in BOOLEAN

\* "One trace holds one window" (cupti_sink.cc, Start): no record of an earlier
\* window, delivered late or left behind, is ever in the file of another one, and a
\* window that runs collects into a buffer that holds nothing else.
OneTraceHoldsOneWindow ==
  /\ \A c \in Calls : file[c] # NoFile => \A r \in file[c] : r[1] = c
  /\ running => \A r \in events : r[1] = cfg

\* WriterOver is the consumable-file signal: when it is sent, everything the target
\* did under that window and finished is in its file, and CUPTI holds nothing back.
WriterOverIsComplete ==
  \A c \in Calls : Contains(msgs[c], "WriterOver") =>
    /\ file[c] = {r \in Records : r[1] = c /\ work[r] = "kept"}
    /\ \A k \in Kinds : work[<<c, k>>] \notin {"running", "ended"}

\* A window has one verdict: WriterOver or Failed, never both, never twice, and never
\* none once the stop that owed it is over.
OneVerdictPerWindow ==
  \A c \in Calls :
    LET verdicts == {i \in DOMAIN msgs[c] : msgs[c][i] \in Terminal} IN
    /\ Cardinality(verdicts) <= 1
    /\ worker[c] # 0 /\ ~(inFlight /\ cfg = c) => verdicts # {}

\* While a window runs nothing disables a kind it enabled: not the teardown of an
\* earlier window that was abandoned inside the driver.
NothingDisablesARunningWindow ==
  [][running /\ running' => enabled \subseteq enabled']_vars

\* Two stops never write at the same time, although any number of timers and exit
\* may call Stop: the one past the guard owns cfg_ and the events until it ends.
OneStopAtATime ==
  /\ Cardinality({s \in Stoppers : stopPc[s] \in {"launch", "wait", "swap", "write", "clear"}})
       = (IF inFlight THEN 1 ELSE 0)
  /\ inFlight => ~running

\* A stop whose teardown runs on a thread of its own ends, hung driver or not, unless
\* the process ends first; OneVerdictPerWindow then says that its window was reported.
BoundedStopEnds ==
  (\E s \in Stoppers : stopPc[s] = "wait" /\ cfg \notin inline) ~> (~alive \/ ~inFlight)
=============================================================================
