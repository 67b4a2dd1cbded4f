------------------------------ MODULE PykiLoader ------------------------------
(***************************************************************************)
(* The loader that cf injects into a Python process (pykiLoader/loader.c): *)
(* each injection is a thread that runs load_pyki under a watchdog, which  *)
(* ends it when it does not get the GIL in time.  Injections come one      *)
(* after another; the globals are those of the one library.                *)
(***************************************************************************)
EXTENDS Integers

CONSTANTS
  Loads,         \* bound: number of injections, a natural number
  Tids           \* thread ids the kernel hands out, and hands out again

VARIABLES
  stage,         \* where each loader thread is
  tid,           \* its thread id, 0 when it has none
  watchdog,      \* per injection: "none", "created", "asleep", "fires" or "gone"
  watches,       \* per watchdog: target_tid
  loaderTid,     \* g_loader_tid
  acquired,      \* g_gil_acquired
  handler,       \* the process's SIGUSR2 handler is sigusr2_handler
  gil,           \* who holds the GIL: "nobody", "target" or an injection
  others,        \* thread ids of the target's own threads
  victims        \* history: where the threads were that SIGUSR2 ended

loaderVars == <<stage, tid, watchdog, watches, loaderTid, acquired, handler, gil, others, victims>>

Nobody == 0
Target == -1

Init ==
  /\ stage = [n \in 1..Loads |-> "new"] /\ tid = [n \in 1..Loads |-> 0]
  /\ watchdog = [n \in 1..Loads |-> "none"] /\ watches = [n \in 1..Loads |-> 0]
  /\ loaderTid = 0 /\ acquired = FALSE /\ handler = FALSE /\ gil = Nobody
  /\ others = {} /\ victims = {}

Used == others \cup {tid[n] : n \in 1..Loads}

\* load_pyki starts: it names itself and resets the globals of the one before.
Enter(n) ==
  /\ stage[n] = "new" /\ \A m \in 1..(n - 1) : stage[m] = "gone"
  /\ \E id \in Tids \ Used : tid' = [tid EXCEPT ![n] = id] /\ loaderTid' = id
  /\ acquired' = FALSE /\ stage' = [stage EXCEPT ![n] = "reading"]
  /\ UNCHANGED <<watchdog, watches, handler, gil, others, victims>>

\* read_file: without a command the thread exits with LOADER_EXIT_READ_FAILED.
ReadFile(n) ==
  /\ stage[n] = "reading"
  /\ \/ stage' = [stage EXCEPT ![n] = "install"] /\ UNCHANGED tid
     \/ stage' = [stage EXCEPT ![n] = "gone"] /\ tid' = [tid EXCEPT ![n] = 0]
  /\ UNCHANGED <<watchdog, watches, loaderTid, acquired, handler, gil, others, victims>>

\* The handler is installed and the watchdog created; when that fails the loader goes on.
InstallHandler(n) ==
  /\ stage[n] = "install" /\ handler' = TRUE /\ stage' = [stage EXCEPT ![n] = "waiting"]
  /\ watchdog' \in {watchdog, [watchdog EXCEPT ![n] = "created"]}
  /\ UNCHANGED <<tid, watches, loaderTid, acquired, gil, others, victims>>

\* PyGILState_Ensure returns.
EnsureGil(n) ==
  /\ stage[n] = "waiting" /\ gil = Nobody /\ gil' = n /\ stage' = [stage EXCEPT ![n] = "holding"]
  /\ UNCHANGED <<tid, watchdog, watches, loaderTid, acquired, handler, others, victims>>

MarkAcquired(n) ==
  /\ stage[n] = "holding" /\ acquired' = TRUE /\ stage' = [stage EXCEPT ![n] = "running"]
  /\ UNCHANGED <<tid, watchdog, watches, loaderTid, handler, gil, others, victims>>

\* The command has run: the GIL is released and the thread returns.
Return(n) ==
  /\ stage[n] = "running" /\ gil' = Nobody
  /\ stage' = [stage EXCEPT ![n] = "gone"] /\ tid' = [tid EXCEPT ![n] = 0]
  /\ UNCHANGED <<watchdog, watches, loaderTid, acquired, handler, others, victims>>

\* The watchdog thread runs and reads g_loader_tid.
WatchdogStarts(n) ==
  /\ watchdog[n] = "created" /\ watchdog' = [watchdog EXCEPT ![n] = "asleep"]
  /\ watches' = [watches EXCEPT ![n] = loaderTid]
  /\ UNCHANGED <<stage, tid, loaderTid, acquired, handler, gil, others, victims>>

\* Its time is over: it reads g_gil_acquired, and when that is unset logs that it fires.
WatchdogWakes(n) ==
  /\ watchdog[n] = "asleep"
  /\ watchdog' = [watchdog EXCEPT ![n] = IF acquired THEN "gone" ELSE "fires"]
  /\ UNCHANGED <<stage, tid, watches, loaderTid, acquired, handler, gil, others, victims>>

\* tgkill: sigusr2_handler ends the thread that has the thread id by now, if any does.
WatchdogSignals(n) ==
  /\ watchdog[n] = "fires" /\ watchdog' = [watchdog EXCEPT ![n] = "gone"]
  /\ LET hit == {m \in 1..Loads : tid[m] = watches[n] /\ stage[m] # "new"} IN
     /\ stage' = [m \in 1..Loads |-> IF m \in hit THEN "gone" ELSE stage[m]]
     /\ tid' = [m \in 1..Loads |-> IF m \in hit THEN 0 ELSE tid[m]]
     /\ victims' = victims \cup {stage[m] : m \in hit}
                           \cup (IF watches[n] \in others THEN {"target"} ELSE {})
  /\ others' = others \ {watches[n]}
  /\ UNCHANGED <<watches, loaderTid, acquired, handler, gil>>

TargetTakesGil ==
  /\ gil = Nobody /\ gil' = Target
  /\ UNCHANGED <<stage, tid, watchdog, watches, loaderTid, acquired, handler, others, victims>>

TargetReleasesGil ==
  /\ gil = Target /\ gil' = Nobody
  /\ UNCHANGED <<stage, tid, watchdog, watches, loaderTid, acquired, handler, others, victims>>

\* The target starts a thread of its own, or one ends.
TargetThread(id) ==
  /\ \/ id \notin Used /\ others' = others \cup {id}
     \/ id \in others /\ others' = others \ {id}
  /\ UNCHANGED <<stage, tid, watchdog, watches, loaderTid, acquired, handler, gil, victims>>

Next ==
  \/ \E n \in 1..Loads :
       \/ Enter(n) \/ ReadFile(n) \/ InstallHandler(n) \/ EnsureGil(n) \/ MarkAcquired(n)
       \/ Return(n) \/ WatchdogStarts(n) \/ WatchdogWakes(n) \/ WatchdogSignals(n)
  \/ TargetTakesGil \/ TargetReleasesGil
  \/ \E id \in Tids : TargetThread(id)

Spec == Init /\ [][Next]_loaderVars

-----------------------------------------------------------------------------
\* What sigusr2_handler says of the thread it ends (loader.c:64): it is a loader that is
\* still waiting for the GIL, so that the target is left untouched.
HandlerFindsAWaitingLoader == victims \subseteq {"waiting"}
=============================================================================
