---------------------------- MODULE PystackTracer ----------------------------
(***************************************************************************)
(* The C function tracer of the pystackCollector plug-in: PythonTracer     *)
(* (profiler_python.cpp), the RecordQueue that keeps one subqueue per      *)
(* thread (collection.cpp) and the C API over both (Wraper.cpp).  A step   *)
(* is what runs between two releases of the GIL.  A thread asks for its    *)
(* subqueue inside the profile function, so with the GIL; the first time,  *)
(* it creates it under sub_queue_mutex_ and asks Python for the thread's   *)
(* name, where the GIL can be released.                                    *)
(***************************************************************************)
EXTENDS Integers, Sequences, SequencesExt, FiniteSets

CONSTANTS
  Workers,       \* threads besides the one that uses the API
  MaxDepth,      \* max_depth_
  MaxFrames,     \* bound: calls made in all
  MaxSessions    \* bound: times the tracer is started

Main == "main"
Tracees == Workers \cup {Main}

VARIABLES
  alive,         \* the threads of the interpreter
  calls,         \* per thread the calls it is in, outermost first
  made,          \* history: number of calls
  compensates,   \* 3.12.0-3.12.4: no call event for a method that is a C function
  toolTaken,     \* another tool has the monitoring id
  monitored,     \* c_call_callback is registered
  withC,         \* C functions are not ignored
  profiled,      \* the threads whose c_profilefunc is pyProfileFn
  session,       \* g_record_queue: "none", "active", "stopped" or "exported"
  queueId,       \* queue_id_
  cache,         \* per thread the queue its sub_queue_cache_ is of
  tls,           \* thread_local_results_, by thread
  subqueues,     \* sub_queues_: the tids that have one
  owner,         \* who holds sub_queue_mutex_, or "nobody"
  at,            \* per thread "run", or in getSubqueue "naming" or "lock"
  pending,       \* per thread what it adds once it has its subqueue
  refs,          \* per call the references the tracer holds on its frame or function
  records,       \* the py_calls_ of all subqueues
  broken         \* a thread has used a queue that is gone

interpreterVars == <<alive, calls, made, compensates, toolTaken>>
stackVars == <<tls, refs>>
queueVars == <<cache, subqueues, owner, at, pending, records, broken>>
apiVars == <<monitored, withC, profiled, session, queueId>>
pystackVars == <<interpreterVars, stackVars, queueVars, apiVars>>

\* A blocked thread keeps the GIL: nobody else runs.
Runs(t) == ~broken /\ t \in alive /\ at[t] = "run" /\ \A u \in Tracees : at[u] # "lock"

Nothing == [id |-> 0, kind |-> "nullptr", tid |-> 0]
NoWork == [queue |-> 0, tid |-> 0, adds |-> {}]

\* currentThreadId, unique to a thread for ever: here its outermost call.
Tid(t) == calls[t][1].id
Call(t, kind, of) == [id |-> made + 1, kind |-> kind, tid |-> of]

InitWith(c, missing, taken) ==
  /\ alive = {Main} /\ made = 1
  /\ calls = [t \in Tracees |-> IF t = Main THEN <<[id |-> 1, kind |-> "py", tid |-> 1]>> ELSE <<>>]
  /\ compensates = missing /\ toolTaken = taken /\ monitored = FALSE /\ withC = c
  /\ profiled = {} /\ session = "none" /\ queueId = 0 /\ cache = [t \in Tracees |-> 0]
  /\ tls = <<>> /\ subqueues = {} /\ owner = "nobody"
  /\ at = [t \in Tracees |-> "run"] /\ pending = [t \in Tracees |-> NoWork]
  /\ refs = [i \in 1..MaxFrames |-> 0] /\ records = {} /\ broken = FALSE

Init == \E c, missing, taken \in BOOLEAN : (taken => missing) /\ InitWith(c, missing, taken)

-----------------------------------------------------------------------------
(* The stack of one thread's results.                                      *)

\* recordCall: beyond max_depth_ a call only counts; while suspended it leaves a hole.
recordCall(r, e) ==
  [r EXCEPT !.depth = @ + 1,
            !.stack = IF r.depth + 1 >= MaxDepth THEN @
                      ELSE Append(@, IF r.suspended THEN Nothing ELSE e)]

Holds(r) == ~r.suspended /\ r.depth + 1 < MaxDepth

Top(r) == IF r.depth = -1 \/ r.depth >= MaxDepth THEN Nothing ELSE Last(r.stack)

Pop(r) ==
  IF r.depth = -1 THEN r
  ELSE [r EXCEPT !.depth = @ - 1, !.stack = IF r.depth >= MaxDepth THEN @ ELSE Front(@)]

\* The constructor pushes the innermost frames of a thread as calls.  A C return at
\* their depth belongs to a call made before.
Started(cs) ==
  LET py == SelectSeq(cs, LAMBDA e : e.kind = "py")
      top == SubSeq(py, IF Len(py) > MaxDepth THEN Len(py) - MaxDepth + 1 ELSE 1, Len(py))
  IN [stack |-> top, depth |-> Len(top) - 1,
      limit |-> IF withC THEN Len(top) - 1 ELSE -1, suspended |-> FALSE]

Ids(es) == {e.id : e \in es} \ {0}
Hold(rs, ids) == [i \in DOMAIN rs |-> IF i \in ids THEN rs[i] + 1 ELSE rs[i]]
Drop(rs, ids) == [i \in DOMAIN rs |-> IF i \in ids THEN rs[i] - 1 ELSE rs[i]]

-----------------------------------------------------------------------------
(* The queue.                                                              *)

\* Mutant of getSubqueue: the subqueue is found under the id the thread was given last.
getAnySubqueue(t, adds) ==
  LET q == CHOOSE s \in subqueues \cup {Tid(t)} : \A u \in subqueues : s <= u IN
  /\ records' = records \cup {[queue |-> q, of |-> a.of, left |-> a.left] : a \in adds}
  /\ subqueues' = subqueues \cup {q} /\ cache' = [cache EXCEPT ![t] = queueId]
  /\ refs' = Drop(refs, Ids({a.of : a \in adds}))
  /\ UNCHANGED <<owner, at, pending, broken>>

\* getSubqueue and the emplace_py_calls after it, each of which lets go of its frame.  A
\* thread without a subqueue creates it with the mutex held; one that finds the mutex
\* taken waits, with the GIL.
getSubqueue(t, adds) ==
  LET work == [queue |-> queueId, tid |-> Tid(t), adds |-> adds] IN
  IF cache[t] = queueId
  THEN /\ records' = records \cup {[queue |-> Tid(t), of |-> a.of, left |-> a.left] : a \in adds}
       /\ refs' = Drop(refs, Ids({a.of : a \in adds}))
       /\ UNCHANGED <<cache, subqueues, owner, at, pending, broken>>
  ELSE /\ at' = [at EXCEPT ![t] = IF owner = "nobody" THEN "naming" ELSE "lock"]
       /\ owner' = IF owner = "nobody" THEN t ELSE owner
       /\ pending' = [pending EXCEPT ![t] = work]
       /\ UNCHANGED <<cache, subqueues, records, refs, broken>>

\* The thread has its name: the subqueue is filed and the mutex released.  The queue may
\* have been reset meanwhile.
NameEnds(t) ==
  LET work == pending[t] IN
  /\ ~broken /\ at[t] = "naming" /\ \A u \in Tracees : at[u] # "lock"
  /\ at' = [at EXCEPT ![t] = "run"] /\ pending' = [pending EXCEPT ![t] = NoWork]
  /\ IF work.queue # queueId \/ session = "none"
     THEN broken' = TRUE /\ UNCHANGED <<cache, subqueues, owner, records, refs>>
     ELSE /\ cache' = [cache EXCEPT ![t] = queueId]
          /\ subqueues' = subqueues \cup {work.tid} /\ owner' = "nobody"
          /\ records' = records \cup {[queue |-> work.tid, of |-> a.of, left |-> a.left] :
                                        a \in work.adds}
          /\ refs' = Drop(refs, Ids({a.of : a \in work.adds})) /\ UNCHANGED broken
  /\ UNCHANGED <<interpreterVars, tls, apiVars>>

-----------------------------------------------------------------------------
(* The profile function.                                                   *)

\* A C function called as a method ("m") has no call event in 3.12.0-3.12.4:
\* c_call_callback records it, also when C functions are ignored.
Recorded(kind) ==
  CASE kind = "py" -> TRUE [] kind = "c" -> withC [] OTHER -> monitored

Enter(t, kind) ==
  LET e == Call(t, IF kind = "py" THEN "py" ELSE "c", Tid(t)) IN
  /\ Runs(t) /\ calls[t] # <<>> /\ made < MaxFrames /\ (kind = "m" => compensates)
  /\ kind # "py" => Last(calls[t]).kind = "py"
  /\ made' = made + 1 /\ calls' = [calls EXCEPT ![t] = Append(@, e)]
  /\ IF t \in profiled /\ Recorded(kind)
     THEN /\ tls' = [tls EXCEPT ![t] = recordCall(@, e)]
          /\ refs' = IF Holds(tls[t]) THEN Hold(refs, {e.id}) ELSE refs
     ELSE UNCHANGED stackVars
  /\ UNCHANGED <<alive, compensates, toolTaken, queueVars, apiVars>>

\* recordReturn: nothing for a hole or an entry of the other kind, whose reference stays;
\* an interval below the threshold is dropped.
recordReturn(t, e, limit) ==
  LET top == Top(tls[t]) IN
  /\ tls' = [tls EXCEPT ![t] = [Pop(@) EXCEPT !.limit = limit]]
  /\ IF top.kind # e.kind THEN UNCHANGED <<refs, queueVars>>
     ELSE \/ refs' = Drop(refs, {top.id}) /\ UNCHANGED queueVars
          \/ getSubqueue(t, {[of |-> top, left |-> e.id]})

LimitAfter(r, e) ==
  IF e.kind = "py" /\ withC /\ Pop(r).depth < r.limit THEN Pop(r).depth ELSE r.limit

\* pyProfileFn for the return of the innermost call.
Leave(t) ==
  LET e == Last(calls[t]) IN
  /\ Runs(t) /\ calls[t] # <<>> /\ (t = Main => Len(calls[t]) > 1)
  /\ calls' = [calls EXCEPT ![t] = Front(@)]
  /\ IF t \notin profiled \/ (e.kind = "c" /\ (~withC \/ tls[t].depth <= tls[t].limit))
     THEN UNCHANGED <<stackVars, queueVars>>
     ELSE recordReturn(t, e, LimitAfter(tls[t], e))
  /\ UNCHANGED <<alive, made, compensates, toolTaken, apiVars>>

StartThread(t) ==
  /\ ~broken /\ t \notin alive /\ made < MaxFrames /\ \A u \in Tracees : at[u] # "lock"
  /\ alive' = alive \cup {t} /\ made' = made + 1
  /\ calls' = [calls EXCEPT ![t] = <<Call(t, "py", made + 1)>>]
  /\ UNCHANGED <<compensates, toolTaken, stackVars, queueVars, apiVars>>

\* A thread whose outermost call returned ends, and its thread-locals with it.
EndThread(t) ==
  /\ Runs(t) /\ calls[t] = <<>>
  /\ alive' = alive \ {t} /\ profiled' = profiled \ {t} /\ cache' = [cache EXCEPT ![t] = 0]
  /\ UNCHANGED <<calls, made, compensates, toolTaken, stackVars, subqueues, owner, at, pending,
                 records, broken, monitored, withC, session, queueId>>

-----------------------------------------------------------------------------
(* The API, called by the main thread.                                     *)

\* Without the tool id the callback is not registered; unregistering looks whose id it is.
registerMonitoringCallback == compensates /\ ~toolTaken
unregisterMonitoringCallback == monitored /\ toolTaken

\* start_python_tracer_c: every thread there is gets its results and the profile function.
start_python_tracer_c ==
  LET living == alive IN
  /\ Runs(Main) /\ session = "none" /\ queueId < MaxSessions
  /\ session' = "active" /\ queueId' = queueId + 1
  /\ profiled' = living /\ monitored' = registerMonitoringCallback
  /\ tls' = [t \in living |-> Started(calls[t])]
  /\ refs' = Hold(refs, UNION {Ids({Started(calls[t]).stack[i] :
                                      i \in DOMAIN Started(calls[t]).stack}) : t \in living})
  /\ UNCHANGED <<interpreterVars, queueVars, withC>>

stop_python_tracer_c ==
  /\ Runs(Main) /\ session = "active" /\ session' = "stopped"
  /\ profiled' = {} /\ monitored' = unregisterMonitoringCallback
  /\ UNCHANGED <<interpreterVars, stackVars, queueVars, withC, queueId>>

SetSuspended(t, on) ==
  /\ Runs(t) /\ session # "none" /\ t \in DOMAIN tls /\ tls[t].suspended # on
  /\ tls' = [tls EXCEPT ![t].suspended = on]
  /\ UNCHANGED <<interpreterVars, refs, queueVars, apiVars>>

suspend_python_tracer_for_current_thread_c(t) == SetSuspended(t, TRUE)
resume_python_tracer_for_current_thread_c(t) == SetSuspended(t, FALSE)

\* processUnfinishedCalls: what is left on the stacks is added to the subqueue of the
\* thread that exports.
Unfinished ==
  {[of |-> tls[t].stack[i], left |-> 0] : <<t, i>> \in
     {o \in (DOMAIN tls) \X (1..MaxDepth) :
        o[2] \in DOMAIN tls[o[1]].stack /\ tls[o[1]].stack[o[2]] # Nothing}}

export_python_tracer_data_c ==
  /\ Runs(Main) /\ session = "stopped" /\ session' = "exported"
  /\ IF Unfinished = {} THEN UNCHANGED <<refs, queueVars>> ELSE getSubqueue(Main, Unfinished)
  /\ UNCHANGED <<interpreterVars, tls, monitored, withC, profiled, queueId>>

\* reset_python_tracer_c stops an active tracer and frees the queue; what was on the
\* stacks and not exported stays referenced for ever.
reset_python_tracer_c ==
  /\ Runs(Main) /\ session # "none" /\ session' = "none"
  /\ tls' = <<>> /\ refs' = [i \in DOMAIN refs |-> 0] /\ profiled' = {}
  /\ monitored' = unregisterMonitoringCallback /\ subqueues' = {} /\ records' = {} /\ owner' = "nobody"
  /\ UNCHANGED <<interpreterVars, withC, queueId, cache, at, pending, broken>>

Next ==
  \/ \E t \in Tracees :
       \/ \E kind \in {"py", "c", "m"} : Enter(t, kind)
       \/ Leave(t) \/ NameEnds(t)
       \/ suspend_python_tracer_for_current_thread_c(t) \/ resume_python_tracer_for_current_thread_c(t)
  \/ \E t \in Workers : StartThread(t) \/ EndThread(t)
  \/ start_python_tracer_c \/ stop_python_tracer_c
  \/ export_python_tracer_data_c \/ reset_python_tracer_c

Spec == Init /\ [][Next]_pystackVars

-----------------------------------------------------------------------------
\* Call and return events match: they do not on 3.12.0-3.12.4 where the callback is missing,
\* or where it records calls whose returns are ignored.
EventsMatch == compensates => withC /\ ~toolTaken

Occurrences(id) ==
  {o \in (DOMAIN tls) \X (1..MaxDepth) :
     o[2] \in DOMAIN tls[o[1]].stack /\ tls[o[1]].stack[o[2]].id = id}

InFlight(id) ==
  {t \in Tracees : pending[t].queue = queueId /\ \E a \in pending[t].adds : a.of.id = id}

\* While events match, the tracer holds one reference for each place a call has on its
\* stacks and one for each that is being recorded; where they do not, it leaks some but
\* lets go of none too many.
ReferencesFollowTheStacks ==
  ~broken /\ session \in {"active", "stopped"} =>
    \A id \in DOMAIN refs :
      LET held == Cardinality(Occurrences(id)) + Cardinality(InFlight(id)) IN
      refs[id] >= held /\ (EventsMatch => refs[id] = held)

\* While events match, an interval is that of the call that returned and stands in the
\* subqueue of the thread that made the call, once.
RecordsAreTheirCalls ==
  EventsMatch =>
    \A r \in records : r.left # 0 =>
      /\ r.left = r.of.id /\ r.queue = r.of.tid
      /\ \A s \in records : s.of.id = r.of.id => s = r

\* The only wait with the GIL held is for a mutex whose owner needs the GIL: two threads
\* that both have no subqueue yet, one of them asking for its name.
OnlyNewcomersBlock ==
  \A t \in Tracees : at[t] = "lock" =>
    /\ cache[t] # queueId
    /\ owner \in Tracees \ {t} /\ at[owner] = "naming" /\ cache[owner] # queueId
=============================================================================
