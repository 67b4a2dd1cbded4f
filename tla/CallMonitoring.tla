---------------------------- MODULE CallMonitoring ----------------------------
(***************************************************************************)
(* What pyki's Python tracer does about Python 3.12, whose profile events  *)
(* for calls of C functions do not match (profiler_python.cpp with         *)
(* IS_PYTHON_3_12): a callback for call events under the tool id of        *)
(* profilers, which it shares with cProfile and with PyTorch's own         *)
(* profiler.  A C function called as a bound method has no call event      *)
(* before 3.12.5, and with CALL_FUNCTION_EX no return event.  One thread,  *)
(* with the GIL; its references and records otherwise are PythonTracer's.  *)
(***************************************************************************)
EXTENDS Integers, Sequences, SequencesExt, FiniteSets

CONSTANTS
  MaxDepth,      \* max_depth_
  MaxFrames,     \* bound: calls made in all
  MaxSessions    \* bound: times the tracer is started

OurName == "PyTorch Profiler"

VARIABLES
  calls,         \* the calls the thread is in, outermost first
  made,          \* history: number of calls
  muted,         \* the thread has suspended its tracing
  compensates,   \* should_compensate_c_call_events: 3.12.0 to 3.12.4
  withC,         \* C functions are not ignored
  tool,          \* the name under which the tool id is in use, or "none"
  callback,      \* who gets the call events of the id: "none", "ours" or "theirs"
  other,         \* the other profiler that runs, or "none"
  session,       \* "none", "active" or "stopped"
  sessions,      \* history: number of starts
  tls,           \* the thread's results
  refs,          \* per call the references the tracer holds on its frame or function
  unmatched,     \* history: an event was not made up for, or one that was ignored was
  broken         \* the process ended with bad_variant_access

monitoringVars == <<tool, callback, other>>
calledVars == <<calls, made, muted, compensates, withC, monitoringVars, session, sessions, tls,
                refs, unmatched, broken>>

Nothing == [id |-> 0, how |-> "nullptr", quiet |-> FALSE]
NoResults == [stack |-> <<>>, depth |-> -1, limit |-> -1, first |-> {}, since |-> 0]

IsC(e) == e.how \in {"c", "method", "spread"}

InitWith(c, missing) ==
  /\ calls = <<[id |-> 1, how |-> "py", quiet |-> FALSE]>> /\ made = 1 /\ muted = FALSE
  /\ compensates = missing /\ withC = c
  /\ tool = "none" /\ callback = "none" /\ other = "none"
  /\ session = "none" /\ sessions = 0 /\ tls = NoResults
  /\ refs = [i \in 1..MaxFrames |-> 0] /\ unmatched = FALSE /\ broken = FALSE

Init == \E c, missing \in BOOLEAN : InitWith(c, missing)

-----------------------------------------------------------------------------
(* The stack, as in PythonTracer, with the references it holds.            *)

\* recordCall: beyond max_depth_ a call only counts, while suspended it leaves a hole.
recordCall(r, e) ==
  [r EXCEPT !.depth = @ + 1,
            !.stack = IF r.depth + 1 >= MaxDepth THEN @ ELSE Append(@, IF muted THEN Nothing ELSE e)]

Top(r) == IF r.depth = -1 \/ r.depth >= MaxDepth THEN Nothing ELSE Last(r.stack)

Pop(r) ==
  IF r.depth = -1 THEN r
  ELSE [r EXCEPT !.depth = @ - 1, !.stack = IF r.depth >= MaxDepth THEN @ ELSE Front(@)]

\* discardLastCCall takes the entry off again, and its reference.
discardLastCCall(r) == Pop(r)

\* It expects the entry of a C function: a frame or a hole ends the process.
Throws(r) == r.depth # -1 /\ r.depth < MaxDepth /\ ~IsC(Top(r))

Held(r) == {r.stack[i].id : i \in DOMAIN r.stack} \ {0}

\* What changing the stack from tls to r does to the references, beyond those that leak.
Rereferenced(r) ==
  [id \in DOMAIN refs |-> IF id \in Held(r) \ Held(tls) THEN refs[id] + 1
                          ELSE IF id \in Held(tls) \ Held(r) THEN refs[id] - 1 ELSE refs[id]]

\* The frames of the thread are pushed as calls when the tracer starts.
Started ==
  LET py == SelectSeq(calls, LAMBDA e : ~IsC(e))
      top == SubSeq(py, IF Len(py) > MaxDepth THEN Len(py) - MaxDepth + 1 ELSE 1, Len(py))
  IN [stack |-> top, depth |-> Len(top) - 1, limit |-> IF withC THEN Len(top) - 1 ELSE -1,
      first |-> {top[i].id : i \in DOMAIN top}, since |-> made]

-----------------------------------------------------------------------------
(* Calls and returns.                                                      *)

\* The profile event of a call; C functions may be ignored, and methods have none before
\* 3.12.5.
Profiled(r, e) ==
  IF IsC(e) /\ (~withC \/ (e.how # "c" /\ compensates)) THEN r ELSE recordCall(r, e)

\* c_call_callback, after it: a method's missing event is made up for, whether or not C
\* functions are ignored.
Compensated(r, e) ==
  IF callback = "ours" /\ compensates /\ e.how \in {"method", "spread"}
  THEN recordCall(r, e) ELSE r

\* Whether it discards the call, which will have no return event.
Discards(e) == callback = "ours" /\ e.how = "spread"

\* Without the callback, or with C functions ignored, it makes up for the wrong events.
Mismatches(e) ==
  /\ (callback = "ours") # withC
  /\ e.how = (IF compensates THEN "method" ELSE "spread")

Enter(how) ==
  LET e == [id |-> made + 1, how |-> how, quiet |-> muted]
      called == Compensated(Profiled(tls, e), e)
      after == IF Discards(e) THEN discardLastCCall(called) ELSE called
  IN
  /\ ~broken /\ made < MaxFrames /\ ~IsC(Last(calls))
  /\ made' = made + 1 /\ calls' = Append(calls, e)
  /\ IF session # "active" THEN UNCHANGED <<tls, refs, unmatched, broken>>
     ELSE /\ broken' = (Discards(e) /\ Throws(called))
          /\ tls' = after /\ refs' = Rereferenced(after)
          /\ unmatched' = (unmatched \/ Mismatches(e))
  /\ UNCHANGED <<muted, compensates, withC, monitoringVars, session, sessions>>

\* The return event.  recordReturn takes an entry off, and its reference if it is of the
\* kind that returned; a C return at or below the limit belongs to an earlier call.
Leave ==
  LET e == Last(calls)
      popped == Pop(tls)
  IN
  /\ ~broken /\ Len(calls) > 1
  /\ calls' = Front(calls)
  /\ IF session # "active" \/ e.how = "spread" \/ (IsC(e) /\ (~withC \/ tls.depth <= tls.limit))
     THEN UNCHANGED <<tls, refs>>
     ELSE /\ tls' = [popped EXCEPT !.limit = IF ~IsC(e) /\ withC /\ popped.depth < @
                                             THEN popped.depth ELSE @]
          /\ refs' = IF Top(tls) # Nothing /\ IsC(Top(tls)) # IsC(e) THEN refs
                     ELSE Rereferenced(popped)
  /\ UNCHANGED <<made, muted, compensates, withC, monitoringVars, session, sessions, unmatched,
                 broken>>

SetSuspended(on) ==
  /\ ~broken /\ session = "active" /\ ~IsC(Last(calls)) /\ muted # on
  /\ muted' = on
  /\ UNCHANGED <<calls, made, compensates, withC, monitoringVars, session, sessions, tls, refs,
                 unmatched, broken>>

-----------------------------------------------------------------------------
(* The tool id.                                                            *)

\* use_tool_id fails when the id is in use, and then nothing is registered.
registerMonitoringCallback ==
  IF tool # "none" THEN UNCHANGED <<tool, callback>>
  ELSE tool' = OurName /\ callback' = "ours"

\* What is registered under our name is taken to be ours.
unregisterMonitoringCallback ==
  IF tool # OurName THEN UNCHANGED <<tool, callback>>
  ELSE tool' = "none" /\ callback' = "none"

Start ==
  /\ ~broken /\ session = "none" /\ sessions < MaxSessions
  /\ session' = "active" /\ sessions' = sessions + 1
  /\ tls' = Started /\ refs' = [id \in DOMAIN refs |-> IF id \in Held(Started) THEN 1 ELSE 0]
  /\ registerMonitoringCallback
  /\ UNCHANGED <<calls, made, muted, compensates, withC, other, unmatched, broken>>

Stop ==
  /\ ~broken /\ session = "active" /\ session' = "stopped"
  /\ unregisterMonitoringCallback
  /\ UNCHANGED <<calls, made, muted, compensates, withC, other, sessions, tls, refs, unmatched,
                 broken>>

Reset ==
  /\ ~broken /\ session = "stopped" /\ session' = "none"
  /\ tls' = NoResults /\ refs' = [id \in DOMAIN refs |-> 0] /\ unmatched' = FALSE /\ muted' = FALSE
  /\ UNCHANGED <<calls, made, compensates, withC, monitoringVars, sessions, broken>>

\* cProfile refuses to start while the id is in use; PyTorch's profiler goes on without,
\* and ends as ours does.
OtherStarts(name) ==
  /\ ~broken /\ other = "none" /\ (name = OurName \/ tool = "none")
  /\ other' = name
  /\ IF tool # "none" THEN UNCHANGED <<tool, callback>> ELSE tool' = name /\ callback' = "theirs"
  /\ UNCHANGED <<calls, made, muted, compensates, withC, session, sessions, tls, refs, unmatched,
                 broken>>

OtherEnds ==
  /\ ~broken /\ other # "none" /\ other' = "none"
  /\ IF other = OurName THEN unregisterMonitoringCallback ELSE tool' = "none" /\ callback' = "none"
  /\ UNCHANGED <<calls, made, muted, compensates, withC, session, sessions, tls, refs, unmatched,
                 broken>>

Next ==
  \/ \E how \in {"py", "c", "method", "spread"} : Enter(how)
  \/ Leave \/ \E on \in BOOLEAN : SetSuspended(on)
  \/ Start \/ Stop \/ Reset
  \/ \E name \in {"cProfile", OurName} : OtherStarts(name)
  \/ OtherEnds

Spec == Init /\ [][Next]_calledVars

-----------------------------------------------------------------------------
\* The calls that have a return event, of those since the start and the frames it found.
Expected ==
  LET kept == SelectSeq(calls, LAMBDA e : \/ e.id \in tls.first
                                          \/ e.id > tls.since /\ (~IsC(e) \/ (withC /\ e.how # "spread")))
  IN [i \in DOMAIN kept |-> IF kept[i].quiet /\ kept[i].id > tls.since THEN Nothing ELSE kept[i]]

\* While events match or are made up for, the stack is that of the calls that will have a
\* return event, and a call is kept alive as often as it stands there; otherwise some are
\* leaked but none is let go of too early.  The process survives, unless C functions are
\* ignored or the thread is suspended.
StackIsTheCalls ==
  /\ broken => ~withC \/ muted
  /\ session = "active" /\ ~broken =>
       /\ \A id \in DOMAIN refs : refs[id] >= (IF id \in Held(tls) THEN 1 ELSE 0)
       /\ ~unmatched =>
            /\ tls.depth = Len(Expected) - 1
            /\ tls.stack = SubSeq(Expected, 1, IF Len(Expected) > MaxDepth THEN MaxDepth ELSE Len(Expected))
            /\ \A id \in DOMAIN refs : refs[id] = (IF id \in Held(tls) THEN 1 ELSE 0)

\* No call event reaches a tracer that was stopped, and the events of a profiler with
\* another name are left to it.
ToolIdIsShared ==
  /\ callback = "ours" => session = "active" /\ tool = OurName
  /\ other \notin {"none", OurName} => tool = other /\ callback = "theirs"
=============================================================================
