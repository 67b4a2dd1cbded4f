---------------------------- MODULE PythonTracer ----------------------------
(***************************************************************************)
(* pyki's Python function tracer (python_trace/profiler_python.cpp and the *)
(* API over it in python_tracer.cpp), built for an interpreter with a GIL  *)
(* and without 3.12's monitoring callback: every thread's calls and        *)
(* returns, the stack the tracer keeps for each, and start, stop, export   *)
(* and reset.  A step is what runs between two releases of the GIL.  A     *)
(* thread stands for its PyThreadState, whose address a later thread can   *)
(* get again.                                                              *)
(***************************************************************************)
EXTENDS Integers, Sequences, SequencesExt, FiniteSets

CONSTANTS
  Workers,       \* threads besides the one that starts and stops the tracer
  MaxDepth,      \* max_depth_
  MaxFrames      \* bound: calls made in all

Main == "main"
Tracees == Workers \cup {Main}

VARIABLES
  alive,         \* the threads of the interpreter
  calls,         \* per thread the calls it is in, outermost first
  muted,         \* per thread whether it has suspended its tracing
  profile,       \* per thread its c_profilefunc: "none", "trampoline" or "tracer"
  ctx,           \* per thread the results its TraceContext points at, 0 for none
  session,       \* g_record_queue: "none", "starting", "active", "stopping", "stopped", "reset"
  listed,        \* the threads start has listed
  instance,      \* active_instance_ is set
  hook,          \* threading's profile function is the trampoline
  withC,         \* C functions are not ignored
  tls,           \* thread_local_results_
  refs,          \* per call the references the tracer holds on its frame or function
  records,       \* the py_calls_ of all threads
  exported,      \* the unfinished calls were added
  made,          \* history: number of calls
  broken         \* the process has used memory that is gone

interpVars == <<alive, calls, muted, made>>
tracerVars == <<profile, ctx, session, listed, instance, hook, withC, tls, refs, records,
                exported, broken>>
tracedVars == <<alive, calls, muted, made, profile, ctx, session, listed, instance, hook,
                withC, tls, refs, records, exported, broken>>

Idle(t) == broken \/ t \notin alive \/ (t = Main /\ session \in {"starting", "stopping"})

Nothing == [id |-> 0, kind |-> "nullptr", quiet |-> FALSE]

InitWith(c) ==
  /\ alive = {Main} /\ made = 1 /\ muted = [t \in Tracees |-> FALSE]
  /\ calls = [t \in Tracees |->
       IF t = Main THEN <<[id |-> 1, kind |-> "py", quiet |-> FALSE]>> ELSE <<>>]
  /\ profile = [t \in Tracees |-> "none"] /\ ctx = [t \in Tracees |-> 0]
  /\ session = "none" /\ listed = {} /\ instance = FALSE /\ hook = FALSE
  /\ withC = c /\ tls = <<>> /\ refs = [i \in 1..MaxFrames |-> 0]
  /\ records = {} /\ exported = FALSE /\ broken = FALSE

Init == \E c \in BOOLEAN : InitWith(c)

-----------------------------------------------------------------------------
(* The stack of one thread's results.                                      *)

\* A call beyond max_depth_ only counts; one made while suspended leaves a hole.
Push(r, e) ==
  [r EXCEPT !.depth = @ + 1,
            !.stack = IF r.depth + 1 >= MaxDepth THEN @
                      ELSE Append(@, IF r.suspended THEN Nothing ELSE e)]

\* The entry a return takes off: nothing below the first or beyond max_depth_.
Top(r) == IF r.depth = -1 \/ r.depth >= MaxDepth THEN Nothing ELSE Last(r.stack)

Pop(r) ==
  IF r.depth = -1 THEN r
  ELSE [r EXCEPT !.depth = @ - 1, !.stack = IF r.depth >= MaxDepth THEN @ ELSE Front(@)]

\* fillInitialState: the innermost frames are pushed as calls, outermost first, so that the
\* i-th has n - i inside it, and a C return at their depth belongs to a call made before.
Filled(t, cs, how) ==
  LET py == {k \in DOMAIN cs : cs[k].kind = "py"}
      inside(k) == Cardinality({m \in py : m > k})
      n == IF Cardinality(py) > MaxDepth THEN MaxDepth ELSE Cardinality(py)
      top == [i \in 1..n |-> cs[CHOOSE k \in py : inside(k) = n - i]]
  IN [thread |-> t, stack |-> top, depth |-> n - 1,
      limit |-> IF withC THEN n - 1 ELSE -1,
      suspended |-> FALSE, tid |-> FALSE, how |-> how]

Held(es) == {es[i].id : i \in DOMAIN es} \ {0}
Hold(rs, ids) == [i \in DOMAIN rs |-> IF i \in ids THEN rs[i] + 1 ELSE rs[i]]
Drop(rs, ids) == [i \in DOMAIN rs |-> IF i \in ids THEN rs[i] - 1 ELSE rs[i]]

-----------------------------------------------------------------------------
(* The profile function.                                                   *)

\* PyTrace_CALL and PyTrace_C_CALL in results number n of list.
OnCall(list, rs, n, e) ==
  IF n \notin DOMAIN list THEN broken' = TRUE /\ UNCHANGED <<tls, refs>>
  ELSE IF e.kind = "c" /\ ~withC THEN tls' = list /\ refs' = rs /\ UNCHANGED broken
  ELSE /\ tls' = [list EXCEPT ![n] = Push(@, e)]
       /\ refs' = IF list[n].suspended \/ list[n].depth + 1 >= MaxDepth THEN rs
                  ELSE Hold(rs, {e.id})
       /\ UNCHANGED broken

\* pyProfileFnTrampoline, the profile function of a thread started while tracing: it
\* fills the results with the frames of the thread, the new one among them, installs the
\* tracer and hands it the event.
OnTrampoline(t, e) ==
  IF ~instance THEN broken' = TRUE /\ UNCHANGED <<tls, refs, profile, ctx>>
  ELSE LET how == IF session = "stopping" THEN "late" ELSE "trampoline"
           r == Filled(t, Append(calls[t], e), how)
       IN
       /\ profile' = [profile EXCEPT ![t] = "tracer"]
       /\ ctx' = [ctx EXCEPT ![t] = Len(tls) + 1]
       /\ OnCall(Append(tls, r), Hold(refs, Held(r.stack)), Len(tls) + 1, e)

Enter(t, kind) ==
  LET e == [id |-> made + 1, kind |-> kind, quiet |-> muted[t]] IN
  /\ ~Idle(t) /\ made < MaxFrames
  /\ kind = "c" => Last(calls[t]).kind = "py"
  /\ made' = made + 1 /\ calls' = [calls EXCEPT ![t] = Append(@, e)]
  /\ \/ profile[t] = "none" /\ UNCHANGED <<profile, ctx, tls, refs, broken>>
     \/ profile[t] = "tracer" /\ OnCall(tls, refs, ctx[t], e) /\ UNCHANGED <<profile, ctx>>
     \/ profile[t] = "trampoline" /\ OnTrampoline(t, e)
  /\ UNCHANGED <<alive, muted, session, listed, instance, hook, withC, records, exported>>

\* recordReturn: the entry gives its call's interval, unless it is a hole, of the other
\* kind, or shorter than the threshold.  The limit moves down with the depth.
RecordReturn(n, e, limit) ==
  LET popped == [Pop(tls[n]) EXCEPT !.limit = limit]
      top == Top(tls[n])
  IN IF top.kind # e.kind THEN tls' = [tls EXCEPT ![n] = popped] /\ UNCHANGED <<refs, records>>
     ELSE /\ refs' = Drop(refs, {top.id})
          /\ \/ tls' = [tls EXCEPT ![n] = popped] /\ UNCHANGED records
             \/ /\ tls' = [tls EXCEPT ![n] = [popped EXCEPT !.tid = TRUE]]
                /\ records' = records \cup {[by |-> n, of |-> top, left |-> e.id]}

\* Where a Python return leaves the limit.
LimitAfter(r, e) ==
  IF e.kind = "py" /\ withC /\ Pop(r).depth < r.limit THEN Pop(r).depth ELSE r.limit

\* Mutant of OnReturn: any C return takes an entry off.
OnAnyReturn(n, e) ==
  IF n \notin DOMAIN tls THEN broken' = TRUE /\ UNCHANGED <<tls, refs, records>>
  ELSE IF e.kind = "c" /\ ~withC THEN UNCHANGED <<tls, refs, records, broken>>
  ELSE RecordReturn(n, e, LimitAfter(tls[n], e)) /\ UNCHANGED broken

\* PyTrace_RETURN, PyTrace_C_RETURN and PyTrace_C_EXCEPTION: a C return at or below the
\* limit belongs to a call made before the tracer looked.
OnReturn(n, e) ==
  IF n \notin DOMAIN tls THEN broken' = TRUE /\ UNCHANGED <<tls, refs, records>>
  ELSE IF e.kind = "c" /\ (~withC \/ tls[n].depth <= tls[n].limit)
  THEN UNCHANGED <<tls, refs, records, broken>>
  ELSE RecordReturn(n, e, LimitAfter(tls[n], e)) /\ UNCHANGED broken

\* The innermost call returns; with a worker's outermost one the thread ends.  The
\* trampoline ignores returns.
Leave(t) ==
  /\ ~Idle(t) /\ (t = Main => Len(calls[t]) > 1)
  /\ calls' = [calls EXCEPT ![t] = Front(@)]
  /\ \/ profile[t] # "tracer" /\ UNCHANGED <<tls, refs, records, broken>>
     \/ profile[t] = "tracer" /\ OnReturn(ctx[t], Last(calls[t]))
  /\ IF Len(calls[t]) = 1
     THEN /\ alive' = alive \ {t} /\ muted' = [muted EXCEPT ![t] = FALSE]
          /\ profile' = [profile EXCEPT ![t] = "none"] /\ ctx' = [ctx EXCEPT ![t] = 0]
     ELSE UNCHANGED <<alive, muted, profile, ctx>>
  /\ UNCHANGED <<made, session, listed, instance, hook, withC, exported>>

\* A worker starts: its bootstrap frame installs threading's profile function.
StartThread(t) ==
  /\ ~broken /\ t \notin alive /\ made < MaxFrames
  /\ alive' = alive \cup {t} /\ made' = made + 1
  /\ calls' = [calls EXCEPT ![t] = <<[id |-> made + 1, kind |-> "py", quiet |-> FALSE]>>]
  /\ profile' = [profile EXCEPT ![t] = IF hook THEN "trampoline" ELSE "none"]
  /\ UNCHANGED <<muted, ctx, session, listed, instance, hook, withC, tls, refs, records,
                 exported, broken>>

-----------------------------------------------------------------------------
(* The API.                                                                *)

\* suspend and resume act on the first results with the caller's PyThreadState.  They are
\* C functions: the call of one has run the trampoline by then.
SetSuspended(t, on) ==
  LET mine == {n \in DOMAIN tls : tls[n].thread = t} IN
  /\ ~Idle(t) /\ session \in {"active", "stopped"} /\ muted[t] # on
  /\ profile[t] # "trampoline"
  /\ muted' = [muted EXCEPT ![t] = on]
  /\ tls' = IF mine = {} THEN tls
            ELSE [tls EXCEPT ![CHOOSE n \in mine : \A m \in mine : n <= m].suspended = on]
  /\ UNCHANGED <<alive, calls, made, profile, ctx, session, listed, instance, hook, withC,
                 refs, records, exported, broken>>

Suspend(t) == SetSuspended(t, TRUE)
Resume(t) == SetSuspended(t, FALSE)

\* start lists the threads and sets active_instance_; the call of threading.setprofile
\* that follows can release the GIL.
StartLists ==
  /\ ~Idle(Main) /\ session = "none"
  /\ session' = "starting" /\ listed' = alive /\ instance' = TRUE
  /\ UNCHANGED interpVars
  /\ UNCHANGED <<profile, ctx, hook, withC, tls, refs, records, exported, broken>>

\* The rest of start: the trampoline is installed, the listed threads get their results
\* and the tracer.  One that has ended since is used all the same.
StartFills ==
  /\ session = "starting" /\ ~broken
  /\ session' = "active" /\ hook' = TRUE /\ listed' = {}
  /\ IF ~(listed \subseteq alive)
     THEN broken' = TRUE /\ UNCHANGED <<profile, ctx, tls, refs>>
     ELSE LET order == SetToSeq(listed)
              filled == [n \in 1..Len(order) |-> Filled(order[n], calls[order[n]], "start")]
          IN /\ tls' = filled
             /\ refs' = Hold(refs, UNION {Held(filled[n].stack) : n \in DOMAIN filled})
             /\ profile' = [t \in Tracees |-> IF t \in listed THEN "tracer" ELSE profile[t]]
             /\ ctx' = [t \in Tracees |-> IF t \in listed
                                          THEN CHOOSE n \in DOMAIN order : order[n] = t ELSE 0]
             /\ UNCHANGED broken
  /\ UNCHANGED interpVars /\ UNCHANGED <<instance, withC, records, exported>>

\* stop takes the tracer off the threads that have it; the call of threading.setprofile
\* that follows can release the GIL.
StopClears ==
  /\ ~Idle(Main) /\ session = "active" /\ session' = "stopping"
  /\ profile' = [t \in Tracees |-> IF profile[t] = "tracer" THEN "none" ELSE profile[t]]
  /\ ctx' = [t \in Tracees |-> 0]
  /\ UNCHANGED interpVars
  /\ UNCHANGED <<listed, instance, hook, withC, tls, refs, records, exported, broken>>

StopEnds ==
  /\ session = "stopping" /\ ~broken
  /\ session' = "stopped" /\ hook' = FALSE /\ instance' = FALSE
  /\ UNCHANGED interpVars
  /\ UNCHANGED <<profile, ctx, listed, withC, tls, refs, records, exported, broken>>

Occurrences(id) ==
  {o \in (DOMAIN tls) \X (1..MaxDepth) :
     o[2] \in DOMAIN tls[o[1]].stack /\ tls[o[1]].stack[o[2]].id = id}

Unfinished ==
  {o \in (DOMAIN tls) \X (1..MaxDepth) :
     o[2] \in DOMAIN tls[o[1]].stack /\ tls[o[1]].stack[o[2]] # Nothing /\ tls[o[1]].tid}

\* Mutant of DropUnfinished: the references go with the stacks of all threads.
DropAll == [id \in DOMAIN refs |-> refs[id] - Cardinality(Occurrences(id))]

DropUnfinished ==
  [id \in DOMAIN refs |-> refs[id] - Cardinality(Unfinished \cap Occurrences(id))]

\* export_data, once per session as _PythonFunctionTracer calls it: processUnfinishedCalls
\* adds what is on the stacks of the threads whose tid is known.
ExportData ==
  /\ ~Idle(Main) /\ session = "stopped" /\ ~exported /\ exported' = TRUE
  /\ records' = records \cup {[by |-> o[1], of |-> tls[o[1]].stack[o[2]], left |-> 0] :
                                o \in Unfinished}
  /\ refs' = DropUnfinished
  /\ UNCHANGED interpVars
  /\ UNCHANGED <<profile, ctx, session, listed, instance, hook, withC, tls, broken>>

\* reset frees the results of all threads.
Reset ==
  /\ ~Idle(Main) /\ session = "stopped" /\ exported
  /\ session' = "reset" /\ tls' = <<>>
  /\ UNCHANGED interpVars
  /\ UNCHANGED <<profile, ctx, listed, instance, hook, withC, refs, records, exported, broken>>

Next ==
  \/ \E t \in Tracees :
       \/ \E kind \in {"py", "c"} : Enter(t, kind)
       \/ Leave(t) \/ Suspend(t) \/ Resume(t)
  \/ \E t \in Workers : StartThread(t)
  \/ StartLists \/ StartFills \/ StopClears \/ StopEnds \/ ExportData \/ Reset

Spec == Init /\ [][Next]_tracedVars

-----------------------------------------------------------------------------
\* The tracer holds one reference for each place a call has on its stacks, so that
\* neither a return, a suspension, a depth beyond the limit nor stop leaks or over-releases
\* a frame; and once the data is exported only those of the threads without a tid
\* are left, unless a thread ran the trampoline between the two steps of stop: that one
\* is traced on.
ReferencesFollowTheStacks ==
  ~broken /\ session # "reset" /\ (exported => \A n \in DOMAIN tls : tls[n].how # "late") =>
    \A id \in DOMAIN refs :
      refs[id] = Cardinality({o \in Occurrences(id) : exported => ~tls[o[1]].tid})

\* What is recorded in a thread that start found running is the interval of the call
\* that returned, once, and never of a call made while the thread was suspended, unless
\* its PyThreadState had been another thread's; an unfinished call has not returned.
\* In a thread started while tracing every interval but the innermost has the name of
\* the call inside: the frame that ran the trampoline is pushed twice.
RecordsAreTheirCalls ==
  \A r \in records :
    LET n == r.by IN
    n \in DOMAIN tls =>
      /\ r.left # 0 => r.of.id >= r.left
      /\ tls[n].how = "start" =>
           /\ r.left \in {r.of.id, 0}
           /\ \A s \in records : s.of.id = r.of.id => s = r
      /\ r.of.quiet => \E m \in 1..(n - 1) : tls[m].thread = tls[n].thread

\* Every interval in every thread is that of the call that returned
\* (profiler_python.cpp:1084: the calls already running are pushed once, so that the
\* trace is complete).  It does not hold.
EveryIntervalIsItsCall ==
  \A r \in records : r.left \in {r.of.id, 0}
=============================================================================
