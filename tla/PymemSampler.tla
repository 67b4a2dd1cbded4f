----------------------------- MODULE PymemSampler -----------------------------
(***************************************************************************)
(* pyki's heap profiler (memory_profiling.cpp, sampler.cpp): its hooks on  *)
(* the three domains of Python's allocator, which go one by one over those *)
(* of the native memory profiler or under them, and the sampling by bytes, *)
(* per thread.  Calls for objects hold the GIL; raw ones need not, and run *)
(* while the profilers are started and stopped.  The order in which a      *)
(* session starts and stops them is that of profiling/profiler.py.         *)
(* An update of the options is not here: update_options finds the native   *)
(* options set in any session and refuses (profiler.py:324).               *)
(***************************************************************************)
EXTENDS Integers, Sequences

CONSTANTS
  Threads,       \* threads that allocate
  Sizes,         \* sizes they ask for
  SMALL,         \* pymalloc takes what is larger from the raw domain
  Intervals,     \* sample intervals of the sessions
  Points,        \* per interval the sample points there are, in bytes
  MaxCalls,      \* bound: allocations
  MaxSessions    \* bound: sessions

DEFAULT_SAMPLE_INTERVAL == 0
NoInterval == -1

VARIABLES
  phase,         \* of the session: "off", "starting", "on" or "stopping"
  todo,          \* what its start or stop still does
  options,       \* of the session: [heap, native, interval]
  current,       \* per domain whose function PyMem_SetAllocator put there
  saved,         \* per domain what allocator_contexts holds, the heap profiler's original
  original,      \* per domain s_orig_pymalloc_allocators, the native profiler's
  interval,      \* per domain sample_interval of its context
  meta,          \* per thread its SampleMeta, or None
  raw,           \* per thread the raw call it is in, hooked: its size, or 0
  seen,          \* history: per thread the bytes that came to handle_malloc
  attributed,    \* history: per thread the bytes its events stand for
  exact,         \* history: per thread, it never left bytes out
  calls, sessions

samplerVars == <<phase, todo, options, current, saved, original, interval, meta, raw, seen,
                 attributed, exact, calls, sessions>>

Domains == {"raw", "mem", "obj"}
None == [interval |-> NoInterval, point |-> 0, remaining |-> 0]
Pending(m) == m.point - m.remaining

Init ==
  /\ phase = "off" /\ todo = <<>> /\ options = [heap |-> FALSE, native |-> FALSE, interval |-> 0]
  /\ current = [d \in Domains |-> "python"] /\ saved = [d \in Domains |-> "none"]
  /\ original = [d \in Domains |-> "none"]
  /\ interval = [d \in Domains |-> DEFAULT_SAMPLE_INTERVAL]
  /\ meta = [t \in Threads |-> None] /\ raw = [t \in Threads |-> 0]
  /\ seen = [t \in Threads |-> 0] /\ attributed = [t \in Threads |-> 0]
  /\ exact = [t \in Threads |-> TRUE] /\ calls = 0 /\ sessions = 0

-----------------------------------------------------------------------------
(* The hooks.                                                              *)

\* Whom a domain's call reaches: each hook calls what it found when it was put there.
Follow(who, d) == CASE who = "heap" -> saved[d] [] who = "native" -> original[d] [] OTHER -> who
Reached(d) == LET second == Follow(current[d], d) IN {current[d], second, Follow(second, d)}

Step(op, d) == [op |-> op, domain |-> d]
HeapSteps(op) == <<Step(op, "obj"), Step(op, "mem"), Step(op, "raw")>>
NativeSteps(op) == <<Step(op, "raw"), Step(op, "mem"), Step(op, "obj")>>
When(condition, steps) == IF condition THEN steps ELSE <<>>

\* The GIL is free between two calls of the extension.
GilIsFree ==
  todo # <<>> => Head(todo) \in {Head(HeapSteps("hook")), Step("save", "raw"),
                                Head(HeapSteps("restore")), Head(NativeSteps("unset"))}

Same == UNCHANGED <<meta, raw, seen, attributed, exact, calls>>

\* Profiler._run: the heap profiler and then the native one.
StartSession ==
  /\ phase = "off" /\ sessions < MaxSessions /\ sessions' = sessions + 1 /\ phase' = "starting"
  /\ \E heap, native \in BOOLEAN, i \in Intervals :
       /\ heap \/ native
       /\ options' = [heap |-> heap, native |-> native, interval |-> i]
       /\ todo' = When(heap, HeapSteps("hook"))
                    \o When(native, <<Step("save", "raw")>> \o NativeSteps("set"))
  /\ UNCHANGED <<current, saved, original, interval>> /\ Same

\* Mutant of StopSteps: the profilers are stopped in the order of their start.
StopInOrder == When(options.heap, HeapSteps("restore")) \o When(options.native, NativeSteps("unset"))

\* Stopped in the reverse order.
StopSteps == When(options.native, NativeSteps("unset")) \o When(options.heap, HeapSteps("restore"))

StopSession ==
  /\ phase = "on" /\ phase' = "stopping" /\ todo' = StopSteps
  /\ UNCHANGED <<options, current, saved, original, interval, sessions>> /\ Same

\* hook_allocator, restore_allocator, registerPymallocHooks and unregisterPymallocHooks, one
\* PyMem_SetAllocator at a time.
HookStep ==
  LET op == Head(todo).op
      d == Head(todo).domain
  IN /\ todo # <<>> /\ todo' = Tail(todo)
     /\ phase' = IF Len(todo) > 1 THEN phase ELSE IF phase = "starting" THEN "on" ELSE "off"
     /\ saved' = IF op = "hook" THEN [saved EXCEPT ![d] = current[d]] ELSE saved
     /\ original' = IF op = "save" THEN current ELSE original
     /\ current' = [current EXCEPT ![d] =
                      CASE op = "hook" -> "heap" [] op = "restore" -> saved[d]
                        [] op = "set" -> "native" [] op = "unset" -> original[d] [] OTHER -> @]
     /\ interval' = [interval EXCEPT ![d] =
                       CASE op = "hook" -> options.interval
                         [] op = "restore" -> DEFAULT_SAMPLE_INTERVAL [] OTHER -> @]
     /\ UNCHANGED <<options, sessions>> /\ Same

-----------------------------------------------------------------------------
(* The samples.                                                            *)

\* What a thread has: its meta, and its three histories.
Of(t) == [meta |-> meta[t], seen |-> seen[t], attributed |-> attributed[t], exact |-> exact[t]]

\* An interval that is not the meta's, also the first one, starts with a new point.
Fitted(s, i, point) ==
  IF s.meta.interval = i THEN s
  ELSE [s EXCEPT !.meta = [interval |-> i, point |-> point, remaining |-> point],
                 !.exact = @ /\ Pending(s.meta) = 0]

\* Mutant of Weight: the bytes over the sample point are forgotten.
WeightOfPoint(m, size) == IF size > m.point THEN size ELSE m.point

\* An allocation larger than the point stands for itself, a hit for the point and the overflow.
Weight(m, size) == IF size > m.point THEN size ELSE m.point + (size - m.remaining)

\* handle_malloc: entered is whether a slot of the recorder was free, the points are those
\* drawn for a new interval and after a hit.
handle_malloc(s, i, size, entered, first, second) ==
  LET f == Fitted(s, i, first) IN
  IF size < f.meta.remaining
  THEN [f EXCEPT !.meta.remaining = @ - size, !.seen = @ + size]
  ELSE [meta |-> [interval |-> i, point |-> second, remaining |-> second],
        seen |-> f.seen + size,
        attributed |-> f.attributed + (IF entered THEN Weight(f.meta, size) ELSE 0),
        exact |-> f.exact /\ entered /\ (size <= f.meta.point \/ Pending(f.meta) = 0)]

Keep(t, s) ==
  /\ meta' = [meta EXCEPT ![t] = s.meta] /\ seen' = [seen EXCEPT ![t] = s.seen]
  /\ attributed' = [attributed EXCEPT ![t] = s.attributed] /\ exact' = [exact EXCEPT ![t] = s.exact]
  /\ UNCHANGED <<phase, todo, options, current, saved, original, interval, sessions>>

Draws(d) == [entered : BOOLEAN, first : Points[interval[d]], second : Points[interval[d]]]
Handled(s, d, size, draw) ==
  IF "heap" \in Reached(d)
  THEN handle_malloc(s, interval[d], size, draw.entered, draw.first, draw.second) ELSE s

\* pyki_malloc, _calloc and _realloc in the domains of objects: what is large is taken from
\* the raw domain meanwhile, and comes to handle_malloc there, too.
AllocateObject(t, d, size) ==
  /\ GilIsFree /\ raw[t] = 0 /\ calls < MaxCalls /\ calls' = calls + 1
  /\ \E inner \in Draws("raw"), outer \in Draws(d) :
       Keep(t, Handled(IF size > SMALL THEN Handled(Of(t), "raw", size, inner) ELSE Of(t),
                       d, size, outer))
  /\ UNCHANGED raw

\* A raw call that finds the hook uses it, whatever is done to the domain meanwhile.
BeginRaw(t, size) ==
  /\ raw[t] = 0 /\ calls < MaxCalls /\ calls' = calls + 1
  /\ "heap" \in Reached("raw") /\ raw' = [raw EXCEPT ![t] = size]
  /\ Keep(t, Of(t))

EndRaw(t) ==
  /\ raw[t] # 0 /\ raw' = [raw EXCEPT ![t] = 0]
  /\ \E draw \in Draws("raw") :
       Keep(t, handle_malloc(Of(t), interval["raw"], raw[t], draw.entered, draw.first, draw.second))
  /\ UNCHANGED calls

\* delete_sample_meta; the thread may allocate again while its other values are destroyed.
ThreadExit(t) ==
  /\ raw[t] = 0 /\ meta[t] # None
  /\ Keep(t, [Of(t) EXCEPT !.meta = None, !.exact = @ /\ Pending(meta[t]) = 0])
  /\ UNCHANGED <<raw, calls>>

Next ==
  \/ StartSession \/ StopSession \/ HookStep
  \/ \E t \in Threads :
       \/ \E size \in Sizes : BeginRaw(t, size) \/ \E d \in {"mem", "obj"} : AllocateObject(t, d, size)
       \/ EndRaw(t) \/ ThreadExit(t)

Spec == Init /\ [][Next]_samplerVars

-----------------------------------------------------------------------------
\* Every call ends at Python's own allocator, and outside of sessions nothing else is there.
AllocatorsAreRestored ==
  \A d \in Domains : "python" \in Reached(d) /\ (phase = "off" => current[d] = "python")

\* The events of a thread never stand for more bytes than it allocated, and for all of them
\* but those since the last event, unless a slot was taken, the interval changed or an
\* allocation was larger than its sample point.
SamplesAddUp ==
  \A t \in Threads :
    /\ meta[t] # None => 1 <= meta[t].remaining /\ meta[t].remaining <= meta[t].point
    /\ attributed[t] + Pending(meta[t]) <= seen[t]
    /\ exact[t] => attributed[t] + Pending(meta[t]) = seen[t]
=============================================================================
