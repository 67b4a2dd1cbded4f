------------------------ MODULE FreeThreadedTracer ------------------------
(***************************************************************************)
(* pyki's Python function tracer as it is built for a free-threaded        *)
(* interpreter (python_trace/profiler_python.cpp with Py_GIL_DISABLED):    *)
(* one TraceContext for all threads, results that a thread looks up by the *)
(* address of its PyThreadState and keeps in its own storage, a lock       *)
(* around registration, a semaphore around each callback, and start and    *)
(* stop between them.  Threads run at the same time: a step is what no     *)
(* other thread can see the middle of.  PyEval_SetProfile stops the world, *)
(* which threads inside a callback reach when they run Python code.        *)
(***************************************************************************)
EXTENDS Integers, Sequences, SequencesExt, FiniteSets

CONSTANTS
  Workers,       \* threads besides the one that starts and stops the tracer
  Addresses,     \* of PyThreadStates
  MaxDepth,      \* max_depth_
  MaxFrames,     \* bound: calls made in all
  MaxCodes       \* bound: code objects that live at one address, one after the other

Main == "main"
Tracees == Workers \cup {Main}
None == "none"

VARIABLES
  life,          \* per thread "unborn", "running", "leaving" (its PyThreadState is freed) or "ended"
  address,       \* per thread the address of its PyThreadState
  calls,         \* per thread the calls it is in, outermost first
  muted,         \* per thread whether it has suspended its tracing
  code,          \* how many code objects have lived at the address that functions have
  profile,       \* per thread its c_profilefunc: "none", "trampoline" or "tracer"
  at,            \* per thread "run", "registered" in the trampoline, or "recording"
  work,          \* per thread the event it is in the callback for
  cached,        \* per thread its tls_results_, 0 for none
  session,       \* how far start and stop are
  turn,          \* the results whose semaphore stop is at
  instance,      \* active_instance_ is set
  hook,          \* threading's profile function is the trampoline
  withC,         \* C functions are not ignored
  tls,           \* thread_local_results_
  refs,          \* per call the references the tracer holds on its frame or function
  records,       \* the py_calls_ of all threads
  made,          \* history: number of calls
  late,          \* history: threads that got the profile function after stop had removed it
  broken         \* the process has used memory that is gone

interpVars == <<life, address, calls, muted, code, made>>
tracerVars == <<profile, at, work, cached, session, turn, instance, hook, withC, tls, refs,
                records, late, broken>>
freeVars == <<interpVars, tracerVars>>

Nothing == [id |-> 0, kind |-> "nullptr", code |-> 0, quiet |-> FALSE]
NoWork == [by |-> 0, of |-> Nothing, left |-> 0]

Runs(t) == ~broken /\ life[t] = "running" /\ at[t] = "run"
MainIsFree == Runs(Main) /\ session \notin {"hooked", "profiled", "unregistered", "acquire",
                                            "release", "waited"}
Acts(t) == Runs(t) /\ (t = Main => MainIsFree)

Call(id, kind, quiet) == [id |-> id, kind |-> kind, code |-> code, quiet |-> quiet]
Outermost(id) == [id |-> id, kind |-> "py", code |-> 0, quiet |-> FALSE]  \* is not redefined

InitWith(c) ==
  /\ life = [t \in Tracees |-> IF t = Main THEN "running" ELSE "unborn"]
  /\ address \in [Tracees -> {CHOOSE a \in Addresses : TRUE}]
  /\ code = 1 /\ made = 1 /\ muted = [t \in Tracees |-> FALSE]
  /\ calls = [t \in Tracees |-> IF t = Main THEN <<Outermost(1)>> ELSE <<>>]
  /\ profile = [t \in Tracees |-> "none"] /\ at = [t \in Tracees |-> "run"]
  /\ work = [t \in Tracees |-> NoWork] /\ cached = [t \in Tracees |-> 0]
  /\ session = "none" /\ turn = 0 /\ instance = FALSE /\ hook = FALSE /\ withC = c
  /\ tls = <<>> /\ refs = [i \in 1..MaxFrames |-> 0] /\ records = {} /\ late = {}
  /\ broken = FALSE

Init == \E c \in BOOLEAN : InitWith(c)

-----------------------------------------------------------------------------
(* The results of one thread.                                              *)

\* A ThreadLocalResults as the constructor leaves it.
NewResults(t) ==
  [address |-> address[t], thread |-> t, stack |-> <<>>, depth |-> -1, limit |-> -1,
   found |-> FALSE, suspended |-> FALSE, tid |-> None, free |-> TRUE, self |-> None, name |-> 0]

\* Its binary semaphore, one compare-and-swap and one store.
Acquired(list, n) == [list EXCEPT ![n].free = FALSE]
Released(list, n) == [list EXCEPT ![n].free = TRUE]

\* A call beyond max_depth_ only counts; one made while suspended leaves a hole.
Push(r, e) ==
  [r EXCEPT !.depth = @ + 1,
            !.stack = IF r.depth + 1 >= MaxDepth THEN @
                      ELSE Append(@, IF r.suspended THEN Nothing ELSE e)]

\* The entry a return takes off: nothing below the first or beyond max_depth_.
Top(r) == IF r.depth = -1 \/ r.depth >= MaxDepth THEN Nothing ELSE Last(r.stack)

Pop(r) ==
  IF r.depth = -1 THEN r
  ELSE [r EXCEPT !.depth = @ - 1, !.stack = IF r.depth >= MaxDepth THEN @ ELSE Front(@)]

\* fillInitialState: the innermost frames are pushed as calls, and a C return at their
\* depth belongs to a call made before.  Found tells whether start did it.
Filled(t, cs, found) ==
  LET py == SelectSeq(cs, LAMBDA e : e.kind = "py")
      top == SubSeq(py, IF Len(py) > MaxDepth THEN Len(py) - MaxDepth + 1 ELSE 1, Len(py))
  IN [NewResults(t) EXCEPT !.stack = top, !.depth = Len(top) - 1, !.found = found,
                           !.limit = IF withC THEN Len(top) - 1 ELSE -1]

Held(es) == {es[i].id : i \in DOMAIN es} \ {0}
Hold(rs, ids) == [i \in DOMAIN rs |-> IF i \in ids THEN rs[i] + 1 ELSE rs[i]]
Drop(rs, ids) == [i \in DOMAIN rs |-> IF i \in ids THEN rs[i] - 1 ELSE rs[i]]

\* ValueCache::store: the first name that is found for a key is kept.
Stored(r, e) == IF r.name = 0 THEN [r EXCEPT !.name = e.code] ELSE r

\* TraceKeyCacheState::intern: a call is recorded under the name of the code object that
\* was first recorded at its address; functions in C keep theirs.
Interned(r, e) == IF e.kind = "py" /\ e.code # 0 THEN Stored(r, e) ELSE r

-----------------------------------------------------------------------------
(* The profile function.                                                   *)

\* getThreadLocalResults: what the thread has looked up before, or the first results with
\* its PyThreadState.
Found(t) ==
  LET mine == {n \in DOMAIN tls : tls[n].address = address[t]} IN
  IF cached[t] # 0 THEN cached[t]
  ELSE IF mine = {} THEN 0 ELSE CHOOSE n \in mine : \A m \in mine : n <= m

\* What a lookup leaves: the pointer in the thread and the way back to it.
Caches(t, n) == cached' = [cached EXCEPT ![t] = n]
Cached(list, t, n) == IF cached[t] # 0 THEN list ELSE [list EXCEPT ![n].self = t]

\* PyTrace_CALL and PyTrace_C_CALL, with the semaphore from its first statement to its last.
OnCall(t, e) ==
  LET n == Found(t) IN
  IF n = 0 \/ session = "reset" THEN UNCHANGED <<tls, refs, cached>> /\ broken' = (session = "reset")
  ELSE /\ Caches(t, n) /\ UNCHANGED broken
       /\ IF ~tls[n].free \/ (e.kind = "c" /\ ~withC)
          THEN tls' = Cached(tls, t, n) /\ UNCHANGED refs
          ELSE /\ tls' = Cached([tls EXCEPT ![n] = Push(@, e)], t, n)
               /\ refs' = IF tls[n].suspended \/ tls[n].depth + 1 >= MaxDepth THEN refs
                          ELSE Hold(refs, {e.id})

\* Where a Python return leaves the limit.
LimitAfter(r, e) ==
  IF e.kind = "py" /\ withC /\ Pop(r).depth < r.limit THEN Pop(r).depth ELSE r.limit

\* recordReturn takes the entry off.  One that is long enough is recorded, for which the
\* name of the thread or the function is asked of Python.
RecordReturn(t, n, e) ==
  LET r == tls[n]
      popped == [Pop(r) EXCEPT !.limit = LimitAfter(r, e)]
      top == Top(r)
  IN \/ /\ tls' = Cached([tls EXCEPT ![n] = popped], t, n)
        /\ refs' = IF top.kind = e.kind THEN Drop(refs, {top.id}) ELSE refs
        /\ UNCHANGED <<at, work>>
     \/ /\ top.kind = e.kind
        /\ tls' = Cached(Acquired([tls EXCEPT ![n] = popped], n), t, n)
        /\ at' = [at EXCEPT ![t] = "recording"]
        /\ work' = [work EXCEPT ![t] = [by |-> n, of |-> top, left |-> e.id]]
        /\ UNCHANGED refs

\* PyTrace_RETURN, PyTrace_C_RETURN and PyTrace_C_EXCEPTION: a C return at or below the
\* limit belongs to a call made before the tracer looked.
OnReturn(t, e) ==
  LET n == Found(t) IN
  IF n = 0 \/ session = "reset"
  THEN UNCHANGED <<tls, refs, cached, at, work>> /\ broken' = (session = "reset")
  ELSE /\ Caches(t, n) /\ UNCHANGED broken
       /\ IF ~tls[n].free \/ (e.kind = "c" /\ (~withC \/ tls[n].depth <= tls[n].limit))
          THEN tls' = Cached(tls, t, n) /\ UNCHANGED <<refs, at, work>>
          ELSE RecordReturn(t, n, e)

\* initialize_tid_if_needed
WithTid(r, t) == [r EXCEPT !.tid = IF @ = None THEN t ELSE @]

\* The rest of recordReturn, and the release of the semaphore.
EndRecord(t) ==
  LET w == work[t] IN
  /\ ~broken /\ at[t] = "recording"
  /\ at' = [at EXCEPT ![t] = "run"] /\ work' = [work EXCEPT ![t] = NoWork]
  /\ IF session = "reset" THEN broken' = TRUE /\ UNCHANGED <<tls, records, refs>>
     ELSE /\ tls' = Released([tls EXCEPT ![w.by] = WithTid(Interned(@, w.of), t)], w.by)
          /\ records' = records \cup {[by |-> w.by, in |-> t, of |-> w.of, left |-> w.left]}
          /\ refs' = Drop(refs, {w.of.id})
          /\ UNCHANGED broken
  /\ UNCHANGED interpVars
  /\ UNCHANGED <<profile, cached, session, turn, instance, hook, withC, late>>

\* pyProfileFnTrampoline up to its unlock: the thread gets results with its frames, the
\* new one among them.
Register(t, e) ==
  IF ~instance THEN UNCHANGED <<tls, refs, at, work>>
  ELSE LET r == Filled(t, Append(calls[t], e), FALSE) IN
       /\ tls' = Append(tls, r) /\ refs' = Hold(refs, Held(r.stack))
       /\ at' = [at EXCEPT ![t] = "registered"]
       /\ work' = [work EXCEPT ![t] = [NoWork EXCEPT !.of = e]]

\* The rest: PyEval_SetProfile with the shared context, which stop may have released, and
\* the event.
SetProfile(t) ==
  /\ ~broken /\ at[t] = "registered"
  /\ at' = [at EXCEPT ![t] = "run"] /\ work' = [work EXCEPT ![t] = NoWork]
  /\ IF session \in {"stopped", "exported", "reset"}
     THEN broken' = TRUE /\ late' = late \cup {t} /\ UNCHANGED <<profile, tls, refs, cached>>
     ELSE /\ profile' = [profile EXCEPT ![t] = "tracer"]
          /\ late' = IF session \in {"acquire", "release", "waited"} THEN late \cup {t} ELSE late
          /\ OnCall(t, work[t].of)
  /\ UNCHANGED interpVars /\ UNCHANGED <<session, turn, instance, hook, withC, records>>

Enter(t, kind) ==
  LET e == Call(made + 1, kind, muted[t]) IN
  /\ Acts(t) /\ made < MaxFrames /\ calls[t] # <<>>
  /\ kind = "c" => Last(calls[t]).kind = "py"
  /\ made' = made + 1 /\ calls' = [calls EXCEPT ![t] = Append(@, e)]
  /\ \/ profile[t] = "none" /\ UNCHANGED <<tls, refs, cached, at, work, broken>>
     \/ profile[t] = "tracer" /\ OnCall(t, e) /\ UNCHANGED <<at, work>>
     \/ profile[t] = "trampoline" /\ Register(t, e) /\ UNCHANGED <<cached, broken>>
  /\ UNCHANGED <<life, address, muted, code, profile, session, turn, instance, hook, withC,
                 records, late>>

\* The innermost call returns.
Leave(t) ==
  /\ Acts(t) /\ calls[t] # <<>> /\ (t = Main => Len(calls[t]) > 1)
  /\ calls' = [calls EXCEPT ![t] = Front(@)]
  /\ \/ profile[t] # "tracer" /\ UNCHANGED <<tls, refs, cached, at, work, broken>>
     \/ profile[t] = "tracer" /\ OnReturn(t, Last(calls[t]))
  /\ UNCHANGED <<life, address, muted, code, made, profile, session, turn, instance, hook,
                 withC, records, late>>

-----------------------------------------------------------------------------
(* Threads and code objects come and go.                                   *)

Used == {address[t] : t \in {u \in Tracees : life[u] = "running"}}

\* A worker starts: its bootstrap frame installs threading's profile function.
StartThread(t) ==
  /\ ~broken /\ life[t] = "unborn" /\ made < MaxFrames
  /\ \E a \in Addresses \ Used : address' = [address EXCEPT ![t] = a]
  /\ life' = [life EXCEPT ![t] = "running"] /\ made' = made + 1
  /\ calls' = [calls EXCEPT ![t] = <<Outermost(made + 1)>>]
  /\ profile' = [profile EXCEPT ![t] = IF hook THEN "trampoline" ELSE "none"]
  /\ UNCHANGED <<muted, code, at, work, cached, session, turn, instance, hook, withC, tls,
                 refs, records, late, broken>>

\* With its outermost call the thread has left Python: its PyThreadState is freed.
LeavePython(t) ==
  /\ Runs(t) /\ t # Main /\ calls[t] = <<>>
  /\ life' = [life EXCEPT ![t] = "leaving"] /\ profile' = [profile EXCEPT ![t] = "none"]
  /\ UNCHANGED <<address, calls, muted, code, made, at, work, cached, session, turn, instance,
                 hook, withC, tls, refs, records, late, broken>>

\* The destructor of the thread's TlsCache.
EndThread(t) ==
  /\ ~broken /\ life[t] = "leaving"
  /\ life' = [life EXCEPT ![t] = "ended"] /\ cached' = [cached EXCEPT ![t] = 0]
  /\ IF cached[t] = 0 THEN UNCHANGED <<tls, broken>>
     ELSE IF session = "reset" THEN broken' = TRUE /\ UNCHANGED tls
     ELSE tls' = [tls EXCEPT ![cached[t]].self = None] /\ UNCHANGED broken
  /\ UNCHANGED <<address, calls, muted, code, made, profile, at, work, session, turn, instance,
                 hook, withC, refs, records, late>>

Everything ==
  UNION {{calls[t][i] : i \in DOMAIN calls[t]} \cup {work[t].of} : t \in Tracees}
    \cup UNION {{tls[n].stack[i] : i \in DOMAIN tls[n].stack} : n \in DOMAIN tls}

\* A function is redefined, and the new code object gets the old one's address once no
\* frame holds that.
Redefine ==
  /\ ~broken /\ code < MaxCodes /\ made < MaxFrames /\ \A e \in Everything : e.kind = "py" => e.code # code
  /\ code' = code + 1
  /\ UNCHANGED <<life, address, calls, muted, made>> /\ UNCHANGED tracerVars

-----------------------------------------------------------------------------
(* The API.                                                                *)

\* suspend and resume go through the thread's own pointer: without effect until it is
\* set, which the thread's first callback does.
SetSuspended(t, on) ==
  /\ Acts(t) /\ session \in {"active", "stopped"} /\ cached[t] # 0 /\ muted[t] # on
  /\ muted' = [muted EXCEPT ![t] = on]
  /\ tls' = [tls EXCEPT ![cached[t]].suspended = on]
  /\ UNCHANGED <<life, address, calls, code, made, profile, at, work, cached, session, turn,
                 instance, hook, withC, refs, records, late, broken>>

\* The constructor: the tracer is announced and new threads get the trampoline, ...
StartHooks ==
  /\ MainIsFree /\ session = "none" /\ session' = "hooked"
  /\ instance' = TRUE /\ hook' = TRUE
  /\ UNCHANGED interpVars
  /\ UNCHANGED <<profile, at, work, cached, turn, withC, tls, refs, records, late, broken>>

\* ... all threads get the tracer, ...
StartProfiles ==
  /\ ~broken /\ session = "hooked" /\ session' = "profiled"
  /\ profile' = [t \in Tracees |-> IF life[t] = "running" THEN "tracer" ELSE profile[t]]
  /\ UNCHANGED interpVars
  /\ UNCHANGED <<at, work, cached, turn, instance, hook, withC, tls, refs, records, late, broken>>

\* ... and, while the world is stopped, their results.
StartFills ==
  LET order == SetToSeq({t \in Tracees : life[t] = "running"})
      filled == [i \in DOMAIN order |-> Filled(order[i], calls[order[i]], TRUE)]
  IN
  /\ ~broken /\ session = "profiled" /\ session' = "active"
  /\ tls' = tls \o filled
  /\ refs' = [id \in DOMAIN refs |->
                refs[id] + Cardinality({i \in DOMAIN filled : id \in Held(filled[i].stack)})]
  /\ UNCHANGED interpVars
  /\ UNCHANGED <<profile, at, work, cached, turn, instance, hook, withC, records, late, broken>>

\* stop: no thread registers any more, ...
StopRegistration ==
  /\ MainIsFree /\ session = "active" /\ session' = "unregistered" /\ instance' = FALSE
  /\ UNCHANGED interpVars
  /\ UNCHANGED <<profile, at, work, cached, turn, hook, withC, tls, refs, records, late, broken>>

\* ... none has a profile function, and new ones get none, ...
StopProfiles ==
  /\ ~broken /\ session = "unregistered" /\ session' = "acquire" /\ turn' = 1 /\ hook' = FALSE
  /\ profile' = [t \in Tracees |-> "none"]
  /\ UNCHANGED interpVars
  /\ UNCHANGED <<at, work, cached, instance, withC, tls, refs, records, late, broken>>

\* ... and each callback is waited for.
StopAcquires ==
  /\ ~broken /\ session = "acquire" /\ tls[turn].free /\ session' = "release"
  /\ tls' = Acquired(tls, turn)
  /\ UNCHANGED interpVars
  /\ UNCHANGED <<profile, at, work, cached, turn, instance, hook, withC, refs, records, late,
                 broken>>

StopReleases ==
  /\ ~broken /\ session = "release"
  /\ tls' = Released(tls, turn)
  /\ session' = IF turn = Len(tls) THEN "waited" ELSE "acquire"
  /\ turn' = IF turn = Len(tls) THEN 0 ELSE turn + 1
  /\ UNCHANGED interpVars
  /\ UNCHANGED <<profile, at, work, cached, instance, hook, withC, refs, records, late, broken>>

\* The threads' pointers are cleared, where the storage of their thread is still there, and
\* the context released.
StopEnds ==
  /\ ~broken /\ session = "waited" /\ session' = "stopped"
  /\ cached' = [t \in Tracees |-> IF \E n \in DOMAIN tls : tls[n].self = t THEN 0 ELSE cached[t]]
  /\ tls' = [n \in DOMAIN tls |-> [tls[n] EXCEPT !.self = None]]
  /\ broken' = \E n \in DOMAIN tls : tls[n].self # None /\ life[tls[n].self] = "ended"
  /\ UNCHANGED interpVars
  /\ UNCHANGED <<profile, at, work, turn, instance, hook, withC, refs, records, late>>

Places(id) ==
  {o \in (DOMAIN tls) \X (1..MaxDepth) :
     o[2] \in DOMAIN tls[o[1]].stack /\ tls[o[1]].stack[o[2]].id = id}
Unfinished ==
  {o \in (DOMAIN tls) \X (1..MaxDepth) :
     /\ o[2] \in DOMAIN tls[o[1]].stack /\ tls[o[1]].stack[o[2]] # Nothing
     /\ tls[o[1]].tid # None}

\* export_data with processUnfinishedCalls, once per session: what is on the stacks of the
\* threads whose tid is known is added.
ExportData ==
  /\ MainIsFree /\ session = "stopped" /\ session' = "exported"
  /\ records' = records \cup {[by |-> o[1], in |-> tls[o[1]].thread,
                               of |-> tls[o[1]].stack[o[2]], left |-> 0] : o \in Unfinished}
  /\ refs' = [id \in DOMAIN refs |-> refs[id] - Cardinality(Unfinished \cap Places(id))]
  /\ tls' = [n \in DOMAIN tls |->
               IF tls[n].tid = None THEN tls[n]
               ELSE FoldRight(LAMBDA e, r : Interned(r, e), tls[n].stack, tls[n])]
  /\ UNCHANGED interpVars
  /\ UNCHANGED <<profile, at, work, cached, turn, instance, hook, withC, late, broken>>

\* reset frees the tracer and the results of all threads.
Reset ==
  /\ MainIsFree /\ session = "exported" /\ session' = "reset" /\ tls' = <<>>
  /\ UNCHANGED interpVars
  /\ UNCHANGED <<profile, at, work, cached, turn, instance, hook, withC, refs, records, late,
                 broken>>

Next ==
  \/ \E t \in Tracees :
       \/ \E kind \in {"py", "c"} : Enter(t, kind)
       \/ Leave(t) \/ EndRecord(t) \/ SetProfile(t)
       \/ \E on \in BOOLEAN : SetSuspended(t, on)
  \/ \E t \in Workers : StartThread(t) \/ LeavePython(t) \/ EndThread(t)
  \/ Redefine
  \/ StartHooks \/ StartProfiles \/ StartFills
  \/ StopRegistration \/ StopProfiles \/ StopAcquires \/ StopReleases \/ StopEnds
  \/ ExportData \/ Reset

Spec == Init /\ [][Next]_freeVars

-----------------------------------------------------------------------------
\* mapKeyToName: the name that a record is exported with, by the code object it is of.
mapKeyToName(r) ==
  IF r.of.kind = "py" /\ r.of.code # 0 THEN tls[r.by].name ELSE r.of.code

Fresh(n) == \A m \in DOMAIN tls : m < n => tls[m].address # tls[n].address

\* A thread has the PyThreadState of an earlier one, and with that its results.
Reused ==
  \E t, u \in Tracees :
    t # u /\ address[t] = address[u] /\ life[t] # "unborn" /\ life[u] # "unborn"

\* When stop has waited no thread is in a callback, when it has ended none points at
\* results, and nothing is used after it was freed.  Not covered are a thread that stop
\* found between the two halves of the trampoline, and the pointers of two threads that had
\* the same PyThreadState, of which only one can be found again.
StopWaitsForCallbacks ==
  /\ broken => late # {} \/ Reused
  /\ session \in {"waited", "stopped", "exported", "reset"} =>
       \A t \in Tracees \ late : at[t] # "recording"
  /\ session \in {"stopped", "exported", "reset"} /\ ~Reused =>
       \A t \in Tracees \ late : cached[t] = 0

\* The tracer holds one reference for each place a call has on its stacks or in a callback,
\* until the data is exported: then those of threads without a tid are left.
ReferencesFollowTheStacks ==
  ~broken /\ session # "reset" /\ late = {} =>
    \A id \in DOMAIN refs :
      refs[id] = Cardinality({o \in Places(id) : session = "exported" => tls[o[1]].tid = None})
                   + Cardinality({t \in Tracees : at[t] = "recording" /\ work[t].of.id = id})

\* What is recorded of a thread that start found running is the interval of the call that
\* returned, once, and of no call made while the thread was suspended.  For a thread that
\* came later the trampoline has pushed a frame too many: its records can begin later than
\* the call that ended them, never earlier.  Not covered are threads with the PyThreadState
\* of an earlier one, which go on with its results, and those that stop found in the
\* trampoline, which lose the events they have while stop holds their semaphore.  A name
\* is that of the function, or of one whose place in memory the function took and that was
\* recorded before.
RecordsAreTheirCalls ==
  session # "reset" =>
    \A r \in records :
      LET own == tls[r.by]
          exact == own.found /\ Fresh(r.by) /\ r.in = own.thread /\ r.in \notin late
      IN
      /\ exact => /\ r.left \in {0, r.of.id} /\ ~r.of.quiet
                  /\ \A s \in records : s.by = r.by /\ s.of.id = r.of.id => s = r
      /\ r.left # 0 /\ r.in = own.thread /\ r.in \notin late => r.of.id >= r.left
      /\ mapKeyToName(r) # r.of.code =>
           \E s \in records : s.by = r.by /\ s.of.code = mapKeyToName(r) /\ s.of.kind = "py"
=============================================================================
