----------------------------- MODULE NativeHooks -----------------------------
(***************************************************************************)
(* pyki's hooks on the native allocator: the interceptors that the         *)
(* profiled libraries are made to call (hooks.cpp), the patching of their  *)
(* GOT entries (elf_shenanigans.cpp), and the start and stop of the        *)
(* collector that patches and restores them (native_memory_profiling.cpp). *)
(* Every allocation is sampled: the sampling is in PykiRecorder's inputs.  *)
(***************************************************************************)
EXTENDS Integers, Sequences, SequencesExt, FiniteSets

CONSTANTS
  Callers,        \* threads that allocate
  Libs,           \* shared objects that call the hooked functions
  Late,           \* those that dlopen loads later
  Exempt,         \* pyki itself, the linker, the vdso
  Sealed,         \* those whose GOT page cannot be made writable
  Blocks,         \* addresses
  MaxCalls,       \* bound: intercepted calls per thread
  MaxStarts       \* bound: starts of the collector

VARIABLES
  loaded,         \* the objects dl_iterate_phdr visits
  got,            \* the GOT entry of each: "original" or "hook"
  enabled,        \* NativeMemoryProfiling::_enabled
  mutex,          \* s_mutex: who holds it, or "none"
  sweep,          \* the overwrite or restore under way: [to, todo]
  control,        \* where the profiler thread is in start or stop
  guard,          \* RecursionGuard::_isActive of each thread
  call,           \* the intercepted call of each thread
  owner,          \* per block the number of the allocation that has it, 0 when free
  events,         \* history: the events in the order they are recorded
  allocations, calls, starts, \* history: counters
  late            \* history: a module cache was invalidated after a stop

hooksVars == <<loaded, got, enabled, mutex, sweep, control, guard, call, owner, events,
               allocations, calls, starts, late>>
patchVars == <<loaded, got, enabled, mutex, sweep, control, starts, late>>

Idle == [fn |-> "none", stage |-> "none", block |-> 0, number |-> 0, next |-> 0, taken |-> 0]
NoSweep == [to |-> "none", todo |-> {}]

Init ==
  /\ loaded = Libs \ Late /\ got = [l \in Libs |-> "original"]
  /\ enabled = FALSE /\ mutex = "none" /\ sweep = NoSweep /\ control = "none"
  /\ guard = [t \in Callers |-> FALSE] /\ call = [t \in Callers |-> Idle]
  /\ owner = [b \in Blocks |-> 0] /\ events = <<>>
  /\ allocations = 0 /\ calls = [t \in Callers |-> 0] /\ starts = 0 /\ late = FALSE

-----------------------------------------------------------------------------
(* An intercepted call.                                                    *)

Allocates == {"malloc", "mmap"}
Releases == {"free", "munmap", "pyfree"}
Moves == {"realloc"}
Loads == {"dlopen", "dlclose"}

\* Mutant of ReleasesFirst: free calls the real function before it is recorded.
OnlyMunmapFirst == {"munmap"}

\* The releases that are recorded before the real call.
ReleasesFirst == {"free", "munmap"}

FirstStage(fn) == CASE fn \in ReleasesFirst -> "untrack"
                    [] fn \in Loads -> "load"
                    [] OTHER -> "real"

\* A thread that owns block b (no call that made it or gives it up is still running), or
\* wants it, calls through the entry of library l.
Call(t, l, fn, b) ==
  /\ call[t] = Idle /\ calls[t] < MaxCalls /\ l \in loaded
  /\ fn \in Releases \cup Moves =>
       owner[b] # 0 /\ \A u \in Callers : owner[b] \notin {call[u].number, call[u].taken}
  /\ calls' = [calls EXCEPT ![t] = @ + 1]
  /\ call' = [call EXCEPT ![t] =
       [fn |-> fn, stage |-> IF got[l] = "hook" THEN FirstStage(fn) ELSE "unhooked",
        block |-> b, number |-> IF fn \in Releases \cup Moves THEN owner[b] ELSE 0,
        next |-> b, taken |-> 0]]
  /\ UNCHANGED <<guard, owner, events, allocations>> /\ UNCHANGED patchVars

\* What the real function does with the blocks: takes a free one, gives one back, or
\* moves one, when realloc does not grow it in place.
TakesBlock(b) == owner[b] = 0 /\ owner' = [owner EXCEPT ![b] = allocations + 1]
MovesBlock(from, to) ==
  /\ owner[to] = 0 \/ to = from
  /\ owner' = [owner EXCEPT ![from] = 0, ![to] = allocations + 1]

\* The real function through an entry that was not patched: nothing is recorded.
RunUnhooked(t) ==
  /\ call[t].stage = "unhooked"
  /\ \/ call[t].fn \in Allocates /\ TakesBlock(call[t].block) /\ allocations' = allocations + 1
     \/ call[t].fn \in Releases /\ owner' = [owner EXCEPT ![call[t].block] = 0]
                                /\ UNCHANGED allocations
     \/ call[t].fn \in Moves /\ allocations' = allocations + 1
                             /\ \E b \in Blocks : MovesBlock(call[t].block, b)
     \/ call[t].fn \in Allocates \cup Loads /\ UNCHANGED <<owner, allocations>>
  /\ call' = [call EXCEPT ![t] = Idle]
  /\ UNCHANGED <<guard, events, calls>> /\ UNCHANGED patchVars

\* The real function under the recursion guard; an allocation may fail, and then the
\* interceptor returns.
RunReal(t) ==
  /\ call[t].stage = "real"
  /\ LET c == call[t] IN
     \/ /\ c.fn \in Allocates /\ TakesBlock(c.block) /\ allocations' = allocations + 1
        /\ call' = [call EXCEPT ![t] = [c EXCEPT !.stage = "inside", !.taken = allocations + 1]]
        /\ guard' = [guard EXCEPT ![t] = TRUE]
     \/ /\ c.fn \in Allocates /\ call' = [call EXCEPT ![t] = Idle]
        /\ UNCHANGED <<owner, allocations, guard>>
     \/ /\ c.fn \in Releases /\ owner' = [owner EXCEPT ![c.block] = 0]
        /\ call' = [call EXCEPT ![t] = IF c.fn \notin ReleasesFirst THEN [c EXCEPT !.stage = "untrack"] ELSE Idle]
        /\ UNCHANGED <<allocations, guard>>
     \/ /\ c.fn \in Moves /\ allocations' = allocations + 1
        /\ \E b \in Blocks :
             /\ MovesBlock(c.block, b)
             /\ call' = [call EXCEPT ![t] =
                  [c EXCEPT !.stage = "untrack", !.next = b, !.taken = allocations + 1]]
        /\ UNCHANGED guard
  /\ UNCHANGED <<events, calls>> /\ UNCHANGED patchVars

Event(kind, c, b, number) == [kind |-> kind, fn |-> c.fn, block |-> b, number |-> number]

\* malloc may map memory on its way, and mmap is hooked too: trackAllocation looks at
\* the guard.
MapInside(t) ==
  /\ call[t].stage = "inside" /\ call[t].fn = "malloc"
  /\ call' = [call EXCEPT ![t].stage = "track"]
  /\ events' = IF guard[t] THEN events
               ELSE Append(events, Event("allocate", call[t], call[t].block, call[t].taken))
  /\ guard' = [guard EXCEPT ![t] = FALSE]
  /\ UNCHANGED <<owner, allocations, calls>> /\ UNCHANGED patchVars

LeaveReal(t) ==
  /\ call[t].stage = "inside"
  /\ call' = [call EXCEPT ![t].stage = "track"] /\ guard' = [guard EXCEPT ![t] = FALSE]
  /\ UNCHANGED <<owner, events, allocations, calls>> /\ UNCHANGED patchVars

\* trackDeallocation; _enabled is not looked at.
Untrack(t) ==
  /\ call[t].stage = "untrack"
  /\ events' = Append(events, Event("release", call[t], call[t].block, call[t].number))
  /\ call' = [call EXCEPT ![t] =
       CASE @.fn \in Releases \ ReleasesFirst -> Idle
         [] @.fn \in Moves -> [call[t] EXCEPT !.stage = "track"]
         [] OTHER -> [call[t] EXCEPT !.stage = "real"]]
  /\ UNCHANGED <<guard, owner, allocations, calls>> /\ UNCHANGED patchVars

\* trackAllocation.
Track(t) ==
  /\ call[t].stage = "track"
  /\ events' = Append(events, Event("allocate", call[t], call[t].next, call[t].taken))
  /\ call' = [call EXCEPT ![t] = Idle]
  /\ UNCHANGED <<guard, owner, allocations, calls>> /\ UNCHANGED patchVars

-----------------------------------------------------------------------------
(* Patching.                                                               *)

\* Mutant of Load: the module cache is not invalidated when an object was loaded.
LoadKeepsCache(t) ==
  /\ call[t].stage = "load" /\ sweep = NoSweep
  /\ loaded' = IF call[t].fn = "dlopen" THEN Libs ELSE Libs \ Late
  /\ got' = [l \in Libs |-> IF l \in loaded THEN got[l] ELSE "original"]
  /\ call' = [call EXCEPT ![t] = Idle]
  /\ UNCHANGED <<guard, owner, events, allocations, calls, enabled, mutex, sweep, control, starts, late>>

\* dlopen and dlclose, the real call under the guard; after it the module cache is
\* invalidated, whether or not the collector still runs.
Load(t) ==
  /\ call[t].stage = "load" /\ sweep = NoSweep
  /\ loaded' = IF call[t].fn = "dlopen" THEN Libs ELSE Libs \ Late
  /\ got' = [l \in Libs |-> IF l \in loaded THEN got[l] ELSE "original"]
  /\ call' = [call EXCEPT ![t].stage = "invalidate"]
  /\ UNCHANGED <<guard, owner, events, allocations, calls, enabled, mutex, sweep, control, starts, late>>

\* The objects phdrs_callback patches.
Patched == loaded \ (Exempt \cup Sealed)

\* invalidate_module_cache_impl takes s_mutex and overwrites everything again.
Invalidate(t) ==
  /\ call[t].stage = "invalidate" /\ mutex = "none"
  /\ mutex' = t /\ sweep' = [to |-> "hook", todo |-> Patched]
  /\ late' = (late \/ ~enabled)
  /\ call' = [call EXCEPT ![t].stage = "sweep"]
  /\ UNCHANGED <<loaded, got, enabled, control, starts, guard, owner, events, allocations, calls>>

\* One object of a sweep; dl_iterate_phdr keeps dlopen out meanwhile.
PatchOne ==
  /\ \E l \in sweep.todo :
       /\ got' = [got EXCEPT ![l] = sweep.to]
       /\ sweep' = [sweep EXCEPT !.todo = @ \ {l}]
  /\ UNCHANGED <<loaded, enabled, mutex, control, starts, late, guard, call, owner, events,
                 allocations, calls>>

EndInvalidate(t) ==
  /\ call[t].stage = "sweep" /\ sweep.todo = {}
  /\ mutex' = "none" /\ sweep' = NoSweep /\ call' = [call EXCEPT ![t] = Idle]
  /\ UNCHANGED <<loaded, got, enabled, control, starts, late, guard, owner, events, allocations, calls>>

\* start, when it is not enabled: hooks, then _enabled.
StartCollector ==
  /\ control = "none" /\ ~enabled /\ starts < MaxStarts /\ mutex = "none"
  /\ starts' = starts + 1 /\ control' = "start" /\ mutex' = "profiler"
  /\ sweep' = [to |-> "hook", todo |-> Patched]
  /\ UNCHANGED <<loaded, got, enabled, late, guard, call, owner, events, allocations, calls>>

\* stop, when it is enabled.
StopCollector ==
  /\ control = "none" /\ enabled /\ mutex = "none"
  /\ control' = "stop" /\ mutex' = "profiler"
  /\ sweep' = [to |-> "original", todo |-> Patched]
  /\ UNCHANGED <<loaded, got, enabled, starts, late, guard, call, owner, events, allocations, calls>>

\* Either ends when its sweep is over.
EndControl ==
  /\ control # "none" /\ sweep.todo = {}
  /\ enabled' = (control = "start") /\ control' = "none"
  /\ mutex' = "none" /\ sweep' = NoSweep
  /\ UNCHANGED <<loaded, got, starts, late, guard, call, owner, events, allocations, calls>>

Next ==
  \/ \E t \in Callers :
       \/ \E l \in Libs, fn \in Allocates \cup Releases \cup Moves \cup Loads, b \in Blocks :
            Call(t, l, fn, b)
       \/ RunUnhooked(t) \/ RunReal(t) \/ MapInside(t) \/ LeaveReal(t) \/ Untrack(t) \/ Track(t)
       \/ Load(t) \/ Invalidate(t) \/ EndInvalidate(t)
  \/ PatchOne \/ StartCollector \/ StopCollector \/ EndControl

Spec == Init /\ [][Next]_hooksVars

-----------------------------------------------------------------------------
\* A block is counted once: the inner calls of an interceptor record nothing.
BlocksAreCountedOnce ==
  \A i, j \in DOMAIN events :
    i # j /\ events[i].kind = events[j].kind => events[i].number # events[j].number

\* A release that is recorded by free or munmap comes before the allocation of the next
\* owner of the block ("to make sure that the pointer is not reused in-between"); only
\* realloc and the pymalloc hooks, which record after the real call, may be overtaken.
ReleasesComeFirst ==
  \A i, j \in DOMAIN events :
    /\ i < j /\ events[i].kind = "allocate" /\ events[j].kind = "release"
    /\ events[i].block = events[j].block /\ events[j].number < events[i].number
    => events[j].fn \notin {"free", "munmap"}

\* While the collector runs and nothing is being patched, every object that can be is
\* hooked, those that dlopen loaded included; when it does not run, none is, unless a
\* dlopen or dlclose that overlapped the stop patched them again.
HooksFollowTheCollector ==
  sweep = NoSweep /\ (\A t \in Callers : call[t].stage # "invalidate") =>
    /\ enabled => \A l \in Patched : got[l] = "hook"
    /\ ~enabled /\ ~late => \A l \in loaded : got[l] = "original"
    /\ \A l \in Exempt \cup Sealed : got[l] = "original"
=============================================================================
