----------------------------- MODULE PykiRecorder -----------------------------
(***************************************************************************)
(* How pyki's samples reach a data file: allocator hooks                   *)
(* (memory_profiling.cpp, native_memory_profiling.cpp) and SIGPROF         *)
(* handlers (cpu_profiling.cpp) enter a critical section (lock.hpp), are   *)
(* protected against faults of the stack walk (crash_protection.cpp), take *)
(* the trace and record an event in the buffer of their slot, while the    *)
(* profiler rotates to the next file under all locks (recorder.cpp).  The  *)
(* table of traces is the set that StackTraceStorage implements.           *)
(***************************************************************************)
EXTENDS Integers, Sequences, SequencesExt, FiniteSets

CONSTANTS
  Threads,        \* threads of the profiled process
  Home,           \* get_thread_concurrency_level_index of each thread
  Level,          \* CONCURRENCY_LEVEL
  Capacity,       \* events that fit into a buffer
  Quotas,         \* bounds: which threads sample which traces, how many samples and faults
  MaxFiles        \* bound: data files opened

Slots == 0..(Level - 1)
Files == 1..MaxFiles
NoFile == 0             \* _fd = -1
NoTrace == "none"       \* a deallocation carries no trace
NoContext == [thread |-> "none", frame |-> 0]
Unlocked == [thread |-> "none", frame |-> 0]
ByRotation == [thread |-> "rotation", frame |-> 0]

VARIABLES
  frames,         \* per thread the handlers it runs, the innermost last
  lock,           \* who holds each slot
  context,        \* CrashProtection::_contexts
  buffer,         \* the events in the buffer of each slot
  traces,         \* the table of stack traces
  fd,             \* the data file, or NoFile
  file,           \* per data file: header written, events, trace table, header patched
  sampling,       \* the collectors are installed
  rotation,       \* [stage, slot, to]: where rotate_to is
  dead,           \* a jump into a frame that has returned
  quota,          \* the bounds of this behaviour
  sampled, faults, opened,    \* history: samples taken, faults, data files opened
  recorded, dropped,          \* history: events recorded, and those flushed without a file
  skipped         \* history: slots whose holder a fault jumped over, or that hang in one

recorderVars == <<frames, lock, context, buffer, traces, fd, file, sampling, rotation, dead,
                  quota, sampled, faults, opened, recorded, dropped, skipped>>
outputVars == <<buffer, fd, file, recorded, dropped>>
boundVars == <<quota, sampled, faults, opened>>

NoRotation == [stage |-> "none", slot |-> 0, to |-> NoFile]
EmptyFile == [header |-> FALSE, events |-> <<>>, traces |-> {}, patched |-> FALSE]

InitWith(q) ==
  /\ quota = q
  /\ frames = [t \in Threads |-> <<>>]
  /\ lock = [s \in Slots |-> Unlocked] /\ context = [s \in Slots |-> NoContext]
  /\ buffer = [s \in Slots |-> <<>>] /\ traces = {}
  /\ fd = NoFile /\ file = [f \in Files |-> EmptyFile]
  /\ sampling = FALSE /\ rotation = NoRotation /\ dead = FALSE
  /\ sampled = 0 /\ faults = 0 /\ opened = 0
  /\ recorded = {} /\ dropped = {} /\ skipped = {}

Init == \E q \in Quotas : InitWith(q)

Depth(t) == Len(frames[t])
Frame(t) == frames[t][Depth(t)]
Runs(t, stage) == ~dead /\ Depth(t) > 0 /\ Frame(t).stage = stage
Set(t, f) == frames' = [frames EXCEPT ![t][Depth(t)] = f]
Return(t) == frames' = [frames EXCEPT ![t] = Front(@)]
Owner(t) == [thread |-> t, frame |-> Frame(t).id]

-----------------------------------------------------------------------------
(* A sample.                                                               *)

NewFrame(kind) == [kind |-> kind, id |-> sampled + 1, stage |-> "enter", probe |-> 0,
                   slot |-> 0, trace |-> NoTrace]

Interrupted(t, kind) ==
  /\ frames' = [frames EXCEPT ![t] = Append(@, NewFrame(kind))]
  /\ sampled' = sampled + 1

\* An allocation that hits its sample point, or a deallocation when leaks are traced;
\* the recursion guard keeps a hook from interrupting a hook.
Hook(t, kind) ==
  /\ ~dead /\ sampling /\ sampled < quota.samples /\ Depth(t) = 0
  /\ Interrupted(t, kind)
  /\ UNCHANGED <<lock, context, traces, sampling, rotation, dead, quota, faults, opened, skipped>>
  /\ UNCHANGED outputVars

\* SIGPROF interrupts the thread anywhere, a hook included; it is masked while its own
\* handler runs.
Signal(t) ==
  /\ ~dead /\ sampling /\ sampled < quota.samples
  /\ Depth(t) = 0 \/ (Depth(t) = 1 /\ Frame(t).kind # "cpu" /\ Frame(t).stage # "stuck")
  /\ Interrupted(t, "cpu")
  /\ UNCHANGED <<lock, context, traces, sampling, rotation, dead, quota, faults, opened, skipped>>
  /\ UNCHANGED outputVars

\* The slots try_lock tries: each step counts from the slot before.
ProbedSlot(t, probe) == (Home[t] + (<<0, 1, 3>>)[probe + 1]) % Level

\* Mutant of TryLock: the slot is taken without looking at it.
TryLockBlindly(t) ==
  /\ Runs(t, "enter")
  /\ LET s == ProbedSlot(t, Frame(t).probe) IN
     /\ lock' = [lock EXCEPT ![s] = Owner(t)]
     /\ Set(t, [Frame(t) EXCEPT !.stage = "protect", !.slot = s])
  /\ UNCHANGED <<context, traces, sampling, rotation, dead, skipped>>
  /\ UNCHANGED outputVars /\ UNCHANGED boundVars

\* try_enter, one slot at a time; when all three are taken the sample is dropped.
TryLock(t) ==
  /\ Runs(t, "enter")
  /\ LET s == ProbedSlot(t, Frame(t).probe) IN
     IF lock[s] = Unlocked
     THEN /\ lock' = [lock EXCEPT ![s] = Owner(t)]
          /\ Set(t, [Frame(t) EXCEPT !.stage = "protect", !.slot = s])
     ELSE /\ UNCHANGED lock
          /\ IF Frame(t).probe < 2 THEN Set(t, [Frame(t) EXCEPT !.probe = @ + 1]) ELSE Return(t)
  /\ UNCHANGED <<context, traces, sampling, rotation, dead, skipped>>
  /\ UNCHANGED outputVars /\ UNCHANGED boundVars

\* CrashProtection::call publishes its jump buffer.
Protect(t) ==
  /\ Runs(t, "protect")
  /\ context' = [context EXCEPT ![Frame(t).slot] = Owner(t)]
  /\ Set(t, [Frame(t) EXCEPT !.stage = IF Frame(t).kind = "free" THEN "record" ELSE "trace"])
  /\ UNCHANGED <<lock, traces, sampling, rotation, dead, skipped>>
  /\ UNCHANGED outputVars /\ UNCHANGED boundVars

\* get_stack_trace.
TakeTrace(t, tr) ==
  /\ Runs(t, "trace")
  /\ traces' = traces \cup {tr}
  /\ Set(t, [Frame(t) EXCEPT !.stage = "record", !.trace = tr])
  /\ UNCHANGED <<lock, context, sampling, rotation, dead, skipped>>
  /\ UNCHANGED outputVars /\ UNCHANGED boundVars

\* The slots check_crash_protection looks at that hold a context of this thread.
ContextSlots(t) ==
  {s \in {Home[t], (Home[t] + 1) % Level} : context[s].thread = t}

\* The first match wins, whichever handler put it there.
CatchingSlot(t) == IF Home[t] \in ContextSlots(t) THEN Home[t] ELSE (Home[t] + 1) % Level

\* longjmp: the handler at d ends its protected part, those above it are gone.
JumpTo(t, d) ==
  /\ frames' = [frames EXCEPT ![t] =
       Append(SubSeq(@, 1, d - 1), [frames[t][d] EXCEPT !.stage = "unlock"])]
  /\ skipped' = skipped \cup {frames[t][e].slot : e \in (d + 1)..Depth(t)}

\* The stack walk faults.  crashHandler jumps to the context it finds: that call
\* returns false, everything above it is gone.  When it finds none it returns, and the
\* instruction faults again for ever; when the frame has returned, anything may happen.
Fault(t) ==
  /\ Runs(t, "trace") /\ faults < quota.faults
  /\ faults' = faults + 1
  /\ IF ContextSlots(t) = {}
     THEN /\ Set(t, [Frame(t) EXCEPT !.stage = "stuck"])
          /\ skipped' = skipped \cup {Frame(t).slot}
          /\ UNCHANGED <<context, dead>>
     ELSE LET s == CatchingSlot(t)
              at == {d \in 1..Depth(t) : frames[t][d].id = context[s].frame}
          IN IF at = {} THEN dead' = TRUE /\ UNCHANGED <<frames, context, skipped>>
             ELSE /\ JumpTo(t, CHOOSE d \in at : TRUE)
                  /\ context' = [context EXCEPT ![s] = NoContext]
                  /\ UNCHANGED dead
  /\ UNCHANGED <<lock, traces, sampling, rotation, quota, sampled, opened>> /\ UNCHANGED outputVars

\* flush: what a buffer holds goes to the file, or nowhere without one.
Flushed(f, events) ==
  IF fd = NoFile THEN f ELSE [f EXCEPT ![fd].events = @ \o events]
Dropped(events) == IF fd = NoFile THEN dropped \cup ToSet(events) ELSE dropped

\* Mutant of Record: a full buffer is reset without being written.
RecordResetsFullBuffer(t) ==
  /\ Runs(t, "record")
  /\ LET s == Frame(t).slot
         e == [id |-> Frame(t).id, trace |-> Frame(t).trace]
     IN /\ recorded' = recorded \cup {e}
        /\ buffer' = [buffer EXCEPT ![s] = IF Len(@) = Capacity THEN <<e>> ELSE Append(@, e)]
  /\ Set(t, [Frame(t) EXCEPT !.stage = "unprotect"])
  /\ UNCHANGED <<lock, context, traces, fd, file, sampling, rotation, dead, dropped, skipped>>
  /\ UNCHANGED boundVars

\* record_*_event: the buffer of the slot is flushed when the event does not fit.
Record(t) ==
  /\ Runs(t, "record")
  /\ LET s == Frame(t).slot
         e == [id |-> Frame(t).id, trace |-> Frame(t).trace]
     IN /\ recorded' = recorded \cup {e}
        /\ IF Len(buffer[s]) = Capacity
           THEN /\ file' = Flushed(file, buffer[s]) /\ dropped' = Dropped(buffer[s])
                /\ buffer' = [buffer EXCEPT ![s] = <<e>>]
           ELSE /\ buffer' = [buffer EXCEPT ![s] = Append(@, e)]
                /\ UNCHANGED <<file, dropped>>
  /\ Set(t, [Frame(t) EXCEPT !.stage = "unprotect"])
  /\ UNCHANGED <<lock, context, traces, fd, sampling, rotation, dead, skipped>>
  /\ UNCHANGED boundVars

Unprotect(t) ==
  /\ Runs(t, "unprotect")
  /\ context' = [context EXCEPT ![Frame(t).slot] = NoContext]
  /\ Set(t, [Frame(t) EXCEPT !.stage = "unlock"])
  /\ UNCHANGED <<lock, traces, sampling, rotation, dead, skipped>>
  /\ UNCHANGED outputVars /\ UNCHANGED boundVars

\* The destructor of ThreadCritical.
Unlock(t) ==
  /\ Runs(t, "unlock")
  /\ lock' = [lock EXCEPT ![Frame(t).slot] = Unlocked]
  /\ Return(t)
  /\ UNCHANGED <<context, traces, sampling, rotation, dead, skipped>>
  /\ UNCHANGED outputVars /\ UNCHANGED boundVars

-----------------------------------------------------------------------------
(* The profiler thread: sessions and rotations.                            *)

\* set_fd, without a lock, then the collectors start.  What a straggler left in the
\* first buffer is flushed with the header.
Start ==
  /\ ~dead /\ fd = NoFile /\ rotation = NoRotation /\ ~sampling /\ opened < MaxFiles
  /\ opened' = opened + 1 /\ fd' = opened + 1 /\ sampling' = TRUE
  /\ file' = [file EXCEPT ![opened + 1].header = TRUE, ![opened + 1].events = buffer[0]]
  /\ buffer' = [buffer EXCEPT ![0] = <<>>]
  /\ UNCHANGED <<frames, lock, context, traces, rotation, dead, quota, sampled, faults, recorded,
                 dropped, skipped>>

\* dump: a rotation to a new file, or the last one, after the collectors stopped.
\* Handlers that are on their way go on.
Rotate(last) ==
  /\ ~dead /\ fd # NoFile /\ rotation = NoRotation
  /\ last \/ opened < MaxFiles
  /\ opened' = IF last THEN opened ELSE opened + 1
  /\ rotation' = [stage |-> "lock", slot |-> 0, to |-> IF last THEN NoFile ELSE opened + 1]
  /\ sampling' = ~last
  /\ UNCHANGED <<frames, lock, context, traces, dead, quota, sampled, faults, skipped>>
  /\ UNCHANGED outputVars

\* lock_all spins on one slot after the other.
LockNext ==
  /\ ~dead /\ rotation.stage = "lock" /\ lock[rotation.slot] = Unlocked
  /\ lock' = [lock EXCEPT ![rotation.slot] = ByRotation]
  /\ rotation' = IF rotation.slot = Level - 1
                 THEN [rotation EXCEPT !.stage = "flush", !.slot = 0]
                 ELSE [rotation EXCEPT !.slot = @ + 1]
  /\ UNCHANGED <<frames, context, traces, sampling, dead, skipped>>
  /\ UNCHANGED outputVars /\ UNCHANGED boundVars

\* flush_all_buffers writes one buffer after the other.
FlushNext ==
  /\ ~dead /\ rotation.stage = "flush"
  /\ LET s == rotation.slot IN
     /\ file' = Flushed(file, buffer[s]) /\ dropped' = Dropped(buffer[s])
     /\ buffer' = [buffer EXCEPT ![s] = <<>>]
  /\ rotation' = IF rotation.slot = Level - 1 THEN [rotation EXCEPT !.stage = "traces"]
                 ELSE [rotation EXCEPT !.slot = @ + 1]
  /\ UNCHANGED <<frames, lock, context, traces, fd, sampling, dead, recorded, skipped>>
  /\ UNCHANGED boundVars

\* write_stack_traces and clear, write_strings and clear.
WriteTraces ==
  /\ ~dead /\ rotation.stage = "traces"
  /\ file' = [file EXCEPT ![fd].traces = traces]
  /\ traces' = {}
  /\ rotation' = [rotation EXCEPT !.stage = "switch"]
  /\ UNCHANGED <<frames, lock, context, buffer, fd, sampling, dead, recorded, dropped, skipped>>
  /\ UNCHANGED boundVars

\* patch_header, the new _fd and its header.
SwitchFile ==
  /\ ~dead /\ rotation.stage = "switch"
  /\ file' = [f \in DOMAIN file |->
       CASE f = fd -> [file[f] EXCEPT !.patched = TRUE]
         [] f = rotation.to -> [file[f] EXCEPT !.header = TRUE]
         [] OTHER -> file[f]]
  /\ fd' = rotation.to
  /\ rotation' = [rotation EXCEPT !.stage = "unlock", !.slot = 0]
  /\ UNCHANGED <<frames, lock, context, buffer, traces, sampling, dead, recorded, dropped, skipped>>
  /\ UNCHANGED boundVars

UnlockNext ==
  /\ ~dead /\ rotation.stage = "unlock"
  /\ lock' = [lock EXCEPT ![rotation.slot] = Unlocked]
  /\ rotation' = IF rotation.slot = Level - 1 THEN NoRotation
                 ELSE [rotation EXCEPT !.slot = @ + 1]
  /\ UNCHANGED <<frames, context, traces, sampling, dead, skipped>>
  /\ UNCHANGED outputVars /\ UNCHANGED boundVars

Next ==
  \/ \E t \in quota.threads :
       \/ \E kind \in {"mem", "free"} : Hook(t, kind)
       \/ Signal(t) \/ TryLock(t) \/ Protect(t)
       \/ \E tr \in quota.traces : TakeTrace(t, tr)
       \/ Fault(t) \/ Record(t) \/ Unprotect(t) \/ Unlock(t)
  \/ Start \/ \E last \in BOOLEAN : Rotate(last)
  \/ LockNext \/ FlushNext \/ WriteTraces \/ SwitchFile \/ UnlockNext

Spec == Init /\ [][Next]_recorderVars

-----------------------------------------------------------------------------
\* Every trace an event of a finished file names is in the trace table of that same
\* file, although the sample may have been taken before a rotation and recorded by a
\* handler that outlived the collectors.
EveryEventResolves ==
  \A f \in Files : file[f].patched =>
    file[f].header /\ \A e \in ToSet(file[f].events) : e.trace \in file[f].traces \cup {NoTrace}

\* No event is lost or written twice: each one recorded is at one place of one buffer or
\* of one file, or was flushed while no file was open, which only a straggler can meet.
EventsAreKeptOnce ==
  LET buffered == UNION {ToSet(buffer[s]) : s \in Slots}
      written == UNION {ToSet(file[f].events) : f \in Files}
  IN /\ \A s \in Slots : IsInjective(buffer[s])
     /\ \A f \in Files : IsInjective(file[f].events)
     /\ \A r, s \in Slots : r # s => ToSet(buffer[r]) \cap ToSet(buffer[s]) = {}
     /\ \A f, g \in Files : f # g => ToSet(file[f].events) \cap ToSet(file[g].events) = {}
     /\ buffered \cap written = {} /\ dropped \cap (buffered \cup written) = {}
     /\ buffered \cup written \cup dropped = recorded

\* A slot has one holder, who still runs, so a buffer has one writer and lock_all comes
\* to an end: the exceptions are the slots of the frames that a fault jumped over, as
\* when a SIGPROF handler faults above a protected hook, and of those no context protected.
SlotsAreReleased ==
  /\ \A s \in Slots \ skipped :
       LET holders == {h \in Threads \X (1..2) :
                         /\ h[2] <= Depth(h[1]) /\ frames[h[1]][h[2]].slot = s
                         /\ frames[h[1]][h[2]].stage \notin {"enter", "stuck"}}
       IN IF lock[s] \in {Unlocked, ByRotation} THEN holders = {}
          ELSE \E h \in holders : holders = {h} /\ lock[s].thread = h[1]
                                  /\ lock[s].frame = frames[h[1]][h[2]].id
  /\ rotation.stage \in {"flush", "traces", "switch"} =>
       \A s \in Slots : lock[s] = ByRotation
=============================================================================
