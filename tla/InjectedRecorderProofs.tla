------------------------ MODULE InjectedRecorderProofs ------------------------
(***************************************************************************)
(* Proof that pyki's recorder (recorder.cpp, lock.hpp,                     *)
(* crash_protection.cpp and the collectors' hooks; module PykiRecorder)    *)
(* keeps every event once and together with its trace, and that a slot has *)
(* one holder, for any number of threads, slots, samples, faults and       *)
(* files.                                                                  *)
(***************************************************************************)
EXTENDS InjectedCode, Sequences, TLAPS

Kinds == {"mem", "free", "cpu"}
Stages == {"enter", "protect", "trace", "record", "unprotect", "unlock", "stuck"}
Holding == Stages \ {"enter", "stuck"}
Taken == {Recorder!NoTrace} \cup UNION {q.traces : q \in Quotas}
Handlers == [kind : Kinds, id : Nat, stage : Stages, probe : 0..2, slot : Recorder!Slots, trace : Taken]
Holders == [thread : Threads \cup {"none", "rotation"}, frame : Nat]
Events == [id : Nat, trace : Taken]
DataFiles == [header : BOOLEAN, events : Seq(Events), traces : SUBSET Taken, patched : BOOLEAN]
Rotations == [stage : {"none", "lock", "flush", "traces", "switch", "unlock"}, slot : Recorder!Slots,
              to : 0..MaxFiles]

(* What the recorder's variables are.                                      *)
HandlerType ==
  /\ frames \in [Threads -> Seq(Handlers)] /\ lock \in [Recorder!Slots -> Holders]
  /\ context \in [Recorder!Slots -> Holders] /\ skipped \in SUBSET Recorder!Slots
  /\ sampled \in Nat /\ rotation \in Rotations /\ quota \in Quotas

OutputType ==
  /\ buffer \in [Recorder!Slots -> Seq(Events)] /\ traces \in SUBSET Taken
  /\ fd \in 0..MaxFiles /\ file \in [Recorder!Files -> DataFiles] /\ opened \in 0..MaxFiles
  /\ recorded \in SUBSET Events /\ dropped \in SUBSET Events

(* A handler may interrupt a hook, and nothing interrupts a thread that     *)
(* hangs in one.                                                            *)
HandlersNest ==
  /\ \A t \in Threads : Len(frames[t]) <= 2
  /\ \A t \in Threads : \A d \in DOMAIN frames[t] :
       /\ frames[t][d].id <= sampled
       /\ frames[t][d].stage = "stuck" => d = Len(frames[t])
       /\ frames[t][d].stage \in {"enter", "protect", "trace"} => frames[t][d].trace = Recorder!NoTrace
  /\ \A t, u \in Threads : \A d \in DOMAIN frames[t], e \in DOMAIN frames[u] :
       frames[t][d].id = frames[u][e].id => t = u /\ d = e

(* A handler between its try_lock and its unlock has its slot.              *)
HoldersHaveLocks ==
  \A t \in Threads : \A d \in DOMAIN frames[t] : frames[t][d].stage \in Holding =>
    /\ lock[frames[t][d].slot].thread = t
    /\ lock[frames[t][d].slot].frame = frames[t][d].id

(* A slot that is taken has such a handler, unless a fault jumped over it.  *)
LocksHaveHolders ==
  \A s \in Recorder!Slots \ skipped : lock[s] \notin {Recorder!Unlocked, Recorder!ByRotation} =>
    \E t \in Threads : \E d \in DOMAIN frames[t] :
      frames[t][d].slot = s /\ frames[t][d].stage \in Holding

(* A published context is that of a handler in its protected part, if the   *)
(* handler still runs: it was published in the slot it holds.               *)
ContextsFollow ==
  \A s \in Recorder!Slots :
    /\ context[s].frame <= sampled
    /\ \A t \in Threads : \A d \in DOMAIN frames[t] :
         context[s].thread = t /\ context[s].frame = frames[t][d].id =>
           /\ frames[t][d].slot = s
           /\ frames[t][d].stage \in {"trace", "record", "unprotect", "stuck"}

(* The slots and buffers that rotate_to has behind it.                      *)
RotationLocks ==
  /\ rotation.stage = "lock" => \A s \in Recorder!Slots : s < rotation.slot => lock[s] = Recorder!ByRotation
  /\ rotation.stage \in {"flush", "traces", "switch"} => \A s \in Recorder!Slots : lock[s] = Recorder!ByRotation
  /\ rotation.stage = "unlock" => \A s \in Recorder!Slots : s >= rotation.slot => lock[s] = Recorder!ByRotation

FlushedSoFar ==
  /\ rotation.stage = "flush" => \A s \in Recorder!Slots : s < rotation.slot => buffer[s] = <<>>
  /\ rotation.stage \in {"traces", "switch"} => \A s \in Recorder!Slots : buffer[s] = <<>>

(* The open file has its header and is not patched, the next one is empty.  *)
FilesFollow ==
  /\ \A f \in Recorder!Files : f > opened => file[f] = Recorder!EmptyFile
  /\ fd # Recorder!NoFile => fd <= opened /\ file[fd].header /\ ~file[fd].patched
  /\ rotation.stage \in {"lock", "flush", "traces", "switch"} =>
       /\ fd # Recorder!NoFile
       /\ rotation.to # Recorder!NoFile =>
            /\ rotation.to # fd /\ rotation.to <= opened
            /\ file[rotation.to] = Recorder!EmptyFile

(* The traces of what is buffered, about to be recorded or in the open file *)
(* are in the table, or in the file's once the table is cleared.            *)
TracesAreKept ==
  /\ \A s \in Recorder!Slots : \A e \in Recorder!ToSet(buffer[s]) : e.trace \in traces \cup {Recorder!NoTrace}
  /\ \A t \in Threads : \A d \in DOMAIN frames[t] :
       frames[t][d].stage = "record" => frames[t][d].trace \in traces \cup {Recorder!NoTrace}
  /\ fd # Recorder!NoFile => \A e \in Recorder!ToSet(file[fd].events) :
       e.trace \in {Recorder!NoTrace} \cup IF rotation.stage = "switch" THEN file[fd].traces ELSE traces
  /\ Recorder!EveryEventResolves

(* An event is recorded once: no handler that is still to record has its id. *)
RecordedOnce ==
  /\ \A e \in recorded :
       /\ e.id <= sampled
       /\ \A t \in Threads : \A d \in DOMAIN frames[t] :
            frames[t][d].id = e.id => frames[t][d].stage \in {"unprotect", "unlock"}
  /\ Recorder!EventsAreKeptOnce

HandlerInv == HandlersNest /\ HoldersHaveLocks /\ LocksHaveHolders /\ ContextsFollow
OutputInv == RotationLocks /\ FlushedSoFar /\ FilesFollow /\ TracesAreKept /\ RecordedOnce
RecorderInvariant == HandlerType /\ OutputType /\ HandlerInv /\ OutputInv
-----------------------------------------------------------------------------
(* What a step does to the handlers of its thread.                         *)

\* Every slot that is tried or searched is a slot.
LEMMA SlotFacts ==
  /\ 0 \in Recorder!Slots /\ Level - 1 \in Recorder!Slots
  /\ \A t \in Threads : Home[t] \in Recorder!Slots /\ (Home[t] + 1) % Level \in Recorder!Slots
  /\ \A t \in Threads : \A p \in 0..2 : Recorder!ProbedSlot(t, p) \in Recorder!Slots
  <1>1. \A n \in Nat : n % Level \in Recorder!Slots
    BY LevelAssumption DEF Recorder!Slots
  <1>2. \A t \in Threads : Home[t] \in Nat
    BY LevelAssumption
  <1>3. \A p \in 0..2 : (<<0, 1, 3>>)[p + 1] \in Nat
    OBVIOUS
  <1>4. QED
    BY <1>1, <1>2, <1>3, LevelAssumption DEF Recorder!Slots, Recorder!ProbedSlot

\* The innermost handler of a thread that runs one.
LEMMA TopFacts ==
  ASSUME frames \in [Threads -> Seq(Handlers)], NEW t \in Threads, Recorder!Depth(t) > 0
  PROVE  /\ Recorder!Depth(t) \in DOMAIN frames[t] /\ Recorder!Frame(t) = frames[t][Recorder!Depth(t)]
         /\ Recorder!Frame(t) \in Handlers /\ DOMAIN frames[t] = 1..Recorder!Depth(t) /\ Recorder!Depth(t) \in Nat
  BY DEF Recorder!Depth, Recorder!Frame

\* A step of the innermost handler changes nothing else.
LEMMA SetFacts ==
  ASSUME frames \in [Threads -> Seq(Handlers)], NEW t \in Threads, Recorder!Depth(t) > 0,
         NEW f \in Handlers, Recorder!Set(t, f)
  PROVE  /\ frames' \in [Threads -> Seq(Handlers)]
         /\ \A u \in Threads : DOMAIN frames'[u] = DOMAIN frames[u]
                               /\ Len(frames'[u]) = Len(frames[u])
         /\ frames'[t][Recorder!Depth(t)] = f
         /\ \A u \in Threads : \A d \in DOMAIN frames[u] :
              u # t \/ d # Recorder!Depth(t) => frames'[u][d] = frames[u][d]
  <1>1. Recorder!Depth(t) \in 1..Len(frames[t]) /\ frames[t] \in Seq(Handlers)
    BY DEF Recorder!Depth
  <1> DEFINE q == [frames[t] EXCEPT ![Recorder!Depth(t)] = f]
  <1>2. frames' = [frames EXCEPT ![t] = q]
    BY DEF Recorder!Set
  <1>3. q \in Seq(Handlers) /\ Len(q) = Len(frames[t]) /\ DOMAIN q = DOMAIN frames[t]
        /\ q[Recorder!Depth(t)] = f /\ \A d \in DOMAIN frames[t] : d # Recorder!Depth(t) => q[d] = frames[t][d]
    BY <1>1
  <1> HIDE DEF q
  <1>4. QED
    BY <1>1, <1>2, <1>3

\* Return takes the innermost handler away.
LEMMA ReturnFacts ==
  ASSUME frames \in [Threads -> Seq(Handlers)], NEW t \in Threads, Recorder!Depth(t) > 0,
         Recorder!Return(t)
  PROVE  /\ frames' \in [Threads -> Seq(Handlers)]
         /\ Len(frames'[t]) = Len(frames[t]) - 1
         /\ \A u \in Threads \ {t} : frames'[u] = frames[u]
         /\ \A u \in Threads : \A d \in DOMAIN frames'[u] :
              d \in DOMAIN frames[u] /\ frames'[u][d] = frames[u][d] /\ (u # t \/ d # Recorder!Depth(t))
         /\ \A u \in Threads : \A d \in DOMAIN frames[u] :
              u # t \/ d # Recorder!Depth(t) => d \in DOMAIN frames'[u]
  <1>1. Recorder!Depth(t) = Len(frames[t]) /\ frames[t] \in Seq(Handlers) /\ Len(frames[t]) > 0
    BY DEF Recorder!Depth
  <1> DEFINE q == SubSeq(frames[t], 1, Len(frames[t]) - 1)
  <1>2. frames' = [frames EXCEPT ![t] = q]
    BY DEF Recorder!Return, Recorder!Front
  <1>3. q \in Seq(Handlers) /\ Len(q) = Len(frames[t]) - 1
        /\ \A d \in 1..(Len(frames[t]) - 1) : q[d] = frames[t][d]
    BY <1>1
  <1> HIDE DEF q
  <1>4. DOMAIN q = 1..(Len(frames[t]) - 1) /\ DOMAIN frames[t] = 1..Len(frames[t])
    BY <1>1, <1>3
  <1>5. QED
    BY <1>1, <1>2, <1>3, <1>4

\* A new handler lies above the others.
LEMMA PushFacts ==
  ASSUME frames \in [Threads -> Seq(Handlers)], NEW t \in Threads, NEW f \in Handlers,
         frames' = [frames EXCEPT ![t] = Append(@, f)]
  PROVE  /\ frames' \in [Threads -> Seq(Handlers)]
         /\ Len(frames'[t]) = Len(frames[t]) + 1 /\ frames'[t][Len(frames[t]) + 1] = f
         /\ \A u \in Threads \ {t} : frames'[u] = frames[u]
         /\ \A u \in Threads : \A d \in DOMAIN frames[u] :
              d \in DOMAIN frames'[u] /\ frames'[u][d] = frames[u][d]
         /\ \A u \in Threads : \A d \in DOMAIN frames'[u] :
              d \in DOMAIN frames[u] \/ (u = t /\ d = Len(frames[t]) + 1)
  <1> DEFINE q == Append(frames[t], f)
  <1>1. frames[t] \in Seq(Handlers) /\ frames' = [frames EXCEPT ![t] = q]
    OBVIOUS
  <1>2. q \in Seq(Handlers) /\ Len(q) = Len(frames[t]) + 1 /\ q[Len(frames[t]) + 1] = f
        /\ \A d \in 1..Len(frames[t]) : q[d] = frames[t][d]
    BY <1>1
  <1> HIDE DEF q
  <1>3. DOMAIN q = 1..(Len(frames[t]) + 1) /\ DOMAIN frames[t] = 1..Len(frames[t])
        /\ Len(frames[t]) \in Nat
    BY <1>1, <1>2
  <1>4. QED
    BY <1>1, <1>2, <1>3

\* A jump to the handler at d, which becomes f, takes those above it away.
JumpsTo(t, d, f) == frames' = [frames EXCEPT ![t] = Append(SubSeq(@, 1, d - 1), f)]

LEMMA JumpFacts ==
  ASSUME frames \in [Threads -> Seq(Handlers)], NEW t \in Threads, NEW d \in DOMAIN frames[t],
         NEW f \in Handlers, JumpsTo(t, d, f)
  PROVE  /\ frames' \in [Threads -> Seq(Handlers)]
         /\ Len(frames'[t]) = d /\ d <= Len(frames[t]) /\ frames'[t][d] = f
         /\ \A u \in Threads \ {t} : frames'[u] = frames[u]
         /\ \A u \in Threads : \A e \in DOMAIN frames'[u] :
              e \in DOMAIN frames[u] /\ (u # t \/ e # d => frames'[u][e] = frames[u][e])
         /\ \A u \in Threads : \A e \in DOMAIN frames[u] :
              e \in DOMAIN frames'[u] \/ (u = t /\ e \in (d + 1)..Len(frames[t]))
  <1> DEFINE p == SubSeq(frames[t], 1, d - 1)
             q == Append(p, f)
  <1>1. frames[t] \in Seq(Handlers) /\ d \in 1..Len(frames[t])
    OBVIOUS
  <1>2. p \in Seq(Handlers) /\ Len(p) = d - 1 /\ \A e \in 1..(d - 1) : p[e] = frames[t][e]
    BY <1>1
  <1>3. q = Append(p, f) /\ frames' = [frames EXCEPT ![t] = q]
    BY DEF JumpsTo
  <1> HIDE DEF p
  <1>4. q \in Seq(Handlers) /\ Len(q) = d /\ q[d] = f
        /\ \A e \in 1..(d - 1) : q[e] = frames[t][e]
    BY <1>1, <1>2
  <1> HIDE DEF q
  <1>5. DOMAIN q = 1..d /\ DOMAIN frames[t] = 1..Len(frames[t]) /\ Len(frames[t]) \in Nat
    BY <1>1, <1>4
  <1>6. QED
    BY <1>1, <1>3, <1>4, <1>5
-----------------------------------------------------------------------------
(* Where events are kept.                                                  *)

\* EventsAreKeptOnce of buffers, files, events dropped and events recorded.
KeptOnce(buffers, were, gone, all) ==
  LET buffered == UNION {Recorder!ToSet(buffers[s]) : s \in Recorder!Slots}
      written == UNION {Recorder!ToSet(were[f].events) : f \in Recorder!Files}
  IN /\ \A s \in Recorder!Slots : Recorder!IsInjective(buffers[s])
     /\ \A f \in Recorder!Files : Recorder!IsInjective(were[f].events)
     /\ \A r, s \in Recorder!Slots : r # s => Recorder!ToSet(buffers[r]) \cap Recorder!ToSet(buffers[s]) = {}
     /\ \A f, g \in Recorder!Files : f # g => Recorder!ToSet(were[f].events) \cap Recorder!ToSet(were[g].events) = {}
     /\ buffered \cap written = {} /\ gone \cap (buffered \cup written) = {}
     /\ buffered \cup written \cup gone = all

\* It is EventsAreKeptOnce, before and after a step.
LEMMA KeptNow == Recorder!EventsAreKeptOnce <=> KeptOnce(buffer, file, dropped, recorded)
  BY Zenon DEF Recorder!EventsAreKeptOnce, KeptOnce

LEMMA KeptThen == Recorder!EventsAreKeptOnce' <=> KeptOnce(buffer', file', dropped', recorded')
  BY Zenon DEF Recorder!EventsAreKeptOnce, KeptOnce

\* The events of an appended queue.
LEMMA AppendedFacts ==
  ASSUME NEW S, NEW q \in Seq(S), NEW e \in S, e \notin Recorder!ToSet(q), Recorder!IsInjective(q)
  PROVE  Recorder!ToSet(Append(q, e)) = Recorder!ToSet(q) \cup {e} /\ Recorder!IsInjective(Append(q, e))
  <1> DEFINE p == Append(q, e)
  <1>1. /\ DOMAIN q = 1..Len(q) /\ DOMAIN p = 1..(Len(q) + 1) /\ Len(q) \in Nat
        /\ p[Len(q) + 1] = e /\ \A i \in DOMAIN q : p[i] = q[i]
    OBVIOUS
  <1> HIDE DEF p
  <1>2. Recorder!ToSet(p) = Recorder!ToSet(q) \cup {e}
    BY <1>1 DEF Recorder!ToSet
  <1>3. Recorder!IsInjective(p)
    <2> SUFFICES ASSUME NEW i \in DOMAIN p, NEW j \in DOMAIN p, p[i] = p[j] PROVE i = j
      BY DEF Recorder!IsInjective
    <2>1. \A k \in DOMAIN q : q[k] # e
      BY DEF Recorder!ToSet
    <2>2. \A k \in DOMAIN p : k \in DOMAIN q \/ k = Len(q) + 1
      BY <1>1
    <2>3. QED
      BY <1>1, <2>1, <2>2 DEF Recorder!IsInjective
  <1>4. QED
    BY <1>2, <1>3 DEF p

\* The events of two queues, one behind the other.
LEMMA JoinedFacts ==
  ASSUME NEW S, NEW p \in Seq(S), NEW q \in Seq(S), Recorder!ToSet(p) \cap Recorder!ToSet(q) = {},
         Recorder!IsInjective(p), Recorder!IsInjective(q)
  PROVE  /\ p \o q \in Seq(S) /\ Recorder!ToSet(p \o q) = Recorder!ToSet(p) \cup Recorder!ToSet(q)
         /\ Recorder!IsInjective(p \o q)
  <1> DEFINE b == p \o q
  <1>1. /\ b \in Seq(S) /\ Len(p) \in Nat /\ Len(q) \in Nat
        /\ DOMAIN p = 1..Len(p) /\ DOMAIN q = 1..Len(q) /\ DOMAIN b = 1..(Len(p) + Len(q))
        /\ \A i \in 1..Len(p) : b[i] = p[i]
        /\ \A i \in 1..Len(q) : b[Len(p) + i] = q[i]
    OBVIOUS
  <1> HIDE DEF b
  <1>2. ASSUME NEW i \in DOMAIN b
        PROVE  \/ i \in DOMAIN p /\ b[i] = p[i]
               \/ i - Len(p) \in DOMAIN q /\ b[i] = q[i - Len(p)]
    <2>1. CASE i <= Len(p)
      BY <1>1, <2>1
    <2>2. CASE i > Len(p)
      <3>1. i - Len(p) \in 1..Len(q) /\ Len(p) + (i - Len(p)) = i
        BY <1>1, <2>2
      <3>2. QED
        BY <1>1, <3>1
    <2>3. QED
      BY <1>1, <2>1, <2>2
  <1>3. Recorder!ToSet(b) = Recorder!ToSet(p) \cup Recorder!ToSet(q)
    <2>1. \A i \in DOMAIN p : i \in DOMAIN b /\ b[i] = p[i]
      BY <1>1
    <2>2. \A i \in DOMAIN q : Len(p) + i \in DOMAIN b /\ b[Len(p) + i] = q[i]
      BY <1>1
    <2>3. QED
      BY <1>2, <2>1, <2>2 DEF Recorder!ToSet
  <1>4. Recorder!IsInjective(b)
    <2> SUFFICES ASSUME NEW i \in DOMAIN b, NEW j \in DOMAIN b, b[i] = b[j] PROVE i = j
      BY DEF Recorder!IsInjective
    <2>1. \A k \in DOMAIN p, l \in DOMAIN q : p[k] # q[l]
      BY DEF Recorder!ToSet
    <2>2. i - Len(p) = j - Len(p) => i = j
      BY <1>1
    <2>3. QED
      BY <1>2, <2>1, <2>2 DEF Recorder!IsInjective
  <1>5. QED
    BY <1>1, <1>3, <1>4 DEF b

\* The same of any two queues.
LEMMA ConcatEvents ==
  ASSUME NEW S, NEW p \in Seq(S), NEW q \in Seq(S)
  PROVE  Recorder!ToSet(p \o q) \subseteq Recorder!ToSet(p) \cup Recorder!ToSet(q)
  <1> DEFINE b == p \o q
  <1>1. /\ Len(p) \in Nat /\ Len(q) \in Nat
        /\ DOMAIN p = 1..Len(p) /\ DOMAIN q = 1..Len(q) /\ DOMAIN b = 1..(Len(p) + Len(q))
        /\ \A i \in 1..Len(p) : b[i] = p[i]
        /\ \A i \in 1..Len(q) : b[Len(p) + i] = q[i]
    OBVIOUS
  <1> HIDE DEF b
  <1>2. ASSUME NEW i \in DOMAIN b PROVE b[i] \in Recorder!ToSet(p) \cup Recorder!ToSet(q)
    <2>1. CASE i <= Len(p)
      BY <1>1, <2>1 DEF Recorder!ToSet
    <2>2. CASE i > Len(p)
      <3>1. i - Len(p) \in 1..Len(q) /\ Len(p) + (i - Len(p)) = i
        BY <1>1, <2>2
      <3>2. QED
        BY <1>1, <3>1 DEF Recorder!ToSet
    <2>3. QED
      BY <1>1, <2>1, <2>2
  <1>3. QED
    BY <1>2 DEF Recorder!ToSet, b

\* Recording an event that was not recorded yet.
LEMMA RecordingKeeps ==
  ASSUME NEW buffers \in [Recorder!Slots -> Seq(Events)], NEW were, NEW gone, NEW all,
         KeptOnce(buffers, were, gone, all),
         NEW s \in Recorder!Slots, NEW e \in Events, e \notin all
  PROVE  KeptOnce([buffers EXCEPT ![s] = Append(@, e)], were, gone, all \cup {e})
  <1> DEFINE now == [buffers EXCEPT ![s] = Append(@, e)]
             buffered(b) == UNION {Recorder!ToSet(b[r]) : r \in Recorder!Slots}
             written == UNION {Recorder!ToSet(were[f].events) : f \in Recorder!Files}
  <1>1. e \notin buffered(buffers) /\ e \notin written /\ e \notin gone
    BY DEF KeptOnce
  <1>2. e \notin Recorder!ToSet(buffers[s]) /\ Recorder!IsInjective(buffers[s])
    BY <1>1 DEF KeptOnce
  <1>3. Recorder!ToSet(now[s]) = Recorder!ToSet(buffers[s]) \cup {e} /\ Recorder!IsInjective(now[s])
    BY <1>2, AppendedFacts
  <1>4. \A r \in Recorder!Slots : r # s => now[r] = buffers[r]
    OBVIOUS
  <1> HIDE DEF now
  <1>5. buffered(now) = buffered(buffers) \cup {e}
    BY <1>3, <1>4
  <1>6. \A r \in Recorder!Slots : Recorder!IsInjective(now[r])
    BY <1>3, <1>4 DEF KeptOnce
  <1>7. ASSUME NEW q \in Recorder!Slots, NEW r \in Recorder!Slots, q # r
        PROVE  Recorder!ToSet(now[q]) \cap Recorder!ToSet(now[r]) = {}
    <2>1. Recorder!ToSet(buffers[q]) \cap Recorder!ToSet(buffers[r]) = {}
      BY <1>7 DEF KeptOnce
    <2>2. e \notin Recorder!ToSet(buffers[q]) /\ e \notin Recorder!ToSet(buffers[r])
      BY <1>1
    <2>3. QED
      BY <1>3, <1>4, <1>7, <2>1, <2>2
  <1>8. /\ buffered(buffers) \cap written = {}
        /\ gone \cap (buffered(buffers) \cup written) = {}
        /\ buffered(buffers) \cup written \cup gone = all
        /\ \A f \in Recorder!Files : Recorder!IsInjective(were[f].events)
        /\ \A f, g \in Recorder!Files : f # g => Recorder!ToSet(were[f].events) \cap Recorder!ToSet(were[g].events) = {}
    BY DEF KeptOnce
  <1>9. /\ buffered(now) \cap written = {} /\ gone \cap (buffered(now) \cup written) = {}
        /\ buffered(now) \cup written \cup gone = all \cup {e}
    <2> HIDE DEF buffered, written
    <2>1. QED
      BY <1>1, <1>5, <1>8
  <1>10. KeptOnce(now, were, gone, all \cup {e})
    BY <1>6, <1>7, <1>8, <1>9 DEF KeptOnce
  <1>11. QED
    BY <1>10 DEF now

\* Emptying a buffer whose events go behind those of a file.
LEMMA WritingKeeps ==
  ASSUME NEW buffers \in [Recorder!Slots -> Seq(Events)], NEW were, NEW gone, NEW all,
         KeptOnce(buffers, were, gone, all), NEW s \in Recorder!Slots, NEW g \in Recorder!Files,
         were[g].events \in Seq(Events), NEW are,
         are[g].events = were[g].events \o buffers[s],
         \A f \in Recorder!Files \ {g} : are[f].events = were[f].events
  PROVE  KeptOnce([buffers EXCEPT ![s] = <<>>], are, gone, all)
  <1> DEFINE now == [buffers EXCEPT ![s] = <<>>]
             buffered(b) == UNION {Recorder!ToSet(b[r]) : r \in Recorder!Slots}
             written(w) == UNION {Recorder!ToSet(w[f].events) : f \in Recorder!Files}
  <1>1. /\ buffered(buffers) \cap written(were) = {}
        /\ gone \cap (buffered(buffers) \cup written(were)) = {}
        /\ buffered(buffers) \cup written(were) \cup gone = all
        /\ \A r \in Recorder!Slots : Recorder!IsInjective(buffers[r])
        /\ \A f \in Recorder!Files : Recorder!IsInjective(were[f].events)
        /\ \A q, r \in Recorder!Slots : q # r => Recorder!ToSet(buffers[q]) \cap Recorder!ToSet(buffers[r]) = {}
        /\ \A f, h \in Recorder!Files : f # h => Recorder!ToSet(were[f].events) \cap Recorder!ToSet(were[h].events) = {}
    BY DEF KeptOnce
  <1>2. now[s] = <<>> /\ Recorder!ToSet(now[s]) = {} /\ Recorder!IsInjective(now[s])
    BY DEF Recorder!ToSet, Recorder!IsInjective
  <1>3. \A r \in Recorder!Slots : r # s => now[r] = buffers[r]
    OBVIOUS
  <1> HIDE DEF now
  <1>4. Recorder!ToSet(were[g].events) \cap Recorder!ToSet(buffers[s]) = {}
    <2> HIDE DEF buffered, written
    <2>1. Recorder!ToSet(were[g].events) \subseteq written(were)
      BY DEF written
    <2>2. Recorder!ToSet(buffers[s]) \subseteq buffered(buffers)
      BY DEF buffered
    <2>3. QED
      BY <1>1, <2>1, <2>2
  <1>5. /\ Recorder!ToSet(are[g].events) = Recorder!ToSet(were[g].events) \cup Recorder!ToSet(buffers[s])
        /\ Recorder!IsInjective(are[g].events)
    BY <1>1, <1>4, JoinedFacts
  <1>6. buffered(now) = buffered(buffers) \ Recorder!ToSet(buffers[s])
    <2>1. \A e : e \in buffered(now) <=> \E r \in Recorder!Slots : r # s /\ e \in Recorder!ToSet(buffers[r])
      BY <1>2, <1>3
    <2>2. \A e : e \in buffered(buffers) <=> \E r \in Recorder!Slots : e \in Recorder!ToSet(buffers[r])
      OBVIOUS
    <2>3. \A e : \A r \in Recorder!Slots : r # s /\ e \in Recorder!ToSet(buffers[r]) => e \notin Recorder!ToSet(buffers[s])
      BY <1>1
    <2> HIDE DEF buffered
    <2>4. QED
      BY <2>1, <2>2, <2>3
  <1>7. written(are) = written(were) \cup Recorder!ToSet(buffers[s])
    BY <1>5
  <1>8. Recorder!ToSet(buffers[s]) \subseteq buffered(buffers)
    OBVIOUS
  <1>9. /\ buffered(now) \cap written(are) = {}
        /\ gone \cap (buffered(now) \cup written(are)) = {}
        /\ buffered(now) \cup written(are) \cup gone = all
    <2> HIDE DEF buffered, written
    <2>1. QED
      BY <1>1, <1>6, <1>7, <1>8
  <1>10. ASSUME NEW q \in Recorder!Slots, NEW r \in Recorder!Slots, q # r
         PROVE  Recorder!ToSet(now[q]) \cap Recorder!ToSet(now[r]) = {}
    BY <1>1, <1>2, <1>3, <1>10
  <1>11. ASSUME NEW f \in Recorder!Files, NEW h \in Recorder!Files, f # h
         PROVE  Recorder!ToSet(are[f].events) \cap Recorder!ToSet(are[h].events) = {}
    <2>1. ASSUME NEW k \in Recorder!Files PROVE Recorder!ToSet(were[k].events) \cap Recorder!ToSet(buffers[s]) = {}
      <3>1. Recorder!ToSet(were[k].events) \subseteq written(were)
        OBVIOUS
      <3> HIDE DEF buffered, written
      <3>2. QED
        BY <1>1, <1>8, <3>1
    <2>2. Recorder!ToSet(were[f].events) \cap Recorder!ToSet(were[h].events) = {}
      BY <1>1, <1>11
    <2>3. QED
      BY <1>5, <1>11, <2>1, <2>2
  <1>12. /\ \A r \in Recorder!Slots : Recorder!IsInjective(now[r])
         /\ \A f \in Recorder!Files : Recorder!IsInjective(are[f].events)
    BY <1>1, <1>2, <1>3, <1>5
  <1>13. KeptOnce(now, are, gone, all)
    BY <1>9, <1>10, <1>11, <1>12 DEF KeptOnce
  <1>14. QED
    BY <1>13 DEF now

\* Emptying a buffer without a file.
LEMMA DroppingKeeps ==
  ASSUME NEW buffers \in [Recorder!Slots -> Seq(Events)], NEW were, NEW gone, NEW all,
         KeptOnce(buffers, were, gone, all), NEW s \in Recorder!Slots
  PROVE  KeptOnce([buffers EXCEPT ![s] = <<>>], were, gone \cup Recorder!ToSet(buffers[s]), all)
  <1> DEFINE now == [buffers EXCEPT ![s] = <<>>]
             buffered(b) == UNION {Recorder!ToSet(b[r]) : r \in Recorder!Slots}
             written == UNION {Recorder!ToSet(were[f].events) : f \in Recorder!Files}
  <1>1. /\ buffered(buffers) \cap written = {}
        /\ gone \cap (buffered(buffers) \cup written) = {}
        /\ buffered(buffers) \cup written \cup gone = all
        /\ \A r \in Recorder!Slots : Recorder!IsInjective(buffers[r])
        /\ \A f \in Recorder!Files : Recorder!IsInjective(were[f].events)
        /\ \A q, r \in Recorder!Slots : q # r => Recorder!ToSet(buffers[q]) \cap Recorder!ToSet(buffers[r]) = {}
        /\ \A f, h \in Recorder!Files : f # h => Recorder!ToSet(were[f].events) \cap Recorder!ToSet(were[h].events) = {}
    BY DEF KeptOnce
  <1>2. now[s] = <<>> /\ Recorder!ToSet(now[s]) = {} /\ Recorder!IsInjective(now[s])
    BY DEF Recorder!ToSet, Recorder!IsInjective
  <1>3. \A r \in Recorder!Slots : r # s => now[r] = buffers[r]
    OBVIOUS
  <1> HIDE DEF now
  <1>4. buffered(now) = buffered(buffers) \ Recorder!ToSet(buffers[s])
    <2>1. \A e : e \in buffered(now) <=> \E r \in Recorder!Slots : r # s /\ e \in Recorder!ToSet(buffers[r])
      BY <1>2, <1>3
    <2>2. \A e : e \in buffered(buffers) <=> \E r \in Recorder!Slots : e \in Recorder!ToSet(buffers[r])
      OBVIOUS
    <2>3. \A e : \A r \in Recorder!Slots : r # s /\ e \in Recorder!ToSet(buffers[r]) => e \notin Recorder!ToSet(buffers[s])
      BY <1>1
    <2> HIDE DEF buffered
    <2>4. QED
      BY <2>1, <2>2, <2>3
  <1>5. Recorder!ToSet(buffers[s]) \subseteq buffered(buffers)
    OBVIOUS
  <1>6. /\ buffered(now) \cap written = {}
        /\ (gone \cup Recorder!ToSet(buffers[s])) \cap (buffered(now) \cup written) = {}
        /\ buffered(now) \cup written \cup (gone \cup Recorder!ToSet(buffers[s])) = all
    <2> HIDE DEF buffered, written
    <2>1. QED
      BY <1>1, <1>4, <1>5
  <1>7. ASSUME NEW q \in Recorder!Slots, NEW r \in Recorder!Slots, q # r
        PROVE  Recorder!ToSet(now[q]) \cap Recorder!ToSet(now[r]) = {}
    BY <1>1, <1>2, <1>3, <1>7
  <1>8. \A r \in Recorder!Slots : Recorder!IsInjective(now[r])
    BY <1>1, <1>2, <1>3
  <1>9. KeptOnce(now, were, gone \cup Recorder!ToSet(buffers[s]), all)
    BY <1>1, <1>6, <1>7, <1>8 DEF KeptOnce
  <1>10. QED
    BY <1>9 DEF now
-----------------------------------------------------------------------------
\* A step that leaves the handlers alone.
LEMMA NothingKeeps ==
  ASSUME HandlerType, HandlerInv,
         UNCHANGED <<frames, lock, context, skipped, sampled, quota>>,
         rotation' \in Rotations
  PROVE  HandlerType' /\ HandlerInv'
  <1>1. HandlerType'
    BY DEF HandlerType
  <1>2. HandlersNest' /\ HoldersHaveLocks' /\ LocksHaveHolders' /\ ContextsFollow'
    BY DEF HandlerInv, HandlersNest, HoldersHaveLocks, LocksHaveHolders, ContextsFollow
  <1>3. QED
    BY <1>1, <1>2 DEF HandlerInv

-----------------------------------------------------------------------------
(* The steps of the handlers: slots, contexts and who runs.                *)

\* A step of the innermost handler that keeps its number.
LEMMA SetNests ==
  ASSUME HandlerType, HandlersNest, NEW t \in Threads, Recorder!Depth(t) > 0, NEW f \in Handlers,
         f.id = Recorder!Frame(t).id, f.stage \in {"enter", "protect", "trace"} => f.trace = Recorder!NoTrace,
         Recorder!Set(t, f), sampled' = sampled
  PROVE  HandlersNest'
  <1>1. frames \in [Threads -> Seq(Handlers)] /\ sampled \in Nat
    BY DEF HandlerType
  <1>2. /\ Recorder!Depth(t) \in DOMAIN frames[t] /\ Recorder!Frame(t) = frames[t][Recorder!Depth(t)]
        /\ Recorder!Depth(t) = Len(frames[t])
    BY <1>1, TopFacts DEF Recorder!Depth
  <1>3. /\ \A u \in Threads : DOMAIN frames'[u] = DOMAIN frames[u]
                              /\ Len(frames'[u]) = Len(frames[u])
        /\ frames'[t][Recorder!Depth(t)] = f
        /\ \A u \in Threads : \A d \in DOMAIN frames[u] :
             u # t \/ d # Recorder!Depth(t) => frames'[u][d] = frames[u][d]
    BY <1>1, SetFacts
  <1>4. \A u \in Threads : \A d \in DOMAIN frames[u] : frames'[u][d].id = frames[u][d].id
    BY <1>2, <1>3
  <1>5. \A u \in Threads : \A d \in DOMAIN frames'[u] :
          /\ frames'[u][d].id <= sampled
          /\ frames'[u][d].stage = "stuck" => d = Len(frames'[u])
          /\ frames'[u][d].stage \in {"enter", "protect", "trace"} => frames'[u][d].trace = Recorder!NoTrace
    <2>1. \A u \in Threads : \A d \in DOMAIN frames'[u] :
            u # t \/ d # Recorder!Depth(t) => frames'[u][d] = frames[u][d] /\ d \in DOMAIN frames[u]
      BY <1>3
    <2>2. QED
      BY <1>2, <1>3, <1>4, <2>1 DEF HandlersNest
  <1>6. \A u, v \in Threads : \A d \in DOMAIN frames'[u], e \in DOMAIN frames'[v] :
          frames'[u][d].id = frames'[v][e].id => u = v /\ d = e
    BY <1>3, <1>4 DEF HandlersNest
  <1>7. \A u \in Threads : Len(frames'[u]) <= 2
    BY <1>3 DEF HandlersNest
  <1>8. QED
    BY <1>5, <1>6, <1>7 DEF HandlersNest

\* A step of the innermost handler that keeps its slot, if it has one.
LEMMA SetKeepsLocks ==
  ASSUME HandlerType, HoldersHaveLocks, LocksHaveHolders, NEW t \in Threads, Recorder!Depth(t) > 0,
         NEW f \in Handlers, f.id = Recorder!Frame(t).id, Recorder!Set(t, f), UNCHANGED <<lock,
         skipped>>,
         f.stage \in Holding => Recorder!Frame(t).stage \in Holding,
         Recorder!Frame(t).stage \in Holding => f.stage \in Holding /\ f.slot = Recorder!Frame(t).slot
  PROVE  HoldersHaveLocks' /\ LocksHaveHolders'
  <1>1. frames \in [Threads -> Seq(Handlers)]
    BY DEF HandlerType
  <1>2. Recorder!Depth(t) \in DOMAIN frames[t] /\ Recorder!Frame(t) = frames[t][Recorder!Depth(t)]
    BY <1>1, TopFacts
  <1>3. /\ \A u \in Threads : DOMAIN frames'[u] = DOMAIN frames[u]
        /\ frames'[t][Recorder!Depth(t)] = f
        /\ \A u \in Threads : \A d \in DOMAIN frames[u] :
             u # t \/ d # Recorder!Depth(t) => frames'[u][d] = frames[u][d]
    BY <1>1, SetFacts
  <1>4. \A u \in Threads : \A d \in DOMAIN frames[u] :
          /\ frames'[u][d].id = frames[u][d].id
          /\ frames'[u][d].stage \in Holding <=> frames[u][d].stage \in Holding
          /\ frames[u][d].stage \in Holding => frames'[u][d].slot = frames[u][d].slot
    BY <1>2, <1>3
  <1>5. HoldersHaveLocks'
    BY <1>3, <1>4 DEF HoldersHaveLocks
  <1>6. LocksHaveHolders'
    BY <1>3, <1>4 DEF LocksHaveHolders
  <1>7. QED
    BY <1>5, <1>6

\* A step of the innermost handler that keeps it protected, if it is.
LEMMA SetKeepsContexts ==
  ASSUME HandlerType, ContextsFollow, NEW t \in Threads, Recorder!Depth(t) > 0,
         NEW f \in Handlers, f.id = Recorder!Frame(t).id, Recorder!Set(t, f),
         UNCHANGED <<context, sampled>>,
         Recorder!Frame(t).stage \in {"trace", "record", "unprotect", "stuck"} =>
           f.stage \in {"trace", "record", "unprotect", "stuck"} /\ f.slot = Recorder!Frame(t).slot
  PROVE  ContextsFollow'
  <1>1. frames \in [Threads -> Seq(Handlers)]
    BY DEF HandlerType
  <1>2. Recorder!Depth(t) \in DOMAIN frames[t] /\ Recorder!Frame(t) = frames[t][Recorder!Depth(t)]
    BY <1>1, TopFacts
  <1>3. /\ \A u \in Threads : DOMAIN frames'[u] = DOMAIN frames[u]
        /\ frames'[t][Recorder!Depth(t)] = f
        /\ \A u \in Threads : \A d \in DOMAIN frames[u] :
             u # t \/ d # Recorder!Depth(t) => frames'[u][d] = frames[u][d]
    BY <1>1, SetFacts
  <1>4. QED
    BY <1>2, <1>3 DEF ContextsFollow

\* A hook or a signal starts a handler.
LEMMA InterruptKeeps ==
  ASSUME RecorderInvariant, NEW t \in Threads, NEW sort \in Kinds, Recorder!Interrupted(t, sort),
         Recorder!Depth(t) = 0 \/ (Recorder!Depth(t) = 1 /\ Recorder!Frame(t).stage # "stuck"),
         UNCHANGED <<lock, context, skipped, rotation, quota>>
  PROVE  HandlerType' /\ HandlerInv'
  <1> DEFINE f == Recorder!NewFrame(sort)
  <1>1. frames \in [Threads -> Seq(Handlers)] /\ sampled \in Nat
    BY DEF RecorderInvariant, HandlerType
  <1>2. f \in Handlers
    <2>1. Recorder!NoTrace \in Taken
      BY DEF Taken
    <2>2. 0 \in Recorder!Slots
      BY SlotFacts
    <2>3. sampled + 1 \in Nat /\ 0 \in 0..2
      BY <1>1
    <2>4. QED
      BY <2>1, <2>2, <2>3 DEF Recorder!NewFrame, Handlers, Stages
  <1>3. f.id = sampled + 1 /\ f.stage = "enter" /\ f.trace = Recorder!NoTrace
    BY DEF Recorder!NewFrame
  <1>4. frames' = [frames EXCEPT ![t] = Append(@, f)] /\ sampled' = sampled + 1
    BY DEF Recorder!Interrupted
  <1> HIDE DEF f
  <1>5. /\ frames' \in [Threads -> Seq(Handlers)]
        /\ Len(frames'[t]) = Len(frames[t]) + 1 /\ frames'[t][Len(frames[t]) + 1] = f
        /\ \A u \in Threads \ {t} : frames'[u] = frames[u]
        /\ \A u \in Threads : \A d \in DOMAIN frames[u] :
             d \in DOMAIN frames'[u] /\ frames'[u][d] = frames[u][d]
        /\ \A u \in Threads : \A d \in DOMAIN frames'[u] :
             d \in DOMAIN frames[u] \/ (u = t /\ d = Len(frames[t]) + 1)
    BY <1>1, <1>2, <1>4, PushFacts
  <1>6. HandlerType'
    BY <1>1, <1>4, <1>5 DEF RecorderInvariant, HandlerType
  <1>7. HandlersNest'
    <2>1. \A u \in Threads : Len(frames[u]) <= 2 /\ Len(frames[u]) \in Nat
      BY <1>1 DEF RecorderInvariant, HandlerInv, HandlersNest
    <2>2. \A u \in Threads : Len(frames'[u]) <= 2
      BY <1>5, <2>1 DEF Recorder!Depth
    <2>3. \A u \in Threads : \A d \in DOMAIN frames[u] :
            /\ frames[u][d].id \in Nat /\ frames[u][d].id <= sampled
            /\ frames[u][d].stage = "stuck" => d = Len(frames[u])
            /\ frames[u][d].stage \in {"enter", "protect", "trace"} => frames[u][d].trace = Recorder!NoTrace
      <3>1. \A h \in Handlers : h.id \in Nat
        BY DEF Handlers
      <3>2. QED
        BY <1>1, <3>1 DEF RecorderInvariant, HandlerInv, HandlersNest
    <2>4. \A d \in DOMAIN frames[t] : frames[t][d].stage # "stuck"
      BY <2>1, <2>3, <1>1 DEF Recorder!Depth, Recorder!Frame
    <2>5. \A u \in Threads : \A d \in DOMAIN frames'[u] :
            /\ frames'[u][d].id <= sampled'
            /\ frames'[u][d].stage = "stuck" => d = Len(frames'[u])
            /\ frames'[u][d].stage \in {"enter", "protect", "trace"} => frames'[u][d].trace = Recorder!NoTrace
      BY <1>1, <1>3, <1>4, <1>5, <2>3, <2>4
    <2>6. \A u, v \in Threads : \A d \in DOMAIN frames'[u], e \in DOMAIN frames'[v] :
            frames'[u][d].id = frames'[v][e].id => u = v /\ d = e
      <3>1. \A u, v \in Threads : \A d \in DOMAIN frames[u], e \in DOMAIN frames[v] :
              frames[u][d].id = frames[v][e].id => u = v /\ d = e
        BY DEF RecorderInvariant, HandlerInv, HandlersNest
      <3>2. \A u \in Threads : \A d \in DOMAIN frames[u] : frames[u][d].id # sampled + 1
        BY <2>3, <1>1
      <3>3. \A u \in Threads : \A d \in DOMAIN frames'[u] :
              \/ d \in DOMAIN frames[u] /\ frames'[u][d].id = frames[u][d].id
                 /\ frames'[u][d].id # sampled + 1
              \/ u = t /\ d = Len(frames[t]) + 1 /\ frames'[u][d].id = sampled + 1
        BY <1>3, <1>5, <3>2
      <3>4. QED
        BY <3>1, <3>3
    <2>7. QED
      BY <2>2, <2>5, <2>6 DEF HandlersNest
  <1>8. HoldersHaveLocks'
    BY <1>3, <1>5 DEF RecorderInvariant, HandlerInv, HoldersHaveLocks, Holding
  <1>9. LocksHaveHolders'
    BY <1>5 DEF RecorderInvariant, HandlerInv, LocksHaveHolders
  <1>10. ContextsFollow'
    <2>1. \A s \in Recorder!Slots : context[s].frame \in Nat /\ context[s].frame <= sampled
      BY DEF RecorderInvariant, HandlerType, Holders, HandlerInv, ContextsFollow
    <2>2. \A s \in Recorder!Slots : context'[s].frame <= sampled' /\ context'[s].frame # f.id
      BY <1>1, <1>3, <1>4, <2>1
    <2>3. QED
      BY <1>5, <2>2 DEF RecorderInvariant, HandlerInv, ContextsFollow
  <1>11. QED
    BY <1>6, <1>7, <1>8, <1>9, <1>10 DEF HandlerInv

\* The innermost handler returns, without a slot or with its slot unlocked.
LEMMA ReturnKeeps ==
  ASSUME HandlerType, HandlerInv, NEW t \in Threads, Recorder!Depth(t) > 0, Recorder!Return(t),
         UNCHANGED <<context, skipped, sampled, rotation, quota>>,
         \/ Recorder!Frame(t).stage \notin Holding /\ UNCHANGED lock
         \/ Recorder!Frame(t).stage \in Holding /\ lock' = [lock EXCEPT ![Recorder!Frame(t).slot] = Recorder!Unlocked]
  PROVE  HandlerType' /\ HandlerInv'
  <1> DEFINE h == Recorder!Frame(t)
  <1>1. frames \in [Threads -> Seq(Handlers)] /\ lock \in [Recorder!Slots -> Holders]
    BY DEF HandlerType
  <1>2. /\ Recorder!Depth(t) \in DOMAIN frames[t] /\ h = frames[t][Recorder!Depth(t)] /\ Recorder!Depth(t) = Len(frames[t])
        /\ h \in Handlers
    BY <1>1, TopFacts DEF Recorder!Depth
  <1>3. /\ frames' \in [Threads -> Seq(Handlers)]
        /\ Len(frames'[t]) = Len(frames[t]) - 1
        /\ \A u \in Threads \ {t} : frames'[u] = frames[u]
        /\ \A u \in Threads : \A d \in DOMAIN frames'[u] :
             d \in DOMAIN frames[u] /\ frames'[u][d] = frames[u][d] /\ (u # t \/ d # Recorder!Depth(t))
        /\ \A u \in Threads : \A d \in DOMAIN frames[u] :
             u # t \/ d # Recorder!Depth(t) => d \in DOMAIN frames'[u]
    BY <1>1, ReturnFacts
  <1>4. Recorder!Unlocked \in Holders /\ \A k \in Handlers : k.slot \in Recorder!Slots
    BY DEF Recorder!Unlocked, Holders, Handlers
  <1> HIDE DEF h
  <1>5. HandlerType'
    BY <1>1, <1>3, <1>4 DEF HandlerType
  <1>6. HandlersNest'
    <2>1. \A u \in Threads : Len(frames'[u]) <= 2
      BY <1>1, <1>3 DEF HandlerInv, HandlersNest
    <2>2. \A u \in Threads : \A d \in DOMAIN frames'[u] :
            /\ frames'[u][d].id <= sampled
            /\ frames'[u][d].stage = "stuck" => d = Len(frames'[u])
            /\ frames'[u][d].stage \in {"enter", "protect", "trace"} => frames'[u][d].trace = Recorder!NoTrace
      BY <1>2, <1>3 DEF HandlerInv, HandlersNest
    <2>3. \A u, v \in Threads : \A d \in DOMAIN frames'[u], e \in DOMAIN frames'[v] :
            frames'[u][d].id = frames'[v][e].id => u = v /\ d = e
      <3>1. \A u, v \in Threads : \A d \in DOMAIN frames[u], e \in DOMAIN frames[v] :
              frames[u][d].id = frames[v][e].id => u = v /\ d = e
        BY DEF HandlerInv, HandlersNest
      <3>2. \A u \in Threads : \A d \in DOMAIN frames'[u] :
              d \in DOMAIN frames[u] /\ frames'[u][d] = frames[u][d]
        BY <1>3
      <3>3. QED
        BY <3>1, <3>2
    <2>4. QED
      BY <2>1, <2>2, <2>3 DEF HandlersNest
  <1>7. ASSUME h.stage \in Holding, NEW u \in Threads, NEW d \in DOMAIN frames'[u],
               frames'[u][d].stage \in Holding
        PROVE  frames'[u][d].slot # h.slot
    <2>1. lock[frames[u][d].slot].thread = u /\ lock[frames[u][d].slot].frame = frames[u][d].id
      BY <1>3, <1>7 DEF HandlerInv, HoldersHaveLocks
    <2>2. lock[h.slot].thread = t /\ lock[h.slot].frame = h.id
      BY <1>2, <1>7 DEF HandlerInv, HoldersHaveLocks
    <2>3. u # t \/ frames[u][d].id # h.id
      BY <1>2, <1>3, <1>7 DEF HandlerInv, HandlersNest
    <2>4. QED
      BY <1>3, <1>7, <2>1, <2>2, <2>3
  <1>8. HoldersHaveLocks'
    <2>1. \A u \in Threads : \A d \in DOMAIN frames'[u] : frames'[u][d].stage \in Holding =>
            lock'[frames'[u][d].slot] = lock[frames'[u][d].slot]
      BY <1>1, <1>2, <1>3, <1>4, <1>7 DEF h
    <2>2. QED
      BY <1>3, <2>1 DEF HandlerInv, HoldersHaveLocks
  <1>9. LocksHaveHolders'
    <2> SUFFICES ASSUME NEW s \in Recorder!Slots \ skipped, lock'[s] \notin {Recorder!Unlocked, Recorder!ByRotation}
                 PROVE  \E u \in Threads : \E d \in DOMAIN frames'[u] :
                          frames'[u][d].slot = s /\ frames'[u][d].stage \in Holding
      BY DEF LocksHaveHolders
    <2>1. lock'[s] = lock[s] /\ (h.stage \in Holding => s # h.slot)
      BY <1>1, <1>2, <1>4 DEF h
    <2>2. PICK u \in Threads : \E d \in DOMAIN frames[u] :
            frames[u][d].slot = s /\ frames[u][d].stage \in Holding
      BY <2>1 DEF HandlerInv, LocksHaveHolders
    <2>3. QED
      BY <1>2, <1>3, <2>1, <2>2
  <1>10. ContextsFollow'
    BY <1>3 DEF HandlerInv, ContextsFollow
  <1>11. QED
    BY <1>5, <1>6, <1>8, <1>9, <1>10 DEF HandlerInv

LEMMA TryLockKeeps ==
  ASSUME RecorderInvariant, NEW t \in Threads, Recorder!TryLock(t)
  PROVE  HandlerType' /\ HandlerInv'
  <1> DEFINE h == Recorder!Frame(t)
             s == Recorder!ProbedSlot(t, h.probe)
  <1>1. frames \in [Threads -> Seq(Handlers)] /\ lock \in [Recorder!Slots -> Holders]
    BY DEF RecorderInvariant, HandlerType
  <1>2. /\ Recorder!Depth(t) > 0 /\ h.stage = "enter" /\ Recorder!Depth(t) \in DOMAIN frames[t]
        /\ h = frames[t][Recorder!Depth(t)] /\ h \in Handlers
    BY <1>1, TopFacts DEF Recorder!TryLock, Recorder!Runs
  <1>3. s \in Recorder!Slots /\ h.probe \in 0..2 /\ h.id \in Nat /\ h.trace = Recorder!NoTrace
    BY <1>2, SlotFacts DEF Handlers, RecorderInvariant, HandlerInv, HandlersNest
  <1>4. HandlerType /\ HandlerInv
    BY DEF RecorderInvariant
  <1>5. UNCHANGED <<context, skipped, sampled, rotation, quota>>
    BY DEF Recorder!TryLock, Recorder!boundVars
  <1>6. CASE lock[s] = Recorder!Unlocked
    <2> DEFINE f == [h EXCEPT !.stage = "protect", !.slot = s]
    <2>1. /\ lock' = [lock EXCEPT ![s] = Recorder!Owner(t)] /\ Recorder!Set(t, f)
      BY <1>6 DEF Recorder!TryLock
    <2>2. f \in Handlers /\ f.id = h.id /\ f.stage = "protect" /\ f.slot = s /\ f.trace = Recorder!NoTrace
      BY <1>2, <1>3 DEF Handlers, Stages
    <2>3. Recorder!Owner(t) \in Holders /\ Recorder!Owner(t).thread = t /\ Recorder!Owner(t).frame = h.id
      BY <1>3 DEF Recorder!Owner, Holders
    <2> HIDE DEF f, s, h
    <2>4. /\ \A u \in Threads : DOMAIN frames'[u] = DOMAIN frames[u]
          /\ frames'[t][Recorder!Depth(t)] = f
          /\ \A u \in Threads : \A d \in DOMAIN frames[u] :
               u # t \/ d # Recorder!Depth(t) => frames'[u][d] = frames[u][d]
          /\ frames' \in [Threads -> Seq(Handlers)]
      BY <1>1, <1>2, <2>1, <2>2, SetFacts
    <2>5. HandlerType'
      BY <1>1, <1>3, <1>4, <1>5, <2>1, <2>3, <2>4 DEF HandlerType
    <2>6. HandlersNest'
      BY <1>2, <1>4, <1>5, <2>1, <2>2, SetNests DEF HandlerInv, h
    <2>7. HoldersHaveLocks'
      <3>1. ASSUME NEW u \in Threads, NEW d \in DOMAIN frames[u], frames[u][d].stage \in Holding
            PROVE  frames[u][d].slot # s /\ frames[u][d].slot \in Recorder!Slots
        <4>1. lock[frames[u][d].slot].thread = u
          BY <1>4, <3>1 DEF HandlerInv, HoldersHaveLocks
        <4>2. \A k \in Handlers : k.slot \in Recorder!Slots
          BY DEF Handlers
        <4>3. QED
          BY <1>1, <1>6, <4>1, <4>2, ThreadAssumption DEF Recorder!Unlocked
      <3>2. QED
        BY <1>1, <1>2, <1>3, <1>4, <2>1, <2>2, <2>3, <2>4, <3>1
        DEF HandlerInv, HoldersHaveLocks
    <2>8. LocksHaveHolders'
      <3>1. f.stage \in Holding /\ h.stage \notin Holding
        BY <1>2, <2>2 DEF Holding, Stages
      <3> SUFFICES ASSUME NEW r \in Recorder!Slots \ skipped, lock'[r] \notin {Recorder!Unlocked, Recorder!ByRotation}
                   PROVE  \E u \in Threads : \E d \in DOMAIN frames'[u] :
                            frames'[u][d].slot = r /\ frames'[u][d].stage \in Holding
        BY <1>5 DEF LocksHaveHolders
      <3>2. CASE r = s
        BY <1>2, <2>2, <2>4, <3>1, <3>2
      <3>3. CASE r # s
        <4>1. lock'[r] = lock[r]
          BY <1>1, <2>1, <3>3
        <4>2. PICK u \in Threads : \E d \in DOMAIN frames[u] :
                frames[u][d].slot = r /\ frames[u][d].stage \in Holding
          BY <1>4, <4>1 DEF HandlerInv, LocksHaveHolders
        <4>3. QED
          BY <1>2, <2>4, <3>1, <4>2
      <3>4. QED
        BY <3>2, <3>3
    <2>9. ContextsFollow'
      BY <1>2, <1>4, <1>5, <2>1, <2>2, SetKeepsContexts DEF HandlerInv, h
    <2>10. QED
      BY <2>5, <2>6, <2>7, <2>8, <2>9 DEF HandlerInv
  <1>7. CASE lock[s] # Recorder!Unlocked /\ h.probe < 2
    <2> DEFINE f == [h EXCEPT !.probe = @ + 1]
    <2>1. UNCHANGED lock /\ Recorder!Set(t, f)
      BY <1>7 DEF Recorder!TryLock
    <2>2. f \in Handlers /\ f.id = h.id /\ f.stage = "enter" /\ f.trace = Recorder!NoTrace
      BY <1>2, <1>3, <1>7 DEF Handlers
    <2>3. f.stage \notin Holding /\ h.stage \notin Holding
      BY <1>2, <2>2 DEF Holding
    <2> HIDE DEF f, s
    <2>4. frames' \in [Threads -> Seq(Handlers)]
      BY <1>1, <1>2, <2>1, <2>2, SetFacts
    <2>5. HandlerType'
      BY <1>4, <1>5, <2>1, <2>4 DEF HandlerType
    <2>6. HandlersNest'
      BY <1>2, <1>4, <1>5, <2>1, <2>2, SetNests DEF HandlerInv
    <2>7. HoldersHaveLocks' /\ LocksHaveHolders'
      BY <1>2, <1>4, <1>5, <2>1, <2>2, <2>3, SetKeepsLocks DEF HandlerInv
    <2>8. ContextsFollow'
      BY <1>2, <1>4, <1>5, <2>1, <2>2, SetKeepsContexts DEF HandlerInv
    <2>9. QED
      BY <2>5, <2>6, <2>7, <2>8 DEF HandlerInv
  <1>8. CASE lock[s] # Recorder!Unlocked /\ ~(h.probe < 2)
    <2>1. UNCHANGED lock /\ Recorder!Return(t)
      BY <1>8 DEF Recorder!TryLock
    <2>2. h.stage \notin Holding
      BY <1>2 DEF Holding
    <2>3. QED
      BY <1>1, <1>2, <1>4, <1>5, <2>1, <2>2, ReturnKeeps
  <1>9. QED
    BY <1>6, <1>7, <1>8
\* CrashProtection::call publishes the context of a handler in its own slot.
LEMMA ProtectKeeps ==
  ASSUME RecorderInvariant, NEW t \in Threads, Recorder!Protect(t)
  PROVE  HandlerType' /\ HandlerInv'
  <1> DEFINE h == Recorder!Frame(t)
             f == [h EXCEPT !.stage = IF h.kind = "free" THEN "record" ELSE "trace"]
  <1>1. frames \in [Threads -> Seq(Handlers)] /\ context \in [Recorder!Slots -> Holders]
    BY DEF RecorderInvariant, HandlerType
  <1>2. /\ Recorder!Depth(t) > 0 /\ h.stage = "protect" /\ Recorder!Depth(t) \in DOMAIN frames[t]
        /\ h = frames[t][Recorder!Depth(t)] /\ h \in Handlers
    BY <1>1, TopFacts DEF Recorder!Protect, Recorder!Runs
  <1>3. h.slot \in Recorder!Slots /\ h.id \in Nat /\ h.trace = Recorder!NoTrace /\ h.id <= sampled
    BY <1>2 DEF Handlers, RecorderInvariant, HandlerInv, HandlersNest
  <1>4. HandlerType /\ HandlerInv
    BY DEF RecorderInvariant
  <1>5. /\ UNCHANGED <<lock, skipped, sampled, rotation, quota>> /\ Recorder!Set(t, f)
        /\ context' = [context EXCEPT ![h.slot] = Recorder!Owner(t)]
    BY DEF Recorder!Protect, Recorder!boundVars
  <1>6. /\ f \in Handlers /\ f.id = h.id /\ f.slot = h.slot /\ f.trace = Recorder!NoTrace
        /\ f.stage \in {"trace", "record"}
    BY <1>2, <1>3 DEF Handlers, Stages
  <1>7. Recorder!Owner(t) \in Holders /\ Recorder!Owner(t).thread = t /\ Recorder!Owner(t).frame = h.id
    BY <1>3 DEF Recorder!Owner, Holders
  <1>8. f.stage \in Holding /\ h.stage \in Holding
    BY <1>2, <1>6 DEF Holding, Stages
  <1> HIDE DEF f
  <1>9. /\ frames' \in [Threads -> Seq(Handlers)]
        /\ \A u \in Threads : DOMAIN frames'[u] = DOMAIN frames[u]
        /\ frames'[t][Recorder!Depth(t)] = f
        /\ \A u \in Threads : \A d \in DOMAIN frames[u] :
             u # t \/ d # Recorder!Depth(t) => frames'[u][d] = frames[u][d]
    BY <1>1, <1>2, <1>5, <1>6, SetFacts
  <1>10. HandlerType'
    BY <1>1, <1>3, <1>4, <1>5, <1>7, <1>9 DEF HandlerType
  <1>11. HandlersNest'
    BY <1>2, <1>4, <1>5, <1>6, SetNests DEF HandlerInv
  <1>12. HoldersHaveLocks' /\ LocksHaveHolders'
    BY <1>2, <1>4, <1>5, <1>6, <1>8, SetKeepsLocks DEF HandlerInv
  <1>13. ContextsFollow'
    <2> HIDE DEF h
    <2>1. \A u \in Threads : \A d \in DOMAIN frames[u] : frames'[u][d].id = frames[u][d].id
      BY <1>2, <1>6, <1>9
    <2>2. \A u \in Threads : \A d \in DOMAIN frames[u] : frames[u][d].id = h.id => u = t /\ d = Recorder!Depth(t)
      BY <1>2, <1>4 DEF HandlerInv, HandlersNest
    <2> SUFFICES ASSUME NEW s \in Recorder!Slots
                 PROVE  /\ context'[s].frame <= sampled
                        /\ \A u \in Threads : \A d \in DOMAIN frames'[u] :
                             context'[s].thread = u /\ context'[s].frame = frames'[u][d].id =>
                               /\ frames'[u][d].slot = s
                               /\ frames'[u][d].stage \in {"trace", "record", "unprotect", "stuck"}
      BY <1>5 DEF ContextsFollow
    <2>3. CASE s = h.slot
      <3>1. context'[s] = Recorder!Owner(t)
        BY <1>1, <1>5, <2>3 DEF h
      <3>2. QED
        BY <1>3, <1>6, <1>7, <1>9, <2>1, <2>2, <2>3, <3>1
    <2>4. CASE s # h.slot
      <3>1. context'[s] = context[s]
        BY <1>1, <1>5, <2>4 DEF h
      <3>2. context[s].frame <= sampled
        BY <1>4 DEF HandlerInv, ContextsFollow
      <3>3. ~(context[s].thread = t /\ context[s].frame = h.id)
        BY <1>2, <1>4, <2>4 DEF HandlerInv, ContextsFollow
      <3>4. QED
        BY <1>2, <1>4, <1>6, <1>9, <3>1, <3>2, <3>3 DEF HandlerInv, ContextsFollow
    <2>5. QED
      BY <2>3, <2>4
  <1>14. QED
    BY <1>10, <1>11, <1>12, <1>13 DEF HandlerInv

\* A step of the innermost handler within its protected part.
LEMMA ProtectedStepKeeps ==
  ASSUME RecorderInvariant, NEW t \in Threads, Recorder!Depth(t) > 0, NEW f \in Handlers,
         Recorder!Set(t, f),
         f.id = Recorder!Frame(t).id, f.slot = Recorder!Frame(t).slot,
         Recorder!Frame(t).stage \in {"trace", "record", "unprotect"},
         f.stage \in {"trace", "record", "unprotect"}, f.stage = "trace" => f.trace = Recorder!NoTrace,
         UNCHANGED <<lock, context, skipped, sampled, rotation, quota>>
  PROVE  HandlerType' /\ HandlerInv'
  <1>1. HandlerType /\ HandlerInv /\ frames \in [Threads -> Seq(Handlers)]
    BY DEF RecorderInvariant, HandlerType
  <1>2. frames' \in [Threads -> Seq(Handlers)]
    BY <1>1, SetFacts
  <1>3. HandlerType'
    BY <1>1, <1>2 DEF HandlerType
  <1>4. HandlersNest'
    BY <1>1, SetNests DEF HandlerInv
  <1>5. f.stage \in Holding /\ Recorder!Frame(t).stage \in Holding
    BY DEF Holding, Stages
  <1>6. HoldersHaveLocks' /\ LocksHaveHolders'
    BY <1>1, <1>5, SetKeepsLocks DEF HandlerInv
  <1>7. ContextsFollow'
    BY <1>1, SetKeepsContexts DEF HandlerInv
  <1>8. QED
    BY <1>3, <1>4, <1>6, <1>7 DEF HandlerInv

LEMMA TakeTraceKeeps ==
  ASSUME RecorderInvariant, NEW t \in Threads, NEW tr \in Taken, Recorder!TakeTrace(t, tr)
  PROVE  HandlerType' /\ HandlerInv'
  <1> DEFINE h == Recorder!Frame(t)
             f == [h EXCEPT !.stage = "record", !.trace = tr]
  <1>1. frames \in [Threads -> Seq(Handlers)]
    BY DEF RecorderInvariant, HandlerType
  <1>2. Recorder!Depth(t) > 0 /\ h.stage = "trace" /\ h \in Handlers
    BY <1>1, TopFacts DEF Recorder!TakeTrace, Recorder!Runs
  <1>3. Recorder!Set(t, f) /\ UNCHANGED <<lock, context, skipped, sampled, rotation, quota>>
    BY DEF Recorder!TakeTrace, Recorder!boundVars
  <1>4. f \in Handlers /\ f.id = h.id /\ f.slot = h.slot /\ f.stage = "record"
    BY <1>2 DEF Handlers, Stages
  <1> HIDE DEF f
  <1>5. QED
    BY <1>2, <1>3, <1>4, ProtectedStepKeeps

LEMMA RecordKeeps ==
  ASSUME RecorderInvariant, NEW t \in Threads, Recorder!Record(t)
  PROVE  HandlerType' /\ HandlerInv'
  <1> DEFINE h == Recorder!Frame(t)
             f == [h EXCEPT !.stage = "unprotect"]
  <1>1. frames \in [Threads -> Seq(Handlers)]
    BY DEF RecorderInvariant, HandlerType
  <1>2. Recorder!Depth(t) > 0 /\ h.stage = "record" /\ h \in Handlers
    BY <1>1, TopFacts DEF Recorder!Record, Recorder!Runs
  <1>3. Recorder!Set(t, f) /\ UNCHANGED <<lock, context, skipped, sampled, rotation, quota>>
    BY DEF Recorder!Record, Recorder!boundVars
  <1>4. f \in Handlers /\ f.id = h.id /\ f.slot = h.slot /\ f.stage = "unprotect"
    BY <1>2 DEF Handlers, Stages
  <1> HIDE DEF f
  <1>5. QED
    BY <1>2, <1>3, <1>4, ProtectedStepKeeps

LEMMA UnprotectKeeps ==
  ASSUME RecorderInvariant, NEW t \in Threads, Recorder!Unprotect(t)
  PROVE  HandlerType' /\ HandlerInv'
  <1> DEFINE h == Recorder!Frame(t)
             f == [h EXCEPT !.stage = "unlock"]
  <1>1. frames \in [Threads -> Seq(Handlers)] /\ context \in [Recorder!Slots -> Holders] /\ sampled \in Nat
    BY DEF RecorderInvariant, HandlerType
  <1>2. /\ Recorder!Depth(t) > 0 /\ h.stage = "unprotect" /\ h \in Handlers
        /\ Recorder!Depth(t) \in DOMAIN frames[t] /\ h = frames[t][Recorder!Depth(t)]
    BY <1>1, TopFacts DEF Recorder!Unprotect, Recorder!Runs
  <1>3. /\ Recorder!Set(t, f) /\ UNCHANGED <<lock, skipped, sampled, rotation, quota>>
        /\ context' = [context EXCEPT ![h.slot] = Recorder!NoContext]
    BY DEF Recorder!Unprotect, Recorder!boundVars
  <1>4. f \in Handlers /\ f.id = h.id /\ f.slot = h.slot /\ f.stage = "unlock" /\ h.slot \in Recorder!Slots
    BY <1>2 DEF Handlers, Stages
  <1>5. f.stage \in Holding /\ h.stage \in Holding
    BY <1>2, <1>4 DEF Holding, Stages
  <1>6. Recorder!NoContext \in Holders /\ Recorder!NoContext.thread \notin Threads /\ Recorder!NoContext.frame = 0
    BY ThreadAssumption DEF Recorder!NoContext, Holders
  <1>7. HandlerType /\ HandlerInv
    BY DEF RecorderInvariant
  <1> HIDE DEF f
  <1>8. /\ frames' \in [Threads -> Seq(Handlers)]
        /\ \A u \in Threads : DOMAIN frames'[u] = DOMAIN frames[u]
        /\ frames'[t][Recorder!Depth(t)] = f
        /\ \A u \in Threads : \A d \in DOMAIN frames[u] :
             u # t \/ d # Recorder!Depth(t) => frames'[u][d] = frames[u][d]
    BY <1>1, <1>2, <1>3, <1>4, SetFacts
  <1>9. HandlerType'
    BY <1>1, <1>3, <1>4, <1>6, <1>7, <1>8 DEF HandlerType
  <1>10. HandlersNest'
    BY <1>2, <1>3, <1>4, <1>7, SetNests DEF HandlerInv
  <1>11. HoldersHaveLocks' /\ LocksHaveHolders'
    BY <1>2, <1>3, <1>4, <1>5, <1>7, SetKeepsLocks DEF HandlerInv
  <1>12. ContextsFollow'
    <2> HIDE DEF h
    <2> SUFFICES ASSUME NEW s \in Recorder!Slots
                 PROVE  /\ context'[s].frame <= sampled
                        /\ \A u \in Threads : \A d \in DOMAIN frames'[u] :
                             context'[s].thread = u /\ context'[s].frame = frames'[u][d].id =>
                               /\ frames'[u][d].slot = s
                               /\ frames'[u][d].stage \in {"trace", "record", "unprotect", "stuck"}
      BY <1>3 DEF ContextsFollow
    <2>1. CASE s = h.slot
      <3>1. context'[s] = Recorder!NoContext
        BY <1>1, <1>3, <2>1 DEF h
      <3>2. QED
        BY <1>1, <1>6, <3>1
    <2>2. CASE s # h.slot
      <3>1. context'[s] = context[s]
        BY <1>1, <1>3, <2>2 DEF h
      <3>2. context[s].frame <= sampled
        BY <1>7 DEF HandlerInv, ContextsFollow
      <3>3. ~(context[s].thread = t /\ context[s].frame = h.id)
        BY <1>2, <1>7, <2>2 DEF HandlerInv, ContextsFollow
      <3>4. QED
        BY <1>2, <1>4, <1>7, <1>8, <3>1, <3>2, <3>3 DEF HandlerInv, ContextsFollow
    <2>3. QED
      BY <2>1, <2>2
  <1>13. QED
    BY <1>9, <1>10, <1>11, <1>12 DEF HandlerInv

LEMMA UnlockKeeps ==
  ASSUME RecorderInvariant, NEW t \in Threads, Recorder!Unlock(t)
  PROVE  HandlerType' /\ HandlerInv'
  <1>1. Recorder!Depth(t) > 0 /\ Recorder!Frame(t).stage \in Holding
    BY DEF Recorder!Unlock, Recorder!Runs, Holding, Stages
  <1>2. /\ lock' = [lock EXCEPT ![Recorder!Frame(t).slot] = Recorder!Unlocked] /\ Recorder!Return(t)
        /\ UNCHANGED <<context, skipped, sampled, rotation, quota>>
    BY DEF Recorder!Unlock, Recorder!boundVars
  <1>3. QED
    BY <1>1, <1>2, ReturnKeeps DEF RecorderInvariant

\* The stack walk faults where no slot of the thread has a context that is found.
LEMMA StuckKeeps ==
  ASSUME RecorderInvariant, NEW t \in Threads, Recorder!Runs(t, "trace"),
         Recorder!Set(t, [Recorder!Frame(t) EXCEPT !.stage = "stuck"]), skipped' = skipped \cup {Recorder!Frame(t).slot},
         UNCHANGED <<lock, context, sampled, rotation, quota>>
  PROVE  HandlerType' /\ HandlerInv'
  <1> DEFINE h == Recorder!Frame(t)
             f == [h EXCEPT !.stage = "stuck"]
  <1>1. frames \in [Threads -> Seq(Handlers)] /\ HandlerType /\ HandlerInv
    BY DEF RecorderInvariant, HandlerType
  <1>2. /\ Recorder!Depth(t) > 0 /\ h.stage = "trace" /\ h \in Handlers
        /\ Recorder!Depth(t) \in DOMAIN frames[t] /\ h = frames[t][Recorder!Depth(t)]
    BY <1>1, TopFacts DEF Recorder!Runs
  <1>3. f \in Handlers /\ f.id = h.id /\ f.slot = h.slot /\ f.stage = "stuck" /\ h.slot \in Recorder!Slots
    BY <1>2 DEF Handlers, Stages
  <1>4. f.stage \notin Holding
    BY <1>3 DEF Holding
  <1>5. Recorder!Set(t, f)
    OBVIOUS
  <1> HIDE DEF f
  <1>6. /\ frames' \in [Threads -> Seq(Handlers)]
        /\ \A u \in Threads : DOMAIN frames'[u] = DOMAIN frames[u]
        /\ frames'[t][Recorder!Depth(t)] = f
        /\ \A u \in Threads : \A d \in DOMAIN frames[u] :
             u # t \/ d # Recorder!Depth(t) => frames'[u][d] = frames[u][d]
    BY <1>1, <1>2, <1>3, <1>5, SetFacts
  <1>7. HandlerType'
    BY <1>1, <1>3, <1>6 DEF HandlerType
  <1>8. HandlersNest'
    BY <1>1, <1>2, <1>3, <1>5, SetNests DEF HandlerInv
  <1>9. HoldersHaveLocks'
    BY <1>1, <1>4, <1>6 DEF HandlerInv, HoldersHaveLocks
  <1>10. LocksHaveHolders'
    <2> SUFFICES ASSUME NEW r \in Recorder!Slots \ skipped', lock[r] \notin {Recorder!Unlocked, Recorder!ByRotation}
                 PROVE  \E u \in Threads : \E e \in DOMAIN frames'[u] :
                          frames'[u][e].slot = r /\ frames'[u][e].stage \in Holding
      BY DEF LocksHaveHolders
    <2>1. r \in Recorder!Slots \ skipped /\ r # h.slot
      OBVIOUS
    <2>2. PICK u \in Threads : \E e \in DOMAIN frames[u] :
            frames[u][e].slot = r /\ frames[u][e].stage \in Holding
      BY <1>1, <2>1 DEF HandlerInv, LocksHaveHolders
    <2>3. QED
      BY <1>2, <1>6, <2>1, <2>2
  <1>11. ContextsFollow'
    BY <1>1, <1>2, <1>3, <1>5, SetKeepsContexts DEF HandlerInv
  <1>12. QED
    BY <1>7, <1>8, <1>9, <1>10, <1>11 DEF HandlerInv

\* The stack walk faults, and the handler jumps to the context found at s: to the
\* handler at d, which takes those above it away.
LEMMA CaughtKeeps ==
  ASSUME RecorderInvariant, NEW t \in Threads, Recorder!Runs(t, "trace"), NEW s \in Recorder!Slots,
         context[s].thread = t, NEW d \in DOMAIN frames[t], frames[t][d].id = context[s].frame,
         Recorder!JumpTo(t, d), context' = [context EXCEPT ![s] = Recorder!NoContext],
         UNCHANGED <<lock, sampled, rotation, quota>>
  PROVE  HandlerType' /\ HandlerInv'
  <1> DEFINE h == frames[t][d]
             f == [h EXCEPT !.stage = "unlock"]
  <1>1. /\ frames \in [Threads -> Seq(Handlers)] /\ context \in [Recorder!Slots -> Holders]
        /\ sampled \in Nat /\ HandlerType /\ HandlerInv
    BY DEF RecorderInvariant, HandlerType
  <1>2. h \in Handlers /\ Recorder!Depth(t) = Len(frames[t]) /\ d \in 1..Len(frames[t])
    BY <1>1 DEF Recorder!Depth
  <1>3. h.slot = s /\ h.stage \in {"trace", "record", "unprotect"}
    <2>1. h.slot = s /\ h.stage \in {"trace", "record", "unprotect", "stuck"}
      BY <1>1 DEF HandlerInv, ContextsFollow
    <2>2. h.stage = "stuck" => d = Recorder!Depth(t)
      BY <1>1, <1>2 DEF HandlerInv, HandlersNest
    <2>3. QED
      BY <2>1, <2>2 DEF Recorder!Runs, Recorder!Frame
  <1>4. f \in Handlers /\ f.id = h.id /\ f.slot = s /\ f.stage = "unlock"
    BY <1>2, <1>3 DEF Handlers, Stages
  <1>5. f.stage \in Holding /\ h.stage \in Holding
    BY <1>3, <1>4 DEF Holding, Stages
  <1>6. /\ frames' = [frames EXCEPT ![t] = Append(SubSeq(@, 1, d - 1), f)]
        /\ skipped' = skipped \cup {frames[t][e].slot : e \in (d + 1)..Recorder!Depth(t)}
    BY DEF Recorder!JumpTo
  <1> HIDE DEF f
  <1>7. /\ frames' \in [Threads -> Seq(Handlers)]
        /\ Len(frames'[t]) = d /\ d <= Len(frames[t]) /\ frames'[t][d] = f
        /\ \A u \in Threads \ {t} : frames'[u] = frames[u]
        /\ \A u \in Threads : \A e \in DOMAIN frames'[u] :
             e \in DOMAIN frames[u] /\ (u # t \/ e # d => frames'[u][e] = frames[u][e])
        /\ \A u \in Threads : \A e \in DOMAIN frames[u] :
             e \in DOMAIN frames'[u] \/ (u = t /\ e \in (d + 1)..Len(frames[t]))
    <2>1. frames \in [Threads -> Seq(Handlers)] /\ d \in DOMAIN frames[t]
      BY <1>1
    <2>2. JumpsTo(t, d, f)
      BY <1>6 DEF JumpsTo
    <2>3. /\ frames' \in [Threads -> Seq(Handlers)]
          /\ Len(frames'[t]) = d /\ d <= Len(frames[t]) /\ frames'[t][d] = f
          /\ \A u \in Threads \ {t} : frames'[u] = frames[u]
          /\ \A u \in Threads : \A e \in DOMAIN frames'[u] :
               e \in DOMAIN frames[u] /\ (u # t \/ e # d => frames'[u][e] = frames[u][e])
          /\ \A u \in Threads : \A e \in DOMAIN frames[u] :
               e \in DOMAIN frames'[u] \/ (u = t /\ e \in (d + 1)..Len(frames[t]))
      BY <1>4, <2>1, <2>2, JumpFacts
    <2>4. QED
      BY <2>3
  <1>8. Recorder!NoContext \in Holders /\ Recorder!NoContext.thread \notin Threads /\ Recorder!NoContext.frame = 0
    BY ThreadAssumption DEF Recorder!NoContext, Holders
  <1>9. skipped' \in SUBSET Recorder!Slots
    <2>1. \A e \in (d + 1)..Recorder!Depth(t) : frames[t][e] \in Handlers
      BY <1>1, <1>2
    <2>2. \A k \in Handlers : k.slot \in Recorder!Slots
      BY DEF Handlers
    <2>3. QED
      BY <1>1, <1>6, <2>1, <2>2 DEF HandlerType
  <1>10. HandlerType'
    BY <1>1, <1>7, <1>8, <1>9 DEF HandlerType
  <1> HIDE DEF h
  <1>11. \A u \in Threads : \A e \in DOMAIN frames'[u] : frames'[u][e].id = frames[u][e].id
    BY <1>4, <1>7 DEF h
  <1>12. HandlersNest'
    <2>1. \A u \in Threads : Len(frames'[u]) <= 2
      <3>1. \A u \in Threads : Len(frames[u]) <= 2 /\ Len(frames[u]) \in Nat
        BY <1>1 DEF HandlerInv, HandlersNest
      <3>2. QED
        BY <1>2, <1>7, <3>1
    <2>2. \A u \in Threads : \A e \in DOMAIN frames'[u] :
            /\ frames'[u][e].id <= sampled
            /\ frames'[u][e].stage = "stuck" => e = Len(frames'[u])
            /\ frames'[u][e].stage \in {"enter", "protect", "trace"} => frames'[u][e].trace = Recorder!NoTrace
      <3> SUFFICES ASSUME NEW u \in Threads, NEW e \in DOMAIN frames'[u]
                   PROVE  /\ frames'[u][e].id <= sampled
                          /\ frames'[u][e].stage = "stuck" => e = Len(frames'[u])
                          /\ frames'[u][e].stage \in {"enter", "protect", "trace"} =>
                               frames'[u][e].trace = Recorder!NoTrace
        OBVIOUS
      <3>1. CASE u = t /\ e = d
        BY <1>1, <1>4, <1>7, <1>11, <3>1 DEF HandlerInv, HandlersNest
      <3>2. CASE u = t /\ e # d
        <4>1. e \in 1..d /\ e < Len(frames[t])
          BY <1>2, <1>7, <3>2
        <4>2. QED
          BY <1>1, <1>7, <3>2, <4>1 DEF HandlerInv, HandlersNest
      <3>3. CASE u # t
        BY <1>1, <1>7, <3>3 DEF HandlerInv, HandlersNest
      <3>4. QED
        BY <3>1, <3>2, <3>3
    <2>3. \A u, v \in Threads : \A e \in DOMAIN frames'[u], g \in DOMAIN frames'[v] :
            frames'[u][e].id = frames'[v][g].id => u = v /\ e = g
      BY <1>1, <1>7, <1>11 DEF HandlerInv, HandlersNest
    <2>4. QED
      BY <1>1, <2>1, <2>2, <2>3 DEF HandlersNest
  <1>13. HoldersHaveLocks'
    <2>1. \A u \in Threads : \A e \in DOMAIN frames'[u] : frames'[u][e].stage \in Holding =>
            frames[u][e].stage \in Holding /\ frames'[u][e].slot = frames[u][e].slot
      BY <1>3, <1>4, <1>5, <1>7 DEF h
    <2>2. QED
      BY <1>1, <1>7, <1>11, <2>1 DEF HandlerInv, HoldersHaveLocks
  <1>14. LocksHaveHolders'
    <2> SUFFICES ASSUME NEW r \in Recorder!Slots \ skipped', lock[r] \notin {Recorder!Unlocked, Recorder!ByRotation}
                 PROVE  \E u \in Threads : \E e \in DOMAIN frames'[u] :
                          frames'[u][e].slot = r /\ frames'[u][e].stage \in Holding
      BY DEF LocksHaveHolders
    <2>0. r \in Recorder!Slots \ skipped
      BY <1>6
    <2>a. PICK u \in Threads : \E e \in DOMAIN frames[u] :
            frames[u][e].slot = r /\ frames[u][e].stage \in Holding
      BY <1>1, <2>0 DEF HandlerInv, LocksHaveHolders
    <2>1. PICK e \in DOMAIN frames[u] : frames[u][e].slot = r /\ frames[u][e].stage \in Holding
      BY <2>a
    <2>2. ~(u = t /\ e \in (d + 1)..Len(frames[t]))
      BY <1>2, <1>6, <2>1
    <2>3. e \in DOMAIN frames'[u]
      BY <1>7, <2>2
    <2>4. frames'[u][e].slot = r /\ frames'[u][e].stage \in Holding
      BY <1>3, <1>4, <1>5, <1>7, <2>1, <2>3 DEF h
    <2>5. QED
      BY <2>3, <2>4
  <1>15. ContextsFollow'
    <2> SUFFICES ASSUME NEW r \in Recorder!Slots
                 PROVE  /\ context'[r].frame <= sampled
                        /\ \A u \in Threads : \A e \in DOMAIN frames'[u] :
                             context'[r].thread = u /\ context'[r].frame = frames'[u][e].id =>
                               /\ frames'[u][e].slot = r
                               /\ frames'[u][e].stage \in {"trace", "record", "unprotect", "stuck"}
      BY DEF ContextsFollow
    <2>1. CASE r = s
      <3>1. context'[r] = Recorder!NoContext
        BY <1>1, <2>1
      <3>2. QED
        BY <1>1, <1>8, <3>1
    <2>2. CASE r # s
      <3>1. context'[r] = context[r]
        BY <1>1, <2>2
      <3>2. context[r].frame <= sampled
        BY <1>1 DEF HandlerInv, ContextsFollow
      <3>3. ~(context[r].thread = t /\ context[r].frame = h.id)
        BY <1>1, <1>3, <2>2 DEF HandlerInv, ContextsFollow, h
      <3>4. \A u \in Threads : \A e \in DOMAIN frames'[u] :
              context[r].thread = u /\ context[r].frame = frames'[u][e].id =>
                e \in DOMAIN frames[u] /\ frames'[u][e] = frames[u][e]
        BY <1>4, <1>7, <3>3
      <3>5. QED
        BY <1>1, <3>1, <3>2, <3>4 DEF HandlerInv, ContextsFollow
    <2>3. QED
      BY <2>1, <2>2
  <1>16. QED
    BY <1>10, <1>12, <1>13, <1>14, <1>15 DEF HandlerInv

LEMMA FaultKeeps ==
  ASSUME RecorderInvariant, NEW t \in Threads, Recorder!Fault(t)
  PROVE  HandlerType' /\ HandlerInv'
  <1> DEFINE s == Recorder!CatchingSlot(t)
             found == {d \in 1..Recorder!Depth(t) : frames[t][d].id = context[s].frame}
  <1>1. UNCHANGED <<lock, sampled, rotation, quota>> /\ Recorder!Runs(t, "trace")
    BY DEF Recorder!Fault
  <1>2. CASE Recorder!ContextSlots(t) = {}
    BY <1>1, <1>2, StuckKeeps DEF Recorder!Fault
  <1>3. CASE Recorder!ContextSlots(t) # {} /\ found = {}
    <2>1. UNCHANGED <<frames, context, skipped>>
      BY <1>3 DEF Recorder!Fault
    <2>2. QED
      BY <1>1, <2>1, NothingKeeps DEF RecorderInvariant, HandlerType
  <1>4. CASE Recorder!ContextSlots(t) # {} /\ found # {}
    <2>1. s \in Recorder!Slots /\ context[s].thread = t
      BY <1>4, SlotFacts DEF Recorder!ContextSlots, Recorder!CatchingSlot
    <2>2. PICK d \in found : Recorder!JumpTo(t, d) /\ context' = [context EXCEPT ![s] = Recorder!NoContext]
      <3>1. (CHOOSE x \in found : TRUE) \in found
        BY <1>4
      <3>2. QED
        BY <1>4, <3>1 DEF Recorder!Fault
    <2>3. d \in DOMAIN frames[t] /\ frames[t][d].id = context[s].frame
      <3>1. frames[t] \in Seq(Handlers)
        BY DEF RecorderInvariant, HandlerType
      <3>2. QED
        BY <2>2, <3>1 DEF Recorder!Depth
    <2> HIDE DEF s, found
    <2>4. QED
      BY <1>1, <2>1, <2>2, <2>3, CaughtKeeps
  <1>5. QED
    BY <1>2, <1>3, <1>4
\* lock_all and its end change slots that no handler has.
LEMMA RotationKeepsHandlers ==
  ASSUME RecorderInvariant, Recorder!LockNext \/ Recorder!UnlockNext
  PROVE  HandlerType' /\ HandlerInv'
  <1> DEFINE s == rotation.slot
             new == lock'[s]
  <1>1. /\ HandlerType /\ HandlerInv /\ lock \in [Recorder!Slots -> Holders] /\ rotation \in Rotations
        /\ frames \in [Threads -> Seq(Handlers)]
    BY DEF RecorderInvariant, HandlerType
  <1>2. s \in Recorder!Slots
    BY <1>1 DEF Rotations
  <1>3. UNCHANGED <<frames, context, skipped, sampled, quota>>
    BY DEF Recorder!LockNext, Recorder!UnlockNext, Recorder!boundVars
  <1>4. lock[s] \in {Recorder!Unlocked, Recorder!ByRotation}
    BY <1>1, <1>2, LevelAssumption
    DEF Recorder!LockNext, Recorder!UnlockNext, RecorderInvariant, OutputInv, RotationLocks,
       Recorder!Slots
  <1>5. \/ lock' = [lock EXCEPT ![s] = Recorder!Unlocked]
        \/ lock' = [lock EXCEPT ![s] = Recorder!ByRotation]
    BY DEF Recorder!LockNext, Recorder!UnlockNext
  <1>6. Recorder!Unlocked \in Holders /\ Recorder!ByRotation \in Holders
    BY DEF Recorder!Unlocked, Recorder!ByRotation, Holders
  <1>7. rotation' \in Rotations
    <2>1. Recorder!NoRotation \in Rotations
      BY SlotFacts, BufferAssumption DEF Recorder!NoRotation, Rotations, Recorder!NoFile
    <2>2. s # Level - 1 => s + 1 \in Recorder!Slots
      BY <1>2, LevelAssumption DEF Recorder!Slots
    <2>3. CASE Recorder!LockNext
      BY <1>1, <2>2, <2>3, SlotFacts DEF Recorder!LockNext, Rotations
    <2>4. CASE Recorder!UnlockNext
      BY <1>1, <2>1, <2>2, <2>4 DEF Recorder!UnlockNext, Rotations
    <2>5. QED
      BY <2>3, <2>4
  <1> HIDE DEF s
  <1>8. HandlerType'
    BY <1>1, <1>2, <1>3, <1>5, <1>6, <1>7 DEF HandlerType
  <1>9. HandlersNest' /\ ContextsFollow'
    BY <1>1, <1>3 DEF HandlerInv, HandlersNest, ContextsFollow
  <1>10. HoldersHaveLocks'
    <2>1. \A u \in Threads : \A d \in DOMAIN frames[u] :
            frames[u][d].stage \in Holding => frames[u][d].slot \in Recorder!Slots \ {s}
      <3>1. Recorder!Unlocked.thread \notin Threads /\ Recorder!ByRotation.thread \notin Threads
        BY ThreadAssumption DEF Recorder!Unlocked, Recorder!ByRotation
      <3>2. \A k \in Handlers : k.slot \in Recorder!Slots
        BY DEF Handlers
      <3>3. QED
        BY <1>1, <1>4, <3>1, <3>2 DEF HandlerInv, HoldersHaveLocks
    <2>2. \A r \in Recorder!Slots \ {s} : lock'[r] = lock[r]
      BY <1>1, <1>5
    <2>3. QED
      BY <1>1, <1>3, <2>1, <2>2 DEF HandlerInv, HoldersHaveLocks
  <1>11. LocksHaveHolders'
    BY <1>1, <1>2, <1>3, <1>5 DEF HandlerInv, LocksHaveHolders
  <1>12. QED
    BY <1>8, <1>9, <1>10, <1>11 DEF HandlerInv

-----------------------------------------------------------------------------
(* The steps of the handlers: what is kept of the events.                  *)

\* A step of a handler that records nothing.
LEMMA OutputRests ==
  ASSUME RecorderInvariant, UNCHANGED <<buffer, fd, file, opened, recorded, dropped, rotation>>,
         traces' \in SUBSET Taken, traces \subseteq traces', sampled' \in Nat, sampled <= sampled',
         \A s \in Recorder!Slots : lock[s] = Recorder!ByRotation => lock'[s] = Recorder!ByRotation,
         rotation.stage = "switch" => traces' = traces,
         \A t \in Threads : \A d \in DOMAIN frames'[t] :
           /\ frames'[t][d].stage = "record" => frames'[t][d].trace \in traces' \cup {Recorder!NoTrace}
           /\ \/ frames'[t][d].id > sampled
              \/ /\ d \in DOMAIN frames[t] /\ frames'[t][d].id = frames[t][d].id
                 /\ frames[t][d].stage \in {"unprotect", "unlock"} =>
                      frames'[t][d].stage \in {"unprotect", "unlock"}
  PROVE  OutputType' /\ OutputInv'
  <1>1. OutputType /\ OutputInv /\ sampled \in Nat
    BY DEF RecorderInvariant, HandlerType
  <1>2. OutputType'
    BY <1>1 DEF OutputType
  <1>3. RotationLocks' /\ FlushedSoFar' /\ FilesFollow'
    BY <1>1 DEF OutputInv, RotationLocks, FlushedSoFar, FilesFollow
  <1>4. TracesAreKept'
    <2>1. Recorder!EveryEventResolves'
      BY <1>1 DEF OutputInv, TracesAreKept, Recorder!EveryEventResolves
    <2>2. \A s \in Recorder!Slots : \A e \in Recorder!ToSet(buffer[s]) : e.trace \in traces' \cup {Recorder!NoTrace}
      BY <1>1 DEF OutputInv, TracesAreKept
    <2>3. fd # Recorder!NoFile => \A e \in Recorder!ToSet(file[fd].events) :
            e.trace \in {Recorder!NoTrace} \cup IF rotation.stage = "switch" THEN file[fd].traces
                                                                   ELSE traces'
      BY <1>1 DEF OutputInv, TracesAreKept
    <2>4. QED
      BY <2>1, <2>2, <2>3 DEF TracesAreKept
  <1>5. RecordedOnce'
    <2>1. Recorder!EventsAreKeptOnce'
      <3>1. KeptOnce(buffer, file, dropped, recorded)
        BY <1>1, KeptNow DEF OutputInv, RecordedOnce
      <3>2. QED
        BY <3>1, KeptThen
    <2>2. ASSUME NEW e \in recorded
          PROVE  /\ e.id <= sampled'
                 /\ \A t \in Threads : \A d \in DOMAIN frames'[t] :
                      frames'[t][d].id = e.id => frames'[t][d].stage \in {"unprotect", "unlock"}
      <3>1. /\ e.id <= sampled
            /\ \A t \in Threads : \A d \in DOMAIN frames[t] :
                 frames[t][d].id = e.id => frames[t][d].stage \in {"unprotect", "unlock"}
        BY <1>1 DEF OutputInv, RecordedOnce
      <3>2. e.id \in Nat
        BY <1>1 DEF OutputType, Events
      <3>3. e.id <= sampled' /\ \A n \in Nat : n > sampled => n # e.id
        BY <1>1, <3>1, <3>2
      <3>4. \A t \in Threads : \A d \in DOMAIN frames'[t] :
              frames'[t][d].id = e.id => ~(frames'[t][d].id > sampled)
        BY <1>1, <3>1, <3>2
      <3>5. QED
        BY <3>1, <3>3, <3>4
    <2>3. QED
      BY <2>1, <2>2 DEF RecordedOnce
  <1>6. QED
    BY <1>2, <1>3, <1>4, <1>5 DEF OutputInv

LEMMA InterruptOutput ==
  ASSUME RecorderInvariant, NEW t \in Threads, NEW sort \in Kinds, Recorder!Interrupted(t, sort),
         UNCHANGED <<lock, traces, buffer, fd, file, opened, recorded, dropped, rotation>>
  PROVE  OutputType' /\ OutputInv'
  <1> DEFINE f == Recorder!NewFrame(sort)
  <1>1. /\ frames \in [Threads -> Seq(Handlers)] /\ sampled \in Nat /\ traces \in SUBSET Taken
        /\ sampled' = sampled + 1
    BY DEF RecorderInvariant, HandlerType, OutputType, Recorder!Interrupted
  <1>2. f \in Handlers
    <2>1. Recorder!NoTrace \in Taken
      BY DEF Taken
    <2>2. 0 \in Recorder!Slots
      BY SlotFacts
    <2>3. sampled + 1 \in Nat /\ 0 \in 0..2
      BY <1>1
    <2>4. QED
      BY <2>1, <2>2, <2>3 DEF Recorder!NewFrame, Handlers, Stages
  <1>3. frames' = [frames EXCEPT ![t] = Append(@, f)]
    BY DEF Recorder!Interrupted
  <1>4. f.id = sampled + 1 /\ f.stage = "enter"
    BY DEF Recorder!NewFrame
  <1> HIDE DEF f
  <1>5. /\ frames'[t][Len(frames[t]) + 1] = f
        /\ \A u \in Threads : \A d \in DOMAIN frames[u] :
             d \in DOMAIN frames'[u] /\ frames'[u][d] = frames[u][d]
        /\ \A u \in Threads : \A d \in DOMAIN frames'[u] :
             d \in DOMAIN frames[u] \/ (u = t /\ d = Len(frames[t]) + 1)
    BY <1>1, <1>2, <1>3, PushFacts
  <1>6. f.id > sampled
    BY <1>1, <1>4
  <1>7. \A u \in Threads : \A d \in DOMAIN frames[u] :
          frames[u][d].stage = "record" => frames[u][d].trace \in traces \cup {Recorder!NoTrace}
    BY DEF RecorderInvariant, OutputInv, TracesAreKept
  <1>8. \A u \in Threads : \A d \in DOMAIN frames'[u] :
          /\ frames'[u][d].stage = "record" => frames'[u][d].trace \in traces' \cup {Recorder!NoTrace}
          /\ \/ frames'[u][d].id > sampled
             \/ /\ d \in DOMAIN frames[u] /\ frames'[u][d].id = frames[u][d].id
                /\ frames[u][d].stage \in {"unprotect", "unlock"} =>
                     frames'[u][d].stage \in {"unprotect", "unlock"}
    BY <1>4, <1>5, <1>6, <1>7
  <1>9. sampled' \in Nat /\ sampled <= sampled'
    BY <1>1
  <1>10. QED
    BY <1>1, <1>8, <1>9, OutputRests

\* The same for a step of the innermost handler.
LEMMA SetOutput ==
  ASSUME RecorderInvariant, NEW t \in Threads, Recorder!Depth(t) > 0, NEW f \in Handlers,
         Recorder!Set(t, f),
         f.id = Recorder!Frame(t).id, Recorder!Frame(t).stage # "unlock", Recorder!Frame(t).stage = "unprotect" => f.stage = "unlock",
         traces' \in SUBSET Taken, traces \subseteq traces',
         f.stage = "record" => f.trace \in traces' \cup {Recorder!NoTrace},
         rotation.stage = "switch" => traces' = traces,
         \A s \in Recorder!Slots : lock[s] = Recorder!ByRotation => lock'[s] = Recorder!ByRotation,
         UNCHANGED <<buffer, fd, file, opened, recorded, dropped, rotation, sampled>>
  PROVE  OutputType' /\ OutputInv'
  <1>1. frames \in [Threads -> Seq(Handlers)] /\ sampled \in Nat
    BY DEF RecorderInvariant, HandlerType
  <1>2. Recorder!Depth(t) \in DOMAIN frames[t] /\ Recorder!Frame(t) = frames[t][Recorder!Depth(t)]
    BY <1>1, TopFacts
  <1>3. /\ \A u \in Threads : DOMAIN frames'[u] = DOMAIN frames[u]
        /\ frames'[t][Recorder!Depth(t)] = f
        /\ \A u \in Threads : \A d \in DOMAIN frames[u] :
             u # t \/ d # Recorder!Depth(t) => frames'[u][d] = frames[u][d]
    BY <1>1, SetFacts
  <1>4. \A u \in Threads : \A d \in DOMAIN frames[u] :
          frames[u][d].stage = "record" => frames[u][d].trace \in traces' \cup {Recorder!NoTrace}
    BY DEF RecorderInvariant, OutputInv, TracesAreKept
  <1>5. \A u \in Threads : \A d \in DOMAIN frames'[u] :
          /\ frames'[u][d].stage = "record" => frames'[u][d].trace \in traces' \cup {Recorder!NoTrace}
          /\ d \in DOMAIN frames[u] /\ frames'[u][d].id = frames[u][d].id
          /\ frames[u][d].stage \in {"unprotect", "unlock"} =>
               frames'[u][d].stage \in {"unprotect", "unlock"}
    BY <1>2, <1>3, <1>4
  <1>6. sampled' \in Nat /\ sampled <= sampled'
    BY <1>1
  <1>7. QED
    BY <1>5, <1>6, OutputRests

\* The same where handlers are taken away.
LEMMA LeaveOutput ==
  ASSUME RecorderInvariant,
         \A u \in Threads : \A d \in DOMAIN frames'[u] :
           /\ d \in DOMAIN frames[u]
           /\ \/ frames'[u][d] = frames[u][d]
              \/ frames'[u][d].id = frames[u][d].id /\ frames'[u][d].stage = "unlock",
         \A s \in Recorder!Slots : lock[s] = Recorder!ByRotation => lock'[s] = Recorder!ByRotation,
         UNCHANGED <<buffer, fd, file, opened, recorded, dropped, rotation, sampled, traces>>
  PROVE  OutputType' /\ OutputInv'
  <1>1. sampled \in Nat /\ traces \in SUBSET Taken
    BY DEF RecorderInvariant, HandlerType, OutputType
  <1>2. \A u \in Threads : \A d \in DOMAIN frames[u] :
          frames[u][d].stage = "record" => frames[u][d].trace \in traces \cup {Recorder!NoTrace}
    BY DEF RecorderInvariant, OutputInv, TracesAreKept
  <1>3. \A u \in Threads : \A d \in DOMAIN frames'[u] :
          /\ frames'[u][d].stage = "record" => frames'[u][d].trace \in traces' \cup {Recorder!NoTrace}
          /\ d \in DOMAIN frames[u] /\ frames'[u][d].id = frames[u][d].id
          /\ frames[u][d].stage \in {"unprotect", "unlock"} =>
               frames'[u][d].stage \in {"unprotect", "unlock"}
    BY <1>2
  <1>4. sampled' \in Nat /\ sampled <= sampled' /\ traces' \in SUBSET Taken
    BY <1>1
  <1>5. QED
    BY <1>3, <1>4, OutputRests
-----------------------------------------------------------------------------
(* Recording, flushing and the rotation: what is kept of the events.       *)

\* What flush writes.
LEMMA FlushedFacts ==
  ASSUME OutputType, NEW s \in Recorder!Slots
  PROVE  /\ Recorder!Flushed(file, buffer[s]) \in [Recorder!Files -> DataFiles]
         /\ \A f \in Recorder!Files :
              /\ Recorder!Flushed(file, buffer[s])[f].header = file[f].header
              /\ Recorder!Flushed(file, buffer[s])[f].traces = file[f].traces
              /\ Recorder!Flushed(file, buffer[s])[f].patched = file[f].patched
              /\ f # fd => Recorder!Flushed(file, buffer[s])[f] = file[f]
         /\ fd # Recorder!NoFile => /\ fd \in Recorder!Files
                                    /\ Recorder!Flushed(file, buffer[s])[fd].events = file[fd].events \o buffer[s]
         /\ Recorder!Dropped(buffer[s]) \in SUBSET Events
  <1>1. /\ buffer[s] \in Seq(Events) /\ file \in [Recorder!Files -> DataFiles] /\ fd \in 0..MaxFiles
        /\ dropped \in SUBSET Events
    BY DEF OutputType
  <1>2. Recorder!ToSet(buffer[s]) \in SUBSET Events
    BY <1>1 DEF Recorder!ToSet
  <1>3. CASE fd = Recorder!NoFile
    BY <1>1, <1>2, <1>3 DEF Recorder!Flushed, Recorder!Dropped, Recorder!Files, Recorder!NoFile
  <1>4. CASE fd # Recorder!NoFile
    <2>1. fd \in Recorder!Files
      BY <1>1, <1>4, BufferAssumption DEF Recorder!Files, Recorder!NoFile
    <2> DEFINE q == file[fd].events \o buffer[s]
               g == [file[fd] EXCEPT !.events = q]
    <2>2. file[fd] \in DataFiles /\ file[fd].events \in Seq(Events)
      BY <1>1, <2>1 DEF DataFiles
    <2>3. q \in Seq(Events)
      BY <1>1, <2>2
    <2> HIDE DEF q
    <2>4. g \in DataFiles /\ g.events = q /\ g.header = file[fd].header
          /\ g.traces = file[fd].traces /\ g.patched = file[fd].patched
      BY <2>2, <2>3 DEF DataFiles
    <2>5. Recorder!Flushed(file, buffer[s]) = [file EXCEPT ![fd] = g]
      BY <1>4 DEF Recorder!Flushed, q
    <2> HIDE DEF g
    <2>6. /\ [file EXCEPT ![fd] = g] \in [Recorder!Files -> DataFiles]
          /\ \A f \in Recorder!Files : [file EXCEPT ![fd] = g][f] = IF f = fd THEN g ELSE file[f]
      BY <1>1, <2>1, <2>4
    <2>7. Recorder!Dropped(buffer[s]) = dropped
      BY <1>4 DEF Recorder!Dropped
    <2>8. QED
      BY <1>1, <2>1, <2>4, <2>5, <2>6, <2>7 DEF q
  <1>5. QED
    BY <1>3, <1>4

\* A flush keeps each event at one place.
LEMMA FlushKeeps ==
  ASSUME OutputType, NEW s \in Recorder!Slots, KeptOnce(buffer, file, dropped, recorded)
  PROVE  KeptOnce([buffer EXCEPT ![s] = <<>>], Recorder!Flushed(file, buffer[s]), Recorder!Dropped(buffer[s]), recorded)
  <1>1. /\ buffer \in [Recorder!Slots -> Seq(Events)] /\ file \in [Recorder!Files -> DataFiles]
    BY DEF OutputType
  <1>2. CASE fd = Recorder!NoFile
    BY <1>1, <1>2, DroppingKeeps DEF Recorder!Flushed, Recorder!Dropped
  <1>3. CASE fd # Recorder!NoFile
    <2>1. fd \in Recorder!Files /\ file[fd].events \in Seq(Events)
      BY <1>1, <1>3, FlushedFacts DEF DataFiles
    <2>2. /\ Recorder!Flushed(file, buffer[s])[fd].events = file[fd].events \o buffer[s]
          /\ \A f \in Recorder!Files \ {fd} : Recorder!Flushed(file, buffer[s])[f].events = file[f].events
      BY <1>3, FlushedFacts
    <2>3. Recorder!Dropped(buffer[s]) = dropped
      BY <1>3 DEF Recorder!Dropped
    <2>4. QED
      BY <1>1, <2>1, <2>2, <2>3, WritingKeeps
  <1>4. QED
    BY <1>2, <1>3

\* After a flush the files are in order, and the open one names traces of the table.
LEMMA FlushOrder ==
  ASSUME OutputType, OutputInv, NEW s \in Recorder!Slots, file' = Recorder!Flushed(file, buffer[s]),
         UNCHANGED <<fd, opened, traces>>, rotation.stage # "switch",
         rotation'.to = rotation.to, rotation'.stage # "switch",
         rotation'.stage \in {"lock", "flush", "traces"} => rotation.stage \in {"lock", "flush", "traces"}
  PROVE  /\ FilesFollow' /\ Recorder!EveryEventResolves'
         /\ fd # Recorder!NoFile => \A e \in Recorder!ToSet(file'[fd].events) : e.trace \in traces \cup {Recorder!NoTrace}
  <1>1. /\ \A f \in Recorder!Files : /\ file'[f].header = file[f].header
                                     /\ file'[f].traces = file[f].traces
                                     /\ file'[f].patched = file[f].patched
                                     /\ f # fd => file'[f] = file[f]
        /\ fd # Recorder!NoFile => fd \in Recorder!Files /\ file'[fd].events = file[fd].events \o buffer[s]
    BY FlushedFacts
  <1>2. fd \in 0..MaxFiles /\ opened \in 0..MaxFiles
    BY DEF OutputType
  <1>3. fd # Recorder!NoFile => fd <= opened /\ file[fd].header /\ ~file[fd].patched
    BY DEF OutputInv, FilesFollow
  <1>4. FilesFollow'
    <2>1. \A f \in Recorder!Files : f > opened => file'[f] = Recorder!EmptyFile
      <3>1. \A f \in Recorder!Files : f > opened => f # fd /\ file[f] = Recorder!EmptyFile
        BY <1>2, <1>3, BufferAssumption DEF OutputInv, FilesFollow, Recorder!Files, Recorder!NoFile
      <3>2. QED
        BY <1>1, <3>1
    <2>2. fd # Recorder!NoFile => fd <= opened /\ file'[fd].header /\ ~file'[fd].patched
      BY <1>1, <1>3
    <2>3. rotation'.stage \in {"lock", "flush", "traces"} =>
            /\ fd # Recorder!NoFile
            /\ rotation.to # Recorder!NoFile =>
                 rotation.to # fd /\ rotation.to <= opened /\ file'[rotation.to] = Recorder!EmptyFile
      <3>1. rotation'.stage \in {"lock", "flush", "traces"} =>
              /\ fd # Recorder!NoFile
              /\ rotation.to # Recorder!NoFile =>
                   rotation.to # fd /\ rotation.to <= opened /\ file[rotation.to] = Recorder!EmptyFile
        BY DEF OutputInv, FilesFollow
      <3>2. \A n : n # fd => file'[n] = file[n]
        BY DEF Recorder!Flushed
      <3>3. QED
        BY <3>1, <3>2
    <2>4. QED
      BY <2>1, <2>2, <2>3 DEF FilesFollow
  <1>5. fd # Recorder!NoFile => \A e \in Recorder!ToSet(file'[fd].events) : e.trace \in traces \cup {Recorder!NoTrace}
    <2> SUFFICES ASSUME fd # Recorder!NoFile
                 PROVE \A e \in Recorder!ToSet(file'[fd].events) : e.trace \in traces \cup {Recorder!NoTrace}
      OBVIOUS
    <2>1. file[fd].events \in Seq(Events) /\ buffer[s] \in Seq(Events)
      BY <1>1 DEF OutputType, DataFiles
    <2>2. Recorder!ToSet(file'[fd].events) \subseteq Recorder!ToSet(file[fd].events) \cup Recorder!ToSet(buffer[s])
      <3>1. file'[fd].events = file[fd].events \o buffer[s]
        BY <1>1
      <3>2. QED
        BY <2>1, <3>1, ConcatEvents
    <2>3. \A e \in Recorder!ToSet(buffer[s]) : e.trace \in traces \cup {Recorder!NoTrace}
      BY DEF OutputInv, TracesAreKept
    <2>4. \A e \in Recorder!ToSet(file[fd].events) : e.trace \in traces \cup {Recorder!NoTrace}
      BY DEF OutputInv, TracesAreKept
    <2>5. QED
      BY <2>2, <2>3, <2>4
  <1>6. Recorder!EveryEventResolves'
    <2>1. \A f \in Recorder!Files : file'[f].patched => file'[f] = file[f]
      BY <1>1, <1>3, BufferAssumption DEF Recorder!Files, Recorder!NoFile
    <2>2. QED
      BY <2>1 DEF OutputInv, TracesAreKept, Recorder!EveryEventResolves
  <1>7. QED
    BY <1>4, <1>5, <1>6

LEMMA RecordOutput ==
  ASSUME RecorderInvariant, NEW t \in Threads, Recorder!Record(t)
  PROVE  OutputType' /\ OutputInv'
  <1> DEFINE h == Recorder!Frame(t)
             s == h.slot
             e == [id |-> h.id, trace |-> h.trace]
             f == [h EXCEPT !.stage = "unprotect"]
  <1>1. /\ frames \in [Threads -> Seq(Handlers)] /\ sampled \in Nat /\ OutputType /\ OutputInv
        /\ HandlerInv /\ rotation \in Rotations
    BY DEF RecorderInvariant, HandlerType
  <1>2. /\ Recorder!Depth(t) > 0 /\ h.stage = "record" /\ h \in Handlers
        /\ Recorder!Depth(t) \in DOMAIN frames[t] /\ h = frames[t][Recorder!Depth(t)]
    BY <1>1, TopFacts DEF Recorder!Record, Recorder!Runs
  <1>3. s \in Recorder!Slots /\ h.id \in Nat /\ e \in Events /\ e.id = h.id /\ e.trace = h.trace
    BY <1>2 DEF Handlers, Events
  <1>4. f \in Handlers /\ f.id = h.id /\ f.stage = "unprotect"
    BY <1>2 DEF Handlers, Stages
  <1>5. Recorder!Set(t, f) /\ UNCHANGED <<lock, traces, fd, opened, sampled, rotation>>
    BY DEF Recorder!Record, Recorder!boundVars
  <1>6. /\ recorded' = recorded \cup {e}
        /\ \/ /\ file' = Recorder!Flushed(file, buffer[s]) /\ dropped' = Recorder!Dropped(buffer[s])
              /\ buffer' = [buffer EXCEPT ![s] = <<e>>]
           \/ /\ buffer' = [buffer EXCEPT ![s] = Append(@, e)]
              /\ file' = file /\ dropped' = dropped
    BY DEF Recorder!Record
  <1> HIDE DEF f
  <1>7. /\ \A u \in Threads : DOMAIN frames'[u] = DOMAIN frames[u]
        /\ frames'[t][Recorder!Depth(t)] = f
        /\ \A u \in Threads : \A d \in DOMAIN frames[u] :
             u # t \/ d # Recorder!Depth(t) => frames'[u][d] = frames[u][d]
    BY <1>1, <1>2, <1>4, <1>5, SetFacts
  <1>8. \A u \in Threads : \A d \in DOMAIN frames[u] : frames'[u][d].id = frames[u][d].id
    BY <1>2, <1>4, <1>7
  <1>9. rotation.stage \notin {"flush", "traces", "switch"}
    <2>1. lock[s].thread = t
      BY <1>1, <1>2 DEF HandlerInv, HoldersHaveLocks, Holding, Stages
    <2>2. lock[s] # Recorder!ByRotation
      BY <2>1, ThreadAssumption DEF Recorder!ByRotation
    <2>3. QED
      BY <1>1, <1>3, <2>2 DEF OutputInv, RotationLocks
  <1>10. h.id <= sampled /\ e.trace \in traces \cup {Recorder!NoTrace}
    BY <1>1, <1>2, <1>3 DEF HandlerInv, HandlersNest, OutputInv, TracesAreKept
  <1>11. e \notin recorded
    BY <1>1, <1>2, <1>3 DEF OutputInv, RecordedOnce
  <1> HIDE DEF h, s, e
  <1>12. KeptOnce(buffer, file, dropped, recorded)
    BY <1>1, KeptNow DEF OutputInv, RecordedOnce
  <1>13. /\ KeptOnce(buffer', file', dropped', recorded')
         /\ buffer' \in [Recorder!Slots -> Seq(Events)]
         /\ \A r \in Recorder!Slots : \A g \in Recorder!ToSet(buffer'[r]) : g = e \/ g \in Recorder!ToSet(buffer[r])
    <2>1. buffer \in [Recorder!Slots -> Seq(Events)]
      BY <1>1 DEF OutputType
    <2>2. CASE buffer' = [buffer EXCEPT ![s] = Append(@, e)] /\ file' = file /\ dropped' = dropped
      <3>1. KeptOnce(buffer', file', dropped', recorded')
        BY <1>3, <1>6, <1>11, <1>12, <2>1, <2>2, RecordingKeeps
      <3>2. buffer' \in [Recorder!Slots -> Seq(Events)]
        BY <1>3, <2>1, <2>2
      <3>3. \A g \in Recorder!ToSet(Append(buffer[s], e)) : g = e \/ g \in Recorder!ToSet(buffer[s])
        BY <1>3, <2>1 DEF Recorder!ToSet
      <3>4. QED
        BY <1>3, <2>1, <2>2, <3>1, <3>2, <3>3
    <2>3. CASE /\ file' = Recorder!Flushed(file, buffer[s]) /\ dropped' = Recorder!Dropped(buffer[s])
               /\ buffer' = [buffer EXCEPT ![s] = <<e>>]
      <3> DEFINE empty == [buffer EXCEPT ![s] = <<>>]
      <3>1. KeptOnce(empty, file', dropped', recorded)
        BY <1>1, <1>3, <1>12, <2>3, FlushKeeps
      <3>2. empty \in [Recorder!Slots -> Seq(Events)] /\ empty[s] = <<>> /\ \A r \in Recorder!Slots \ {s} : empty[r] = buffer[r]
        BY <1>3, <2>1
      <3> HIDE DEF empty
      <3>3. KeptOnce([empty EXCEPT ![s] = Append(@, e)], file', dropped', recorded \cup {e})
        BY <1>3, <1>11, <3>1, <3>2, RecordingKeeps
      <3>4. Append(<<>>, e) = <<e>> /\ <<e>> \in Seq(Events)
        BY <1>3
      <3>5. [empty EXCEPT ![s] = Append(@, e)] = buffer'
        <4>1. [empty EXCEPT ![s] = Append(@, e)] = [empty EXCEPT ![s] = <<e>>]
          BY <3>2, <3>4
        <4>2. QED
          BY <1>3, <2>1, <2>3, <4>1 DEF empty
      <3>6. Recorder!ToSet(<<e>>) = {e}
        BY DEF Recorder!ToSet
      <3>7. buffer' \in [Recorder!Slots -> Seq(Events)] /\ buffer'[s] = <<e>>
            /\ \A r \in Recorder!Slots \ {s} : buffer'[r] = buffer[r]
        BY <1>3, <2>1, <2>3, <3>4
      <3>8. QED
        BY <1>6, <3>3, <3>5, <3>6, <3>7
    <2>4. QED
      BY <1>6, <2>2, <2>3
  <1>14. OutputType'
    <2>1. file' \in [Recorder!Files -> DataFiles] /\ dropped' \in SUBSET Events
      BY <1>1, <1>3, <1>6, FlushedFacts DEF OutputType
    <2>2. recorded' \in SUBSET Events
      BY <1>1, <1>3, <1>6 DEF OutputType
    <2>3. QED
      BY <1>1, <1>5, <1>13, <2>1, <2>2 DEF OutputType
  <1>15. RotationLocks' /\ FlushedSoFar'
    BY <1>1, <1>5, <1>9 DEF OutputInv, RotationLocks, FlushedSoFar
  <1>16. /\ FilesFollow' /\ Recorder!EveryEventResolves'
         /\ fd # Recorder!NoFile => \A g \in Recorder!ToSet(file'[fd].events) : g.trace \in traces \cup {Recorder!NoTrace}
    <2>1. CASE file' = file
      <3>1. FilesFollow' /\ Recorder!EveryEventResolves'
        BY <1>1, <1>5, <2>1 DEF OutputInv, FilesFollow, TracesAreKept, Recorder!EveryEventResolves
      <3>2. QED
        BY <1>1, <1>9, <2>1, <3>1 DEF OutputInv, TracesAreKept
    <2>2. CASE file' = Recorder!Flushed(file, buffer[s])
      BY <1>1, <1>3, <1>5, <1>9, <2>2, FlushOrder
    <2>3. QED
      BY <1>6, <2>1, <2>2
  <1>17. TracesAreKept'
    <2>1. \A r \in Recorder!Slots : \A g \in Recorder!ToSet(buffer'[r]) : g.trace \in traces \cup {Recorder!NoTrace}
      BY <1>1, <1>10, <1>13 DEF OutputInv, TracesAreKept
    <2>2. \A u \in Threads : \A d \in DOMAIN frames'[u] :
            frames'[u][d].stage = "record" => frames'[u][d].trace \in traces \cup {Recorder!NoTrace}
      <3>1. \A u \in Threads : \A d \in DOMAIN frames[u] :
              frames[u][d].stage = "record" => frames[u][d].trace \in traces \cup {Recorder!NoTrace}
        BY <1>1 DEF OutputInv, TracesAreKept
      <3>2. \A u \in Threads : \A d \in DOMAIN frames'[u] :
              d \in DOMAIN frames[u] /\ (frames'[u][d] = frames[u][d] \/ frames'[u][d].stage = "unprotect")
        BY <1>4, <1>7
      <3>3. QED
        BY <3>1, <3>2
    <2>3. QED
      BY <1>5, <1>9, <1>16, <2>1, <2>2 DEF TracesAreKept
  <1>18. RecordedOnce'
    <2>1. ASSUME NEW g \in recorded, NEW u \in Threads, NEW d \in DOMAIN frames'[u],
                 frames'[u][d].id = g.id
          PROVE  frames'[u][d].stage \in {"unprotect", "unlock"}
      BY <1>1, <1>2, <1>4, <1>7, <1>8, <2>1 DEF OutputInv, RecordedOnce
    <2>2. ASSUME NEW u \in Threads, NEW d \in DOMAIN frames'[u], frames'[u][d].id = h.id
          PROVE  frames'[u][d].stage \in {"unprotect", "unlock"}
      <3>1. u = t /\ d = Recorder!Depth(t)
        BY <1>1, <1>2, <1>7, <1>8, <2>2 DEF HandlerInv, HandlersNest
      <3>2. QED
        BY <1>4, <1>7, <3>1
    <2>3. \A g \in recorded' : g.id <= sampled
      BY <1>1, <1>3, <1>6, <1>10 DEF OutputInv, RecordedOnce
    <2>4. Recorder!EventsAreKeptOnce'
      BY <1>13, KeptThen
    <2>5. \A g \in recorded' : g \in recorded \/ g.id = h.id
      BY <1>3, <1>6
    <2>6. QED
      BY <1>5, <2>1, <2>2, <2>3, <2>4, <2>5 DEF RecordedOnce
  <1>19. QED
    BY <1>14, <1>15, <1>16, <1>17, <1>18 DEF OutputInv
\* Where the handlers rest, only the places of the events matter.
LEMMA RecordedRests ==
  ASSUME RecordedOnce, UNCHANGED <<frames, sampled, recorded>>,
         KeptOnce(buffer', file', dropped', recorded)
  PROVE  RecordedOnce'
  <1>1. Recorder!EventsAreKeptOnce'
    BY KeptThen
  <1>2. QED
    BY <1>1 DEF RecordedOnce

LEMMA StartKeeps ==
  ASSUME RecorderInvariant, Recorder!Start
  PROVE  RecorderInvariant'
  <1> DEFINE n == opened + 1
  <1>1. /\ OutputType /\ OutputInv /\ HandlerType /\ HandlerInv /\ rotation \in Rotations
        /\ buffer \in [Recorder!Slots -> Seq(Events)] /\ file \in [Recorder!Files -> DataFiles] /\ 0 \in Recorder!Slots
    BY SlotFacts DEF RecorderInvariant, HandlerType, OutputType
  <1>2. /\ fd = Recorder!NoFile /\ rotation = Recorder!NoRotation /\ fd' = n /\ opened' = n /\ opened < MaxFiles
        /\ file' = [file EXCEPT ![n].header = TRUE, ![n].events = buffer[0]]
        /\ buffer' = [buffer EXCEPT ![0] = <<>>]
        /\ UNCHANGED <<frames, lock, context, traces, rotation, quota, sampled, recorded, dropped,
                       skipped>>
    BY DEF Recorder!Start
  <1>3. n \in Recorder!Files /\ opened \in Nat /\ n \in 0..MaxFiles /\ n > opened /\ n # Recorder!NoFile
    BY <1>1, <1>2, BufferAssumption DEF OutputType, Recorder!Files, Recorder!NoFile
  <1>4. file[n] = Recorder!EmptyFile
    BY <1>1, <1>3 DEF OutputInv, FilesFollow
  <1> DEFINE h == [file[n] EXCEPT !.header = TRUE]
             g == [h EXCEPT !.events = buffer[0]]
  <1>5. file' = [file EXCEPT ![n] = g]
    BY <1>1, <1>2, <1>3
  <1>6. g \in DataFiles /\ g.header /\ ~g.patched /\ g.events = buffer[0]
    <2>1. file[n] \in DataFiles /\ ~file[n].patched
      BY <1>1, <1>3, <1>4 DEF Recorder!EmptyFile
    <2>2. h \in DataFiles /\ h.header /\ ~h.patched
      BY <2>1 DEF DataFiles
    <2> HIDE DEF h
    <2>3. buffer[0] \in Seq(Events)
      BY <1>1
    <2>4. QED
      BY <2>2, <2>3 DEF DataFiles
  <1> HIDE DEF g, n
  <1>7. file'[n] = g /\ (\A f \in Recorder!Files \ {n} : file'[f] = file[f]) /\ file' \in [Recorder!Files -> DataFiles]
    BY <1>1, <1>3, <1>5, <1>6
  <1>8. HandlerType' /\ HandlerInv'
    BY <1>1, <1>2, NothingKeeps
  <1>9. buffer' \in [Recorder!Slots -> Seq(Events)] /\ buffer'[0] = <<>>
        /\ \A s \in Recorder!Slots \ {0} : buffer'[s] = buffer[s]
    BY <1>1, <1>2
  <1>10. OutputType'
    BY <1>1, <1>2, <1>3, <1>7, <1>9 DEF OutputType
  <1>11. RotationLocks' /\ FlushedSoFar'
    BY <1>1, <1>2 DEF OutputInv, RotationLocks, FlushedSoFar, Recorder!NoRotation
  <1>12. FilesFollow'
    <2>1. \A f \in Recorder!Files : f > n => file'[f] = Recorder!EmptyFile
      <3>1. \A f \in Recorder!Files : f > n => f # n /\ f > opened
        BY <1>3, BufferAssumption DEF Recorder!Files, n
      <3>2. QED
        BY <1>1, <1>7, <3>1 DEF OutputInv, FilesFollow
    <2>2. n <= n /\ file'[n].header /\ ~file'[n].patched
      BY <1>3, <1>6, <1>7
    <2>3. rotation'.stage = "none"
      BY <1>2 DEF Recorder!NoRotation
    <2>4. QED
      BY <1>2, <2>1, <2>2, <2>3 DEF FilesFollow
  <1>13. TracesAreKept'
    <2>1. \A s \in Recorder!Slots : \A e \in Recorder!ToSet(buffer[s]) : e.trace \in traces \cup {Recorder!NoTrace}
      BY <1>1 DEF OutputInv, TracesAreKept
    <2>2. Recorder!ToSet(<<>>) = {}
      BY DEF Recorder!ToSet
    <2>3. \A s \in Recorder!Slots : \A e \in Recorder!ToSet(buffer'[s]) : e.trace \in traces \cup {Recorder!NoTrace}
      BY <1>9, <2>1, <2>2
    <2>4. \A e \in Recorder!ToSet(file'[n].events) : e.trace \in {Recorder!NoTrace} \cup traces
      BY <1>1, <1>6, <1>7, <2>1
    <2>5. \A t \in Threads : \A d \in DOMAIN frames[t] :
            frames[t][d].stage = "record" => frames[t][d].trace \in traces \cup {Recorder!NoTrace}
      BY <1>1 DEF OutputInv, TracesAreKept
    <2>6. Recorder!EveryEventResolves'
      <3>1. \A f \in Recorder!Files : file'[f].patched => file'[f] = file[f]
        BY <1>6, <1>7
      <3>2. QED
        BY <1>1, <3>1 DEF OutputInv, TracesAreKept, Recorder!EveryEventResolves
    <2>7. rotation'.stage # "switch"
      BY <1>2 DEF Recorder!NoRotation
    <2>8. QED
      BY <1>2, <2>3, <2>4, <2>5, <2>6, <2>7 DEF TracesAreKept
  <1>14. RecordedOnce'
    <2>1. KeptOnce(buffer, file, dropped, recorded) /\ RecordedOnce
      BY <1>1, KeptNow DEF OutputInv, RecordedOnce
    <2>2. file[n].events = <<>> /\ file[n].events \in Seq(Events)
      BY <1>4 DEF Recorder!EmptyFile
    <2>3. <<>> \o buffer[0] = buffer[0]
      BY <1>1
    <2>4. file'[n].events = file[n].events \o buffer[0]
      BY <1>6, <1>7, <2>2, <2>3
    <2>5. \A f \in Recorder!Files \ {n} : file'[f].events = file[f].events
      BY <1>7
    <2>6. KeptOnce([buffer EXCEPT ![0] = <<>>], file', dropped, recorded)
      BY <1>1, <1>3, <2>1, <2>2, <2>4, <2>5, WritingKeeps
    <2>7. QED
      BY <1>2, <2>1, <2>6, RecordedRests
  <1>15. QED
    BY <1>8, <1>10, <1>11, <1>12, <1>13, <1>14 DEF RecorderInvariant, OutputInv

LEMMA RotateKeeps ==
  ASSUME RecorderInvariant, NEW last \in BOOLEAN, Recorder!Rotate(last)
  PROVE  RecorderInvariant'
  <1>1. OutputType /\ OutputInv /\ HandlerType /\ HandlerInv
    BY DEF RecorderInvariant
  <1>2. /\ fd # Recorder!NoFile /\ rotation = Recorder!NoRotation
        /\ UNCHANGED <<frames, lock, context, traces, quota, sampled, skipped>>
        /\ UNCHANGED <<buffer, fd, file, recorded, dropped>>
        /\ rotation'.stage = "lock" /\ rotation'.slot = 0
        /\ \/ opened' = opened /\ rotation'.to = Recorder!NoFile
           \/ opened' = opened + 1 /\ rotation'.to = opened + 1 /\ opened < MaxFiles
    BY DEF Recorder!Rotate, Recorder!outputVars
  <1>3. opened \in Nat /\ opened' \in 0..MaxFiles /\ rotation'.to \in 0..MaxFiles /\ opened <= opened'
    BY <1>1, <1>2, BufferAssumption DEF OutputType, Recorder!NoFile
  <1>4. rotation' \in Rotations
    <2>1. rotation' = [stage |-> "lock", slot |-> 0, to |-> rotation'.to]
      BY DEF Recorder!Rotate
    <2>2. QED
      BY <1>3, <2>1, SlotFacts DEF Rotations
  <1>5. HandlerType' /\ HandlerInv'
    BY <1>1, <1>2, <1>4, NothingKeeps
  <1>6. OutputType'
    BY <1>1, <1>2, <1>3 DEF OutputType
  <1>7. RotationLocks' /\ FlushedSoFar'
    <2>1. \A s \in Recorder!Slots : ~(s < 0)
      BY DEF Recorder!Slots
    <2>2. QED
      BY <1>2, <2>1 DEF RotationLocks, FlushedSoFar
  <1>8. FilesFollow'
    <2>1. fd \in Nat /\ fd <= opened
      BY <1>1, <1>2, BufferAssumption DEF OutputType, OutputInv, FilesFollow
    <2>2. \A f \in Recorder!Files : f > opened' => f > opened
      BY <1>3 DEF Recorder!Files
    <2>3. rotation'.to # Recorder!NoFile =>
            rotation'.to # fd /\ rotation'.to <= opened' /\ file[rotation'.to] = Recorder!EmptyFile
      <3>1. rotation'.to # Recorder!NoFile => rotation'.to \in Recorder!Files /\ rotation'.to > opened
                                     /\ rotation'.to = opened'
        BY <1>2, <1>3 DEF Recorder!Files, Recorder!NoFile
      <3>2. QED
        BY <1>1, <1>3, <2>1, <3>1 DEF OutputInv, FilesFollow
    <2>4. fd <= opened'
      BY <1>3, <2>1
    <2>5. QED
      BY <1>1, <1>2, <2>2, <2>3, <2>4 DEF OutputInv, FilesFollow
  <1>9. TracesAreKept'
    <2>1. rotation.stage # "switch" /\ rotation'.stage # "switch"
      BY <1>2 DEF Recorder!NoRotation
    <2>2. Recorder!EveryEventResolves'
      BY <1>1, <1>2 DEF OutputInv, TracesAreKept, Recorder!EveryEventResolves
    <2>3. QED
      BY <1>1, <1>2, <2>1, <2>2 DEF OutputInv, TracesAreKept
  <1>10. RecordedOnce'
    BY <1>1, <1>2, KeptNow, RecordedRests DEF OutputInv, RecordedOnce
  <1>11. QED
    BY <1>5, <1>6, <1>7, <1>8, <1>9, <1>10 DEF RecorderInvariant, OutputInv

\* The slots of lock_all, and those given back.
LEMMA LockingKeeps ==
  ASSUME RecorderInvariant, Recorder!LockNext \/ Recorder!UnlockNext
  PROVE  RecorderInvariant'
  <1>1. /\ OutputType /\ OutputInv /\ HandlerType /\ HandlerInv
        /\ lock \in [Recorder!Slots -> Holders] /\ rotation \in Rotations /\ rotation.slot \in Recorder!Slots
        /\ rotation.slot \in Nat
    BY LevelAssumption DEF RecorderInvariant, HandlerType, Rotations, Recorder!Slots
  <1>2. HandlerType' /\ HandlerInv'
    BY RotationKeepsHandlers
  <1>3. UNCHANGED <<frames, traces, sampled, buffer, fd, file, recorded, dropped, opened>>
    BY DEF Recorder!LockNext, Recorder!UnlockNext, Recorder!outputVars, Recorder!boundVars
  <1>4. OutputType'
    BY <1>1, <1>3 DEF OutputType
  <1>5. \A s \in Recorder!Slots : s \in 0..(Level - 1) /\ s <= Level - 1 /\ s >= 0
    BY LevelAssumption DEF Recorder!Slots
  <1>6. /\ rotation.stage \in {"lock", "unlock"} /\ rotation'.stage # "switch"
        /\ rotation'.stage \in {"lock", "flush"} => rotation'.to = rotation.to /\ rotation.stage = "lock"
        /\ rotation'.stage # "traces"
    <2>1. CASE Recorder!LockNext
      BY <1>1, <2>1 DEF Recorder!LockNext, Rotations
    <2>2. CASE Recorder!UnlockNext /\ rotation.slot = Level - 1
      BY <1>1, <2>2 DEF Recorder!UnlockNext, Recorder!NoRotation, Rotations
    <2>3. CASE Recorder!UnlockNext /\ rotation.slot # Level - 1
      BY <1>1, <2>3 DEF Recorder!UnlockNext, Rotations
    <2>4. QED
      BY <2>1, <2>2, <2>3
  <1>7. RotationLocks' /\ FlushedSoFar'
    <2>1. CASE Recorder!LockNext /\ rotation.slot = Level - 1
      <3>1. rotation'.stage = "flush" /\ rotation'.slot = 0
        BY <1>1, <2>1 DEF Recorder!LockNext, Rotations
      <3>2. lock' = [lock EXCEPT ![rotation.slot] = Recorder!ByRotation]
            /\ \A s \in Recorder!Slots : s < rotation.slot => lock[s] = Recorder!ByRotation
        BY <1>1, <2>1 DEF Recorder!LockNext, OutputInv, RotationLocks
      <3>3. \A s \in Recorder!Slots : s < rotation.slot \/ s = rotation.slot
        BY <1>5, <2>1, LevelAssumption DEF Recorder!Slots
      <3>4. \A s \in Recorder!Slots : lock'[s] = Recorder!ByRotation
        BY <1>1, <3>2, <3>3
      <3>5. \A s \in Recorder!Slots : ~(s < 0)
        BY DEF Recorder!Slots
      <3>6. QED
        BY <3>1, <3>4, <3>5 DEF RotationLocks, FlushedSoFar
    <2>2. CASE Recorder!LockNext /\ rotation.slot # Level - 1
      <3>1. rotation'.stage = "lock" /\ rotation'.slot = rotation.slot + 1
        BY <1>1, <2>2 DEF Recorder!LockNext, Rotations
      <3>2. lock' = [lock EXCEPT ![rotation.slot] = Recorder!ByRotation]
            /\ \A s \in Recorder!Slots : s < rotation.slot => lock[s] = Recorder!ByRotation
        BY <1>1, <2>2 DEF Recorder!LockNext, OutputInv, RotationLocks
      <3>3. \A s \in Recorder!Slots : s < rotation.slot + 1 => s < rotation.slot \/ s = rotation.slot
        BY <1>1 DEF Recorder!Slots
      <3>4. \A s \in Recorder!Slots : s < rotation'.slot => lock'[s] = Recorder!ByRotation
        BY <1>1, <3>1, <3>2, <3>3
      <3>5. QED
        BY <3>1, <3>4 DEF RotationLocks, FlushedSoFar
    <2>3. CASE Recorder!UnlockNext
      <3>1. lock' = [lock EXCEPT ![rotation.slot] = Recorder!Unlocked]
            /\ \A s \in Recorder!Slots : s >= rotation.slot => lock[s] = Recorder!ByRotation
        BY <1>1, <2>3 DEF Recorder!UnlockNext, OutputInv, RotationLocks
      <3>2. \/ rotation'.stage = "none"
            \/ rotation'.stage = "unlock" /\ rotation'.slot = rotation.slot + 1
        BY <1>1, <2>3 DEF Recorder!UnlockNext, Recorder!NoRotation, Rotations
      <3>3. \A s \in Recorder!Slots : s >= rotation.slot + 1 => s >= rotation.slot /\ s # rotation.slot
        BY <1>1 DEF Recorder!Slots
      <3>4. \A s \in Recorder!Slots : s >= rotation.slot + 1 => lock'[s] = Recorder!ByRotation
        BY <1>1, <3>1, <3>3
      <3>5. QED
        BY <3>2, <3>4 DEF RotationLocks, FlushedSoFar
    <2>4. QED
      BY <2>1, <2>2, <2>3
  <1>8. FilesFollow'
    BY <1>1, <1>3, <1>6 DEF OutputInv, FilesFollow
  <1>9. TracesAreKept'
    <2>1. Recorder!EveryEventResolves'
      BY <1>1, <1>3 DEF OutputInv, TracesAreKept, Recorder!EveryEventResolves
    <2>2. QED
      BY <1>1, <1>3, <1>6, <2>1 DEF OutputInv, TracesAreKept
  <1>10. RecordedOnce'
    BY <1>1, <1>3, KeptNow, RecordedRests DEF OutputInv, RecordedOnce
  <1>11. QED
    BY <1>2, <1>4, <1>7, <1>8, <1>9, <1>10 DEF RecorderInvariant, OutputInv

\* Every buffer is flushed in its turn, under all locks.
LEMMA FlushNextKeeps ==
  ASSUME RecorderInvariant, Recorder!FlushNext
  PROVE  RecorderInvariant'
  <1> DEFINE s == rotation.slot
  <1>1. /\ OutputType /\ OutputInv /\ HandlerType /\ HandlerInv
        /\ buffer \in [Recorder!Slots -> Seq(Events)] /\ rotation \in Rotations /\ s \in Recorder!Slots /\ s \in Nat
    <2>1. /\ OutputType /\ OutputInv /\ HandlerType /\ HandlerInv
          /\ buffer \in [Recorder!Slots -> Seq(Events)] /\ rotation \in Rotations
      BY DEF RecorderInvariant, HandlerType, OutputType
    <2>2. s \in Recorder!Slots
      BY <2>1 DEF Rotations
    <2>3. s \in Nat
      BY <2>2, LevelAssumption DEF Recorder!Slots
    <2>4. QED
      BY <2>1, <2>2, <2>3
  <1>2. /\ rotation.stage = "flush" /\ file' = Recorder!Flushed(file, buffer[s])
        /\ dropped' = Recorder!Dropped(buffer[s]) /\ buffer' = [buffer EXCEPT ![s] = <<>>]
        /\ UNCHANGED <<frames, lock, context, traces, fd, sampled, quota, recorded, opened, skipped>>
    BY DEF Recorder!FlushNext, Recorder!boundVars
  <1>3. /\ rotation' \in Rotations /\ rotation'.to = rotation.to
        /\ \/ rotation'.stage = "traces" /\ s = Level - 1
           \/ rotation'.stage = "flush" /\ rotation'.slot = s + 1
    <2>1. s # Level - 1 => s + 1 \in Recorder!Slots
      BY <1>1, LevelAssumption DEF Recorder!Slots
    <2>2. QED
      BY <1>1, <1>2, <2>1 DEF Recorder!FlushNext, Rotations
  <1> HIDE DEF s
  <1>4. HandlerType' /\ HandlerInv'
    BY <1>1, <1>2, <1>3, NothingKeeps
  <1>5. buffer' \in [Recorder!Slots -> Seq(Events)] /\ buffer'[s] = <<>>
        /\ \A r \in Recorder!Slots \ {s} : buffer'[r] = buffer[r]
    BY <1>1, <1>2
  <1>6. OutputType'
    BY <1>1, <1>2, <1>5, FlushedFacts DEF OutputType
  <1>7. RotationLocks'
    BY <1>1, <1>2, <1>3 DEF OutputInv, RotationLocks
  <1>8. FlushedSoFar'
    <2>1. \A r \in Recorder!Slots : r < s => buffer[r] = <<>>
      BY <1>1, <1>2 DEF OutputInv, FlushedSoFar, s
    <2>2. \A r \in Recorder!Slots : r < s + 1 => buffer'[r] = <<>>
      <3>1. \A r \in Recorder!Slots : r < s + 1 => r = s \/ r < s
        BY <1>1 DEF Recorder!Slots
      <3>2. QED
        BY <1>5, <2>1, <3>1
    <2>3. s = Level - 1 => \A r \in Recorder!Slots : r < s + 1
      BY LevelAssumption DEF Recorder!Slots
    <2>4. QED
      BY <1>3, <2>2, <2>3 DEF FlushedSoFar
  <1>9. /\ FilesFollow' /\ Recorder!EveryEventResolves'
        /\ fd # Recorder!NoFile => \A e \in Recorder!ToSet(file'[fd].events) : e.trace \in traces \cup {Recorder!NoTrace}
    BY <1>1, <1>2, <1>3, FlushOrder
  <1>10. TracesAreKept'
    <2>1. Recorder!ToSet(<<>>) = {}
      BY DEF Recorder!ToSet
    <2>2. \A r \in Recorder!Slots : \A e \in Recorder!ToSet(buffer'[r]) : e.trace \in traces \cup {Recorder!NoTrace}
      BY <1>1, <1>5, <2>1 DEF OutputInv, TracesAreKept
    <2>3. \A t \in Threads : \A d \in DOMAIN frames[t] :
            frames[t][d].stage = "record" => frames[t][d].trace \in traces \cup {Recorder!NoTrace}
      BY <1>1 DEF OutputInv, TracesAreKept
    <2>4. QED
      BY <1>2, <1>3, <1>9, <2>2, <2>3 DEF TracesAreKept
  <1>11. RecordedOnce'
    <2>1. KeptOnce(buffer, file, dropped, recorded) /\ RecordedOnce
      BY <1>1, KeptNow DEF OutputInv, RecordedOnce
    <2>2. KeptOnce(buffer', file', dropped', recorded)
      BY <1>1, <1>2, <2>1, FlushKeeps
    <2>3. QED
      BY <1>2, <2>1, <2>2, RecordedRests
  <1>12. QED
    BY <1>4, <1>6, <1>7, <1>8, <1>9, <1>10, <1>11 DEF RecorderInvariant, OutputInv

\* A change of the files that leaves their events where they are.
LEMMA SameEvents ==
  ASSUME NEW were, NEW are, KeptOnce(buffer, were, dropped, recorded),
         \A f \in Recorder!Files : are[f].events = were[f].events
  PROVE  KeptOnce(buffer, are, dropped, recorded)
  <1>1. \A f \in Recorder!Files : Recorder!ToSet(are[f].events) = Recorder!ToSet(were[f].events)
    OBVIOUS
  <1>2. UNION {Recorder!ToSet(are[f].events) : f \in Recorder!Files} = UNION {Recorder!ToSet(were[f].events) : f \in Recorder!Files}
    BY <1>1
  <1>3. QED
    BY <1>1, <1>2 DEF KeptOnce

\* The table of traces goes into the file that names them.
LEMMA WriteTracesKeeps ==
  ASSUME RecorderInvariant, Recorder!WriteTraces
  PROVE  RecorderInvariant'
  <1>1. /\ OutputType /\ OutputInv /\ HandlerType /\ HandlerInv
        /\ file \in [Recorder!Files -> DataFiles] /\ rotation \in Rotations /\ traces \in SUBSET Taken
        /\ frames \in [Threads -> Seq(Handlers)]
    BY DEF RecorderInvariant, HandlerType, OutputType
  <1>2. /\ rotation.stage = "traces" /\ traces' = {} /\ rotation' = [rotation EXCEPT !.stage = "switch"]
        /\ file' = [file EXCEPT ![fd].traces = traces]
        /\ UNCHANGED <<frames, lock, context, buffer, fd, sampled, quota, recorded, dropped, opened,
                       skipped>>
    BY DEF Recorder!WriteTraces, Recorder!boundVars
  <1>3. rotation' \in Rotations /\ rotation'.stage = "switch" /\ rotation'.to = rotation.to
    BY <1>1, <1>2 DEF Rotations
  <1>4. HandlerType' /\ HandlerInv'
    BY <1>1, <1>2, <1>3, NothingKeeps
  <1>5. fd \in Recorder!Files /\ fd # Recorder!NoFile /\ fd <= opened /\ file[fd].header /\ ~file[fd].patched
    BY <1>1, <1>2, BufferAssumption
    DEF OutputType, OutputInv, FilesFollow, Recorder!Files, Recorder!NoFile
  <1> DEFINE g == [file[fd] EXCEPT !.traces = traces]
  <1>6. file[fd] \in DataFiles
    BY <1>1, <1>5
  <1>7. g \in DataFiles /\ g.traces = traces /\ g.events = file[fd].events
        /\ g.header = file[fd].header /\ g.patched = file[fd].patched
    BY <1>1, <1>6 DEF DataFiles
  <1>8. file' = [file EXCEPT ![fd] = g]
    BY <1>2
  <1> HIDE DEF g
  <1>9. file' \in [Recorder!Files -> DataFiles] /\ file'[fd] = g
        /\ (\A f \in Recorder!Files \ {fd} : file'[f] = file[f]) /\ \A n : n # fd => file'[n] = file[n]
    BY <1>1, <1>5, <1>7, <1>8
  <1>10. OutputType'
    BY <1>1, <1>2, <1>9 DEF OutputType
  <1>11. RotationLocks' /\ FlushedSoFar'
    BY <1>1, <1>2, <1>3 DEF OutputInv, RotationLocks, FlushedSoFar
  <1>12. FilesFollow'
    <2>1. \A f \in Recorder!Files : f > opened => f # fd
      BY <1>1, <1>5 DEF Recorder!Files, OutputType
    <2>2. \A f \in Recorder!Files : f > opened => file'[f] = Recorder!EmptyFile
      BY <1>1, <1>9, <2>1 DEF OutputInv, FilesFollow
    <2>3. rotation.to # Recorder!NoFile =>
            rotation.to # fd /\ rotation.to <= opened /\ file'[rotation.to] = Recorder!EmptyFile
      BY <1>1, <1>2, <1>9 DEF OutputInv, FilesFollow
    <2>4. file'[fd].header /\ ~file'[fd].patched
      BY <1>5, <1>7, <1>9
    <2>5. QED
      BY <1>2, <1>3, <1>5, <2>2, <2>3, <2>4 DEF FilesFollow
  <1>13. TracesAreKept'
    <2>1. \A s \in Recorder!Slots : buffer[s] = <<>> /\ lock[s] = Recorder!ByRotation
      BY <1>1, <1>2 DEF OutputInv, FlushedSoFar, RotationLocks
    <2>2. Recorder!ToSet(<<>>) = {}
      BY DEF Recorder!ToSet
    <2>3. ASSUME NEW t \in Threads, NEW d \in DOMAIN frames[t] PROVE frames[t][d].stage # "record"
      <3>1. frames[t][d].slot \in Recorder!Slots
        <4>1. frames[t][d] \in Handlers
          BY <1>1
        <4>2. QED
          BY <4>1 DEF Handlers
      <3>2. Recorder!ByRotation.thread # t
        BY ThreadAssumption DEF Recorder!ByRotation
      <3>3. QED
        BY <1>1, <2>1, <3>1, <3>2 DEF HandlerInv, HoldersHaveLocks, Holding, Stages
    <2>4. \A e \in Recorder!ToSet(file[fd].events) : e.trace \in {Recorder!NoTrace} \cup traces
      BY <1>1, <1>2, <1>5 DEF OutputInv, TracesAreKept
    <2>5. Recorder!EveryEventResolves'
      <3>1. \A f \in Recorder!Files : file'[f].patched => file'[f] = file[f]
        BY <1>5, <1>7, <1>9
      <3>2. QED
        BY <1>1, <3>1 DEF OutputInv, TracesAreKept, Recorder!EveryEventResolves
    <2>6. \A e \in Recorder!ToSet(file'[fd].events) : e.trace \in {Recorder!NoTrace} \cup file'[fd].traces
      BY <1>7, <1>9, <2>4
    <2>7. QED
      BY <1>2, <1>3, <2>1, <2>2, <2>3, <2>5, <2>6 DEF TracesAreKept
  <1>14. RecordedOnce'
    <2>1. KeptOnce(buffer, file, dropped, recorded) /\ RecordedOnce
      BY <1>1, KeptNow DEF OutputInv, RecordedOnce
    <2>2. \A f \in Recorder!Files : file'[f].events = file[f].events
      BY <1>7, <1>9
    <2>3. KeptOnce(buffer', file', dropped', recorded)
      BY <1>2, <2>1, <2>2, SameEvents
    <2>4. QED
      BY <1>2, <2>1, <2>3, RecordedRests
  <1>15. QED
    BY <1>4, <1>10, <1>11, <1>12, <1>13, <1>14 DEF RecorderInvariant, OutputInv

\* The file is closed with its header patched, and the next one begins.
LEMMA SwitchFileKeeps ==
  ASSUME RecorderInvariant, Recorder!SwitchFile
  PROVE  RecorderInvariant'
  <1> DEFINE to == rotation.to
  <1>1. /\ OutputType /\ OutputInv /\ HandlerType /\ HandlerInv
        /\ file \in [Recorder!Files -> DataFiles] /\ rotation \in Rotations /\ opened \in 0..MaxFiles
    BY DEF RecorderInvariant, HandlerType, OutputType
  <1>2. /\ rotation.stage = "switch" /\ fd' = to
        /\ rotation' = [rotation EXCEPT !.stage = "unlock", !.slot = 0]
        /\ file' = [f \in DOMAIN file |->
             CASE f = fd -> [file[f] EXCEPT !.patched = TRUE]
               [] f = to -> [file[f] EXCEPT !.header = TRUE]
               [] OTHER -> file[f]]
        /\ UNCHANGED <<frames, lock, context, buffer, traces, sampled, quota, recorded, dropped,
                       opened, skipped>>
    BY DEF Recorder!SwitchFile, Recorder!boundVars
  <1>3. rotation' \in Rotations /\ rotation'.stage = "unlock" /\ rotation'.slot = 0
    BY <1>1, <1>2, SlotFacts DEF Rotations
  <1>4. HandlerType' /\ HandlerInv'
    BY <1>1, <1>2, <1>3, NothingKeeps
  <1>5. /\ fd \in Recorder!Files /\ fd # Recorder!NoFile /\ fd <= opened /\ file[fd].header /\ ~file[fd].patched
        /\ to \in 0..MaxFiles
        /\ to # Recorder!NoFile => to # fd /\ to <= opened /\ file[to] = Recorder!EmptyFile /\ to \in Recorder!Files
    BY <1>1, <1>2, BufferAssumption
    DEF OutputType, OutputInv, FilesFollow, Recorder!Files, Recorder!NoFile, Rotations
  <1> HIDE DEF to
  <1> DEFINE Next1(f) == CASE f = fd -> [file[f] EXCEPT !.patched = TRUE]
                           [] f = to -> [file[f] EXCEPT !.header = TRUE]
                           [] OTHER -> file[f]
  <1>6. \A f \in Recorder!Files : /\ Next1(f) \in DataFiles /\ Next1(f).events = file[f].events
                                  /\ Next1(f).traces = file[f].traces
                                  /\ f # fd /\ Next1(f).patched => file[f].patched
                                  /\ (file[f].header => Next1(f).header) /\ (f = to /\ f # fd => Next1(f).header)
                                  /\ f # fd /\ f # to => Next1(f) = file[f]
    <2> SUFFICES ASSUME NEW f \in Recorder!Files
                 PROVE  /\ Next1(f) \in DataFiles /\ Next1(f).events = file[f].events
                        /\ Next1(f).traces = file[f].traces
                        /\ f # fd /\ Next1(f).patched => file[f].patched
                        /\ (file[f].header => Next1(f).header) /\ (f = to /\ f # fd => Next1(f).header)
                        /\ f # fd /\ f # to => Next1(f) = file[f]
      OBVIOUS
    <2>1. file[f] \in DataFiles
      BY <1>1
    <2>2. CASE f = fd
      BY <1>5, <2>1, <2>2 DEF DataFiles
    <2>3. CASE f # fd /\ f = to
      BY <2>1, <2>3 DEF DataFiles
    <2>4. CASE f # fd /\ f # to
      BY <2>1, <2>4 DEF DataFiles
    <2>5. QED
      BY <2>2, <2>3, <2>4
  <1>7. file' = [f \in Recorder!Files |-> Next1(f)]
    BY <1>1, <1>2
  <1> HIDE DEF Next1
  <1>8. file' \in [Recorder!Files -> DataFiles] /\ \A f \in Recorder!Files : file'[f] = Next1(f)
    BY <1>6, <1>7
  <1>9. OutputType'
    BY <1>1, <1>2, <1>5, <1>8 DEF OutputType
  <1>10. RotationLocks' /\ FlushedSoFar'
    BY <1>1, <1>2, <1>3 DEF OutputInv, RotationLocks, FlushedSoFar
  <1>11. FilesFollow'
    <2>1. \A f \in Recorder!Files : f > opened => f # fd /\ (to # Recorder!NoFile => f # to)
      BY <1>1, <1>5 DEF Recorder!Files
    <2>2. \A f \in Recorder!Files : f # Recorder!NoFile
      BY DEF Recorder!Files, Recorder!NoFile
    <2>3. \A f \in Recorder!Files : f > opened => file'[f] = Recorder!EmptyFile
      BY <1>1, <1>6, <1>8, <2>1, <2>2 DEF OutputInv, FilesFollow
    <2>4. to # Recorder!NoFile => to <= opened /\ file'[to].header /\ ~file'[to].patched
      <3> SUFFICES ASSUME to # Recorder!NoFile
                   PROVE to <= opened /\ file'[to].header /\ ~file'[to].patched
        OBVIOUS
      <3>1. to \in Recorder!Files /\ to # fd /\ to <= opened /\ file[to] = Recorder!EmptyFile
        BY <1>5
      <3>2. ~file[to].patched
        BY <3>1 DEF Recorder!EmptyFile
      <3>3. Next1(to).header /\ ~Next1(to).patched
        BY <1>6, <3>1, <3>2
      <3>4. QED
        BY <1>8, <3>1, <3>3
    <2>5. QED
      BY <1>2, <1>3, <2>3, <2>4 DEF FilesFollow
  <1>12. TracesAreKept'
    <2>1. to # Recorder!NoFile => Recorder!ToSet(file'[to].events) = {}
      BY <1>5, <1>6, <1>8 DEF Recorder!EmptyFile, Recorder!ToSet
    <2>2. \A e \in Recorder!ToSet(file[fd].events) : e.trace \in {Recorder!NoTrace} \cup file[fd].traces
      BY <1>1, <1>2, <1>5 DEF OutputInv, TracesAreKept
    <2>3. Recorder!EveryEventResolves'
      <3> SUFFICES ASSUME NEW f \in Recorder!Files, file'[f].patched
                   PROVE  /\ file'[f].header
                          /\ \A e \in Recorder!ToSet(file'[f].events) : e.trace \in file'[f].traces \cup {Recorder!NoTrace}
        BY DEF Recorder!EveryEventResolves
      <3>1. CASE f = fd
        BY <1>5, <1>6, <1>8, <2>2, <3>1
      <3>2. CASE f # fd
        <4>1. file[f].patched
          BY <1>6, <1>8, <3>2
        <4>2. /\ file[f].header
              /\ \A e \in Recorder!ToSet(file[f].events) : e.trace \in file[f].traces \cup {Recorder!NoTrace}
          BY <1>1, <4>1 DEF OutputInv, TracesAreKept, Recorder!EveryEventResolves
        <4>3. QED
          BY <1>6, <1>8, <4>2
      <3>3. QED
        BY <3>1, <3>2
    <2>4. /\ \A s \in Recorder!Slots : \A e \in Recorder!ToSet(buffer[s]) : e.trace \in traces \cup {Recorder!NoTrace}
          /\ \A t \in Threads : \A d \in DOMAIN frames[t] :
               frames[t][d].stage = "record" => frames[t][d].trace \in traces \cup {Recorder!NoTrace}
      BY <1>1 DEF OutputInv, TracesAreKept
    <2>5. QED
      BY <1>2, <1>3, <2>1, <2>3, <2>4 DEF TracesAreKept
  <1>13. RecordedOnce'
    <2>1. KeptOnce(buffer, file, dropped, recorded) /\ RecordedOnce
      BY <1>1, KeptNow DEF OutputInv, RecordedOnce
    <2>2. \A f \in Recorder!Files : file'[f].events = file[f].events
      BY <1>6, <1>8
    <2>3. KeptOnce(buffer', file', dropped', recorded)
      BY <1>2, <2>1, <2>2, SameEvents
    <2>4. QED
      BY <1>2, <2>1, <2>3, RecordedRests
  <1>14. QED
    BY <1>4, <1>9, <1>10, <1>11, <1>12, <1>13 DEF RecorderInvariant, OutputInv
-----------------------------------------------------------------------------
(* Every step.                                                             *)

LEMMA TryLockOutput ==
  ASSUME RecorderInvariant, NEW t \in Threads, Recorder!TryLock(t)
  PROVE  OutputType' /\ OutputInv'
  <1> DEFINE h == Recorder!Frame(t)
             s == Recorder!ProbedSlot(t, h.probe)
  <1>1. /\ frames \in [Threads -> Seq(Handlers)] /\ lock \in [Recorder!Slots -> Holders]
        /\ traces \in SUBSET Taken
    BY DEF RecorderInvariant, HandlerType, OutputType
  <1>2. /\ Recorder!Depth(t) > 0 /\ h.stage = "enter" /\ h \in Handlers
    BY <1>1, TopFacts DEF Recorder!TryLock, Recorder!Runs
  <1>3. s \in Recorder!Slots
    BY <1>2, SlotFacts DEF Handlers
  <1>4. UNCHANGED <<traces, buffer, fd, file, opened, recorded, dropped, rotation, sampled>>
    BY DEF Recorder!TryLock, Recorder!outputVars, Recorder!boundVars
  <1>5. CASE lock[s] = Recorder!Unlocked
    <2> DEFINE f == [h EXCEPT !.stage = "protect", !.slot = s]
    <2>1. lock' = [lock EXCEPT ![s] = Recorder!Owner(t)] /\ Recorder!Set(t, f)
      BY <1>5 DEF Recorder!TryLock
    <2>2. f \in Handlers /\ f.id = h.id /\ f.stage = "protect"
      BY <1>2, <1>3 DEF Handlers, Stages
    <2>3. Recorder!Unlocked # Recorder!ByRotation
      BY DEF Recorder!Unlocked, Recorder!ByRotation
    <2> HIDE DEF f, s
    <2>4. \A r \in Recorder!Slots : lock[r] = Recorder!ByRotation => lock'[r] = Recorder!ByRotation
      BY <1>1, <1>5, <2>1, <2>3
    <2>5. QED
      BY <1>1, <1>2, <1>4, <2>1, <2>2, <2>4, SetOutput
  <1>6. CASE lock[s] # Recorder!Unlocked /\ h.probe < 2
    <2> DEFINE f == [h EXCEPT !.probe = @ + 1]
    <2>1. UNCHANGED lock /\ Recorder!Set(t, f)
      BY <1>6 DEF Recorder!TryLock
    <2>2. f \in Handlers /\ f.id = h.id /\ f.stage = "enter"
      BY <1>2, <1>6 DEF Handlers
    <2> HIDE DEF f, s
    <2>3. QED
      BY <1>1, <1>2, <1>4, <2>1, <2>2, SetOutput
  <1>7. CASE lock[s] # Recorder!Unlocked /\ ~(h.probe < 2)
    <2>1. UNCHANGED lock /\ Recorder!Return(t)
      BY <1>7 DEF Recorder!TryLock
    <2>2. \A u \in Threads : \A d \in DOMAIN frames'[u] :
            d \in DOMAIN frames[u] /\ frames'[u][d] = frames[u][d]
      BY <1>1, <1>2, <2>1, ReturnFacts
    <2>3. QED
      BY <1>4, <2>1, <2>2, LeaveOutput
  <1>8. QED
    BY <1>5, <1>6, <1>7

LEMMA ProtectOutput ==
  ASSUME RecorderInvariant, NEW t \in Threads, Recorder!Protect(t)
  PROVE  OutputType' /\ OutputInv'
  <1> DEFINE h == Recorder!Frame(t)
             f == [h EXCEPT !.stage = IF h.kind = "free" THEN "record" ELSE "trace"]
  <1>1. frames \in [Threads -> Seq(Handlers)] /\ traces \in SUBSET Taken
    BY DEF RecorderInvariant, HandlerType, OutputType
  <1>2. /\ Recorder!Depth(t) > 0 /\ h.stage = "protect" /\ h \in Handlers
        /\ Recorder!Depth(t) \in DOMAIN frames[t] /\ h = frames[t][Recorder!Depth(t)]
    BY <1>1, TopFacts DEF Recorder!Protect, Recorder!Runs
  <1>3. Recorder!Set(t, f) /\ UNCHANGED <<lock, traces, buffer, fd, file, opened, recorded, dropped,
                                          rotation, sampled>>
    BY DEF Recorder!Protect, Recorder!outputVars, Recorder!boundVars
  <1>4. f \in Handlers /\ f.id = h.id /\ f.trace = h.trace
    BY <1>2 DEF Handlers, Stages
  <1>5. h.trace = Recorder!NoTrace
    BY <1>2 DEF RecorderInvariant, HandlerInv, HandlersNest
  <1> HIDE DEF f
  <1>6. QED
    BY <1>1, <1>2, <1>3, <1>4, <1>5, SetOutput

\* The table is not cleared while a handler takes a trace: its slot is not rotate_to's.
LEMMA TakeTraceOutput ==
  ASSUME RecorderInvariant, NEW t \in Threads, NEW tr \in Taken, Recorder!TakeTrace(t, tr)
  PROVE  OutputType' /\ OutputInv'
  <1> DEFINE h == Recorder!Frame(t)
             f == [h EXCEPT !.stage = "record", !.trace = tr]
  <1>1. frames \in [Threads -> Seq(Handlers)] /\ traces \in SUBSET Taken
    BY DEF RecorderInvariant, HandlerType, OutputType
  <1>2. /\ Recorder!Depth(t) > 0 /\ h.stage = "trace" /\ h \in Handlers
        /\ Recorder!Depth(t) \in DOMAIN frames[t] /\ h = frames[t][Recorder!Depth(t)]
    BY <1>1, TopFacts DEF Recorder!TakeTrace, Recorder!Runs
  <1>3. /\ Recorder!Set(t, f) /\ traces' = traces \cup {tr}
        /\ UNCHANGED <<lock, buffer, fd, file, opened, recorded, dropped, rotation, sampled>>
    BY DEF Recorder!TakeTrace, Recorder!outputVars, Recorder!boundVars
  <1>4. f \in Handlers /\ f.id = h.id /\ f.stage = "record" /\ f.trace = tr
    BY <1>2 DEF Handlers, Stages
  <1>5. rotation.stage # "switch"
    <2>1. h.slot \in Recorder!Slots /\ lock[h.slot].thread = t
      BY <1>2 DEF Handlers, RecorderInvariant, HandlerInv, HoldersHaveLocks, Holding, Stages
    <2>2. lock[h.slot] # Recorder!ByRotation
      BY <2>1, ThreadAssumption DEF Recorder!ByRotation
    <2>3. QED
      BY <2>1, <2>2 DEF RecorderInvariant, OutputInv, RotationLocks
  <1> HIDE DEF f
  <1>6. QED
    BY <1>1, <1>2, <1>3, <1>4, <1>5, SetOutput

LEMMA UnprotectOutput ==
  ASSUME RecorderInvariant, NEW t \in Threads, Recorder!Unprotect(t)
  PROVE  OutputType' /\ OutputInv'
  <1> DEFINE h == Recorder!Frame(t)
             f == [h EXCEPT !.stage = "unlock"]
  <1>1. frames \in [Threads -> Seq(Handlers)] /\ traces \in SUBSET Taken
    BY DEF RecorderInvariant, HandlerType, OutputType
  <1>2. Recorder!Depth(t) > 0 /\ h.stage = "unprotect" /\ h \in Handlers
    BY <1>1, TopFacts DEF Recorder!Unprotect, Recorder!Runs
  <1>3. Recorder!Set(t, f) /\ UNCHANGED <<lock, traces, buffer, fd, file, opened, recorded, dropped,
                                          rotation, sampled>>
    BY DEF Recorder!Unprotect, Recorder!outputVars, Recorder!boundVars
  <1>4. f \in Handlers /\ f.id = h.id /\ f.stage = "unlock"
    BY <1>2 DEF Handlers, Stages
  <1> HIDE DEF f
  <1>5. QED
    BY <1>1, <1>2, <1>3, <1>4, SetOutput

LEMMA UnlockOutput ==
  ASSUME RecorderInvariant, NEW t \in Threads, Recorder!Unlock(t)
  PROVE  OutputType' /\ OutputInv'
  <1> DEFINE h == Recorder!Frame(t)
  <1>1. frames \in [Threads -> Seq(Handlers)] /\ lock \in [Recorder!Slots -> Holders]
    BY DEF RecorderInvariant, HandlerType
  <1>2. /\ Recorder!Depth(t) > 0 /\ h.stage = "unlock" /\ h \in Handlers
        /\ Recorder!Depth(t) \in DOMAIN frames[t] /\ h = frames[t][Recorder!Depth(t)]
    BY <1>1, TopFacts DEF Recorder!Unlock, Recorder!Runs
  <1>3. /\ Recorder!Return(t) /\ lock' = [lock EXCEPT ![h.slot] = Recorder!Unlocked]
        /\ UNCHANGED <<traces, buffer, fd, file, opened, recorded, dropped, rotation, sampled>>
    BY DEF Recorder!Unlock, Recorder!outputVars, Recorder!boundVars
  <1>4. lock[h.slot] # Recorder!ByRotation
    <2>1. lock[h.slot].thread = t
      BY <1>2 DEF RecorderInvariant, HandlerInv, HoldersHaveLocks, Holding, Stages
    <2>2. QED
      BY <2>1, ThreadAssumption DEF Recorder!ByRotation
  <1> HIDE DEF h
  <1>5. \A r \in Recorder!Slots : lock[r] = Recorder!ByRotation => lock'[r] = Recorder!ByRotation
    BY <1>1, <1>3, <1>4
  <1>6. \A u \in Threads : \A d \in DOMAIN frames'[u] :
          d \in DOMAIN frames[u] /\ frames'[u][d] = frames[u][d]
    BY <1>1, <1>2, <1>3, ReturnFacts
  <1>7. QED
    BY <1>3, <1>5, <1>6, LeaveOutput

LEMMA FaultOutput ==
  ASSUME RecorderInvariant, NEW t \in Threads, Recorder!Fault(t)
  PROVE  OutputType' /\ OutputInv'
  <1> DEFINE h == Recorder!Frame(t)
             f == [h EXCEPT !.stage = "stuck"]
             found == {d \in 1..Recorder!Depth(t) : frames[t][d].id = context[Recorder!CatchingSlot(t)].frame}
  <1>1. frames \in [Threads -> Seq(Handlers)] /\ traces \in SUBSET Taken
    BY DEF RecorderInvariant, HandlerType, OutputType
  <1>2. Recorder!Depth(t) > 0 /\ h.stage = "trace" /\ h \in Handlers
    BY <1>1, TopFacts DEF Recorder!Fault, Recorder!Runs
  <1>3. UNCHANGED <<lock, traces, buffer, fd, file, opened, recorded, dropped, rotation, sampled>>
    BY DEF Recorder!Fault, Recorder!outputVars
  <1>4. CASE Recorder!ContextSlots(t) = {}
    <2>1. Recorder!Set(t, f)
      BY <1>4 DEF Recorder!Fault
    <2>2. f \in Handlers /\ f.id = h.id /\ f.stage = "stuck"
      BY <1>2 DEF Handlers, Stages
    <2> HIDE DEF f
    <2>3. QED
      BY <1>1, <1>2, <1>3, <2>1, <2>2, SetOutput
  <1>5. CASE Recorder!ContextSlots(t) # {} /\ found = {}
    <2>1. frames' = frames
      BY <1>5 DEF Recorder!Fault
    <2>2. QED
      BY <1>3, <2>1, LeaveOutput
  <1>6. CASE Recorder!ContextSlots(t) # {} /\ found # {}
    <2>1. PICK d \in found : Recorder!JumpTo(t, d)
      <3>1. (CHOOSE x \in found : TRUE) \in found
        BY <1>6
      <3>2. QED
        BY <1>6, <3>1 DEF Recorder!Fault
    <2>2. d \in DOMAIN frames[t] /\ frames[t][d] \in Handlers
      BY <1>1, <2>1 DEF Recorder!Depth
    <2> DEFINE g == [frames[t][d] EXCEPT !.stage = "unlock"]
    <2>3. g \in Handlers /\ g.id = frames[t][d].id /\ g.stage = "unlock"
      BY <2>2 DEF Handlers, Stages
    <2>4. JumpsTo(t, d, g)
      BY <2>1 DEF Recorder!JumpTo, JumpsTo
    <2> HIDE DEF g
    <2>5. /\ frames'[t][d] = g
          /\ \A u \in Threads \ {t} : frames'[u] = frames[u]
          /\ \A u \in Threads : \A e \in DOMAIN frames'[u] :
               e \in DOMAIN frames[u] /\ (u # t \/ e # d => frames'[u][e] = frames[u][e])
      BY <1>1, <2>2, <2>3, <2>4, JumpFacts
    <2>6. \A u \in Threads : \A e \in DOMAIN frames'[u] :
            /\ e \in DOMAIN frames[u]
            /\ \/ frames'[u][e] = frames[u][e]
               \/ frames'[u][e].id = frames[u][e].id /\ frames'[u][e].stage = "unlock"
      BY <2>3, <2>5
    <2>7. QED
      BY <1>3, <2>6, LeaveOutput
  <1>7. QED
    BY <1>4, <1>5, <1>6

\* What a thread does.
LEMMA HandlersKeep ==
  ASSUME RecorderInvariant, NEW t \in Threads,
         \/ \E sort \in {"mem", "free"} : Recorder!Hook(t, sort)
         \/ Recorder!Signal(t) \/ Recorder!TryLock(t) \/ Recorder!Protect(t)
         \/ \E tr \in Taken : Recorder!TakeTrace(t, tr)
         \/ Recorder!Fault(t) \/ Recorder!Record(t) \/ Recorder!Unprotect(t) \/ Recorder!Unlock(t)
  PROVE  RecorderInvariant'
  <1>1. CASE \E sort \in {"mem", "free"} : Recorder!Hook(t, sort)
    <2>1. PICK sort \in Kinds : Recorder!Hook(t, sort)
      BY <1>1 DEF Kinds
    <2>2. /\ Recorder!Interrupted(t, sort) /\ Recorder!Depth(t) = 0
          /\ UNCHANGED <<lock, context, skipped, rotation, quota>>
          /\ UNCHANGED <<lock, traces, buffer, fd, file, opened, recorded, dropped, rotation>>
      BY <2>1 DEF Recorder!Hook, Recorder!outputVars
    <2>3. QED
      BY <2>2, InterruptKeeps, InterruptOutput DEF RecorderInvariant
  <1>2. CASE Recorder!Signal(t)
    <2>1. /\ Recorder!Interrupted(t, "cpu") /\ "cpu" \in Kinds
          /\ Recorder!Depth(t) = 0 \/ (Recorder!Depth(t) = 1 /\ Recorder!Frame(t).stage # "stuck")
          /\ UNCHANGED <<lock, context, skipped, rotation, quota>>
          /\ UNCHANGED <<lock, traces, buffer, fd, file, opened, recorded, dropped, rotation>>
      BY <1>2 DEF Recorder!Signal, Recorder!outputVars, Kinds
    <2>2. QED
      BY <2>1, InterruptKeeps, InterruptOutput DEF RecorderInvariant
  <1>3. CASE Recorder!TryLock(t)
    BY <1>3, TryLockKeeps, TryLockOutput DEF RecorderInvariant
  <1>4. CASE Recorder!Protect(t)
    BY <1>4, ProtectKeeps, ProtectOutput DEF RecorderInvariant
  <1>5. CASE \E tr \in Taken : Recorder!TakeTrace(t, tr)
    BY <1>5, TakeTraceKeeps, TakeTraceOutput DEF RecorderInvariant
  <1>6. CASE Recorder!Fault(t)
    BY <1>6, FaultKeeps, FaultOutput DEF RecorderInvariant
  <1>7. CASE Recorder!Record(t)
    BY <1>7, RecordKeeps, RecordOutput DEF RecorderInvariant
  <1>8. CASE Recorder!Unprotect(t)
    BY <1>8, UnprotectKeeps, UnprotectOutput DEF RecorderInvariant
  <1>9. CASE Recorder!Unlock(t)
    BY <1>9, UnlockKeeps, UnlockOutput DEF RecorderInvariant
  <1>10. QED
    BY <1>1, <1>2, <1>3, <1>4, <1>5, <1>6, <1>7, <1>8, <1>9

LEMMA RecorderSteps ==
  ASSUME RecorderInvariant, Recorder!Next
  PROVE  RecorderInvariant'
  <1>1. quota \in Quotas /\ quota.threads \subseteq Threads /\ quota.traces \subseteq Taken
    BY QuotaAssumption DEF RecorderInvariant, HandlerType, Taken
  <1>2. ASSUME NEW t \in quota.threads,
               \/ \E sort \in {"mem", "free"} : Recorder!Hook(t, sort)
               \/ Recorder!Signal(t) \/ Recorder!TryLock(t) \/ Recorder!Protect(t)
               \/ \E tr \in quota.traces : Recorder!TakeTrace(t, tr)
               \/ Recorder!Fault(t) \/ Recorder!Record(t) \/ Recorder!Unprotect(t) \/ Recorder!Unlock(t)
        PROVE  RecorderInvariant'
    <2>1. t \in Threads /\ ((\E tr \in quota.traces : Recorder!TakeTrace(t, tr))
                              => \E tr \in Taken : Recorder!TakeTrace(t, tr))
      BY <1>1
    <2>2. QED
      BY <1>2, <2>1, HandlersKeep
  <1>3. QED
    BY <1>2, StartKeeps, RotateKeeps, LockingKeeps, FlushNextKeeps, WriteTracesKeeps,
       SwitchFileKeeps DEF Recorder!Next

LEMMA RecorderRests ==
  ASSUME RecorderInvariant, UNCHANGED recorderVars
  PROVE  RecorderInvariant'
  <1>1. /\ UNCHANGED <<frames, lock, context, buffer, traces, fd, file, rotation>>
        /\ UNCHANGED <<quota, sampled, opened, recorded, dropped, skipped>>
    BY DEF recorderVars
  <1>2. HandlerType' /\ HandlerInv'
    BY <1>1, NothingKeeps DEF RecorderInvariant, HandlerType
  <1>3. \A u \in Threads : \A d \in DOMAIN frames'[u] :
          d \in DOMAIN frames[u] /\ frames'[u][d] = frames[u][d]
    BY <1>1
  <1>4. \A s \in Recorder!Slots : lock[s] = Recorder!ByRotation => lock'[s] = Recorder!ByRotation
    BY <1>1
  <1>5. OutputType' /\ OutputInv'
    BY <1>1, <1>3, <1>4, LeaveOutput
  <1>6. QED
    BY <1>2, <1>5 DEF RecorderInvariant

\* The invariant holds when the recorder is loaded.
LEMMA RecorderStarts ==
  ASSUME NEW q \in Quotas, Recorder!InitWith(q)
  PROVE  RecorderInvariant
  <1>1. /\ frames = [t \in Threads |-> <<>>] /\ lock = [s \in Recorder!Slots |-> Recorder!Unlocked]
        /\ context = [s \in Recorder!Slots |-> Recorder!NoContext] /\ buffer = [s \in Recorder!Slots |-> <<>>]
        /\ traces = {} /\ fd = Recorder!NoFile /\ file = [f \in Recorder!Files |-> Recorder!EmptyFile]
        /\ rotation = Recorder!NoRotation /\ sampled = 0 /\ opened = 0 /\ recorded = {} /\ dropped = {}
        /\ skipped = {} /\ quota = q
    BY DEF Recorder!InitWith
  <1>2. /\ Recorder!Unlocked \in Holders /\ Recorder!NoContext \in Holders /\ Recorder!NoContext.frame = 0
        /\ Recorder!NoRotation \in Rotations /\ Recorder!NoRotation.stage = "none"
    BY SlotFacts, BufferAssumption
    DEF Recorder!Unlocked, Recorder!NoContext, Holders, Recorder!NoRotation, Rotations,
       Recorder!NoFile
  <1>3. Recorder!EmptyFile \in DataFiles /\ ~Recorder!EmptyFile.patched /\ Recorder!EmptyFile.events = <<>>
    BY DEF Recorder!EmptyFile, DataFiles
  <1>4. Recorder!ToSet(<<>>) = {} /\ Recorder!IsInjective(<<>>)
    BY DEF Recorder!ToSet, Recorder!IsInjective
  <1>5. HandlerType
    BY <1>1, <1>2 DEF HandlerType
  <1>6. OutputType
    BY <1>1, <1>3, BufferAssumption DEF OutputType, Recorder!NoFile
  <1>7. \A t \in Threads : frames[t] = <<>> /\ Len(frames[t]) = 0 /\ DOMAIN frames[t] = {}
    BY <1>1
  <1>8. HandlerInv
    <2>1. HandlersNest /\ HoldersHaveLocks
      BY <1>7 DEF HandlersNest, HoldersHaveLocks
    <2>2. LocksHaveHolders /\ ContextsFollow
      BY <1>1, <1>2, <1>7 DEF LocksHaveHolders, ContextsFollow
    <2>3. QED
      BY <2>1, <2>2 DEF HandlerInv
  <1>9. RotationLocks /\ FlushedSoFar /\ FilesFollow
    BY <1>1, <1>2 DEF RotationLocks, FlushedSoFar, FilesFollow
  <1>10. TracesAreKept
    BY <1>1, <1>3, <1>4, <1>7 DEF TracesAreKept, Recorder!EveryEventResolves
  <1>11. RecordedOnce
    <2>1. \A s \in Recorder!Slots : Recorder!ToSet(buffer[s]) = {} /\ Recorder!IsInjective(buffer[s])
      BY <1>1, <1>4
    <2>2. \A f \in Recorder!Files : Recorder!ToSet(file[f].events) = {} /\ Recorder!IsInjective(file[f].events)
      BY <1>1, <1>3, <1>4
    <2>3. /\ UNION {Recorder!ToSet(buffer[s]) : s \in Recorder!Slots} = {}
          /\ UNION {Recorder!ToSet(file[f].events) : f \in Recorder!Files} = {}
      BY <2>1, <2>2
    <2>4. Recorder!EventsAreKeptOnce
      BY <1>1, <2>1, <2>2, <2>3 DEF Recorder!EventsAreKeptOnce
    <2>5. QED
      BY <1>1, <2>4 DEF RecordedOnce
  <1>12. QED
    BY <1>5, <1>6, <1>8, <1>9, <1>10, <1>11 DEF RecorderInvariant, OutputInv

\* A slot that no fault left has one holder, who still runs.
LEMMA HoldersRelease ==
  ASSUME RecorderInvariant
  PROVE  Recorder!SlotsAreReleased
  <1>1. /\ frames \in [Threads -> Seq(Handlers)] /\ HandlerInv /\ OutputInv
    BY DEF RecorderInvariant, HandlerType
  <1>2. rotation.stage \in {"flush", "traces", "switch"} => \A s \in Recorder!Slots : lock[s] = Recorder!ByRotation
    BY <1>1 DEF OutputInv, RotationLocks
  <1> SUFFICES ASSUME NEW s \in Recorder!Slots \ skipped
               PROVE  LET holders == {h \in Threads \X (1..2) :
                                /\ h[2] <= Recorder!Depth(h[1]) /\ frames[h[1]][h[2]].slot = s
                                /\ frames[h[1]][h[2]].stage \notin {"enter", "stuck"}}
                      IN IF lock[s] \in {Recorder!Unlocked, Recorder!ByRotation} THEN holders = {}
                         ELSE \E h \in holders : holders = {h} /\ lock[s].thread = h[1]
                                                 /\ lock[s].frame = frames[h[1]][h[2]].id
    BY <1>2 DEF Recorder!SlotsAreReleased
  <1> DEFINE Holds(t, d) == /\ d <= Recorder!Depth(t) /\ frames[t][d].slot = s
                            /\ frames[t][d].stage \notin {"enter", "stuck"}
             holders == {h \in Threads \X (1..2) : Holds(h[1], h[2])}
  <1>3. \A t \in Threads : /\ DOMAIN frames[t] = 1..Recorder!Depth(t) /\ Recorder!Depth(t) \in Nat /\ Recorder!Depth(t) <= 2
                           /\ \A d \in DOMAIN frames[t] : frames[t][d] \in Handlers
    BY <1>1 DEF Recorder!Depth, HandlerInv, HandlersNest
  <1>4. ASSUME NEW t \in Threads, NEW d \in 1..2
        PROVE  Holds(t, d) <=> /\ d \in DOMAIN frames[t] /\ frames[t][d].slot = s
                               /\ frames[t][d].stage \in Holding
    <2>1. d <= Recorder!Depth(t) <=> d \in DOMAIN frames[t]
      BY <1>3
    <2>2. d \in DOMAIN frames[t] => frames[t][d].stage \in Stages
      BY <1>3 DEF Handlers
    <2>3. QED
      BY <2>1, <2>2 DEF Holding
  <1> HIDE DEF Holds
  <1>5. ASSUME NEW t \in Threads, NEW d \in 1..2, Holds(t, d)
        PROVE  lock[s].thread = t /\ lock[s].frame = frames[t][d].id
    BY <1>1, <1>4, <1>5 DEF HandlerInv, HoldersHaveLocks
  <1>6. CASE lock[s] \in {Recorder!Unlocked, Recorder!ByRotation}
    <2>1. \A t \in Threads : \A d \in 1..2 : ~Holds(t, d)
      BY <1>5, <1>6, ThreadAssumption DEF Recorder!Unlocked, Recorder!ByRotation
    <2>2. holders = {}
      BY <2>1
    <2>3. QED
      BY <1>6, <2>2 DEF Holds
  <1>7. CASE lock[s] \notin {Recorder!Unlocked, Recorder!ByRotation}
    <2>1. PICK t \in Threads : \E d \in DOMAIN frames[t] :
            frames[t][d].slot = s /\ frames[t][d].stage \in Holding
      BY <1>1, <1>7 DEF HandlerInv, LocksHaveHolders
    <2>2. PICK d \in DOMAIN frames[t] : frames[t][d].slot = s /\ frames[t][d].stage \in Holding
      BY <2>1
    <2>3. d \in 1..2 /\ Holds(t, d)
      BY <1>3, <1>4, <2>2
    <2>4. ASSUME NEW u \in Threads, NEW e \in 1..2, Holds(u, e) PROVE u = t /\ e = d
      <3>1. lock[s].thread = u /\ lock[s].frame = frames[u][e].id
            /\ lock[s].thread = t /\ lock[s].frame = frames[t][d].id
        BY <1>5, <2>3, <2>4
      <3>2. e \in DOMAIN frames[u]
        BY <1>4, <2>4
      <3>3. QED
        BY <1>1, <3>1, <3>2 DEF HandlerInv, HandlersNest
    <2>5. holders = {<<t, d>>}
      BY <2>3, <2>4
    <2>6. lock[s].thread = t /\ lock[s].frame = frames[t][d].id
      BY <1>5, <2>3
    <2> DEFINE h == <<t, d>>
    <2>7. h \in holders /\ holders = {h} /\ h[1] = t /\ h[2] = d
      BY <2>5
    <2> HIDE DEF h
    <2>8. QED
      BY <1>7, <2>6, <2>7 DEF Holds
  <1>8. QED
    BY <1>6, <1>7

-----------------------------------------------------------------------------
(* The recorder among the injected parts.                                  *)

\* Every step of every part keeps the invariant.
LEMMA NextKeepsRecorder == RecorderInvariant /\ [Next]_vars => RecorderInvariant'
  <1> SUFFICES ASSUME RecorderInvariant, [Next]_vars PROVE RecorderInvariant'
    OBVIOUS
  <1>1. CASE RecorderNext
    BY <1>1, RecorderSteps DEF RecorderNext
  <1>2. CASE UNCHANGED recorderVars
    BY <1>2, RecorderRests
  <1>3. QED
    BY <1>1, <1>2 DEF Next, vars, AllocNext, StorageNext, HooksNext, TracerNext, DwarfNext,
                      SymbolsNext, SamplerNext, SiteNext, LauncherNext

\* It holds at the start, whichever part is exercised.
LEMMA InitRecorder ==
  ASSUME Quotas # {}, Init
  PROVE  RecorderInvariant
  <1>1. (CHOOSE q \in Quotas : TRUE) \in Quotas
    OBVIOUS
  <1>2. \E q \in Quotas : Recorder!InitWith(q)
    BY <1>1 DEF Init, Recorder!Init
  <1>3. QED
    BY <1>2, RecorderStarts

\* The invariant is what RecorderIsSound says and more.
LEMMA InvariantIsEnough == RecorderInvariant => RecorderIsSound
  BY HoldersRelease
  DEF RecorderIsSound, RecorderInvariant, OutputInv, TracesAreKept, RecordedOnce

(* pyki's recorder writes or drops every event once, each file resolves the traces its
   events name, although handlers outlive rotations and the collectors, and a slot has one
   holder that still runs unless a fault jumped over it: the property RecorderIsSound of the
   run injected_code, for any number of threads, slots, samples, faults and files. *)
THEOREM EventsAreRecordedOnce == Spec => []RecorderIsSound
  <1>1. Init => RecorderInvariant
    BY InitRecorder, QuotaAssumption
  <1>2. RecorderInvariant /\ [Next]_vars => RecorderInvariant'
    BY NextKeepsRecorder
  <1>3. RecorderInvariant => RecorderIsSound
    BY InvariantIsEnough
  <1>4. QED
    BY <1>1, <1>2, <1>3, PTL DEF Spec
=============================================================================
