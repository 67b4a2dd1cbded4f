------------------------ MODULE InjectedHooksProofs -------------------------
(***************************************************************************)
(* Proofs about pyki's hooks on the allocators, for any number of          *)
(* threads, objects, blocks, calls and starts: the hooks on the native     *)
(* ones (hooks.cpp, elf_shenanigans.cpp, native_memory_profiling.cpp;      *)
(* module NativeHooks) count a block once, put its release before its      *)
(* next owner and follow the collector; the hooks on Python's              *)
(* (memory_profiling.cpp, module PymemSampler) end at Python's own and     *)
(* sample what was allocated.                                              *)
(***************************************************************************)
EXTENDS InjectedCode, Sequences, SequenceTheorems, TLAPS

(* The native allocator.                                                   *)

Fns == Hooks!Allocates \cup Hooks!Releases \cup Hooks!Moves \cup Hooks!Loads
Gives == Hooks!Releases \cup Hooks!Moves          \* calls that give a block up
Stages == {"none", "unhooked", "real", "inside", "untrack", "track", "load", "invalidate", "sweep"}

(* The call has not yet given its block up. *)
Keeps(c) == c.fn \in Gives /\ ( \/ c.stage = "unhooked"
                                \/ c.stage = "real"
                                \/ c.stage = "untrack" /\ c.fn \in Hooks!ReleasesFirst )

(* The call has still to record that it gave its block up. *)
Owes(c) == c.stage = "untrack" \/ (c.stage = "real" /\ c.fn \in Gives \ Hooks!ReleasesFirst)

(* free or munmap: it recorded that it gives up a block that it still has. *)
Ahead(c) == c.stage = "real" /\ c.fn \in Hooks!ReleasesFirst

(* What the hooks' variables are. *)
Calls == [fn : Fns \cup {"none"}, stage : Stages, block : Blocks \cup {0}, number : Nat,
          next : Blocks \cup {0}, taken : Nat]
Kinds == {"allocate", "release"}
Events == [kind : Kinds, fn : Fns \cup {"none"}, block : Blocks \cup {0}, number : Nat]

PatchType ==
  /\ loaded \in SUBSET Libs /\ got \in [Libs -> {"original", "hook"}] /\ enabled \in BOOLEAN
  /\ mutex \in Allocating \cup {"none", "profiler"}
  /\ sweep \in [to : {"none", "hook", "original"}, todo : SUBSET Libs]
  /\ control \in {"none", "start", "stop"} /\ starts \in Nat /\ late \in BOOLEAN

CallType ==
  /\ guard \in [Allocating -> BOOLEAN] /\ call \in [Allocating -> Calls]
  /\ intercepted \in [Allocating -> Nat]

BookType ==
  owner \in [Blocks -> Nat] /\ allocations \in Nat /\ events \in Seq(Events)

(* Which calls pass through which stage, and when the recursion guard is set. *)
CallsAreStaged ==
  \A t \in Allocating :
    /\ call[t].stage = "none" => call[t] = Hooks!Idle
    /\ call[t].stage = "inside" => call[t].fn \in Hooks!Allocates /\ guard[t]
    /\ call[t].stage = "real" => call[t].fn \in Hooks!Allocates \cup Gives
    /\ call[t].stage = "untrack" => call[t].fn \in Gives
    /\ call[t].stage = "track" => call[t].fn \in Hooks!Allocates \cup Hooks!Moves
    /\ call[t].stage \in {"load", "invalidate", "sweep"} => call[t].fn \in Hooks!Loads
    /\ call[t].stage # "none" => call[t].block \in Blocks /\ call[t].next \in Blocks
    /\ call[t].fn \in Hooks!Allocates => call[t].next = call[t].block
    /\ call[t].fn \in Gives <=> call[t].number # 0
    /\ call[t].taken # 0 <=> \/ call[t].stage \in {"inside", "track"}
                             \/ call[t].stage = "untrack" /\ call[t].fn \in Hooks!Moves

(* An allocation has one block, and one call at most gives it up: until then it has the
   block, and nobody has it after. *)
NumbersAreOwn ==
  /\ \A b \in Blocks : owner[b] <= allocations
  /\ \A b, c \in Blocks : b # c /\ owner[b] # 0 => owner[b] # owner[c]
  /\ \A t \in Allocating :
       /\ call[t].number \in 0..allocations /\ call[t].taken \in 0..allocations
       /\ Keeps(call[t]) => /\ call[t].number # 0 /\ call[t].block \in Blocks
                            /\ owner[call[t].block] = call[t].number
       /\ call[t].number # 0 /\ ~Keeps(call[t]) => \A b \in Blocks : owner[b] # call[t].number
  /\ \A t, u \in Allocating : t # u =>
       /\ call[t].number # 0 => call[t].number # call[u].number
       /\ call[t].taken # 0 => call[t].taken # call[u].taken

(* What is recorded is no call's to record, and what was released is nobody's, except
   that free and munmap record the release first. *)
RecordedIsOver ==
  \A i \in DOMAIN events :
    /\ events[i].number \in 1..allocations
    /\ events[i].kind = "allocate" => \A t \in Allocating : call[t].taken # events[i].number
    /\ events[i].kind = "release" =>
         /\ \A t \in Allocating : Owes(call[t]) => call[t].number # events[i].number
         /\ \A b \in Blocks : owner[b] = events[i].number =>
              \E t \in Allocating : Ahead(call[t]) /\ call[t].number = events[i].number

(* The owner of a block is the last that was recorded for it, or later. *)
OwnersAreLatest ==
  /\ \A i \in DOMAIN events :
       /\ events[i].block \in Blocks
       /\ events[i].kind = "allocate" /\ owner[events[i].block] # 0
            => events[i].number <= owner[events[i].block]
  /\ \A t \in Allocating : call[t].taken # 0 =>
       /\ call[t].next \in Blocks
       /\ owner[call[t].next] # 0 => call[t].taken <= owner[call[t].next]

Books ==
  /\ NumbersAreOwn /\ RecordedIsOver /\ OwnersAreLatest
  /\ Hooks!BlocksAreCountedOnce /\ Hooks!ReleasesComeFirst

(* Who sweeps holds the mutex, and goes where it was told. *)
SweepHoldsMutex ==
  /\ (mutex = "none") <=> (sweep = Hooks!NoSweep)
  /\ (mutex = "profiler") <=> (control # "none")
  /\ \A t \in Allocating : (mutex = t) <=> (call[t].stage = "sweep")
  /\ mutex # "none" => sweep.to = (IF control = "stop" THEN "original" ELSE "hook")
  /\ sweep.todo \subseteq Hooks!Patched
  /\ control = "start" => ~enabled
  /\ control = "stop" => enabled
  /\ mutex \in Allocating /\ ~enabled => late

(* The entries a sweep has passed are as it leaves them; between sweeps they are as the
   last one left them, except those of what was loaded since. *)
GotFollowsSweep ==
  /\ \A l \in Exempt \cup Sealed : got[l] = "original"
  /\ mutex # "none" => \A l \in Hooks!Patched \ sweep.todo : got[l] = sweep.to
  /\ mutex = "none" /\ enabled /\ (\A t \in Allocating : call[t].stage # "invalidate")
       => \A l \in Hooks!Patched : got[l] = "hook"
  /\ mutex = "none" /\ ~enabled /\ ~late => \A l \in loaded : got[l] = "original"

Patches == SweepHoldsMutex /\ GotFollowsSweep

HooksInvariant ==
  PatchType /\ CallType /\ BookType /\ CallsAreStaged /\ Books /\ Patches

-----------------------------------------------------------------------------
(* The books: what each kind of step does to them.                         *)

\* One call changes.
Others(t) == \A u \in Allocating \ {t} : call'[u] = call[u]

\* One event is added, behind all others.
Records(n, e) ==
  /\ n \notin DOMAIN events /\ DOMAIN events' = DOMAIN events \cup {n} /\ events'[n] = e
  /\ n \in Int /\ \A i \in DOMAIN events : i \in Int /\ i < n /\ events'[i] = events[i]

LEMMA AppendRecords ==
  ASSUME events \in Seq(Events), NEW e, events' = Append(events, e)
  PROVE  Records(Len(events) + 1, e)
BY DEF Records

\* A step that moves no block and records nothing, and at most forgets its numbers.
LEMMA QuietKeepsBooks ==
  ASSUME Books, BookType, NEW t \in Allocating, Others(t),
         UNCHANGED <<owner, events, allocations>>,
         \/ call'[t].number = 0 /\ ~Keeps(call'[t]) /\ ~Ahead(call[t])
         \/ /\ call'[t].number = call[t].number /\ call'[t].block = call[t].block
            /\ Keeps(call'[t]) <=> Keeps(call[t])
            /\ Ahead(call[t]) => Ahead(call'[t]),
         Owes(call'[t]) => Owes(call[t]) /\ call'[t].number = call[t].number,
         \/ call'[t].taken = 0
         \/ call'[t].taken = call[t].taken /\ call'[t].next = call[t].next
  PROVE  Books'
<1> USE DEF Books, Others
<1>t. owner \in [Blocks -> Nat] /\ allocations \in Nat
  BY DEF BookType
<1>1. NumbersAreOwn'
  BY <1>t DEF NumbersAreOwn
<1>2. RecordedIsOver'
  BY <1>t DEF NumbersAreOwn, RecordedIsOver
<1>3. OwnersAreLatest'
  BY <1>t DEF NumbersAreOwn, RecordedIsOver, OwnersAreLatest
<1>4. Hooks!BlocksAreCountedOnce'
  BY <1>t DEF RecordedIsOver, Hooks!BlocksAreCountedOnce
<1>5. Hooks!ReleasesComeFirst'
  BY <1>t DEF NumbersAreOwn, RecordedIsOver, OwnersAreLatest, Hooks!ReleasesComeFirst
<1>6. QED
  BY <1>1, <1>2, <1>3, <1>4, <1>5

\* A call starts to give up a block that is no other call's.
LEMMA StartKeepsBooks ==
  ASSUME Books, BookType, NEW t \in Allocating, Others(t),
         UNCHANGED <<owner, events, allocations>>, NEW b \in Blocks, owner[b] # 0,
         \A u \in Allocating : owner[b] # call[u].number /\ owner[b] # call[u].taken,
         call[t].number = 0, ~Ahead(call[t]), Keeps(call'[t]), call'[t].number = owner[b],
         call'[t].block = b, call'[t].taken = 0
  PROVE  Books'
<1> USE DEF Books, Others
<1>t. owner \in [Blocks -> Nat] /\ allocations \in Nat
  BY DEF BookType
<1>1. NumbersAreOwn'
  BY <1>t DEF NumbersAreOwn
<1>2. RecordedIsOver'
  BY <1>t DEF NumbersAreOwn, RecordedIsOver
<1>3. OwnersAreLatest'
  BY <1>t DEF NumbersAreOwn, RecordedIsOver, OwnersAreLatest
<1>4. Hooks!BlocksAreCountedOnce'
  BY <1>t DEF RecordedIsOver, Hooks!BlocksAreCountedOnce
<1>5. Hooks!ReleasesComeFirst'
  BY <1>t DEF NumbersAreOwn, RecordedIsOver, OwnersAreLatest, Hooks!ReleasesComeFirst
<1>6. QED
  BY <1>1, <1>2, <1>3, <1>4, <1>5

\* A free block is taken.
LEMMA TakeKeepsBooks ==
  ASSUME Books, BookType, NEW t \in Allocating, Others(t),
         UNCHANGED events, allocations' = allocations + 1, NEW b \in Blocks, owner[b] = 0,
         owner' = [owner EXCEPT ![b] = allocations + 1], ~Ahead(call[t]),
         call'[t].number = 0, ~Keeps(call'[t]), ~Owes(call'[t]),
         \/ call'[t].taken = 0
         \/ call'[t].taken = allocations + 1 /\ call'[t].next = b
  PROVE  Books'
<1> USE DEF Books, Others
<1>t. owner \in [Blocks -> Nat] /\ allocations \in Nat
  BY DEF BookType
<1>1. NumbersAreOwn'
  BY <1>t DEF NumbersAreOwn
<1>2. RecordedIsOver'
  BY <1>t DEF NumbersAreOwn, RecordedIsOver
<1>3. OwnersAreLatest'
  BY <1>t DEF NumbersAreOwn, RecordedIsOver, OwnersAreLatest
<1>4. Hooks!BlocksAreCountedOnce'
  BY <1>t DEF RecordedIsOver, Hooks!BlocksAreCountedOnce
<1>5. Hooks!ReleasesComeFirst'
  BY <1>t DEF NumbersAreOwn, RecordedIsOver, OwnersAreLatest, Hooks!ReleasesComeFirst
<1>6. QED
  BY <1>1, <1>2, <1>3, <1>4, <1>5

\* A block is given back.
LEMMA GiveKeepsBooks ==
  ASSUME Books, BookType, NEW t \in Allocating, Others(t),
         UNCHANGED <<events, allocations>>, Keeps(call[t]),
         owner' = [owner EXCEPT ![call[t].block] = 0], call'[t].taken = 0, ~Keeps(call'[t]),
         call'[t].number = 0 \/ call'[t].number = call[t].number,
         Owes(call'[t]) => Owes(call[t]) /\ call'[t].number = call[t].number
  PROVE  Books'
<1> USE DEF Books, Others
<1>t. owner \in [Blocks -> Nat] /\ allocations \in Nat
  BY DEF BookType
<1>1. NumbersAreOwn'
  BY <1>t DEF NumbersAreOwn
<1>2. RecordedIsOver'
  BY <1>t DEF NumbersAreOwn, RecordedIsOver
<1>3. OwnersAreLatest'
  BY <1>t DEF NumbersAreOwn, RecordedIsOver, OwnersAreLatest
<1>4. Hooks!BlocksAreCountedOnce'
  BY <1>t DEF RecordedIsOver, Hooks!BlocksAreCountedOnce
<1>5. Hooks!ReleasesComeFirst'
  BY <1>t DEF NumbersAreOwn, RecordedIsOver, OwnersAreLatest, Hooks!ReleasesComeFirst
<1>6. QED
  BY <1>1, <1>2, <1>3, <1>4, <1>5

\* A block is given back and another, or the same, taken.
LEMMA MoveKeepsBooks ==
  ASSUME Books, BookType, NEW t \in Allocating, Others(t),
         UNCHANGED events, allocations' = allocations + 1, Keeps(call[t]), ~Ahead(call[t]),
         NEW b \in Blocks, owner[b] = 0 \/ b = call[t].block,
         owner' = [owner EXCEPT ![call[t].block] = 0, ![b] = allocations + 1],
         ~Keeps(call'[t]), call'[t].number = 0 \/ call'[t].number = call[t].number,
         Owes(call'[t]) => Owes(call[t]) /\ call'[t].number = call[t].number,
         \/ call'[t].taken = 0
         \/ call'[t].taken = allocations + 1 /\ call'[t].next = b
  PROVE  Books'
<1> USE DEF Books, Others
<1>t. owner \in [Blocks -> Nat] /\ allocations \in Nat
  BY DEF BookType
<1>1. NumbersAreOwn'
  BY <1>t DEF NumbersAreOwn
<1>2. RecordedIsOver'
  BY <1>t DEF NumbersAreOwn, RecordedIsOver
<1>3. OwnersAreLatest'
  BY <1>t DEF NumbersAreOwn, RecordedIsOver, OwnersAreLatest
<1>4. Hooks!BlocksAreCountedOnce'
  BY <1>t DEF RecordedIsOver, Hooks!BlocksAreCountedOnce
<1>5. Hooks!ReleasesComeFirst'
  BY <1>t DEF NumbersAreOwn, RecordedIsOver, OwnersAreLatest, Hooks!ReleasesComeFirst
<1>6. QED
  BY <1>1, <1>2, <1>3, <1>4, <1>5

\* A release is recorded, by free and munmap while they have the block.
LEMMA UntrackKeepsBooks ==
  ASSUME Books, BookType, NEW t \in Allocating, Others(t),
         UNCHANGED <<owner, allocations>>, NEW n, NEW e, Records(n, e),
         e.kind = "release", e.number = call[t].number, e.block = call[t].block, e.block \in Blocks,
         Owes(call[t]), ~Ahead(call[t]), call[t].number # 0, ~Owes(call'[t]),
         e.fn \in {"free", "munmap"} => Keeps(call[t]),
         \/ Keeps(call[t]) /\ Keeps(call'[t]) /\ Ahead(call'[t])
         \/ ~Keeps(call[t]) /\ ~Keeps(call'[t]),
         \/ call'[t].number = call[t].number /\ call'[t].block = call[t].block
         \/ call'[t].number = 0 /\ ~Keeps(call'[t]),
         \/ call'[t].taken = 0
         \/ call'[t].taken = call[t].taken /\ call'[t].next = call[t].next
  PROVE  Books'
<1> USE DEF Books, Others
<1> USE DEF Records
<1>t. owner \in [Blocks -> Nat] /\ allocations \in Nat
  BY DEF BookType
<1>1. NumbersAreOwn'
  BY <1>t DEF NumbersAreOwn
<1>2. RecordedIsOver'
  BY <1>t DEF NumbersAreOwn, RecordedIsOver
<1>3. OwnersAreLatest'
  BY <1>t DEF NumbersAreOwn, RecordedIsOver, OwnersAreLatest
<1>4. Hooks!BlocksAreCountedOnce'
  BY <1>t DEF RecordedIsOver, Hooks!BlocksAreCountedOnce
<1>5. Hooks!ReleasesComeFirst'
  BY <1>t DEF NumbersAreOwn, RecordedIsOver, OwnersAreLatest, Hooks!ReleasesComeFirst
<1>6. QED
  BY <1>1, <1>2, <1>3, <1>4, <1>5

\* An allocation is recorded.
LEMMA TrackKeepsBooks ==
  ASSUME Books, BookType, NEW t \in Allocating, Others(t),
         UNCHANGED <<owner, allocations>>, NEW n, NEW e, Records(n, e),
         e.kind = "allocate", e.number = call[t].taken, e.block = call[t].next,
         call[t].taken # 0, ~Ahead(call[t]), ~Keeps(call'[t]), ~Owes(call'[t]),
         call'[t].number = 0, call'[t].taken = 0
  PROVE  Books'
<1> USE DEF Books, Others
<1> USE DEF Records
<1>t. owner \in [Blocks -> Nat] /\ allocations \in Nat
  BY DEF BookType
<1>1. NumbersAreOwn'
  BY <1>t DEF NumbersAreOwn
<1>2. RecordedIsOver'
  BY <1>t DEF NumbersAreOwn, RecordedIsOver
<1>3. OwnersAreLatest'
  BY <1>t DEF NumbersAreOwn, RecordedIsOver, OwnersAreLatest
<1>4. Hooks!BlocksAreCountedOnce'
  BY <1>t DEF RecordedIsOver, Hooks!BlocksAreCountedOnce
<1>5. Hooks!ReleasesComeFirst'
  BY <1>t DEF NumbersAreOwn, RecordedIsOver, OwnersAreLatest, Hooks!ReleasesComeFirst
<1>6. QED
  BY <1>1, <1>2, <1>3, <1>4, <1>5

-----------------------------------------------------------------------------
(* Steps.  What the real function may do, one by one.                      *)

Real(t, fns) == /\ call[t].stage = "real" /\ call[t].fn \in fns
                /\ UNCHANGED <<events, intercepted>> /\ UNCHANGED Hooks!patchVars

RealTakes(t) ==
  /\ Real(t, Hooks!Allocates) /\ Hooks!TakesBlock(call[t].block) /\ allocations' = allocations + 1
  /\ call' = [call EXCEPT ![t] = [call[t] EXCEPT !.stage = "inside", !.taken = allocations + 1]]
  /\ guard' = [guard EXCEPT ![t] = TRUE]

RealFails(t) ==
  /\ Real(t, Hooks!Allocates) /\ call' = [call EXCEPT ![t] = Hooks!Idle]
  /\ UNCHANGED <<owner, allocations, guard>>

RealGives(t) ==
  /\ Real(t, Hooks!Releases) /\ owner' = [owner EXCEPT ![call[t].block] = 0]
  /\ call' = [call EXCEPT ![t] = IF call[t].fn \notin Hooks!ReleasesFirst
                                  THEN [call[t] EXCEPT !.stage = "untrack"] ELSE Hooks!Idle]
  /\ UNCHANGED <<allocations, guard>>

RealMoves(t, b) ==
  /\ Real(t, Hooks!Moves) /\ Hooks!MovesBlock(call[t].block, b) /\ allocations' = allocations + 1
  /\ call' = [call EXCEPT ![t] = [call[t] EXCEPT !.stage = "untrack", !.next = b,
                                                 !.taken = allocations + 1]]
  /\ UNCHANGED guard

LEMMA RealCases ==
  ASSUME NEW t \in Allocating, Hooks!RunReal(t)
  PROVE  RealTakes(t) \/ RealFails(t) \/ RealGives(t) \/ \E b \in Blocks : RealMoves(t, b)
BY DEF Hooks!RunReal, RealTakes, RealFails, RealGives, RealMoves, Real

\* A step of a call leaves the patching alone.
LEMMA CallsKeepPatches ==
  ASSUME Patches, UNCHANGED Hooks!patchVars,
         \A u \in Allocating : /\ call'[u].stage = "sweep" <=> call[u].stage = "sweep"
                               /\ call'[u].stage = "invalidate" <=> call[u].stage = "invalidate"
  PROVE  Patches'
<1> USE DEF Patches, Hooks!patchVars
<1>1. SweepHoldsMutex'
  BY DEF SweepHoldsMutex, Hooks!Patched
<1>2. GotFollowsSweep'
  BY DEF GotFollowsSweep, Hooks!Patched
<1>3. QED
  BY <1>1, <1>2

\* A call that is not one that gives a block up is on none of its stages.
LEMMA CallFacts ==
  ASSUME HooksInvariant, NEW t \in Allocating
  PROVE  /\ call[t] \in Calls /\ call[t].fn \in Fns \cup {"none"} /\ call[t].number \in Nat
         /\ call[t].taken \in Nat /\ Hooks!Idle \in Calls
         /\ call[t].fn \notin Gives => call[t].number = 0 /\ ~Keeps(call[t]) /\ ~Ahead(call[t])
         /\ ~Keeps(Hooks!Idle) /\ ~Owes(Hooks!Idle) /\ ~Ahead(Hooks!Idle)
BY DEF HooksInvariant, CallType, Calls, CallsAreStaged, Keeps, Owes, Ahead, Hooks!Idle, Stages,
       Gives, Fns, Hooks!Allocates, Hooks!Releases, Hooks!Moves, Hooks!Loads, Hooks!ReleasesFirst

\* A call that moves to another stage, and one that has taken a block.
LEMMA StagesAreCalls ==
  ASSUME NEW c \in Calls, NEW s \in Stages
  PROVE  /\ [c EXCEPT !.stage = s] \in Calls
         /\ \A n \in Nat : [c EXCEPT !.stage = s, !.taken = n] \in Calls
         /\ \A n \in Nat, b \in Blocks : [c EXCEPT !.stage = s, !.next = b, !.taken = n] \in Calls
BY DEF Calls

\* A call starts, with a block it owns if it gives one up.
LEMMA CallKeepsHooks ==
  HooksInvariant /\ (\E t \in Allocating, l \in Libs, fn \in Fns, b \in Blocks : Hooks!Call(t, l, fn, b)) => HooksInvariant'
<1> SUFFICES ASSUME HooksInvariant, NEW t \in Allocating, NEW l \in Libs, NEW fn \in Fns, NEW b \in Blocks,
                     Hooks!Call(t, l, fn, b) PROVE HooksInvariant'
  OBVIOUS
<1> USE DEF HooksInvariant, Hooks!Call, Hooks!FirstStage, Hooks!Idle
<1>o. Others(t)
  BY DEF CallType, Others
<1>1. PatchType'
  BY DEF PatchType, Hooks!patchVars
<1>2. CallType'
  BY CallFacts
     DEF CallType, BookType, CallsAreStaged, Calls, Stages, Gives, Fns, Hooks!Allocates,
       Hooks!Releases, Hooks!Moves, Hooks!Loads, Hooks!ReleasesFirst
<1>3. BookType'
  BY CallFacts
     DEF BookType, CallsAreStaged, Hooks!TakesBlock, Hooks!MovesBlock, Calls, Events, Kinds
<1>4. CallsAreStaged'
  BY CallFacts
     DEF CallType, Calls, BookType, CallsAreStaged, Hooks!Idle, Gives, Fns, Hooks!Allocates,
       Hooks!Releases, Hooks!Moves, Hooks!Loads, Hooks!ReleasesFirst
<1>5. Books'
  <2>1. CASE fn \in Gives
    <3>1. owner[b] # 0 /\ \A u \in Allocating : owner[b] # call[u].number /\ owner[b] # call[u].taken
      BY <2>1 DEF Gives
    <3>2. /\ Keeps(call'[t]) /\ call'[t].number = owner[b] /\ call'[t].block = b
          /\ call'[t].taken = 0 /\ call[t].number = 0 /\ ~Ahead(call[t])
      BY <2>1, CallFacts
         DEF CallType, Keeps, Gives, Fns, Hooks!Allocates, Hooks!Releases, Hooks!Moves,
           Hooks!Loads, Hooks!ReleasesFirst
    <3>3. QED
      BY <3>1, <3>2, <1>o, StartKeepsBooks
  <2>2. CASE fn \notin Gives
    <3>1. /\ ~Keeps(call'[t]) /\ call'[t].number = 0 /\ ~Owes(call'[t])
          /\ call'[t].taken = 0 /\ ~Ahead(call[t])
      BY <2>2, CallFacts
         DEF CallType, Keeps, Owes, Gives, Fns, Hooks!Allocates, Hooks!Releases, Hooks!Moves,
           Hooks!Loads, Hooks!ReleasesFirst
    <3>2. QED
      BY <3>1, <1>o, QuietKeepsBooks
  <2>3. QED
    BY <2>1, <2>2
<1>6. Patches'
  <2>1. \A u \in Allocating : /\ call'[u].stage = "sweep" <=> call[u].stage = "sweep"
                              /\ call'[u].stage = "invalidate" <=> call[u].stage = "invalidate"
    BY CallFacts DEF CallType, Calls, Hooks!Idle
  <2>2. QED
    BY <2>1, CallsKeepPatches
<1>7. QED
  BY <1>1, <1>2, <1>3, <1>4, <1>5, <1>6

\* An entry that was not patched: nothing is recorded.
LEMMA RunUnhookedKeepsHooks ==
  HooksInvariant /\ (\E t \in Allocating : Hooks!RunUnhooked(t)) => HooksInvariant'
<1> SUFFICES ASSUME HooksInvariant, NEW t \in Allocating, Hooks!RunUnhooked(t) PROVE HooksInvariant'
  OBVIOUS
<1> USE DEF HooksInvariant, Hooks!RunUnhooked
<1>o. Others(t)
  BY DEF CallType, Others
<1>1. PatchType'
  BY DEF PatchType, Hooks!patchVars
<1>2. CallType'
  BY CallFacts
     DEF CallType, BookType, CallsAreStaged, Calls, Stages, Gives, Fns, Hooks!Allocates,
       Hooks!Releases, Hooks!Moves, Hooks!Loads, Hooks!ReleasesFirst
<1>3. BookType'
  <2>1. call[t].block \in Blocks /\ allocations \in Nat /\ owner \in [Blocks -> Nat]
    BY DEF CallsAreStaged, BookType
  <2>2. owner' \in [Blocks -> Nat] /\ allocations' \in Nat
    BY <2>1 DEF Hooks!TakesBlock, Hooks!MovesBlock
  <2>3. QED
    BY <2>2 DEF BookType
<1>4. CallsAreStaged'
  BY CallFacts
     DEF CallType, Calls, BookType, CallsAreStaged, Hooks!Idle, Gives, Fns, Hooks!Allocates,
       Hooks!Releases, Hooks!Moves, Hooks!Loads, Hooks!ReleasesFirst
<1>5. Books'
  <2>1. /\ call'[t] = Hooks!Idle /\ ~Keeps(call'[t]) /\ ~Owes(call'[t]) /\ ~Ahead(call[t])
        /\ call'[t].number = 0 /\ call'[t].taken = 0
    BY CallFacts DEF CallType, Ahead, Hooks!Idle
  <2>2. CASE call[t].fn \in Hooks!Allocates /\ Hooks!TakesBlock(call[t].block) /\ allocations' = allocations + 1
    <3>1. call[t].block \in Blocks
      BY DEF CallsAreStaged
    <3>2. QED
      BY <2>1, <2>2, <3>1, <1>o, TakeKeepsBooks DEF Hooks!TakesBlock
  <2>3. CASE /\ call[t].fn \in Hooks!Releases /\ owner' = [owner EXCEPT ![call[t].block] = 0]
             /\ UNCHANGED allocations
    <3>1. Keeps(call[t])
      BY <2>3 DEF Keeps, Gives
    <3>2. QED
      BY <2>1, <2>3, <3>1, <1>o, GiveKeepsBooks
  <2>4. CASE /\ call[t].fn \in Hooks!Moves /\ allocations' = allocations + 1
             /\ \E b \in Blocks : Hooks!MovesBlock(call[t].block, b)
    <3>1. Keeps(call[t])
      BY <2>4 DEF Keeps, Gives
    <3>2. QED
      BY <2>1, <2>4, <3>1, <1>o, MoveKeepsBooks DEF Hooks!MovesBlock
  <2>5. CASE UNCHANGED <<owner, allocations>>
    BY <2>1, <2>5, <1>o, QuietKeepsBooks
  <2>6. QED
    BY <2>2, <2>3, <2>4, <2>5
<1>6. Patches'
  <2>1. \A u \in Allocating : /\ call'[u].stage = "sweep" <=> call[u].stage = "sweep"
                              /\ call'[u].stage = "invalidate" <=> call[u].stage = "invalidate"
    BY CallFacts DEF CallType, Calls, Hooks!Idle
  <2>2. QED
    BY <2>1, CallsKeepPatches
<1>7. QED
  BY <1>1, <1>2, <1>3, <1>4, <1>5, <1>6

\* The real function takes a block.
LEMMA RealTakesKeepsHooks ==
  HooksInvariant /\ (\E t \in Allocating : RealTakes(t)) => HooksInvariant'
<1> SUFFICES ASSUME HooksInvariant, NEW t \in Allocating, RealTakes(t) PROVE HooksInvariant'
  OBVIOUS
<1> USE DEF HooksInvariant, RealTakes, Real
<1>o. Others(t)
  BY DEF CallType, Others
<1>1. PatchType'
  BY DEF PatchType, Hooks!patchVars
<1>2. CallType'
  <2>1. call[t] \in Calls /\ allocations + 1 \in Nat /\ "inside" \in Stages /\ "untrack" \in Stages
    BY CallFacts DEF Stages, BookType
  <2>2. [call[t] EXCEPT !.stage = "inside", !.taken = allocations + 1] \in Calls
    BY <2>1, StagesAreCalls
  <2>3. QED
    BY <2>2, CallFacts DEF CallType, Hooks!patchVars
<1>3. BookType'
  <2>1. call[t].block \in Blocks /\ allocations \in Nat /\ owner \in [Blocks -> Nat]
    BY DEF CallsAreStaged, BookType
  <2>2. owner' \in [Blocks -> Nat] /\ allocations' \in Nat
    BY <2>1 DEF Hooks!TakesBlock, Hooks!MovesBlock
  <2>3. QED
    BY <2>2 DEF BookType
<1>4. CallsAreStaged'
  BY CallFacts
     DEF CallType, Calls, BookType, CallsAreStaged, Hooks!Idle, Gives, Fns, Hooks!Allocates,
       Hooks!Releases, Hooks!Moves, Hooks!Loads, Hooks!ReleasesFirst
<1>5. Books'
  <2>1. call[t].block \in Blocks /\ call[t].next = call[t].block
    BY DEF CallsAreStaged
  <2>2. /\ call'[t].number = 0 /\ ~Keeps(call'[t]) /\ ~Owes(call'[t]) /\ ~Ahead(call[t])
        /\ call'[t].taken = allocations + 1 /\ call'[t].next = call[t].block
    BY <2>1, CallFacts
       DEF CallType, Calls, Keeps, Owes, Ahead, Gives, Fns, Hooks!Allocates, Hooks!Releases,
         Hooks!Moves, Hooks!Loads, Hooks!ReleasesFirst
  <2>3. QED
    BY <2>1, <2>2, <1>o, TakeKeepsBooks DEF Hooks!TakesBlock
<1>6. Patches'
  <2>1. \A u \in Allocating : /\ call'[u].stage = "sweep" <=> call[u].stage = "sweep"
                              /\ call'[u].stage = "invalidate" <=> call[u].stage = "invalidate"
    BY CallFacts DEF CallType, Calls, Hooks!Idle
  <2>2. QED
    BY <2>1, CallsKeepPatches
<1>7. QED
  BY <1>1, <1>2, <1>3, <1>4, <1>5, <1>6

\* The real allocation fails.
LEMMA RealFailsKeepsHooks ==
  HooksInvariant /\ (\E t \in Allocating : RealFails(t)) => HooksInvariant'
<1> SUFFICES ASSUME HooksInvariant, NEW t \in Allocating, RealFails(t) PROVE HooksInvariant'
  OBVIOUS
<1> USE DEF HooksInvariant, RealFails, Real
<1>o. Others(t)
  BY DEF CallType, Others
<1>1. PatchType'
  BY DEF PatchType, Hooks!patchVars
<1>2. CallType'
  BY CallFacts
     DEF CallType, BookType, CallsAreStaged, Calls, Stages, Gives, Fns, Hooks!Allocates,
       Hooks!Releases, Hooks!Moves, Hooks!Loads, Hooks!ReleasesFirst
<1>3. BookType'
  BY CallFacts
     DEF BookType, CallsAreStaged, Hooks!TakesBlock, Hooks!MovesBlock, Calls, Events, Kinds
<1>4. CallsAreStaged'
  BY CallFacts
     DEF CallType, Calls, BookType, CallsAreStaged, Hooks!Idle, Gives, Fns, Hooks!Allocates,
       Hooks!Releases, Hooks!Moves, Hooks!Loads, Hooks!ReleasesFirst
<1>5. Books'
  <2>1. /\ call'[t].number = 0 /\ ~Keeps(call'[t]) /\ ~Owes(call'[t]) /\ ~Ahead(call[t])
        /\ call'[t].taken = 0
    BY CallFacts
       DEF CallType, Hooks!Idle, Gives, Fns, Hooks!Allocates, Hooks!Releases, Hooks!Moves,
         Hooks!Loads, Hooks!ReleasesFirst
  <2>2. QED
    BY <2>1, <1>o, QuietKeepsBooks
<1>6. Patches'
  <2>1. \A u \in Allocating : /\ call'[u].stage = "sweep" <=> call[u].stage = "sweep"
                              /\ call'[u].stage = "invalidate" <=> call[u].stage = "invalidate"
    BY CallFacts DEF CallType, Calls, Hooks!Idle
  <2>2. QED
    BY <2>1, CallsKeepPatches
<1>7. QED
  BY <1>1, <1>2, <1>3, <1>4, <1>5, <1>6

\* The real function gives a block back.
LEMMA RealGivesKeepsHooks ==
  HooksInvariant /\ (\E t \in Allocating : RealGives(t)) => HooksInvariant'
<1> SUFFICES ASSUME HooksInvariant, NEW t \in Allocating, RealGives(t) PROVE HooksInvariant'
  OBVIOUS
<1> USE DEF HooksInvariant, RealGives, Real
<1>o. Others(t)
  BY DEF CallType, Others
<1>1. PatchType'
  BY DEF PatchType, Hooks!patchVars
<1>2. CallType'
  <2>1. call[t] \in Calls /\ allocations + 1 \in Nat /\ "inside" \in Stages /\ "untrack" \in Stages
    BY CallFacts DEF Stages, BookType
  <2>2. [call[t] EXCEPT !.stage = "untrack"] \in Calls
    BY <2>1, StagesAreCalls
  <2>3. QED
    BY <2>2, CallFacts DEF CallType, Hooks!patchVars
<1>3. BookType'
  <2>1. call[t].block \in Blocks /\ allocations \in Nat /\ owner \in [Blocks -> Nat]
    BY DEF CallsAreStaged, BookType
  <2>2. owner' \in [Blocks -> Nat] /\ allocations' \in Nat
    BY <2>1 DEF Hooks!TakesBlock, Hooks!MovesBlock
  <2>3. QED
    BY <2>2 DEF BookType
<1>4. CallsAreStaged'
  BY SMTT(30), CallFacts
     DEF CallType, Calls, BookType, CallsAreStaged, Hooks!Idle, Gives, Fns, Hooks!Allocates,
       Hooks!Releases, Hooks!Moves, Hooks!Loads, Hooks!ReleasesFirst
<1>5. Books'
  <2>1. Keeps(call[t]) /\ call[t].taken = 0
    BY DEF Keeps, CallsAreStaged, Gives, Fns, Hooks!Allocates, Hooks!Releases, Hooks!Moves,
         Hooks!Loads, Hooks!ReleasesFirst
  <2>2. /\ ~Keeps(call'[t]) /\ call'[t].taken = 0
        /\ call'[t].number = 0 \/ call'[t].number = call[t].number
        /\ Owes(call'[t]) => Owes(call[t]) /\ call'[t].number = call[t].number
    BY <2>1, CallFacts
       DEF CallType, Calls, Keeps, Owes, Hooks!Idle, Gives, Fns, Hooks!Allocates, Hooks!Releases,
         Hooks!Moves, Hooks!Loads, Hooks!ReleasesFirst
  <2>3. QED
    BY <2>1, <2>2, <1>o, GiveKeepsBooks
<1>6. Patches'
  <2>1. \A u \in Allocating : /\ call'[u].stage = "sweep" <=> call[u].stage = "sweep"
                              /\ call'[u].stage = "invalidate" <=> call[u].stage = "invalidate"
    BY CallFacts DEF CallType, Calls, Hooks!Idle
  <2>2. QED
    BY <2>1, CallsKeepPatches
<1>7. QED
  BY <1>1, <1>2, <1>3, <1>4, <1>5, <1>6

\* The real function moves a block, perhaps in place.
LEMMA RealMovesKeepsHooks ==
  HooksInvariant /\ (\E t \in Allocating, b \in Blocks : RealMoves(t, b)) => HooksInvariant'
<1> SUFFICES ASSUME HooksInvariant, NEW t \in Allocating, NEW b \in Blocks, RealMoves(t, b)
              PROVE HooksInvariant'
  OBVIOUS
<1> USE DEF HooksInvariant, RealMoves, Real
<1>o. Others(t)
  BY DEF CallType, Others
<1>1. PatchType'
  BY DEF PatchType, Hooks!patchVars
<1>2. CallType'
  <2>1. call[t] \in Calls /\ allocations + 1 \in Nat /\ "inside" \in Stages /\ "untrack" \in Stages
    BY CallFacts DEF Stages, BookType
  <2>2. [call[t] EXCEPT !.stage = "untrack", !.next = b, !.taken = allocations + 1] \in Calls
    BY <2>1, StagesAreCalls
  <2>3. QED
    BY <2>2, CallFacts DEF CallType, Hooks!patchVars
<1>3. BookType'
  <2>1. call[t].block \in Blocks /\ allocations \in Nat /\ owner \in [Blocks -> Nat]
    BY DEF CallsAreStaged, BookType
  <2>2. owner' \in [Blocks -> Nat] /\ allocations' \in Nat
    BY <2>1 DEF Hooks!TakesBlock, Hooks!MovesBlock
  <2>3. QED
    BY <2>2 DEF BookType
<1>4. CallsAreStaged'
  BY CallFacts
     DEF CallType, Calls, BookType, CallsAreStaged, Hooks!Idle, Gives, Fns, Hooks!Allocates,
       Hooks!Releases, Hooks!Moves, Hooks!Loads, Hooks!ReleasesFirst
<1>5. Books'
  <2>1. Keeps(call[t]) /\ ~Ahead(call[t]) /\ Owes(call[t])
    BY DEF Keeps, Owes, Ahead, Gives, Fns, Hooks!Allocates, Hooks!Releases, Hooks!Moves,
         Hooks!Loads, Hooks!ReleasesFirst
  <2>2. /\ ~Keeps(call'[t]) /\ call'[t].number = call[t].number
        /\ call'[t].taken = allocations + 1 /\ call'[t].next = b
    BY DEF CallType, Calls, Keeps, Gives, Fns, Hooks!Allocates, Hooks!Releases, Hooks!Moves,
         Hooks!Loads, Hooks!ReleasesFirst
  <2>3. QED
    BY <2>1, <2>2, <1>o, MoveKeepsBooks DEF Hooks!MovesBlock
<1>6. Patches'
  <2>1. \A u \in Allocating : /\ call'[u].stage = "sweep" <=> call[u].stage = "sweep"
                              /\ call'[u].stage = "invalidate" <=> call[u].stage = "invalidate"
    BY CallFacts DEF CallType, Calls, Hooks!Idle
  <2>2. QED
    BY <2>1, CallsKeepPatches
<1>7. QED
  BY <1>1, <1>2, <1>3, <1>4, <1>5, <1>6

\* The map that malloc makes records nothing: the guard is set.
LEMMA MapInsideKeepsHooks ==
  HooksInvariant /\ (\E t \in Allocating : Hooks!MapInside(t)) => HooksInvariant'
<1> SUFFICES ASSUME HooksInvariant, NEW t \in Allocating, Hooks!MapInside(t) PROVE HooksInvariant'
  OBVIOUS
<1> USE DEF HooksInvariant, Hooks!MapInside
<1>o. Others(t)
  BY DEF CallType, Others
<1>1. PatchType'
  BY DEF PatchType, Hooks!patchVars
<1>2. CallType'
  <2>1. [call[t] EXCEPT !.stage = "track"] \in Calls
    BY CallFacts, StagesAreCalls DEF Stages
  <2>2. QED
    BY <2>1 DEF CallType
<1>3. BookType'
  BY CallFacts
     DEF BookType, CallsAreStaged, Hooks!TakesBlock, Hooks!MovesBlock, Calls, Events, Kinds
<1>4. CallsAreStaged'
  BY CallFacts
     DEF CallType, Calls, BookType, CallsAreStaged, Hooks!Idle, Gives, Fns, Hooks!Allocates,
       Hooks!Releases, Hooks!Moves, Hooks!Loads, Hooks!ReleasesFirst
<1>5. Books'
  <2>1. /\ call'[t].number = call[t].number /\ call'[t].block = call[t].block
        /\ call'[t].taken = call[t].taken /\ call'[t].next = call[t].next
        /\ Keeps(call'[t]) <=> Keeps(call[t])
        /\ ~Ahead(call[t]) /\ ~Owes(call'[t])
    BY DEF CallType, Calls, CallsAreStaged, Keeps, Owes, Ahead, Gives, Fns, Hooks!Allocates,
         Hooks!Releases, Hooks!Moves, Hooks!Loads, Hooks!ReleasesFirst
  <2>2. UNCHANGED <<owner, events, allocations>>
    BY DEF CallsAreStaged
  <2>3. QED
    BY <2>1, <2>2, <1>o, QuietKeepsBooks
<1>6. Patches'
  <2>1. \A u \in Allocating : /\ call'[u].stage = "sweep" <=> call[u].stage = "sweep"
                              /\ call'[u].stage = "invalidate" <=> call[u].stage = "invalidate"
    BY CallFacts DEF CallType, Calls, Hooks!Idle
  <2>2. QED
    BY <2>1, CallsKeepPatches
<1>7. QED
  BY <1>1, <1>2, <1>3, <1>4, <1>5, <1>6

\* The real function returns.
LEMMA LeaveRealKeepsHooks ==
  HooksInvariant /\ (\E t \in Allocating : Hooks!LeaveReal(t)) => HooksInvariant'
<1> SUFFICES ASSUME HooksInvariant, NEW t \in Allocating, Hooks!LeaveReal(t) PROVE HooksInvariant'
  OBVIOUS
<1> USE DEF HooksInvariant, Hooks!LeaveReal
<1>o. Others(t)
  BY DEF CallType, Others
<1>1. PatchType'
  BY DEF PatchType, Hooks!patchVars
<1>2. CallType'
  <2>1. [call[t] EXCEPT !.stage = "track"] \in Calls
    BY CallFacts, StagesAreCalls DEF Stages
  <2>2. QED
    BY <2>1 DEF CallType
<1>3. BookType'
  BY CallFacts
     DEF BookType, CallsAreStaged, Hooks!TakesBlock, Hooks!MovesBlock, Calls, Events, Kinds
<1>4. CallsAreStaged'
  BY SMTT(30), CallFacts
     DEF CallType, Calls, BookType, CallsAreStaged, Hooks!Idle, Gives, Fns, Hooks!Allocates,
       Hooks!Releases, Hooks!Moves, Hooks!Loads, Hooks!ReleasesFirst
<1>5. Books'
  <2>1. /\ call'[t].number = call[t].number /\ call'[t].block = call[t].block
        /\ call'[t].taken = call[t].taken /\ call'[t].next = call[t].next
        /\ Keeps(call'[t]) <=> Keeps(call[t])
        /\ ~Ahead(call[t]) /\ ~Owes(call'[t])
    BY DEF CallType, Calls, CallsAreStaged, Keeps, Owes, Ahead, Gives, Fns, Hooks!Allocates,
         Hooks!Releases, Hooks!Moves, Hooks!Loads, Hooks!ReleasesFirst
  <2>2. UNCHANGED <<owner, events, allocations>>
    BY DEF CallsAreStaged
  <2>3. QED
    BY <2>1, <2>2, <1>o, QuietKeepsBooks
<1>6. Patches'
  <2>1. \A u \in Allocating : /\ call'[u].stage = "sweep" <=> call[u].stage = "sweep"
                              /\ call'[u].stage = "invalidate" <=> call[u].stage = "invalidate"
    BY CallFacts DEF CallType, Calls, Hooks!Idle
  <2>2. QED
    BY <2>1, CallsKeepPatches
<1>7. QED
  BY <1>1, <1>2, <1>3, <1>4, <1>5, <1>6

\* The release is recorded.
LEMMA UntrackKeepsHooks ==
  HooksInvariant /\ (\E t \in Allocating : Hooks!Untrack(t)) => HooksInvariant'
<1> SUFFICES ASSUME HooksInvariant, NEW t \in Allocating, Hooks!Untrack(t) PROVE HooksInvariant'
  OBVIOUS
<1> USE DEF HooksInvariant, Hooks!Untrack, Hooks!Event, Hooks!Idle
<1>o. Others(t)
  BY DEF CallType, Others
<1>1. PatchType'
  BY DEF PatchType, Hooks!patchVars
<1>2. CallType'
  <2>1. /\ [call[t] EXCEPT !.stage = "track"] \in Calls /\ [call[t] EXCEPT !.stage = "real"] \in Calls
    BY CallFacts, StagesAreCalls DEF Stages
  <2>2. QED
    BY <2>1, CallFacts DEF CallType
<1>3. BookType'
  <2>1. \A b \in Blocks : Hooks!Event("release", call[t], b, call[t].number) \in Events
    BY CallFacts DEF Calls, Events, Kinds
  <2>2. call[t].block \in Blocks
    BY DEF CallsAreStaged
  <2>3. QED
    BY <2>1, <2>2 DEF BookType
<1>4. CallsAreStaged'
  BY SMTT(30), CallFacts
     DEF CallType, Calls, BookType, CallsAreStaged, Hooks!Idle, Gives, Fns, Hooks!Allocates,
       Hooks!Releases, Hooks!Moves, Hooks!Loads, Hooks!ReleasesFirst
<1>5. Books'
  <2> DEFINE e == Hooks!Event("release", call[t], call[t].block, call[t].number)
  <2>1. Records(Len(events) + 1, e)
    BY AppendRecords DEF BookType
  <2>2. /\ e.kind = "release" /\ e.number = call[t].number /\ e.block = call[t].block
        /\ e.block \in Blocks /\ e.fn = call[t].fn
    BY DEF CallsAreStaged
  <2> HIDE DEF e
  <2>3. Owes(call[t]) /\ ~Ahead(call[t]) /\ call[t].number # 0 /\ ~Owes(call'[t])
    BY DEF CallType, Calls, CallsAreStaged, Owes, Ahead, Gives, Fns, Hooks!Allocates,
         Hooks!Releases, Hooks!Moves, Hooks!Loads, Hooks!ReleasesFirst
  <2>4. call[t].fn \in {"free", "munmap"} => Keeps(call[t])
    BY DEF Keeps, Gives, Fns, Hooks!Allocates, Hooks!Releases, Hooks!Moves, Hooks!Loads,
         Hooks!ReleasesFirst
  <2>5. \/ Keeps(call[t]) /\ Keeps(call'[t]) /\ Ahead(call'[t])
        \/ ~Keeps(call[t]) /\ ~Keeps(call'[t])
    BY DEF CallType, Calls, CallsAreStaged, Keeps, Ahead, Gives, Fns, Hooks!Allocates,
         Hooks!Releases, Hooks!Moves, Hooks!Loads, Hooks!ReleasesFirst
  <2>6. /\ \/ call'[t].number = call[t].number /\ call'[t].block = call[t].block
           \/ call'[t].number = 0 /\ ~Keeps(call'[t])
        /\ \/ call'[t].taken = 0
           \/ call'[t].taken = call[t].taken /\ call'[t].next = call[t].next
    BY DEF CallType, Calls, Keeps, Gives, Fns, Hooks!Allocates, Hooks!Releases, Hooks!Moves,
         Hooks!Loads, Hooks!ReleasesFirst
  <2>7. QED
    BY <2>1, <2>2, <2>3, <2>4, <2>5, <2>6, <1>o, UntrackKeepsBooks
<1>6. Patches'
  <2>1. \A u \in Allocating : /\ call'[u].stage = "sweep" <=> call[u].stage = "sweep"
                              /\ call'[u].stage = "invalidate" <=> call[u].stage = "invalidate"
    BY CallFacts DEF CallType, Calls, Hooks!Idle
  <2>2. QED
    BY <2>1, CallsKeepPatches
<1>7. QED
  BY <1>1, <1>2, <1>3, <1>4, <1>5, <1>6

\* The allocation is recorded.
LEMMA TrackKeepsHooks ==
  HooksInvariant /\ (\E t \in Allocating : Hooks!Track(t)) => HooksInvariant'
<1> SUFFICES ASSUME HooksInvariant, NEW t \in Allocating, Hooks!Track(t) PROVE HooksInvariant'
  OBVIOUS
<1> USE DEF HooksInvariant, Hooks!Track, Hooks!Event, Hooks!Idle
<1>o. Others(t)
  BY DEF CallType, Others
<1>1. PatchType'
  BY DEF PatchType, Hooks!patchVars
<1>2. CallType'
  BY CallFacts
     DEF CallType, BookType, CallsAreStaged, Calls, Stages, Gives, Fns, Hooks!Allocates,
       Hooks!Releases, Hooks!Moves, Hooks!Loads, Hooks!ReleasesFirst
<1>3. BookType'
  BY CallFacts
     DEF BookType, CallsAreStaged, Hooks!TakesBlock, Hooks!MovesBlock, Calls, Events, Kinds
<1>4. CallsAreStaged'
  BY CallFacts
     DEF CallType, Calls, BookType, CallsAreStaged, Hooks!Idle, Gives, Fns, Hooks!Allocates,
       Hooks!Releases, Hooks!Moves, Hooks!Loads, Hooks!ReleasesFirst
<1>5. Books'
  <2> DEFINE e == Hooks!Event("allocate", call[t], call[t].next, call[t].taken)
  <2>1. Records(Len(events) + 1, e)
    BY AppendRecords DEF BookType
  <2>2. e.kind = "allocate" /\ e.number = call[t].taken /\ e.block = call[t].next
    OBVIOUS
  <2> HIDE DEF e
  <2>3. /\ call[t].taken # 0 /\ ~Ahead(call[t]) /\ call'[t].number = 0 /\ call'[t].taken = 0
        /\ ~Keeps(call'[t]) /\ ~Owes(call'[t])
    BY CallFacts DEF CallType, CallsAreStaged, Ahead
  <2>4. QED
    BY <2>1, <2>2, <2>3, <1>o, TrackKeepsBooks
<1>6. Patches'
  <2>1. \A u \in Allocating : /\ call'[u].stage = "sweep" <=> call[u].stage = "sweep"
                              /\ call'[u].stage = "invalidate" <=> call[u].stage = "invalidate"
    BY CallFacts DEF CallType, Calls, Hooks!Idle
  <2>2. QED
    BY <2>1, CallsKeepPatches
<1>7. QED
  BY <1>1, <1>2, <1>3, <1>4, <1>5, <1>6

\* The real function, in all its cases.
LEMMA RunRealKeepsHooks ==
  HooksInvariant /\ (\E t \in Allocating : Hooks!RunReal(t)) => HooksInvariant'
BY RealCases, RealTakesKeepsHooks, RealFailsKeepsHooks, RealGivesKeepsHooks, RealMovesKeepsHooks

\* A step that leaves all calls and blocks alone leaves the books alone.
LEMMA PatchesKeepBooks ==
  ASSUME Books, UNCHANGED <<call, owner, events, allocations>>
  PROVE  Books'
BY DEF Books, NumbersAreOwn, RecordedIsOver, OwnersAreLatest, Hooks!BlocksAreCountedOnce,
       Hooks!ReleasesComeFirst

\* Objects come and go, unpatched; no sweep is under way.
LEMMA LoadKeepsHooks ==
  HooksInvariant /\ (\E t \in Allocating : Hooks!Load(t)) => HooksInvariant'
<1> SUFFICES ASSUME HooksInvariant, NEW t \in Allocating, Hooks!Load(t) PROVE HooksInvariant'
  OBVIOUS
<1> USE DEF HooksInvariant, Hooks!Load
<1>o. Others(t) /\ call'[t] = [call[t] EXCEPT !.stage = "invalidate"]
  BY DEF CallType, Others
<1>1. PatchType'
  <2>1. got' \in [Libs -> {"original", "hook"}] /\ loaded' \in SUBSET Libs
    BY ObjectAssumption DEF PatchType
  <2>2. QED
    BY <2>1 DEF PatchType, Hooks!Patched, Hooks!NoSweep
<1>2. CallType'
  <2>1. [call[t] EXCEPT !.stage = "invalidate"] \in Calls
    BY CallFacts, StagesAreCalls DEF Stages
  <2>2. QED
    BY <2>1 DEF CallType
<1>3. BookType'
  BY DEF BookType
<1>4. CallsAreStaged'
  BY CallFacts, <1>o
     DEF CallType, Calls, CallsAreStaged, Others, Hooks!Idle, Gives, Fns, Hooks!Allocates,
       Hooks!Releases, Hooks!Moves, Hooks!Loads, Hooks!ReleasesFirst
<1>5. Books'
  <2>1. call'[t].number = 0 /\ ~Keeps(call'[t]) /\ ~Owes(call'[t]) /\ ~Ahead(call[t]) /\ call'[t].taken = 0
    BY CallFacts
       DEF CallType, Calls, CallsAreStaged, Keeps, Owes, Ahead, Gives, Fns, Hooks!Allocates,
         Hooks!Releases, Hooks!Moves, Hooks!Loads, Hooks!ReleasesFirst
  <2>2. QED
    BY <2>1, <1>o, QuietKeepsBooks
<1>6. Patches'
  <2>1. /\ call'[t].stage = "invalidate"
        /\ \A u \in Allocating \ {t} : call'[u].stage = call[u].stage
    BY <1>o, CallFacts DEF Others, Calls, Hooks!Idle
  <2> HIDE DEF HooksInvariant
  <2>2. SweepHoldsMutex /\ GotFollowsSweep /\ PatchType
    BY DEF HooksInvariant, Patches
  <2>3. SweepHoldsMutex'
    BY <2>1, <2>2, AllocatingAssumption DEF PatchType, SweepHoldsMutex, Hooks!Patched, Hooks!NoSweep
  <2>4. GotFollowsSweep'
    BY <2>1, <2>2, AllocatingAssumption, ObjectAssumption
       DEF PatchType, SweepHoldsMutex, Hooks!Patched, Hooks!NoSweep, GotFollowsSweep
  <2>5. QED
    BY <2>3, <2>4 DEF Patches
<1>7. QED
  BY <1>1, <1>2, <1>3, <1>4, <1>5, <1>6

\* The sweep after a dlopen or dlclose starts.
LEMMA InvalidateKeepsHooks ==
  HooksInvariant /\ (\E t \in Allocating : Hooks!Invalidate(t)) => HooksInvariant'
<1> SUFFICES ASSUME HooksInvariant, NEW t \in Allocating, Hooks!Invalidate(t) PROVE HooksInvariant'
  OBVIOUS
<1> USE DEF HooksInvariant, Hooks!Invalidate
<1>o. Others(t) /\ call'[t] = [call[t] EXCEPT !.stage = "sweep"]
  BY DEF CallType, Others
<1>1. PatchType'
  <2>1. got' \in [Libs -> {"original", "hook"}] /\ loaded' \in SUBSET Libs
    BY ObjectAssumption DEF PatchType
  <2>2. QED
    BY <2>1 DEF PatchType, Hooks!Patched, Hooks!NoSweep
<1>2. CallType'
  <2>1. [call[t] EXCEPT !.stage = "sweep"] \in Calls
    BY CallFacts, StagesAreCalls DEF Stages
  <2>2. QED
    BY <2>1 DEF CallType
<1>3. BookType'
  BY DEF BookType
<1>4. CallsAreStaged'
  BY CallFacts, <1>o
     DEF CallType, Calls, CallsAreStaged, Others, Hooks!Idle, Gives, Fns, Hooks!Allocates,
       Hooks!Releases, Hooks!Moves, Hooks!Loads, Hooks!ReleasesFirst
<1>5. Books'
  <2>1. call'[t].number = 0 /\ ~Keeps(call'[t]) /\ ~Owes(call'[t]) /\ ~Ahead(call[t]) /\ call'[t].taken = 0
    BY CallFacts
       DEF CallType, Calls, CallsAreStaged, Keeps, Owes, Ahead, Gives, Fns, Hooks!Allocates,
         Hooks!Releases, Hooks!Moves, Hooks!Loads, Hooks!ReleasesFirst
  <2>2. QED
    BY <2>1, <1>o, QuietKeepsBooks
<1>6. Patches'
  <2>1. /\ call'[t].stage = "sweep"
        /\ \A u \in Allocating \ {t} : call'[u].stage = call[u].stage
    BY <1>o, CallFacts DEF Others, Calls, Hooks!Idle
  <2> HIDE DEF HooksInvariant
  <2>2. SweepHoldsMutex /\ GotFollowsSweep /\ PatchType
    BY DEF HooksInvariant, Patches
  <2>3. SweepHoldsMutex'
    BY <2>1, <2>2, AllocatingAssumption DEF PatchType, SweepHoldsMutex, Hooks!Patched, Hooks!NoSweep
  <2>4. GotFollowsSweep'
    BY <2>1, <2>2, AllocatingAssumption, ObjectAssumption
       DEF PatchType, SweepHoldsMutex, Hooks!Patched, Hooks!NoSweep, GotFollowsSweep
  <2>5. QED
    BY <2>3, <2>4 DEF Patches
<1>7. QED
  BY <1>1, <1>2, <1>3, <1>4, <1>5, <1>6

\* That sweep ends.
LEMMA EndInvalidateKeepsHooks ==
  HooksInvariant /\ (\E t \in Allocating : Hooks!EndInvalidate(t)) => HooksInvariant'
<1> SUFFICES ASSUME HooksInvariant, NEW t \in Allocating, Hooks!EndInvalidate(t)
              PROVE HooksInvariant'
  OBVIOUS
<1> USE DEF HooksInvariant, Hooks!EndInvalidate
<1>o. Others(t) /\ call'[t] = Hooks!Idle
  BY DEF CallType, Others
<1>1. PatchType'
  <2>1. got' \in [Libs -> {"original", "hook"}] /\ loaded' \in SUBSET Libs
    BY ObjectAssumption DEF PatchType
  <2>2. QED
    BY <2>1 DEF PatchType, Hooks!Patched, Hooks!NoSweep
<1>2. CallType'
  <2>1. Hooks!Idle \in Calls
    BY CallFacts DEF Stages
  <2>2. QED
    BY <2>1 DEF CallType
<1>3. BookType'
  BY DEF BookType
<1>4. CallsAreStaged'
  BY CallFacts, <1>o
     DEF CallType, Calls, CallsAreStaged, Others, Hooks!Idle, Gives, Fns, Hooks!Allocates,
       Hooks!Releases, Hooks!Moves, Hooks!Loads, Hooks!ReleasesFirst
<1>5. Books'
  <2>1. call'[t].number = 0 /\ ~Keeps(call'[t]) /\ ~Owes(call'[t]) /\ ~Ahead(call[t]) /\ call'[t].taken = 0
    BY CallFacts DEF CallType, Hooks!Idle, Ahead
  <2>2. QED
    BY <2>1, <1>o, QuietKeepsBooks
<1>6. Patches'
  <2>1. /\ call'[t].stage = "none"
        /\ \A u \in Allocating \ {t} : call'[u].stage = call[u].stage
    BY <1>o, CallFacts DEF Others, Calls, Hooks!Idle
  <2> HIDE DEF HooksInvariant
  <2>2. SweepHoldsMutex /\ GotFollowsSweep /\ PatchType
    BY DEF HooksInvariant, Patches
  <2>3. SweepHoldsMutex'
    BY <2>1, <2>2, AllocatingAssumption DEF PatchType, SweepHoldsMutex, Hooks!Patched, Hooks!NoSweep
  <2>4. GotFollowsSweep'
    BY <2>1, <2>2, AllocatingAssumption, ObjectAssumption
       DEF PatchType, SweepHoldsMutex, Hooks!Patched, Hooks!NoSweep, GotFollowsSweep
  <2>5. QED
    BY <2>3, <2>4 DEF Patches
<1>7. QED
  BY <1>1, <1>2, <1>3, <1>4, <1>5, <1>6

\* One object of a sweep.
LEMMA PatchOneKeepsHooks == HooksInvariant /\ Hooks!PatchOne => HooksInvariant'
<1> SUFFICES ASSUME HooksInvariant, Hooks!PatchOne PROVE HooksInvariant'
  OBVIOUS
<1> USE DEF HooksInvariant, Hooks!PatchOne
<1>1. PatchType'
  BY DEF PatchType, SweepHoldsMutex, Patches, Hooks!Patched, Hooks!NoSweep
<1>2. CallType'
  BY DEF CallType
<1>3. BookType'
  BY DEF BookType
<1>4. CallsAreStaged'
  BY DEF CallsAreStaged
<1>5. Books'
  BY PatchesKeepBooks
<1>6. SweepHoldsMutex'
  BY AllocatingAssumption DEF Patches, PatchType, SweepHoldsMutex, Hooks!Patched, Hooks!NoSweep
<1>7. GotFollowsSweep'
  BY AllocatingAssumption, ObjectAssumption
     DEF Patches, PatchType, SweepHoldsMutex, Hooks!Patched, Hooks!NoSweep, GotFollowsSweep
<1>8. QED
  BY <1>1, <1>2, <1>3, <1>4, <1>5, <1>6, <1>7 DEF Patches

\* The sweep of a start begins.
LEMMA StartCollectorKeepsHooks == HooksInvariant /\ Hooks!StartCollector => HooksInvariant'
<1> SUFFICES ASSUME HooksInvariant, Hooks!StartCollector PROVE HooksInvariant'
  OBVIOUS
<1> USE DEF HooksInvariant, Hooks!StartCollector
<1>1. PatchType'
  BY DEF PatchType, SweepHoldsMutex, Patches, Hooks!Patched, Hooks!NoSweep
<1>2. CallType'
  BY DEF CallType
<1>3. BookType'
  BY DEF BookType
<1>4. CallsAreStaged'
  BY DEF CallsAreStaged
<1>5. Books'
  BY PatchesKeepBooks
<1>6. SweepHoldsMutex'
  BY AllocatingAssumption DEF Patches, PatchType, SweepHoldsMutex, Hooks!Patched, Hooks!NoSweep
<1>7. GotFollowsSweep'
  BY AllocatingAssumption, ObjectAssumption
     DEF Patches, PatchType, SweepHoldsMutex, Hooks!Patched, Hooks!NoSweep, GotFollowsSweep
<1>8. QED
  BY <1>1, <1>2, <1>3, <1>4, <1>5, <1>6, <1>7 DEF Patches

\* The sweep of a stop begins.
LEMMA StopCollectorKeepsHooks == HooksInvariant /\ Hooks!StopCollector => HooksInvariant'
<1> SUFFICES ASSUME HooksInvariant, Hooks!StopCollector PROVE HooksInvariant'
  OBVIOUS
<1> USE DEF HooksInvariant, Hooks!StopCollector
<1>1. PatchType'
  BY DEF PatchType, SweepHoldsMutex, Patches, Hooks!Patched, Hooks!NoSweep
<1>2. CallType'
  BY DEF CallType
<1>3. BookType'
  BY DEF BookType
<1>4. CallsAreStaged'
  BY DEF CallsAreStaged
<1>5. Books'
  BY PatchesKeepBooks
<1>6. SweepHoldsMutex'
  BY AllocatingAssumption DEF Patches, PatchType, SweepHoldsMutex, Hooks!Patched, Hooks!NoSweep
<1>7. GotFollowsSweep'
  BY AllocatingAssumption, ObjectAssumption
     DEF Patches, PatchType, SweepHoldsMutex, Hooks!Patched, Hooks!NoSweep, GotFollowsSweep
<1>8. QED
  BY <1>1, <1>2, <1>3, <1>4, <1>5, <1>6, <1>7 DEF Patches

\* The sweep of a start or a stop ends.
LEMMA EndControlKeepsHooks == HooksInvariant /\ Hooks!EndControl => HooksInvariant'
<1> SUFFICES ASSUME HooksInvariant, Hooks!EndControl PROVE HooksInvariant'
  OBVIOUS
<1> USE DEF HooksInvariant, Hooks!EndControl
<1>1. PatchType'
  BY DEF PatchType, SweepHoldsMutex, Patches, Hooks!Patched, Hooks!NoSweep
<1>2. CallType'
  BY DEF CallType
<1>3. BookType'
  BY DEF BookType
<1>4. CallsAreStaged'
  BY DEF CallsAreStaged
<1>5. Books'
  BY PatchesKeepBooks
<1>6. SweepHoldsMutex'
  BY AllocatingAssumption DEF Patches, PatchType, SweepHoldsMutex, Hooks!Patched, Hooks!NoSweep
<1>7. GotFollowsSweep'
  BY AllocatingAssumption, ObjectAssumption
     DEF Patches, PatchType, SweepHoldsMutex, Hooks!Patched, Hooks!NoSweep, GotFollowsSweep
<1>8. QED
  BY <1>1, <1>2, <1>3, <1>4, <1>5, <1>6, <1>7 DEF Patches

-----------------------------------------------------------------------------
(* The theorem.                                                            *)

\* At the start nothing is patched, owned or recorded.
LEMMA InitHooks == Init => HooksInvariant
<1> SUFFICES ASSUME Hooks!Init PROVE HooksInvariant
  BY DEF Init
<1> USE AllocatingAssumption DEF Hooks!Init, Hooks!Idle, Hooks!NoSweep
<1>1. PatchType
  BY DEF PatchType
<1>2. CallType
  BY DEF CallType, Calls, Stages
<1>3. BookType
  BY DEF BookType
<1>4. CallsAreStaged
  BY DEF CallsAreStaged, Gives, Fns, Hooks!Allocates, Hooks!Releases, Hooks!Moves, Hooks!Loads,
       Hooks!ReleasesFirst
<1>5. Books
  <2>1. NumbersAreOwn
    BY DEF NumbersAreOwn, Keeps, Gives, Fns, Hooks!Allocates, Hooks!Releases, Hooks!Moves,
         Hooks!Loads, Hooks!ReleasesFirst
  <2>2. /\ RecordedIsOver /\ OwnersAreLatest /\ Hooks!BlocksAreCountedOnce /\ Hooks!ReleasesComeFirst
    BY DEF RecordedIsOver, OwnersAreLatest, Hooks!BlocksAreCountedOnce, Hooks!ReleasesComeFirst
  <2>3. QED
    BY <2>1, <2>2 DEF Books
<1>6. Patches
  BY ObjectAssumption DEF Patches, SweepHoldsMutex, GotFollowsSweep, Hooks!Patched
<1>7. QED
  BY <1>1, <1>2, <1>3, <1>4, <1>5, <1>6 DEF HooksInvariant

\* Every step of every part keeps the invariant.
LEMMA NextKeepsHooks == HooksInvariant /\ [Next]_vars => HooksInvariant'
<1> SUFFICES ASSUME HooksInvariant, [Next]_vars PROVE HooksInvariant'
  OBVIOUS
<1>1. CASE HooksNext
  <2>1. Hooks!Next
    BY <1>1 DEF HooksNext
  <2>2. QED
    BY <2>1, CallKeepsHooks, RunUnhookedKeepsHooks, RunRealKeepsHooks, MapInsideKeepsHooks,
       LeaveRealKeepsHooks, UntrackKeepsHooks, TrackKeepsHooks, LoadKeepsHooks,
       InvalidateKeepsHooks, EndInvalidateKeepsHooks, PatchOneKeepsHooks,
       StartCollectorKeepsHooks, StopCollectorKeepsHooks, EndControlKeepsHooks
       DEF Hooks!Next, Fns
<1>2. CASE UNCHANGED hooksVars
  <2>1. PatchType' /\ CallType' /\ BookType' /\ CallsAreStaged'
    BY <1>2 DEF HooksInvariant, hooksVars, PatchType, CallType, BookType, CallsAreStaged
  <2>2. Books'
    BY <1>2, PatchesKeepBooks DEF HooksInvariant, hooksVars
  <2>3. Patches'
    BY <1>2, CallsKeepPatches DEF HooksInvariant, hooksVars, Hooks!patchVars
  <2>4. QED
    BY <2>1, <2>2, <2>3 DEF HooksInvariant
<1>3. QED
  BY <1>1, <1>2 DEF Next, vars, AllocNext, StorageNext, RecorderNext, TracerNext,
                    DwarfNext, SymbolsNext, SamplerNext, SiteNext, LauncherNext

\* Nobody sweeps when the sweep is over.
LEMMA InvariantIsEnough == HooksInvariant => HooksAreSound
<1> SUFFICES ASSUME HooksInvariant PROVE HooksAreSound
  OBVIOUS
<1>1. Hooks!BlocksAreCountedOnce /\ Hooks!ReleasesComeFirst
  BY DEF HooksInvariant, Books
<1>2. Hooks!HooksFollowTheCollector
  BY DEF HooksInvariant, Patches, SweepHoldsMutex, GotFollowsSweep, Hooks!HooksFollowTheCollector
<1>3. QED
  BY <1>1, <1>2 DEF HooksAreSound

(* pyki's hooks record every block once as allocated and once as released, free and munmap
   record the release before the block has its next owner, and between sweeps the GOT
   entries are those of the collector's state: the property HooksAreSound of the run
   injected_code, for any number of threads, objects, blocks, calls and starts. *)
THEOREM BlocksAreBooked == Spec => []HooksAreSound
<1>1. Init => HooksInvariant
  BY InitHooks
<1>2. HooksInvariant /\ [Next]_vars => HooksInvariant'
  BY NextKeepsHooks
<1>3. HooksInvariant => HooksAreSound
  BY InvariantIsEnough
<1>4. QED
  BY <1>1, <1>2, <1>3, PTL DEF Spec

-----------------------------------------------------------------------------
(* Python's allocators.                                                    *)

(* Where a domain comes in the plan of a session. *)
HookAt(d) == CASE d = "obj" -> 1 [] d = "mem" -> 2 [] OTHER -> 3
SetAt(d) == CASE d = "raw" -> 2 [] d = "mem" -> 3 [] OTHER -> 4
UnsetAt(d) == SetAt(d) - 1

Operation == [op : {"hook", "restore", "save", "set", "unset"}, domain : Sampler!Domains]
HeapOptions == [heap : BOOLEAN, native : BOOLEAN, interval : Intervals \cup {0}]

Starting == Sampler!When(heapOptions.heap, Sampler!HeapSteps("hook"))
              \o Sampler!When(heapOptions.native,
                              <<Sampler!Step("save", "raw")>> \o Sampler!NativeSteps("set"))
Steps(profiled) == IF profiled THEN 3 ELSE 0      \* of the heap profiler, and of the native one's stop
Heap == Steps(heapOptions.heap)
Native == Steps(heapOptions.native)

(* Whom the domains call when k - 1 steps of the start of heap profiler h and native profiler n *)
(* are done, if now are the functions there, orig those the heap profiler and under those the   *)
(* native profiler found.                                                                      *)
Begun(h, n, now, orig, under, k) ==
  \A d \in Sampler!Domains :
    /\ now[d] = IF n /\ k > Steps(h) + SetAt(d) THEN "native"
                ELSE IF h /\ k > HookAt(d) THEN "heap" ELSE "python"
    /\ h /\ k > HookAt(d) => orig[d] = "python"
    /\ n /\ k > Steps(h) + 1 => under[d] = IF h THEN "heap" ELSE "python"

(* The same for the stop. *)
Undone(h, n, now, orig, under, k) ==
  \A d \in Sampler!Domains :
    /\ now[d] = IF h /\ k > Steps(n) + HookAt(d) THEN "python"
                ELSE IF n /\ k <= UnsetAt(d) THEN "native"
                ELSE IF h THEN "heap" ELSE "python"
    /\ h => orig[d] = "python"
    /\ n => under[d] = IF h THEN "heap" ELSE "python"

StartedUpTo(k) == Begun(heapOptions.heap, heapOptions.native, installed, saved, replaced, k)
StoppedUpTo(k) == Undone(heapOptions.heap, heapOptions.native, installed, saved, replaced, k)

(* A session has done a part of its plan, and the rest is what it still does. *)
Following(k, plan) == k \in 1..Len(plan) /\ todo = SubSeq(plan, k, Len(plan))
SessionFollowsPlan ==
  \/ phase = "off" /\ todo = <<>> /\ \A d \in Sampler!Domains : installed[d] = "python"
  \/ phase = "on" /\ todo = <<>> /\ StartedUpTo(Len(Starting) + 1)
  \/ phase = "starting" /\ \E k \in Nat : Following(k, Starting) /\ StartedUpTo(k)
  \/ phase = "stopping" /\ \E k \in Nat : Following(k, Sampler!StopSteps) /\ StoppedUpTo(k)

Hookers == {"none", "python", "heap", "native"}
HooksType ==
  /\ heapOptions \in HeapOptions
  /\ phase # "off" => heapOptions.heap \/ heapOptions.native
  /\ installed \in [Sampler!Domains -> Hookers]
  /\ saved \in [Sampler!Domains -> Hookers]
  /\ replaced \in [Sampler!Domains -> Hookers]
  /\ interval \in [Sampler!Domains -> Intervals \cup {0}]

LEMMA HeapStepsAre ==
  ASSUME NEW o \in {"hook", "restore"}
  PROVE  /\ Sampler!HeapSteps(o) \in Seq(Operation) /\ Len(Sampler!HeapSteps(o)) = 3
         /\ \A k \in 1..3 : /\ Sampler!HeapSteps(o)[k].op = o
                            /\ Sampler!HeapSteps(o)[k].domain \in Sampler!Domains
                            /\ HookAt(Sampler!HeapSteps(o)[k].domain) = k
BY DEF Sampler!HeapSteps, Sampler!Step, Sampler!Domains, HookAt, Operation

LEMMA NativeStepsAre ==
  ASSUME NEW o \in {"set", "unset"}
  PROVE  /\ Sampler!NativeSteps(o) \in Seq(Operation) /\ Len(Sampler!NativeSteps(o)) = 3
         /\ \A k \in 1..3 : /\ Sampler!NativeSteps(o)[k].op = o
                            /\ Sampler!NativeSteps(o)[k].domain \in Sampler!Domains
                            /\ SetAt(Sampler!NativeSteps(o)[k].domain) = k + 1
BY DEF Sampler!NativeSteps, Sampler!Step, Sampler!Domains, SetAt, Operation

LEMMA WhenIs ==
  ASSUME NEW p \in BOOLEAN, NEW steps \in Seq(Operation)
  PROVE  /\ Sampler!When(p, steps) \in Seq(Operation)
         /\ Len(Sampler!When(p, steps)) = IF p THEN Len(steps) ELSE 0
         /\ \A k \in 1..Len(Sampler!When(p, steps)) : p /\ Sampler!When(p, steps)[k] = steps[k]
<1>1. CASE p
  BY <1>1 DEF Sampler!When
<1>2. CASE ~p
  <2>1. Sampler!When(p, steps) = <<>>
    BY <1>2 DEF Sampler!When
  <2>2. QED
    BY <1>2, <2>1
<1>3. QED
  BY <1>1, <1>2

\* Two plans one after the other.
Joined(c, a, b, m, n) ==
  /\ Len(c) = m + n
  /\ \A k \in 1..(m + n) :
       (k <= m /\ c[k] = a[k]) \/ (k > m /\ k - m \in 1..n /\ c[k] = b[k - m])

LEMMA JoinedIs ==
  ASSUME NEW a \in Seq(Operation), NEW b \in Seq(Operation), NEW c \in Seq(Operation), c = a \o b
  PROVE  Joined(c, a, b, Len(a), Len(b))
<1>1. /\ Len(a \o b) = Len(a) + Len(b)
      /\ \A i \in 1..(Len(a) + Len(b)) : (a \o b)[i] = IF i <= Len(a) THEN a[i] ELSE b[i - Len(a)]
  BY ConcatProperties, Zenon
<1>2. PICK m \in Nat, n \in Nat : m = Len(a) /\ n = Len(b)
  BY LenProperties
<1>3. Len(c) = m + n
  BY <1>1, <1>2, Zenon
<1>4. \A i \in 1..(m + n) : c[i] = IF i <= m THEN a[i] ELSE b[i - m]
  BY <1>1, <1>2, Zenon
<1>5. ASSUME NEW k \in 1..(m + n)
      PROVE  (k <= m /\ c[k] = a[k]) \/ (k > m /\ k - m \in 1..n /\ c[k] = b[k - m])
  <2>1. c[k] = IF k <= m THEN a[k] ELSE b[k - m]
    BY <1>4
  <2>2. k <= m \/ (k > m /\ k - m \in 1..n /\ ~(k <= m))
    OBVIOUS
  <2>3. QED
    BY <2>1, <2>2, Zenon
<1>6. Joined(c, a, b, m, n)
  BY <1>3, <1>5, Zenon DEF Joined
<1>7. QED
  BY <1>2, <1>6, Zenon

IsHook(s, o, k) == s.domain \in Sampler!Domains /\ s.op = o /\ HookAt(s.domain) = k
IsSet(s, o, k) == s.domain \in Sampler!Domains /\ s.op = o /\ SetAt(s.domain) = k
IsSave(s) == s.domain \in Sampler!Domains /\ s.op = "save"

LEMMA StartingIs ==
  heapOptions \in HeapOptions =>
    /\ Starting \in Seq(Operation)
    /\ Len(Starting) = Heap + (IF heapOptions.native THEN 4 ELSE 0)
    /\ \A k \in 1..Len(Starting) :
         \/ k <= Heap /\ IsHook(Starting[k], "hook", k)
         \/ heapOptions.native /\ k = Heap + 1 /\ IsSave(Starting[k])
         \/ heapOptions.native /\ k > Heap + 1 /\ IsSet(Starting[k], "set", k - Heap)
<1> SUFFICES ASSUME heapOptions \in HeapOptions
             PROVE  /\ Starting \in Seq(Operation)
                    /\ Len(Starting) = Heap + (IF heapOptions.native THEN 4 ELSE 0)
                    /\ \A k \in 1..Len(Starting) :
                         \/ k <= Heap /\ IsHook(Starting[k], "hook", k)
                         \/ heapOptions.native /\ k = Heap + 1 /\ IsSave(Starting[k])
                         \/ heapOptions.native /\ k > Heap + 1 /\ IsSet(Starting[k], "set", k - Heap)
  OBVIOUS
<1>0. /\ heapOptions.heap \in BOOLEAN /\ heapOptions.native \in BOOLEAN
      /\ Heap = IF heapOptions.heap THEN 3 ELSE 0
  BY DEF HeapOptions, Heap, Steps
<1>1. PICK h \in Seq(Operation) :
        h = Sampler!HeapSteps("hook") /\ Len(h) = 3 /\ \A k \in 1..3 : IsHook(h[k], "hook", k)
  BY HeapStepsAre DEF IsHook
<1>2. PICK a \in Seq(Operation) : /\ a = Sampler!When(heapOptions.heap, h) /\ Len(a) = Heap
                                  /\ \A k \in 1..Heap : IsHook(a[k], "hook", k)
  <2>1. /\ Sampler!When(heapOptions.heap, h) \in Seq(Operation)
        /\ Len(Sampler!When(heapOptions.heap, h)) = IF heapOptions.heap THEN Len(h) ELSE 0
        /\ \A k \in 1..Len(Sampler!When(heapOptions.heap, h)) :
             heapOptions.heap /\ Sampler!When(heapOptions.heap, h)[k] = h[k]
    BY <1>0, WhenIs
  <2>2. PICK a \in Seq(Operation) : a = Sampler!When(heapOptions.heap, h)
    BY <2>1
  <2>3. Len(a) = Heap /\ \A k \in 1..Heap : k \in 1..3 /\ a[k] = h[k]
    BY <1>0, <1>1, <2>1, <2>2
  <2>4. QED
    BY <1>1, <2>2, <2>3, Zenon
<1>3. PICK b \in Seq(Operation) : b = <<Sampler!Step("save", "raw")>> /\ Len(b) = 1 /\ IsSave(b[1])
  <2>1. PICK s : s = Sampler!Step("save", "raw")
    OBVIOUS
  <2>2. s \in Operation /\ IsSave(s)
    BY <2>1 DEF Sampler!Step, Operation, Sampler!Domains, IsSave
  <2>3. <<s>> \in Seq(Operation) /\ Len(<<s>>) = 1 /\ <<s>>[1] = s
    BY <2>2
  <2>4. QED
    BY <2>1, <2>2, <2>3, Zenon
<1>4. PICK c \in Seq(Operation) :
        c = Sampler!NativeSteps("set") /\ Len(c) = 3 /\ \A k \in 1..3 : IsSet(c[k], "set", k + 1)
  BY NativeStepsAre DEF IsSet
<1>5. PICK d \in Seq(Operation) : d = b \o c
  BY ConcatProperties
<1>6. /\ Len(d) = 4
      /\ \A k \in 1..4 : (k = 1 /\ IsSave(d[k])) \/ (k # 1 /\ IsSet(d[k], "set", k))
  <2>0. Joined(d, b, c, 1, 3)
    <3>1. Joined(d, b, c, Len(b), Len(c))
      BY <1>5, JoinedIs, Zenon
    <3>2. QED
      BY <1>3, <1>4, <3>1, Zenon
  <2>1. /\ Len(d) = 4
        /\ \A k \in 1..4 : (k <= 1 /\ d[k] = b[k]) \/ (k > 1 /\ k - 1 \in 1..3 /\ d[k] = c[k - 1])
    <3>1. 1 + 3 = 4
      OBVIOUS
    <3>2. QED
      BY <2>0, <3>1, Zenon DEF Joined
  <2>2. \A k \in 1..4 : (k <= 1 => k = 1) /\ (k > 1 => k # 1) /\ (k - 1) + 1 = k
    OBVIOUS
  <2>3. ASSUME NEW k \in 1..4 PROVE (k = 1 /\ IsSave(d[k])) \/ (k # 1 /\ IsSet(d[k], "set", k))
    <3>1. CASE k <= 1 /\ d[k] = b[k]
      BY <1>3, <2>2, <3>1, Zenon
    <3>2. CASE k > 1 /\ k - 1 \in 1..3 /\ d[k] = c[k - 1]
      <4>1. IsSet(c[k - 1], "set", (k - 1) + 1)
        BY <1>4, <3>2, Zenon
      <4>2. QED
        BY <2>2, <3>2, <4>1, Zenon
    <3>3. QED
      BY <2>1, <3>1, <3>2, Zenon
  <2>4. QED
    BY <2>1, <2>3, Zenon
<1>7. PICK l \in {0, 4} : l = IF heapOptions.native THEN 4 ELSE 0
  BY <1>0
<1>8. PICK n \in Seq(Operation) : /\ n = Sampler!When(heapOptions.native, d) /\ Len(n) = l
                                  /\ \A k \in 1..l : heapOptions.native /\ n[k] = d[k]
  <2>1. /\ Sampler!When(heapOptions.native, d) \in Seq(Operation)
        /\ Len(Sampler!When(heapOptions.native, d)) = IF heapOptions.native THEN Len(d) ELSE 0
        /\ \A k \in 1..Len(Sampler!When(heapOptions.native, d)) :
             heapOptions.native /\ Sampler!When(heapOptions.native, d)[k] = d[k]
    BY <1>0, WhenIs
  <2>2. PICK n \in Seq(Operation) : n = Sampler!When(heapOptions.native, d)
    BY <2>1
  <2>3. Len(n) = l /\ \A k \in 1..l : heapOptions.native /\ n[k] = d[k]
    BY <1>6, <1>7, <2>1, <2>2, Zenon
  <2>4. QED
    BY <2>2, <2>3
<1>9. PICK p \in Seq(Operation) : p = a \o n
  BY ConcatProperties
<1>10. Starting = p
  BY <1>1, <1>2, <1>3, <1>4, <1>5, <1>8, <1>9, Zenon DEF Starting
<1>11. PICK m \in {0, 3} : m = Heap
  BY <1>0
<1>12. /\ Len(p) = m + l
       /\ \A k \in 1..(m + l) : (k <= m /\ p[k] = a[k]) \/ (k > m /\ k - m \in 1..l /\ p[k] = n[k - m])
  <2>1. Joined(p, a, n, Len(a), Len(n))
    BY <1>9, JoinedIs, Zenon
  <2>2. Joined(p, a, n, m, l)
    BY <1>2, <1>8, <1>11, <2>1, Zenon
  <2>3. QED
    BY <2>2, Zenon DEF Joined
<1>13. ASSUME NEW k \in 1..(m + l)
       PROVE  \/ k <= m /\ IsHook(p[k], "hook", k)
              \/ heapOptions.native /\ k = m + 1 /\ IsSave(p[k])
              \/ heapOptions.native /\ k > m + 1 /\ IsSet(p[k], "set", k - m)
  <2>1. CASE k <= m /\ p[k] = a[k]
    <3>1. k \in 1..Heap
      BY <1>11, <2>1
    <3>2. QED
      BY <1>2, <2>1, <3>1, Zenon
  <2>2. CASE k > m /\ k - m \in 1..l /\ p[k] = n[k - m]
    <3>1. heapOptions.native /\ p[k] = d[k - m] /\ k - m \in 1..4
      BY <1>7, <1>8, <2>2
    <3>2. (k - m = 1 /\ k = m + 1) \/ (k - m # 1 /\ k > m + 1)
      BY <2>2
    <3>3. QED
      BY <1>6, <3>1, <3>2, Zenon
  <2>3. QED
    BY <1>12, <2>1, <2>2
<1>14. QED
  BY <1>7, <1>10, <1>11, <1>12, <1>13, Zenon

LEMMA StoppingIs ==
  heapOptions \in HeapOptions =>
    /\ Sampler!StopSteps \in Seq(Operation)
    /\ Len(Sampler!StopSteps) = Native + Heap
    /\ \A k \in 1..Len(Sampler!StopSteps) :
         \/ k <= Native /\ IsSet(Sampler!StopSteps[k], "unset", k + 1)
         \/ k > Native /\ IsHook(Sampler!StopSteps[k], "restore", k - Native)
<1> SUFFICES ASSUME heapOptions \in HeapOptions
             PROVE  /\ Sampler!StopSteps \in Seq(Operation)
                    /\ Len(Sampler!StopSteps) = Native + Heap
                    /\ \A k \in 1..Len(Sampler!StopSteps) :
                         \/ k <= Native /\ IsSet(Sampler!StopSteps[k], "unset", k + 1)
                         \/ k > Native /\ IsHook(Sampler!StopSteps[k], "restore", k - Native)
  OBVIOUS
<1>0. /\ heapOptions.heap \in BOOLEAN /\ heapOptions.native \in BOOLEAN
      /\ Heap = IF heapOptions.heap THEN 3 ELSE 0
      /\ Native = IF heapOptions.native THEN 3 ELSE 0
  BY DEF HeapOptions, Heap, Native, Steps
<1>1. PICK h \in Seq(Operation) :
        h = Sampler!HeapSteps("restore") /\ Len(h) = 3 /\ \A k \in 1..3 : IsHook(h[k], "restore", k)
  BY HeapStepsAre DEF IsHook
<1>2. PICK c \in Seq(Operation) :
        c = Sampler!NativeSteps("unset") /\ Len(c) = 3 /\ \A k \in 1..3 : IsSet(c[k], "unset", k + 1)
  BY NativeStepsAre DEF IsSet
<1>3. PICK a \in Seq(Operation) : /\ a = Sampler!When(heapOptions.native, c) /\ Len(a) = Native
                                  /\ \A k \in 1..Native : IsSet(a[k], "unset", k + 1)
  <2>1. /\ Sampler!When(heapOptions.native, c) \in Seq(Operation)
        /\ Len(Sampler!When(heapOptions.native, c)) = IF heapOptions.native THEN Len(c) ELSE 0
        /\ \A k \in 1..Len(Sampler!When(heapOptions.native, c)) :
             heapOptions.native /\ Sampler!When(heapOptions.native, c)[k] = c[k]
    BY <1>0, WhenIs
  <2>2. PICK a \in Seq(Operation) : a = Sampler!When(heapOptions.native, c)
    BY <2>1
  <2>3. Len(a) = Native /\ \A k \in 1..Native : k \in 1..3 /\ a[k] = c[k]
    BY <1>0, <1>2, <2>1, <2>2
  <2>4. QED
    BY <1>2, <2>2, <2>3, Zenon
<1>4. PICK n \in Seq(Operation) : /\ n = Sampler!When(heapOptions.heap, h) /\ Len(n) = Heap
                                  /\ \A k \in 1..Heap : IsHook(n[k], "restore", k)
  <2>1. /\ Sampler!When(heapOptions.heap, h) \in Seq(Operation)
        /\ Len(Sampler!When(heapOptions.heap, h)) = IF heapOptions.heap THEN Len(h) ELSE 0
        /\ \A k \in 1..Len(Sampler!When(heapOptions.heap, h)) :
             heapOptions.heap /\ Sampler!When(heapOptions.heap, h)[k] = h[k]
    BY <1>0, WhenIs
  <2>2. PICK n \in Seq(Operation) : n = Sampler!When(heapOptions.heap, h)
    BY <2>1
  <2>3. Len(n) = Heap /\ \A k \in 1..Heap : k \in 1..3 /\ n[k] = h[k]
    BY <1>0, <1>1, <2>1, <2>2
  <2>4. QED
    BY <1>1, <2>2, <2>3, Zenon
<1>5. PICK p \in Seq(Operation) : p = a \o n
  BY ConcatProperties
<1>6. Sampler!StopSteps = p
  BY <1>1, <1>2, <1>3, <1>4, <1>5, Zenon DEF Sampler!StopSteps
<1>7. PICK m \in {0, 3}, l \in {0, 3} : m = Native /\ l = Heap
  BY <1>0
<1>8. /\ Len(p) = m + l
      /\ \A k \in 1..(m + l) : (k <= m /\ p[k] = a[k]) \/ (k > m /\ k - m \in 1..l /\ p[k] = n[k - m])
  <2>1. Joined(p, a, n, Len(a), Len(n))
    BY <1>5, JoinedIs, Zenon
  <2>2. Joined(p, a, n, m, l)
    BY <1>3, <1>4, <1>7, <2>1, Zenon
  <2>3. QED
    BY <2>2, Zenon DEF Joined
<1>9. ASSUME NEW k \in 1..(m + l)
      PROVE  \/ k <= m /\ IsSet(p[k], "unset", k + 1)
             \/ k > m /\ IsHook(p[k], "restore", k - m)
  <2>1. CASE k <= m /\ p[k] = a[k]
    <3>1. k \in 1..Native
      BY <1>7, <2>1
    <3>2. QED
      BY <1>3, <2>1, <3>1, Zenon
  <2>2. CASE k > m /\ k - m \in 1..l /\ p[k] = n[k - m]
    <3>1. k - m \in 1..Heap
      BY <1>7, <2>2
    <3>2. QED
      BY <1>4, <2>2, <3>1, Zenon
  <2>3. QED
    BY <1>8, <2>1, <2>2
<1>10. QED
  BY <1>6, <1>7, <1>8, <1>9, Zenon

-----------------------------------------------------------------------------
(* The hooks.                                                              *)

LEMMA PlacesDiffer ==
  \A d, e \in Sampler!Domains : /\ HookAt(d) \in 1..3 /\ SetAt(d) \in 2..4 /\ UnsetAt(d) \in 1..3
                                /\ UnsetAt(d) = SetAt(d) - 1
                                /\ d # e => HookAt(d) # HookAt(e) /\ SetAt(d) # SetAt(e)
BY DEF Sampler!Domains, HookAt, SetAt, UnsetAt

\* hook_allocator of one domain.
LEMMA HookGoesOn ==
  ASSUME NEW h \in BOOLEAN, NEW n \in BOOLEAN, NEW k \in Nat, NEW now, NEW orig, NEW under,
         now \in [Sampler!Domains -> Hookers], orig \in [Sampler!Domains -> Hookers],
         NEW e \in Sampler!Domains, Begun(h, n, now, orig, under, k), h, HookAt(e) = k
  PROVE  Begun(h, n, [now EXCEPT ![e] = "heap"], [orig EXCEPT ![e] = now[e]], under, k + 1)
<1> USE PlacesDiffer DEF Steps
<1>1. SUFFICES ASSUME NEW d \in Sampler!Domains
               PROVE  /\ [now EXCEPT ![e] = "heap"][d] = IF h /\ k + 1 > HookAt(d) THEN "heap" ELSE "python"
                      /\ k + 1 > HookAt(d) => [orig EXCEPT ![e] = now[e]][d] = "python"
                      /\ ~(k + 1 > Steps(h) + 1) /\ ~(k + 1 > Steps(h) + SetAt(d))
  BY Zenon DEF Begun
<1>2. /\ now[d] = IF h /\ k > HookAt(d) THEN "heap" ELSE "python"
      /\ now[e] = "python"
      /\ k > HookAt(d) => orig[d] = "python"
  BY DEF Begun
<1>3. CASE d = e
  BY <1>2, <1>3
<1>4. CASE d # e
  <2>1. k + 1 > HookAt(d) <=> k > HookAt(d)
    BY <1>4
  <2>2. QED
    BY <1>2, <1>4, <2>1
<1>5. QED
  BY <1>3, <1>4

\* registerPymallocHooks finds the functions that are there.
LEMMA SaveGoesOn ==
  ASSUME NEW h \in BOOLEAN, NEW n \in BOOLEAN, NEW k \in Nat, NEW now, NEW orig, NEW under,
         Begun(h, n, now, orig, under, k), n, k = Steps(h) + 1
  PROVE  Begun(h, n, now, orig, now, k + 1)
<1> USE PlacesDiffer DEF Steps
<1>1. SUFFICES ASSUME NEW d \in Sampler!Domains
               PROVE  /\ now[d] = IF h THEN "heap" ELSE "python"
                      /\ ~(k + 1 > Steps(h) + SetAt(d))
                      /\ k + 1 > HookAt(d) \/ ~h
                      /\ h => orig[d] = "python"
  BY Zenon DEF Begun
<1>2. QED
  BY DEF Begun

LEMMA SetGoesOn ==
  ASSUME NEW h \in BOOLEAN, NEW n \in BOOLEAN, NEW k \in Nat, NEW now, NEW orig, NEW under,
         now \in [Sampler!Domains -> Hookers],
         NEW e \in Sampler!Domains, Begun(h, n, now, orig, under, k), n, SetAt(e) = k - Steps(h)
  PROVE  Begun(h, n, [now EXCEPT ![e] = "native"], orig, under, k + 1)
<1> USE PlacesDiffer DEF Steps
<1>1. SUFFICES ASSUME NEW d \in Sampler!Domains
               PROVE  /\ [now EXCEPT ![e] = "native"][d] = IF k + 1 > Steps(h) + SetAt(d) THEN "native"
                                                           ELSE IF h THEN "heap" ELSE "python"
                      /\ h => orig[d] = "python"
                      /\ h => k + 1 > HookAt(d)
                      /\ under[d] = IF h THEN "heap" ELSE "python"
  BY Zenon DEF Begun
<1>2. /\ now[d] = IF n /\ k > Steps(h) + SetAt(d) THEN "native" ELSE IF h THEN "heap" ELSE "python"
      /\ h => orig[d] = "python"
      /\ h => k + 1 > HookAt(d)
      /\ under[d] = IF h THEN "heap" ELSE "python"
  BY DEF Begun
<1>3. CASE d = e
  BY <1>2, <1>3
<1>4. CASE d # e
  <2>1. k + 1 > Steps(h) + SetAt(d) <=> k > Steps(h) + SetAt(d)
    BY <1>4
  <2>2. QED
    BY <1>2, <1>4, <2>1
<1>5. QED
  BY <1>3, <1>4

LEMMA UnsetGoesOn ==
  ASSUME NEW h \in BOOLEAN, NEW n \in BOOLEAN, NEW k \in Nat, NEW now, NEW orig, NEW under,
         now \in [Sampler!Domains -> Hookers], under \in [Sampler!Domains -> Hookers],
         NEW e \in Sampler!Domains, Undone(h, n, now, orig, under, k), n, k <= 3, SetAt(e) = k + 1
  PROVE  Undone(h, n, [now EXCEPT ![e] = under[e]], orig, under, k + 1)
<1> USE PlacesDiffer DEF Steps
<1>1. SUFFICES ASSUME NEW d \in Sampler!Domains
               PROVE  /\ [now EXCEPT ![e] = under[e]][d] = IF k + 1 <= UnsetAt(d) THEN "native"
                                                           ELSE IF h THEN "heap" ELSE "python"
                      /\ h => orig[d] = "python"
                      /\ ~(k + 1 > Steps(n) + HookAt(d))
                      /\ under[d] = IF h THEN "heap" ELSE "python"
  BY Zenon DEF Undone
<1>2. /\ now[d] = IF k <= UnsetAt(d) THEN "native" ELSE IF h THEN "heap" ELSE "python"
      /\ h => orig[d] = "python"
      /\ under[d] = IF h THEN "heap" ELSE "python"
  BY DEF Undone
<1>3. CASE d = e
  BY <1>2, <1>3
<1>4. CASE d # e
  <2>1. k + 1 <= UnsetAt(d) <=> k <= UnsetAt(d)
    BY <1>4
  <2>2. QED
    BY <1>2, <1>4, <2>1
<1>5. QED
  BY <1>3, <1>4

LEMMA RestoreGoesOn ==
  ASSUME NEW h \in BOOLEAN, NEW n \in BOOLEAN, NEW k \in Nat, NEW now, NEW orig, NEW under,
         now \in [Sampler!Domains -> Hookers], orig \in [Sampler!Domains -> Hookers],
         NEW e \in Sampler!Domains, Undone(h, n, now, orig, under, k), h, k > Steps(n),
         HookAt(e) = k - Steps(n)
  PROVE  Undone(h, n, [now EXCEPT ![e] = orig[e]], orig, under, k + 1)
<1> USE PlacesDiffer DEF Steps
<1>1. SUFFICES ASSUME NEW d \in Sampler!Domains
               PROVE  /\ [now EXCEPT ![e] = orig[e]][d] = IF k + 1 > Steps(n) + HookAt(d) THEN "python"
                                                          ELSE "heap"
                      /\ n => ~(k + 1 <= UnsetAt(d))
                      /\ h => orig[d] = "python"
                      /\ n => under[d] = IF h THEN "heap" ELSE "python"
  BY Zenon DEF Undone
<1>2. /\ now[d] = IF k > Steps(n) + HookAt(d) THEN "python" ELSE "heap"
      /\ n => ~(k + 1 <= UnsetAt(d))
      /\ h => orig[d] = "python"
      /\ n => under[d] = IF h THEN "heap" ELSE "python"
  BY DEF Undone
<1>3. CASE d = e
  BY <1>2, <1>3
<1>4. CASE d # e
  <2>1. k + 1 > Steps(n) + HookAt(d) <=> k > Steps(n) + HookAt(d)
    BY <1>4
  <2>2. QED
    BY <1>2, <1>4, <2>1
<1>5. QED
  BY <1>3, <1>4

\* What a step of the plan does.
LEMMA PlanGoesOn ==
  ASSUME NEW plan \in Seq(Operation), NEW k \in Nat, Following(k, plan)
  PROVE  /\ plan[k] \in Operation /\ todo # <<>> /\ Head(todo) = plan[k]
         /\ Len(todo) > 1 <=> k < Len(plan)
         /\ k < Len(plan) => Tail(todo) = SubSeq(plan, k + 1, Len(plan)) /\ k + 1 \in 1..Len(plan)
         /\ ~(k < Len(plan)) => Tail(todo) = <<>> /\ k = Len(plan)
<1>1. PICK n \in Nat : n = Len(plan)
  BY LenProperties
<1>2. k \in 1..n /\ n \in k..n /\ todo = SubSeq(plan, k, n)
  BY <1>1 DEF Following
<1>3. plan[k] \in Operation /\ Head(todo) = plan[k] /\ Tail(todo) = SubSeq(plan, k + 1, n)
  BY <1>1, <1>2, HeadTailOfSubSeq, ElementOfSeq
<1>4. Len(todo) = n - k + 1
  <2>1. \A i \in k..n : plan[i] \in Operation
    BY <1>1, <1>2, ElementOfSeq
  <2>2. k \in Int /\ n \in Int /\ k <= n
    BY <1>2
  <2>3. Len(SubSeq(plan, k, n)) = IF k <= n THEN n - k + 1 ELSE 0
    BY <2>1, <2>2, SubSeqProperties, Zenon
  <2>4. QED
    BY <1>2, <2>2, <2>3
<1>5. todo # <<>>
  <2>1. Len(todo) # 0
    BY <1>2, <1>4
  <2>2. QED
    BY <2>1, EmptySeq, Zenon
<1>6. n < k + 1 => SubSeq(plan, k + 1, n) = <<>>
  BY <1>2, SubSeqEmpty
<1>7. QED
  BY <1>1, <1>2, <1>3, <1>4, <1>5, <1>6

LEMMA HookStepIs ==
  ASSUME HooksType, Sampler!HookStep, NEW s \in Operation, s = Head(todo)
  PROVE  /\ HooksType' /\ heapOptions' = heapOptions /\ todo' = Tail(todo)
         /\ phase' = IF Len(todo) > 1 THEN phase ELSE IF phase = "starting" THEN "on" ELSE "off"
         /\ s.op = "hook" => /\ installed' = [installed EXCEPT ![s.domain] = "heap"]
                             /\ saved' = [saved EXCEPT ![s.domain] = installed[s.domain]]
                             /\ replaced' = replaced
         /\ s.op = "save" => installed' = installed /\ saved' = saved /\ replaced' = installed
         /\ s.op = "set" => /\ installed' = [installed EXCEPT ![s.domain] = "native"]
                            /\ saved' = saved /\ replaced' = replaced
         /\ s.op = "unset" => /\ installed' = [installed EXCEPT ![s.domain] = replaced[s.domain]]
                              /\ saved' = saved /\ replaced' = replaced
         /\ s.op = "restore" => /\ installed' = [installed EXCEPT ![s.domain] = saved[s.domain]]
                                /\ saved' = saved /\ replaced' = replaced
<1>1. /\ s.domain \in Sampler!Domains /\ s.op \in {"hook", "restore", "save", "set", "unset"}
  BY DEF Operation
<1>2. PICK e \in Sampler!Domains, o \in {"hook", "restore", "save", "set", "unset"} :
        e = s.domain /\ o = s.op
  BY <1>1
<1>3. /\ todo' = Tail(todo) /\ heapOptions' = heapOptions
      /\ phase' = IF Len(todo) > 1 THEN phase ELSE IF phase = "starting" THEN "on" ELSE "off"
      /\ saved' = IF o = "hook" THEN [saved EXCEPT ![e] = installed[e]] ELSE saved
      /\ replaced' = IF o = "save" THEN installed ELSE replaced
      /\ interval' = [interval EXCEPT ![e] = CASE o = "hook" -> heapOptions.interval
                                               [] o = "restore" -> 0
                                               [] OTHER -> interval[e]]
      /\ installed' = [installed EXCEPT ![e] = CASE o = "hook" -> "heap"
                                                 [] o = "restore" -> saved[e]
                                                 [] o = "set" -> "native"
                                                 [] o = "unset" -> replaced[e]
                                                 [] OTHER -> installed[e]]
  BY <1>2 DEF Sampler!HookStep, Sampler!DEFAULT_SAMPLE_INTERVAL
<1>4. /\ o = "hook" => /\ installed' = [installed EXCEPT ![e] = "heap"]
                       /\ saved' = [saved EXCEPT ![e] = installed[e]]
                       /\ replaced' = replaced
      /\ o = "save" => installed' = installed /\ saved' = saved /\ replaced' = installed
      /\ o = "set" => /\ installed' = [installed EXCEPT ![e] = "native"]
                      /\ saved' = saved /\ replaced' = replaced
      /\ o = "unset" => /\ installed' = [installed EXCEPT ![e] = replaced[e]]
                        /\ saved' = saved /\ replaced' = replaced
      /\ o = "restore" => /\ installed' = [installed EXCEPT ![e] = saved[e]]
                          /\ saved' = saved /\ replaced' = replaced
  BY <1>3 DEF HooksType
<1>5. HooksType'
  <2>1. installed' \in [Sampler!Domains -> Hookers]
    <3>1. saved[e] \in Hookers /\ replaced[e] \in Hookers /\ installed \in [Sampler!Domains -> Hookers]
      BY DEF HooksType
    <3>2. \A v \in Hookers : [installed EXCEPT ![e] = v] \in [Sampler!Domains -> Hookers]
      BY <3>1
    <3>3. "heap" \in Hookers /\ "native" \in Hookers
      BY DEF Hookers
    <3>4. QED
      BY <1>2, <1>4, <3>1, <3>2, <3>3, Zenon
  <2>2. /\ saved' \in [Sampler!Domains -> Hookers] /\ replaced' \in [Sampler!Domains -> Hookers]
    <3>1. saved \in [Sampler!Domains -> Hookers] /\ installed[e] \in Hookers
      BY DEF HooksType
    <3>2. [saved EXCEPT ![e] = installed[e]] \in [Sampler!Domains -> Hookers]
      BY <3>1
    <3>3. replaced \in [Sampler!Domains -> Hookers] /\ installed \in [Sampler!Domains -> Hookers]
      BY DEF HooksType
    <3>4. QED
      BY <1>3, <3>1, <3>2, <3>3, Zenon
  <2>3. interval' \in [Sampler!Domains -> Intervals \cup {0}]
    BY <1>3 DEF HooksType, HeapOptions
  <2>4. phase' # "off" => phase # "off"
    BY <1>3
  <2>5. QED
    BY <1>3, <2>1, <2>2, <2>3, <2>4 DEF HooksType
<1>6. QED
  BY <1>2, <1>3, <1>4, <1>5, Zenon

LEMMA HookStepKeepsHooks ==
  ASSUME HooksType, SessionFollowsPlan, Sampler!HookStep
  PROVE  HooksType' /\ SessionFollowsPlan'
<1> DEFINE h == heapOptions.heap
           n == heapOptions.native
<1>0. /\ h \in BOOLEAN /\ n \in BOOLEAN /\ heapOptions \in HeapOptions
      /\ h \/ n \/ phase = "off"
  BY DEF HooksType, HeapOptions
<1>1. todo # <<>>
  BY DEF Sampler!HookStep
<1>2. Heap = Steps(h) /\ Native = Steps(n) /\ Steps(h) \in {0, 3} /\ Steps(n) \in {0, 3}
  BY DEF Heap, Native, Steps
<1>3. ASSUME phase = "starting", NEW k \in Nat, Following(k, Starting), StartedUpTo(k)
      PROVE  HooksType' /\ SessionFollowsPlan'
  <2>1. /\ Starting \in Seq(Operation) /\ k \in 1..Len(Starting)
        /\ \/ k <= Heap /\ IsHook(Starting[k], "hook", k)
           \/ n /\ k = Heap + 1 /\ IsSave(Starting[k])
           \/ n /\ k > Heap + 1 /\ IsSet(Starting[k], "set", k - Heap)
    BY <1>0, <1>3, StartingIs DEF Following
  <2>2. PICK s \in Operation :
          /\ s = Starting[k] /\ s = Head(todo)
          /\ Len(todo) > 1 <=> k < Len(Starting)
          /\ k < Len(Starting) => /\ Tail(todo) = SubSeq(Starting, k + 1, Len(Starting))
                                  /\ k + 1 \in 1..Len(Starting)
          /\ ~(k < Len(Starting)) => Tail(todo) = <<>> /\ k = Len(Starting)
    BY <1>3, <2>1, PlanGoesOn
  <2>3. HooksType' /\ heapOptions' = heapOptions
    BY <2>2, HookStepIs
  <2>4. StartedUpTo(k + 1)'
    <3>1. Begun(h, n, installed, saved, replaced, k)
      BY <1>3 DEF StartedUpTo
    <3>2. /\ installed \in [Sampler!Domains -> Hookers] /\ saved \in [Sampler!Domains -> Hookers]
      BY DEF HooksType
    <3>3. CASE k <= Heap /\ IsHook(s, "hook", k)
      <4>1. h
        BY <1>2, <2>1, <3>3 DEF Steps
      <4>2. s.domain \in Sampler!Domains /\ HookAt(s.domain) = k /\ s.op = "hook"
        BY <3>3 DEF IsHook
      <4>3. Begun(h, n, [installed EXCEPT ![s.domain] = "heap"],
                  [saved EXCEPT ![s.domain] = installed[s.domain]], replaced, k + 1)
        BY <1>0, <3>1, <3>2, <4>1, <4>2, HookGoesOn
      <4>4. Begun(h, n, installed', saved', replaced', k + 1)
        BY <2>2, <4>2, <4>3, HookStepIs
      <4>5. QED
        BY <2>3, <4>4 DEF StartedUpTo
    <3>4. CASE n /\ k = Heap + 1 /\ IsSave(s)
      <4>1. Begun(h, n, installed, saved, installed, k + 1)
        BY <1>0, <1>2, <3>1, <3>4, SaveGoesOn
      <4>2. Begun(h, n, installed', saved', replaced', k + 1)
        BY <2>2, <3>4, <4>1, HookStepIs DEF IsSave
      <4>3. QED
        BY <2>3, <4>2 DEF StartedUpTo
    <3>5. CASE n /\ k > Heap + 1 /\ IsSet(s, "set", k - Heap)
      <4>1. s.domain \in Sampler!Domains /\ SetAt(s.domain) = k - Steps(h) /\ s.op = "set"
        BY <1>2, <3>5 DEF IsSet
      <4>2. Begun(h, n, [installed EXCEPT ![s.domain] = "native"], saved, replaced, k + 1)
        BY <1>0, <3>1, <3>2, <3>5, <4>1, SetGoesOn
      <4>3. Begun(h, n, installed', saved', replaced', k + 1)
        BY <2>2, <4>1, <4>2, HookStepIs
      <4>4. QED
        BY <2>3, <4>3 DEF StartedUpTo
    <3>6. QED
      BY <2>1, <2>2, <3>3, <3>4, <3>5, Zenon
  <2>5. Starting' = Starting
    BY <2>3 DEF Starting, Sampler!When, Sampler!HeapSteps, Sampler!NativeSteps, Sampler!Step
  <2>6. CASE k < Len(Starting)
    <3>1. phase' = "starting" /\ todo' = SubSeq(Starting, k + 1, Len(Starting))
      BY <1>3, <2>2, <2>6, HookStepIs
    <3>2. Following(k + 1, Starting)' /\ k + 1 \in Nat
      BY <2>2, <2>5, <2>6, <3>1 DEF Following
    <3>3. QED
      BY <2>3, <2>4, <3>1, <3>2 DEF SessionFollowsPlan
  <2>7. CASE ~(k < Len(Starting))
    <3>1. phase' = "on" /\ todo' = <<>> /\ k = Len(Starting)
      BY <1>3, <2>2, <2>7, HookStepIs
    <3>2. StartedUpTo(Len(Starting) + 1)'
      BY <2>4, <2>5, <3>1
    <3>3. QED
      BY <2>3, <3>1, <3>2 DEF SessionFollowsPlan
  <2>8. QED
    BY <2>6, <2>7
<1>4. ASSUME phase = "stopping", NEW k \in Nat, Following(k, Sampler!StopSteps), StoppedUpTo(k)
      PROVE  HooksType' /\ SessionFollowsPlan'
  <2>1. /\ Sampler!StopSteps \in Seq(Operation) /\ k \in 1..Len(Sampler!StopSteps)
        /\ Len(Sampler!StopSteps) = Native + Heap
        /\ \/ k <= Native /\ IsSet(Sampler!StopSteps[k], "unset", k + 1)
           \/ k > Native /\ IsHook(Sampler!StopSteps[k], "restore", k - Native)
    BY <1>0, <1>4, StoppingIs DEF Following
  <2>2. PICK s \in Operation :
          /\ s = Sampler!StopSteps[k] /\ s = Head(todo)
          /\ Len(todo) > 1 <=> k < Len(Sampler!StopSteps)
          /\ k < Len(Sampler!StopSteps) =>
               /\ Tail(todo) = SubSeq(Sampler!StopSteps, k + 1, Len(Sampler!StopSteps))
               /\ k + 1 \in 1..Len(Sampler!StopSteps)
          /\ ~(k < Len(Sampler!StopSteps)) => Tail(todo) = <<>> /\ k = Len(Sampler!StopSteps)
    BY <1>4, <2>1, PlanGoesOn
  <2>3. HooksType' /\ heapOptions' = heapOptions
    BY <2>2, HookStepIs
  <2>4. Undone(h, n, installed', saved', replaced', k + 1)
    <3>1. Undone(h, n, installed, saved, replaced, k)
      BY <1>4 DEF StoppedUpTo
    <3>2. /\ installed \in [Sampler!Domains -> Hookers] /\ saved \in [Sampler!Domains -> Hookers]
          /\ replaced \in [Sampler!Domains -> Hookers]
      BY DEF HooksType
    <3>3. CASE k <= Native /\ IsSet(s, "unset", k + 1)
      <4>1. n /\ k <= 3
        BY <1>2, <2>1, <3>3 DEF Steps
      <4>2. s.domain \in Sampler!Domains /\ SetAt(s.domain) = k + 1 /\ s.op = "unset"
        BY <3>3 DEF IsSet
      <4>3. Undone(h, n, [installed EXCEPT ![s.domain] = replaced[s.domain]], saved, replaced, k + 1)
        BY <1>0, <3>1, <3>2, <4>1, <4>2, UnsetGoesOn
      <4>4. QED
        BY <2>2, <4>2, <4>3, HookStepIs
    <3>4. CASE k > Native /\ IsHook(s, "restore", k - Native)
      <4>1. h /\ k > Steps(n)
        BY <1>2, <2>1, <3>4 DEF Steps
      <4>2. s.domain \in Sampler!Domains /\ HookAt(s.domain) = k - Steps(n) /\ s.op = "restore"
        BY <1>2, <3>4 DEF IsHook
      <4>3. Undone(h, n, [installed EXCEPT ![s.domain] = saved[s.domain]], saved, replaced, k + 1)
        BY <1>0, <3>1, <3>2, <4>1, <4>2, RestoreGoesOn
      <4>4. QED
        BY <2>2, <4>2, <4>3, HookStepIs
    <3>5. QED
      BY <2>1, <2>2, <3>3, <3>4, Zenon
  <2>5. Sampler!StopSteps' = Sampler!StopSteps
    BY <2>3 DEF Sampler!StopSteps, Sampler!When, Sampler!HeapSteps, Sampler!NativeSteps, Sampler!Step
  <2>6. CASE k < Len(Sampler!StopSteps)
    <3>1. phase' = "stopping" /\ todo' = SubSeq(Sampler!StopSteps, k + 1, Len(Sampler!StopSteps))
      BY <1>4, <2>2, <2>6, HookStepIs
    <3>2. Following(k + 1, Sampler!StopSteps)' /\ k + 1 \in Nat
      BY <2>2, <2>5, <2>6, <3>1 DEF Following
    <3>3. StoppedUpTo(k + 1)'
      BY <2>3, <2>4 DEF StoppedUpTo
    <3>4. QED
      BY <2>3, <3>1, <3>2, <3>3 DEF SessionFollowsPlan
  <2>7. CASE ~(k < Len(Sampler!StopSteps))
    <3>1. phase' = "off" /\ todo' = <<>> /\ k = Native + Heap
      BY <1>4, <2>1, <2>2, <2>7, HookStepIs
    <3>2. ASSUME NEW d \in Sampler!Domains PROVE installed'[d] = "python"
      <4>1. installed'[d] = IF h /\ k + 1 > Steps(n) + HookAt(d) THEN "python"
                            ELSE IF n /\ k + 1 <= UnsetAt(d) THEN "native"
                            ELSE IF h THEN "heap" ELSE "python"
        BY <2>4 DEF Undone
      <4>2. /\ h => k + 1 > Steps(n) + HookAt(d)
            /\ n => ~(k + 1 <= UnsetAt(d))
        BY <1>2, <3>1, PlacesDiffer DEF Steps
      <4>3. QED
        BY <4>1, <4>2
    <3>3. QED
      BY <2>3, <3>1, <3>2 DEF SessionFollowsPlan
  <2>8. QED
    BY <2>6, <2>7
<1>5. QED
  BY <1>1, <1>3, <1>4, Zenon DEF SessionFollowsPlan

RestOfHooks == <<phase, todo, heapOptions, installed, saved, replaced, interval>>
LEMMA OthersKeepHooks ==
  ASSUME HooksType, SessionFollowsPlan, UNCHANGED RestOfHooks
  PROVE  HooksType' /\ SessionFollowsPlan'
<1>1. HooksType'
  BY DEF HooksType, RestOfHooks
<1>2. /\ Starting' = Starting /\ Sampler!StopSteps' = Sampler!StopSteps
  BY DEF RestOfHooks, Starting, Sampler!StopSteps, Sampler!When, Sampler!HeapSteps,
         Sampler!NativeSteps, Sampler!Step
<1>3. /\ phase' = phase /\ todo' = todo /\ heapOptions' = heapOptions
      /\ installed' = installed /\ saved' = saved /\ replaced' = replaced
  BY DEF RestOfHooks
<1>4. QED
  BY <1>1, <1>2, <1>3, Zenon DEF SessionFollowsPlan, Following, StartedUpTo, StoppedUpTo

LEMMA StartSessionKeepsHooks ==
  ASSUME HooksType, SessionFollowsPlan, Sampler!StartSession
  PROVE  HooksType' /\ SessionFollowsPlan'
<1>1. PICK h \in BOOLEAN, n \in BOOLEAN, i \in Intervals :
        /\ h \/ n
        /\ heapOptions' = [heap |-> h, native |-> n, interval |-> i]
        /\ todo' = Sampler!When(h, Sampler!HeapSteps("hook"))
                     \o Sampler!When(n, <<Sampler!Step("save", "raw")>> \o Sampler!NativeSteps("set"))
  BY Zenon DEF Sampler!StartSession
<1>2. /\ phase = "off" /\ phase' = "starting"
      /\ UNCHANGED <<installed, saved, replaced, interval>>
  BY DEF Sampler!StartSession
<1>3. heapOptions'.heap = h /\ heapOptions'.native = n /\ heapOptions' \in HeapOptions
  BY <1>1 DEF HeapOptions
<1>4. todo' = Starting'
  BY <1>1, <1>3, Zenon DEF Starting, Sampler!When, Sampler!HeapSteps, Sampler!NativeSteps,
                           Sampler!Step
<1>5. HooksType'
  BY <1>1, <1>2, <1>3 DEF HooksType
<1>6. \A d \in Sampler!Domains : installed[d] = "python"
  BY <1>2 DEF SessionFollowsPlan
<1>7. Begun(h, n, installed, saved, replaced, 1)
  BY <1>6, PlacesDiffer DEF Begun, Steps
<1>8. StartedUpTo(1)'
  BY <1>2, <1>3, <1>7, Zenon DEF StartedUpTo
<1>9. (heapOptions \in HeapOptions =>
         /\ Starting \in Seq(Operation)
         /\ Len(Starting) = Heap + (IF heapOptions.native THEN 4 ELSE 0))'
  BY StartingIs, PTL
<1>10. Starting' \in Seq(Operation) /\ Len(Starting') = Heap' + (IF n THEN 4 ELSE 0) /\ Heap' = Steps(h)
  BY <1>3, <1>9 DEF Heap
<1>11. 1 \in 1..Len(Starting')
  BY <1>1, <1>10 DEF Steps
<1>12. todo' = SubSeq(Starting', 1, Len(Starting'))
  BY <1>4, <1>10, SubSeqFull
<1>13. Following(1, Starting)'
  BY <1>11, <1>12 DEF Following
<1>14. QED
  BY <1>2, <1>5, <1>8, <1>13, 1 \in Nat, Zenon DEF SessionFollowsPlan

LEMMA StopSessionKeepsHooks ==
  ASSUME HooksType, SessionFollowsPlan, Sampler!StopSession
  PROVE  HooksType' /\ SessionFollowsPlan'
<1> DEFINE h == heapOptions.heap
           n == heapOptions.native
<1>1. /\ phase = "on" /\ phase' = "stopping" /\ todo' = Sampler!StopSteps
      /\ UNCHANGED <<heapOptions, installed, saved, replaced, interval>>
  BY DEF Sampler!StopSession
<1>2. HooksType' /\ h \in BOOLEAN /\ n \in BOOLEAN /\ heapOptions \in HeapOptions /\ (h \/ n)
  BY <1>1 DEF HooksType, HeapOptions
<1>3. Begun(h, n, installed, saved, replaced, Len(Starting) + 1)
  BY <1>1 DEF SessionFollowsPlan, StartedUpTo
<1>4. Len(Starting) = Steps(h) + (IF n THEN 4 ELSE 0)
  BY <1>2, StartingIs, Zenon DEF Heap
<1>5. Undone(h, n, installed, saved, replaced, 1)
  BY <1>2, <1>3, <1>4, PlacesDiffer DEF Begun, Undone, Steps
<1>6. Sampler!StopSteps' = Sampler!StopSteps
  BY <1>1 DEF Sampler!StopSteps, Sampler!When, Sampler!HeapSteps, Sampler!NativeSteps, Sampler!Step
<1>7. Sampler!StopSteps \in Seq(Operation) /\ Len(Sampler!StopSteps) = Steps(n) + Steps(h)
  BY <1>2, StoppingIs, Zenon DEF Heap, Native
<1>8. 1 \in 1..Len(Sampler!StopSteps)
  BY <1>2, <1>7 DEF Steps
<1>9. todo' = SubSeq(Sampler!StopSteps, 1, Len(Sampler!StopSteps))
  BY <1>1, <1>7, SubSeqFull
<1>10. Following(1, Sampler!StopSteps)'
  BY <1>6, <1>8, <1>9 DEF Following
<1>11. StoppedUpTo(1)'
  BY <1>1, <1>5, Zenon DEF StoppedUpTo
<1>12. QED
  BY <1>1, <1>2, <1>10, <1>11, 1 \in Nat, Zenon DEF SessionFollowsPlan

\* Every call of a domain ends at Python's allocator, whatever part of the plan is done.
LEMMA HooksEndAtPython == HooksType /\ SessionFollowsPlan => Sampler!AllocatorsAreRestored
<1> SUFFICES ASSUME HooksType, SessionFollowsPlan, NEW d \in Sampler!Domains
             PROVE  "python" \in Sampler!Reached(d) /\ (phase = "off" => installed[d] = "python")
  BY DEF Sampler!AllocatorsAreRestored
<1> DEFINE h == heapOptions.heap
           n == heapOptions.native
<1>1. h \in BOOLEAN /\ n \in BOOLEAN /\ heapOptions \in HeapOptions
  BY DEF HooksType, HeapOptions
<1>2. \/ installed[d] = "python"
      \/ installed[d] = "heap" /\ saved[d] = "python"
      \/ installed[d] = "native" /\ replaced[d] = "python"
      \/ installed[d] = "native" /\ replaced[d] = "heap" /\ saved[d] = "python"
  <2>1. ASSUME NEW k \in Nat, Begun(h, n, installed, saved, replaced, k) PROVE <1>2
    <3>1. /\ installed[d] = IF n /\ k > Steps(h) + SetAt(d) THEN "native"
                            ELSE IF h /\ k > HookAt(d) THEN "heap" ELSE "python"
          /\ h /\ k > HookAt(d) => saved[d] = "python"
          /\ n /\ k > Steps(h) + 1 => replaced[d] = IF h THEN "heap" ELSE "python"
      BY <2>1 DEF Begun
    <3>2. QED
      BY <1>1, <3>1, PlacesDiffer DEF Steps
  <2>2. ASSUME NEW k \in Nat, Undone(h, n, installed, saved, replaced, k) PROVE <1>2
    BY <1>1, <2>2, PlacesDiffer DEF Undone, Steps
  <2>3. Len(Starting) + 1 \in Nat
    BY <1>1, StartingIs, LenProperties
  <2>4. QED
    BY <2>1, <2>2, <2>3, Zenon DEF SessionFollowsPlan, StartedUpTo, StoppedUpTo
<1>3. "python" \in Sampler!Reached(d)
  BY <1>2 DEF Sampler!Reached, Sampler!Follow
<1>4. phase = "off" => installed[d] = "python"
  BY DEF SessionFollowsPlan
<1>5. QED
  BY <1>3, <1>4

-----------------------------------------------------------------------------
(* The samples.                                                            *)

Metas == {Sampler!None}
           \cup {m \in [interval : Intervals \cup {0}, point : Nat \ {0}, remaining : Nat \ {0}] :
                   m.remaining <= m.point}

(* What a thread has, if its events stand for no more than it allocated. *)
Accounts ==
  {s \in [meta : Metas, seen : Nat, attributed : Nat, exact : BOOLEAN] :
     /\ s.attributed + Sampler!Pending(s.meta) <= s.seen
     /\ s.exact => s.attributed + Sampler!Pending(s.meta) = s.seen}

SamplesType ==
  /\ meta \in [Sampled -> Metas] /\ raw \in [Sampled -> Asked \cup {0}]
  /\ asked \in [Sampled -> Nat] /\ attributed \in [Sampled -> Nat]
  /\ exact \in [Sampled -> BOOLEAN]
SamplesAreAccounted == \A t \in Sampled : Sampler!Of(t) \in Accounts

LEMMA MetasAre ==
  ASSUME NEW m \in Metas
  PROVE  /\ m.point \in Nat /\ m.remaining \in Nat /\ Sampler!Pending(m) \in Nat
         /\ Sampler!Pending(m) = m.point - m.remaining
         /\ m # Sampler!None => 1 <= m.remaining /\ m.remaining <= m.point
BY DEF Metas, Sampler!None, Sampler!Pending

LEMMA NewMeta ==
  ASSUME NEW i \in Intervals \cup {0}, NEW point \in Nat \ {0}
  PROVE  /\ [interval |-> i, point |-> point, remaining |-> point] \in Metas
         /\ Sampler!Pending([interval |-> i, point |-> point, remaining |-> point]) = 0
BY DEF Metas, Sampler!Pending

LEMMA AccountsAre ==
  ASSUME NEW m \in Metas, NEW se \in Nat, NEW given \in Nat, NEW ex \in BOOLEAN,
         given + Sampler!Pending(m) <= se, ex => given + Sampler!Pending(m) = se
  PROVE  [meta |-> m, seen |-> se, attributed |-> given, exact |-> ex] \in Accounts
<1>1. PICK s : s = [meta |-> m, seen |-> se, attributed |-> given, exact |-> ex]
  OBVIOUS
<1>2. /\ s.meta = m /\ s.seen = se /\ s.attributed = given /\ s.exact = ex
      /\ s \in [meta : Metas, seen : Nat, attributed : Nat, exact : BOOLEAN]
  BY <1>1
<1>3. QED
  BY <1>1, <1>2, Zenon DEF Accounts

\* The same of a member, taken apart.
LEMMA AccountOf ==
  ASSUME NEW s \in Accounts
  PROVE  /\ s.meta \in Metas /\ s.seen \in Nat /\ s.attributed \in Nat /\ s.exact \in BOOLEAN
         /\ s.attributed + Sampler!Pending(s.meta) <= s.seen
         /\ s.exact => s.attributed + Sampler!Pending(s.meta) = s.seen
         /\ s = [meta |-> s.meta, seen |-> s.seen, attributed |-> s.attributed, exact |-> s.exact]
BY DEF Accounts

LEMMA AccountWith ==
  ASSUME NEW s \in Accounts, NEW m, NEW x
  PROVE  [s EXCEPT !.meta = m, !.exact = x] =
           [meta |-> m, seen |-> s.seen, attributed |-> s.attributed, exact |-> x]
<1>1. PICK a, b, c, e : a = s.meta /\ b = s.seen /\ c = s.attributed /\ e = s.exact
  OBVIOUS
<1>2. s = [meta |-> a, seen |-> b, attributed |-> c, exact |-> e]
  BY <1>1, AccountOf, Zenon
<1>3. PICK p : p = [meta |-> m, seen |-> b, attributed |-> c, exact |-> e]
  OBVIOUS
<1>4. p = [s EXCEPT !.meta = m]
  BY ONLY <1>2, <1>3
<1>5. [p EXCEPT !.exact = x] = [meta |-> m, seen |-> b, attributed |-> c, exact |-> x]
  BY ONLY <1>3
<1>6. [s EXCEPT !.meta = m, !.exact = x] = [p EXCEPT !.exact = x]
  BY ONLY <1>4
<1>7. QED
  BY ONLY <1>1, <1>5, <1>6

\* A new interval: the bytes since the last event are left out.
LEMMA FittedAccounts ==
  ASSUME NEW s \in Accounts, NEW i \in Intervals \cup {0}, NEW point \in Nat \ {0}
  PROVE  /\ Sampler!Fitted(s, i, point) \in Accounts
         /\ Sampler!Fitted(s, i, point).meta # Sampler!None
<1>1. CASE s.meta.interval = i
  <2>1. s.meta # Sampler!None
    BY <1>1, SampledAssumption DEF Sampler!None, Sampler!NoInterval
  <2>2. QED
    BY <1>1, <2>1 DEF Sampler!Fitted
<1>2. CASE s.meta.interval # i
  <2>1. PICK ex \in BOOLEAN : ex = (s.exact /\ Sampler!Pending(s.meta) = 0)
    BY Zenon
  <2>2. PICK m \in Metas : /\ m = [interval |-> i, point |-> point, remaining |-> point]
                           /\ Sampler!Pending(m) = 0 /\ m # Sampler!None
    <3>1. [interval |-> i, point |-> point, remaining |-> point] # Sampler!None
      BY DEF Sampler!None
    <3>2. QED
      BY <3>1, NewMeta
  <2>3. Sampler!Fitted(s, i, point) =
          [s EXCEPT !.meta = m, !.exact = (s.exact /\ Sampler!Pending(s.meta) = 0)]
    BY <1>2, <2>2, Zenon DEF Sampler!Fitted
  <2>4. Sampler!Fitted(s, i, point) = [s EXCEPT !.meta = m, !.exact = ex]
    BY <2>1, <2>3, Zenon
  <2>5. [s EXCEPT !.meta = m, !.exact = ex] =
          [meta |-> m, seen |-> s.seen, attributed |-> s.attributed, exact |-> ex]
    BY AccountWith
  <2>6. s.attributed + 0 <= s.seen /\ (ex => s.attributed + 0 = s.seen)
    <3>1. Sampler!Pending(s.meta) \in Nat
      BY AccountOf, MetasAre
    <3>2. s.attributed + Sampler!Pending(s.meta) <= s.seen /\ s.seen \in Nat /\ s.attributed \in Nat
      BY AccountOf, Zenon
    <3>3. s.attributed + 0 <= s.seen
      BY <3>1, <3>2
    <3>4. ex => s.attributed + 0 = s.seen
      BY <2>1, AccountOf, Zenon
    <3>5. QED
      BY <3>3, <3>4
  <2>7. [meta |-> m, seen |-> s.seen, attributed |-> s.attributed, exact |-> ex] \in Accounts
    BY <2>2, <2>6, AccountOf, AccountsAre, Zenon
  <2>8. Sampler!Fitted(s, i, point).meta = m
    <3>1. [meta |-> m, seen |-> s.seen, attributed |-> s.attributed, exact |-> ex].meta = m
      OBVIOUS
    <3>2. QED
      BY <2>4, <2>5, <3>1, Zenon
  <2>9. QED
    BY <2>2, <2>4, <2>5, <2>7, <2>8, Zenon
<1>3. QED
  BY <1>1, <1>2

\* An allocation is accounted for at once or later, whichever interval is found.
LEMMA HandleAccounts ==
  ASSUME NEW s \in Accounts, NEW i \in Intervals \cup {0}, NEW bytes \in Nat \ {0},
         NEW entered \in BOOLEAN, NEW first \in Nat \ {0}, NEW second \in Nat \ {0}
  PROVE  Sampler!handle_malloc(s, i, bytes, entered, first, second) \in Accounts
<1>1. PICK f \in Accounts : f = Sampler!Fitted(s, i, first) /\ f.meta # Sampler!None
  BY FittedAccounts
<1>2. /\ f.meta \in Metas /\ f.seen \in Nat /\ f.attributed \in Nat /\ f.exact \in BOOLEAN
      /\ f.attributed + Sampler!Pending(f.meta) <= f.seen
      /\ f.exact => f.attributed + Sampler!Pending(f.meta) = f.seen
      /\ f = [meta |-> f.meta, seen |-> f.seen, attributed |-> f.attributed, exact |-> f.exact]
  BY AccountOf, Zenon
<1>3. /\ f.meta.point \in Nat /\ f.meta.remaining \in Nat
      /\ Sampler!Pending(f.meta) = f.meta.point - f.meta.remaining
      /\ 1 <= f.meta.remaining /\ f.meta.remaining <= f.meta.point
  BY <1>1, <1>2, MetasAre, Zenon
<1>4. CASE bytes < f.meta.remaining
  <2>1. PICK m \in Metas : /\ m = [f.meta EXCEPT !.remaining = f.meta.remaining - bytes]
                           /\ Sampler!Pending(m) = Sampler!Pending(f.meta) + bytes
    <3>1. f.meta \in [interval : Intervals \cup {0}, point : Nat \ {0}, remaining : Nat \ {0}]
      BY <1>1, <1>2 DEF Metas
    <3>2. PICK m : m = [f.meta EXCEPT !.remaining = f.meta.remaining - bytes]
      OBVIOUS
    <3>3. /\ m \in [interval : Intervals \cup {0}, point : Nat \ {0}, remaining : Nat \ {0}]
          /\ m.point = f.meta.point /\ m.remaining = f.meta.remaining - bytes
      BY <1>3, <1>4, <3>1, <3>2
    <3>4. m \in Metas /\ Sampler!Pending(m) = Sampler!Pending(f.meta) + bytes
      BY <1>3, <1>4, <3>3 DEF Metas, Sampler!Pending
    <3>5. QED
      BY <3>2, <3>4
  <2>2. Sampler!handle_malloc(s, i, bytes, entered, first, second) =
          [meta |-> m, seen |-> f.seen + bytes, attributed |-> f.attributed, exact |-> f.exact]
    <3>1. Sampler!handle_malloc(s, i, bytes, entered, first, second) =
            [f EXCEPT !.meta.remaining = @ - bytes, !.seen = @ + bytes]
      BY <1>1, <1>4, Zenon DEF Sampler!handle_malloc
    <3>2. QED
      BY <1>2, <2>1, <3>1
  <2>3. /\ f.seen + bytes \in Nat
        /\ f.attributed + Sampler!Pending(m) <= f.seen + bytes
        /\ f.exact => f.attributed + Sampler!Pending(m) = f.seen + bytes
    <3>1. \A p \in Nat : /\ f.attributed + p <= f.seen => f.attributed + (p + bytes) <= f.seen + bytes
                         /\ f.attributed + p = f.seen => f.attributed + (p + bytes) = f.seen + bytes
      BY <1>2
    <3>2. Sampler!Pending(f.meta) \in Nat /\ f.seen + bytes \in Nat
      BY <1>2, <1>3
    <3>3. QED
      BY <1>2, <2>1, <3>1, <3>2, Zenon
  <2>4. QED
    BY <1>2, <2>2, <2>3, AccountsAre, Zenon
<1>5. CASE ~(bytes < f.meta.remaining)
  <2>1. PICK m \in Metas : /\ m = [interval |-> i, point |-> second, remaining |-> second]
                           /\ Sampler!Pending(m) = 0
    BY NewMeta
  <2>2. PICK ex \in BOOLEAN :
          ex = (f.exact /\ entered /\ (bytes <= f.meta.point \/ Sampler!Pending(f.meta) = 0))
    BY Zenon
  <2>3. PICK w \in Nat : w = IF entered THEN Sampler!Weight(f.meta, bytes) ELSE 0
    BY <1>3, <1>5 DEF Sampler!Weight
  <2>4. Sampler!handle_malloc(s, i, bytes, entered, first, second) =
          [meta |-> m, seen |-> f.seen + bytes, attributed |-> f.attributed + w, exact |-> ex]
    BY <1>1, <1>5, <2>1, <2>2, <2>3, Zenon DEF Sampler!handle_malloc
  <2>5. /\ w <= Sampler!Pending(f.meta) + bytes
        /\ entered /\ (bytes <= f.meta.point \/ Sampler!Pending(f.meta) = 0) =>
             w = Sampler!Pending(f.meta) + bytes
    BY <1>3, <1>5, <2>3 DEF Sampler!Weight
  <2>6. PICK p \in Nat : p = Sampler!Pending(f.meta)
    BY <1>3
  <2>7. /\ f.seen + bytes \in Nat /\ f.attributed + w \in Nat
        /\ (f.attributed + w) + 0 <= f.seen + bytes
        /\ f.attributed + p = f.seen /\ w = p + bytes => (f.attributed + w) + 0 = f.seen + bytes
    BY <1>2, <2>5, <2>6
  <2>8. ex => (f.attributed + w) + 0 = f.seen + bytes
    BY <1>2, <2>2, <2>5, <2>6, <2>7, Zenon
  <2>9. PICK given \in Nat, se \in Nat : given = f.attributed + w /\ se = f.seen + bytes
    BY <2>7
  <2>10. given + Sampler!Pending(m) <= se /\ (ex => given + Sampler!Pending(m) = se)
    BY <2>1, <2>7, <2>8, <2>9, Zenon
  <2>11. [meta |-> m, seen |-> se, attributed |-> given, exact |-> ex] \in Accounts
    BY <2>10, AccountsAre, Zenon
  <2>12. QED
    BY <2>4, <2>9, <2>11, Zenon
<1>6. QED
  BY <1>4, <1>5

LEMMA OfIs ==
  ASSUME SamplesType, SamplesAreAccounted, NEW t \in Sampled
  PROVE  Sampler!Of(t) \in Accounts
BY DEF SamplesAreAccounted

\* A thread's account may only be replaced by one that adds up.
LEMMA KeepAccounts ==
  ASSUME SamplesType, SamplesAreAccounted, NEW t \in Sampled, NEW s \in Accounts, Sampler!Keep(t, s),
         raw' \in [Sampled -> Asked \cup {0}]
  PROVE  SamplesType' /\ SamplesAreAccounted'
<1>1. /\ meta' = [meta EXCEPT ![t] = s.meta] /\ asked' = [asked EXCEPT ![t] = s.seen]
      /\ attributed' = [attributed EXCEPT ![t] = s.attributed]
      /\ exact' = [exact EXCEPT ![t] = s.exact]
  BY DEF Sampler!Keep
<1>2. SamplesType'
  <2>1. meta' \in [Sampled -> Metas] /\ asked' \in [Sampled -> Nat] /\ attributed' \in [Sampled -> Nat]
    BY <1>1, AccountOf DEF SamplesType
  <2>2. exact' \in [Sampled -> BOOLEAN]
    <3>1. s.exact \in BOOLEAN
      BY AccountOf, Zenon
    <3>2. QED
      BY <1>1, <3>1 DEF SamplesType
  <2>3. QED
    BY <2>1, <2>2 DEF SamplesType
<1>3. ASSUME NEW u \in Sampled PROVE Sampler!Of(u)' \in Accounts
  <2>1. Sampler!Of(u)' = [meta |-> meta'[u], seen |-> asked'[u], attributed |-> attributed'[u],
                          exact |-> exact'[u]]
    BY DEF Sampler!Of
  <2>2. CASE u = t
    <3>1. meta'[u] = s.meta /\ asked'[u] = s.seen /\ attributed'[u] = s.attributed
      BY <1>1, <2>2 DEF SamplesType
    <3>2. exact'[u] = s.exact
      BY <1>1, <2>2 DEF SamplesType
    <3>3. s = [meta |-> s.meta, seen |-> s.seen, attributed |-> s.attributed, exact |-> s.exact]
      BY AccountOf, Zenon
    <3>4. QED
      BY <2>1, <3>1, <3>2, <3>3, Zenon
  <2>3. CASE u # t
    <3>1. meta'[u] = meta[u] /\ asked'[u] = asked[u] /\ attributed'[u] = attributed[u]
      BY <1>1, <2>3 DEF SamplesType
    <3>2. exact'[u] = exact[u]
      BY <1>1, <2>3 DEF SamplesType
    <3>3. Sampler!Of(u) \in Accounts
      BY DEF SamplesAreAccounted
    <3>4. QED
      BY <2>1, <3>1, <3>2, <3>3, Zenon DEF Sampler!Of
  <2>4. QED
    BY <2>2, <2>3
<1>4. QED
  BY <1>2, <1>3 DEF SamplesAreAccounted

LEMMA HandledAccounts ==
  ASSUME HooksType, NEW s \in Accounts, NEW d \in Sampler!Domains, NEW bytes \in Nat \ {0},
         NEW draw \in Sampler!Draws(d)
  PROVE  /\ Sampler!handle_malloc(s, interval[d], bytes, draw.entered, draw.first, draw.second) \in Accounts
         /\ Sampler!Handled(s, d, bytes, draw) \in Accounts
<1>1. interval[d] \in Intervals \cup {0}
  BY DEF HooksType
<1>2. draw.entered \in BOOLEAN /\ draw.first \in Points[interval[d]] /\ draw.second \in Points[interval[d]]
  BY DEF Sampler!Draws
<1>3. Points[interval[d]] \subseteq Nat \ {0}
  BY <1>1, SampledAssumption
<1>4. draw.first \in Nat \ {0} /\ draw.second \in Nat \ {0}
  BY <1>2, <1>3, Zenon
<1>5. Sampler!handle_malloc(s, interval[d], bytes, draw.entered, draw.first, draw.second) \in Accounts
  BY <1>1, <1>2, <1>4, HandleAccounts, Zenon
<1>6. QED
  BY <1>5, Zenon DEF Sampler!Handled

LEMMA AllocateObjectKeepsSamples ==
  ASSUME HooksType, SamplesType, SamplesAreAccounted,
         NEW t \in Sampled, NEW bytes \in Asked, NEW d \in {"mem", "obj"},
         Sampler!AllocateObject(t, d, bytes)
  PROVE  SamplesType' /\ SamplesAreAccounted' /\ UNCHANGED RestOfHooks
<1>1. PICK inner \in Sampler!Draws("raw"), outer \in Sampler!Draws(d) :
        Sampler!Keep(t, Sampler!Handled(IF bytes > SMALL
                                        THEN Sampler!Handled(Sampler!Of(t), "raw", bytes, inner)
                                        ELSE Sampler!Of(t), d, bytes, outer))
  BY Zenon DEF Sampler!AllocateObject
<1>2. bytes \in Nat \ {0} /\ "raw" \in Sampler!Domains /\ d \in Sampler!Domains
  BY SampledAssumption DEF Sampler!Domains
<1>3. Sampler!Handled(Sampler!Of(t), "raw", bytes, inner) \in Accounts
  BY <1>2, OfIs, HandledAccounts, Zenon
<1>4. PICK s \in Accounts : s = IF bytes > SMALL
                                THEN Sampler!Handled(Sampler!Of(t), "raw", bytes, inner)
                                ELSE Sampler!Of(t)
  BY <1>3, OfIs, Zenon
<1>5. PICK r \in Accounts : r = Sampler!Handled(s, d, bytes, outer)
  BY <1>2, HandledAccounts, Zenon
<1>6. Sampler!Keep(t, r)
  BY <1>1, <1>4, <1>5, Zenon
<1>7. raw' \in [Sampled -> Asked \cup {0}]
  BY DEF Sampler!AllocateObject, SamplesType
<1>8. UNCHANGED RestOfHooks
  BY <1>6 DEF Sampler!Keep, RestOfHooks
<1>9. QED
  BY <1>6, <1>7, <1>8, KeepAccounts, Zenon

LEMMA BeginRawKeepsSamples ==
  ASSUME HooksType, SamplesType, SamplesAreAccounted,
         NEW t \in Sampled, NEW bytes \in Asked, Sampler!BeginRaw(t, bytes)
  PROVE  SamplesType' /\ SamplesAreAccounted' /\ UNCHANGED RestOfHooks
<1>1. Sampler!Keep(t, Sampler!Of(t)) /\ raw' = [raw EXCEPT ![t] = bytes]
  BY Zenon DEF Sampler!BeginRaw
<1>2. raw' \in [Sampled -> Asked \cup {0}]
  BY <1>1 DEF SamplesType
<1>3. UNCHANGED RestOfHooks
  BY <1>1 DEF Sampler!Keep, RestOfHooks
<1>4. QED
  BY <1>1, <1>2, <1>3, OfIs, KeepAccounts, Zenon

LEMMA EndRawKeepsSamples ==
  ASSUME HooksType, SamplesType, SamplesAreAccounted, NEW t \in Sampled, Sampler!EndRaw(t)
  PROVE  SamplesType' /\ SamplesAreAccounted' /\ UNCHANGED RestOfHooks
<1>1. PICK draw \in Sampler!Draws("raw") :
        Sampler!Keep(t, Sampler!handle_malloc(Sampler!Of(t), interval["raw"], raw[t], draw.entered,
                                              draw.first, draw.second))
  BY Zenon DEF Sampler!EndRaw
<1>2. raw[t] \in Nat \ {0} /\ "raw" \in Sampler!Domains
  BY SampledAssumption DEF Sampler!EndRaw, SamplesType, Sampler!Domains
<1>3. PICK s \in Accounts :
        s = Sampler!handle_malloc(Sampler!Of(t), interval["raw"], raw[t], draw.entered,
                                  draw.first, draw.second)
  BY <1>2, OfIs, HandledAccounts, Zenon
<1>4. Sampler!Keep(t, s)
  BY <1>1, <1>3, Zenon
<1>5. raw' \in [Sampled -> Asked \cup {0}]
  BY DEF Sampler!EndRaw, SamplesType
<1>6. UNCHANGED RestOfHooks
  BY <1>4 DEF Sampler!Keep, RestOfHooks
<1>7. QED
  BY <1>4, <1>5, <1>6, KeepAccounts, Zenon

LEMMA ThreadExitKeepsSamples ==
  ASSUME HooksType, SamplesType, SamplesAreAccounted, NEW t \in Sampled, Sampler!ThreadExit(t)
  PROVE  SamplesType' /\ SamplesAreAccounted' /\ UNCHANGED RestOfHooks
<1>0. PICK s : s = Sampler!Of(t)
  OBVIOUS
<1>1. /\ s \in Accounts /\ s.meta = meta[t] /\ s.meta \in Metas /\ s.seen \in Nat
      /\ s.attributed \in Nat /\ s.exact \in BOOLEAN
      /\ s.attributed + Sampler!Pending(s.meta) <= s.seen
      /\ s.exact => s.attributed + Sampler!Pending(s.meta) = s.seen
  <2>1. s \in Accounts
    BY <1>0, OfIs, Zenon
  <2>2. s.meta = meta[t]
    BY <1>0 DEF Sampler!Of
  <2>3. QED
    BY <2>1, <2>2, AccountOf, Zenon
<1>2. PICK ex \in BOOLEAN : ex = (s.exact /\ Sampler!Pending(s.meta) = 0)
  BY Zenon
<1>3. Sampler!None \in Metas /\ Sampler!Pending(Sampler!None) = 0
  BY DEF Metas, Sampler!None, Sampler!Pending
<1>4. s.attributed + 0 <= s.seen
  BY <1>1, MetasAre
<1>5. ex => s.attributed + 0 = s.seen
  BY <1>1, <1>2, Zenon
<1>6. PICK r \in Accounts : r = [meta |-> Sampler!None, seen |-> s.seen,
                                 attributed |-> s.attributed, exact |-> ex]
  BY <1>1, <1>3, <1>4, <1>5, AccountsAre, Zenon
<1>7. Sampler!Keep(t, r)
  <2>1. Sampler!Keep(t, [s EXCEPT !.meta = Sampler!None,
                                  !.exact = (s.exact /\ Sampler!Pending(s.meta) = 0)])
    BY <1>0, <1>1, Zenon DEF Sampler!ThreadExit
  <2>2. Sampler!Keep(t, [s EXCEPT !.meta = Sampler!None, !.exact = ex])
    BY <1>2, <2>1, Zenon
  <2>3. [s EXCEPT !.meta = Sampler!None, !.exact = ex] = r
    <3>1. PICK none : none = Sampler!None
      OBVIOUS
    <3>2. [s EXCEPT !.meta = none, !.exact = ex] =
            [meta |-> none, seen |-> s.seen, attributed |-> s.attributed, exact |-> ex]
      <4>1. s \in Accounts
        BY <1>1, Zenon
      <4>2. QED
        BY ONLY <4>1, AccountWith
    <3>3. QED
      BY <1>6, <3>1, <3>2
  <2>4. QED
    BY <2>2, <2>3, Zenon
<1>8. raw' \in [Sampled -> Asked \cup {0}]
  BY DEF Sampler!ThreadExit, SamplesType
<1>9. UNCHANGED RestOfHooks
  BY <1>7 DEF Sampler!Keep, RestOfHooks
<1>10. QED
  BY <1>7, <1>8, <1>9, KeepAccounts, Zenon

-----------------------------------------------------------------------------
SamplerInvariant == HooksType /\ SessionFollowsPlan /\ SamplesType /\ SamplesAreAccounted

LEMMA SameKeepsSamples ==
  ASSUME SamplesType, SamplesAreAccounted, UNCHANGED <<meta, raw, asked, attributed, exact>>
  PROVE  SamplesType' /\ SamplesAreAccounted'
<1>1. /\ meta' = meta /\ raw' = raw /\ asked' = asked /\ attributed' = attributed /\ exact' = exact
  OBVIOUS
<1>2. QED
  BY <1>1, Zenon DEF SamplesType, SamplesAreAccounted, Sampler!Of

LEMMA InitIsSampler == Init => SamplerInvariant
<1> SUFFICES ASSUME Sampler!Init PROVE SamplerInvariant
  BY DEF Init
<1>1. HooksType /\ SessionFollowsPlan
  BY DEF HooksType, SessionFollowsPlan, HeapOptions, Hookers, Sampler!Init,
         Sampler!DEFAULT_SAMPLE_INTERVAL
<1>2. Sampler!None \in Metas /\ Sampler!Pending(Sampler!None) = 0
  BY DEF Metas, Sampler!None, Sampler!Pending
<1>3. SamplesType
  <2>1. /\ meta = [t \in Sampled |-> Sampler!None] /\ raw = [t \in Sampled |-> 0]
        /\ asked = [t \in Sampled |-> 0] /\ attributed = [t \in Sampled |-> 0]
        /\ exact = [t \in Sampled |-> TRUE]
    BY DEF Sampler!Init
  <2>2. /\ meta \in [Sampled -> Metas] /\ raw \in [Sampled -> Asked \cup {0}]
        /\ asked \in [Sampled -> Nat] /\ attributed \in [Sampled -> Nat]
    BY <1>2, <2>1
  <2>3. exact \in [Sampled -> BOOLEAN]
    BY <2>1
  <2>4. QED
    BY <2>2, <2>3 DEF SamplesType
<1>4. ASSUME NEW t \in Sampled PROVE Sampler!Of(t) \in Accounts
  <2>1. meta[t] = Sampler!None /\ asked[t] = 0 /\ attributed[t] = 0 /\ exact[t] = TRUE
    BY DEF Sampler!Init
  <2>2. [meta |-> Sampler!None, seen |-> 0, attributed |-> 0, exact |-> TRUE] \in Accounts
    <3>1. 0 \in Nat /\ TRUE \in BOOLEAN /\ 0 + 0 = 0 /\ 0 <= 0
      OBVIOUS
    <3>2. QED
      BY <1>2, <3>1, AccountsAre, Zenon
  <2>3. QED
    BY <2>1, <2>2, Zenon DEF Sampler!Of
<1>5. QED
  BY <1>1, <1>3, <1>4 DEF SamplerInvariant, SamplesAreAccounted

LEMMA NextKeepsSampler == SamplerInvariant /\ [Next]_vars => SamplerInvariant'
<1> SUFFICES ASSUME SamplerInvariant, [Next]_vars PROVE SamplerInvariant'
  OBVIOUS
<1> USE DEF SamplerInvariant
<1>1. CASE SamplerNext
  <2>1. Sampler!Next
    BY <1>1 DEF SamplerNext
  <2>2. CASE Sampler!StartSession \/ Sampler!StopSession \/ Sampler!HookStep
    <3>1. UNCHANGED <<meta, raw, asked, attributed, exact>>
      BY <2>2 DEF Sampler!StartSession, Sampler!StopSession, Sampler!HookStep, Sampler!Same
    <3>2. QED
      BY <2>2, <3>1, SameKeepsSamples, StartSessionKeepsHooks, StopSessionKeepsHooks,
         HookStepKeepsHooks, Zenon
  <2>3. ASSUME NEW t \in Sampled, NEW bytes \in Asked, NEW d \in {"mem", "obj"},
               Sampler!AllocateObject(t, d, bytes)
        PROVE  SamplerInvariant'
    BY <2>3, AllocateObjectKeepsSamples, OthersKeepHooks, Zenon
  <2>4. ASSUME NEW t \in Sampled, NEW bytes \in Asked, Sampler!BeginRaw(t, bytes)
        PROVE  SamplerInvariant'
    BY <2>4, BeginRawKeepsSamples, OthersKeepHooks, Zenon
  <2>5. ASSUME NEW t \in Sampled, Sampler!EndRaw(t) \/ Sampler!ThreadExit(t)
        PROVE  SamplerInvariant'
    BY <2>5, EndRawKeepsSamples, ThreadExitKeepsSamples, OthersKeepHooks, Zenon
  <2>6. QED
    BY <2>1, <2>2, <2>3, <2>4, <2>5, Zenon DEF Sampler!Next
<1>2. CASE UNCHANGED samplerVars
  <2>1. UNCHANGED RestOfHooks /\ UNCHANGED <<meta, raw, asked, attributed, exact>>
    BY <1>2 DEF samplerVars, RestOfHooks
  <2>2. QED
    BY <2>1, OthersKeepHooks, SameKeepsSamples, Zenon
<1>3. QED
  BY <1>1, <1>2 DEF Next, vars, AllocNext, StorageNext, RecorderNext, HooksNext,
     TracerNext, DwarfNext, SymbolsNext, SiteNext, LauncherNext

\* Through sessions that hook and unhook Python's three allocators while other threads
\* allocate, every call of a domain ends at Python's own allocator, outside of sessions nothing
\* else is there, and the events of a thread stand for no more bytes than it allocated, for all
\* of them but the pending ones unless some were left out knowingly (memory_profiling.cpp).
THEOREM EverySampleAddsUp == Spec => []SamplesAddUp
<1>1. Spec => []SamplerInvariant
  BY InitIsSampler, NextKeepsSampler, PTL DEF Spec
<1>2. ASSUME SamplerInvariant PROVE Sampler!SamplesAddUp
  <2>1. ASSUME NEW t \in Sampled
        PROVE  /\ meta[t] # Sampler!None => 1 <= meta[t].remaining /\ meta[t].remaining <= meta[t].point
               /\ attributed[t] + Sampler!Pending(meta[t]) <= asked[t]
               /\ exact[t] => attributed[t] + Sampler!Pending(meta[t]) = asked[t]
    <3>1. PICK s \in Accounts : s = Sampler!Of(t)
      BY <1>2 DEF SamplerInvariant, SamplesAreAccounted
    <3>2. s.meta = meta[t] /\ s.seen = asked[t] /\ s.attributed = attributed[t] /\ s.exact = exact[t]
      BY <3>1 DEF Sampler!Of
    <3>3. QED
      BY <3>2, AccountOf, MetasAre, Zenon
  <2>2. QED
    BY <2>1, Zenon DEF Sampler!SamplesAddUp
<1>3. SamplerInvariant => SamplesAddUp
  BY <1>2, HooksEndAtPython, Zenon DEF SamplerInvariant, SamplesAddUp
<1>4. QED
  BY <1>1, <1>3, PTL
=============================================================================
