--------------------------- MODULE LinearAllocator ---------------------------
(***************************************************************************)
(* pyki's lock-free bump allocator (linear_allocator.cpp), which signal    *)
(* handlers and allocator hooks of several threads use at the same time to *)
(* keep stack traces.  One action is one atomic access to shared memory.   *)
(* Sizes are units; a chunk starts with a header of one unit.              *)
(***************************************************************************)
EXTENDS Integers, FiniteSets

CONSTANTS
  Threads,        \* threads inside a critical section, in different slots
  ChunkSize,      \* _chunk_size
  Sizes,          \* the sizes that are asked for
  MaxChunks,      \* bound: chunks mapped at the same time; safe_alloc fails beyond
  MaxAllocs       \* bound: allocations per thread between two clears

Chunks == 1..MaxChunks
NULL == 0
Header == 1

VARIABLES
  tail, reserve,  \* _tail, _reserve
  live,           \* the chunks that are mapped
  prev, offs,     \* the header of each chunk
  at,             \* where each thread is in alloc
  chunk, size,    \* its locals: the chunk it tries and the size it wants
  seen,           \* the offset it read
  next,           \* the chunk it allocated, or read from _reserve
  regions,        \* history: what was handed out since the last clear
  allocs          \* history: how often each thread called alloc since then

sharedVars == <<tail, reserve, live, prev, offs>>
allocVars == <<tail, reserve, live, prev, offs, at, chunk, size, seen, next, regions, allocs>>

Init ==
  /\ tail = 1 /\ reserve = 1 /\ live = {1}
  /\ prev = [c \in Chunks |-> NULL] /\ offs = [c \in Chunks |-> Header]
  /\ at = [t \in Threads |-> "idle"]
  /\ chunk = [t \in Threads |-> NULL] /\ size = [t \in Threads |-> 0]
  /\ seen = [t \in Threads |-> 0] /\ next = [t \in Threads |-> NULL]
  /\ regions = {} /\ allocs = [t \in Threads |-> 0]

Moves(t, from, to) == at[t] = from /\ at' = [at EXCEPT ![t] = to]

\* OS::safe_alloc and the header of the new chunk; NULL when memory is out.
allocateChunk(c, p) ==
  \/ /\ c \in Chunks \ live
     /\ \A d \in Chunks \ live : c <= d
     /\ live' = live \cup {c}
     /\ prev' = [prev EXCEPT ![c] = p] /\ offs' = [offs EXCEPT ![c] = Header]
  \/ c = NULL /\ live = Chunks /\ UNCHANGED <<live, prev, offs>>

\* Entry of alloc: the current tail is tried first.
Alloc(t, s) ==
  /\ Moves(t, "idle", "scan") /\ allocs[t] < MaxAllocs
  /\ allocs' = [allocs EXCEPT ![t] = @ + 1]
  /\ chunk' = [chunk EXCEPT ![t] = tail] /\ size' = [size EXCEPT ![t] = s]
  /\ UNCHANGED <<seen, next, regions>> /\ UNCHANGED sharedVars

\* The fast path reads the offset; a chunk without room sends it to getNextChunk.
Scan(t) ==
  /\ at[t] = "scan"
  /\ seen' = [seen EXCEPT ![t] = offs[chunk[t]]]
  /\ at' = [at EXCEPT ![t] = IF seen'[t] + size[t] <= ChunkSize THEN "bump" ELSE "next"]
  /\ UNCHANGED <<chunk, size, next, regions, allocs>> /\ UNCHANGED sharedVars

\* _chunk_size / 2 - offs < size in unsigned arithmetic: once the offset is beyond
\* the middle the difference wraps and is not less than any size.
StepsOverMiddle(o, s) == o <= ChunkSize \div 2 /\ ChunkSize \div 2 - o < s

\* Mutant of Bump: the pointer is stored without comparing it first.
BumpBlindly(t) ==
  /\ Moves(t, "bump", "idle")
  /\ offs' = [offs EXCEPT ![chunk[t]] = seen[t] + size[t]]
  /\ regions' = regions \cup {[chunk |-> chunk[t], from |-> seen[t], size |-> size[t], owner |-> t]}
  /\ UNCHANGED <<tail, reserve, live, prev, chunk, size, seen, next, allocs>>

\* The bump itself, a CAS: on success the region is the caller's, and the thread that
\* steps over the middle prepares the next chunk; on failure it reads again.
Bump(t) ==
  /\ at[t] = "bump"
  /\ IF offs[chunk[t]] = seen[t]
     THEN /\ offs' = [offs EXCEPT ![chunk[t]] = @ + size[t]]
          /\ regions' = regions \cup
               {[chunk |-> chunk[t], from |-> seen[t], size |-> size[t], owner |-> t]}
          /\ at' = [at EXCEPT ![t] = IF StepsOverMiddle(seen[t], size[t]) THEN "reserve" ELSE "idle"]
     ELSE at' = [at EXCEPT ![t] = "scan"] /\ UNCHANGED <<offs, regions>>
  /\ UNCHANGED <<tail, reserve, live, prev, chunk, size, seen, next, allocs>>

\* reserveChunk: a new chunk behind this one ...
ReserveChunk(t) ==
  /\ at[t] = "reserve"
  /\ \E c \in Chunks \cup {NULL} :
       /\ allocateChunk(c, chunk[t])
       /\ next' = [next EXCEPT ![t] = c]
       /\ at' = [at EXCEPT ![t] = IF c = NULL THEN "idle" ELSE "offer"]
  /\ UNCHANGED <<tail, reserve, chunk, size, seen, regions, allocs>>

\* ... becomes the reserve, or is freed when another thread was faster.
OfferReserve(t) ==
  /\ Moves(t, "offer", "idle")
  /\ IF reserve = chunk[t] THEN reserve' = next[t] /\ UNCHANGED live
                           ELSE live' = live \ {next[t]} /\ UNCHANGED reserve
  /\ next' = [next EXCEPT ![t] = NULL]
  /\ UNCHANGED <<tail, prev, offs, chunk, size, seen, regions, allocs>>

\* getNextChunk: the reserve is there, or the thread competes to make one; without
\* memory the allocation fails.
GetNextChunk(t) ==
  /\ at[t] = "next"
  /\ IF reserve # chunk[t]
     THEN /\ next' = [next EXCEPT ![t] = reserve]
          /\ at' = [at EXCEPT ![t] = "advance"]
          /\ UNCHANGED <<live, prev, offs>>
     ELSE \E c \in Chunks \cup {NULL} :
            /\ allocateChunk(c, chunk[t])
            /\ next' = [next EXCEPT ![t] = c]
            /\ at' = [at EXCEPT ![t] = IF c = NULL THEN "idle" ELSE "compete"]
  /\ UNCHANGED <<tail, reserve, chunk, size, seen, regions, allocs>>

Compete(t) ==
  /\ Moves(t, "compete", "advance")
  /\ IF reserve = chunk[t] THEN reserve' = next[t] /\ UNCHANGED <<live, next>>
     ELSE /\ live' = live \ {next[t]} /\ next' = [next EXCEPT ![t] = reserve]
          /\ UNCHANGED reserve
  /\ UNCHANGED <<tail, prev, offs, chunk, size, seen, regions, allocs>>

\* The tail moves on to the reserve, unless another thread moved it.
Advance(t) ==
  /\ Moves(t, "advance", "scan")
  /\ IF tail = chunk[t] THEN tail' = next[t] /\ chunk' = [chunk EXCEPT ![t] = next[t]]
                        ELSE UNCHANGED tail /\ chunk' = [chunk EXCEPT ![t] = tail]
  /\ next' = [next EXCEPT ![t] = NULL]
  /\ UNCHANGED <<reserve, live, prev, offs, size, seen, regions, allocs>>

\* The chunks from c back to the first one: what every set that has c and, with a chunk,
\* the one before it has.
Chain(c) ==
  {d \in Chunks : \A S \in SUBSET Chunks :
     c \in S /\ (\A e \in S : prev[e] # NULL => prev[e] \in S) => d \in S}

First(c) == CHOOSE d \in Chain(c) : prev[d] = NULL

\* clear, under all locks (Recorder::rotate_to): the reserve, if it is not in use yet,
\* and every chunk but the first are unmapped.
Clear ==
  /\ \A t \in Threads : at[t] = "idle"
  /\ LET unused == IF prev[reserve] = tail THEN {reserve} ELSE {}
         first == First(tail)
     IN /\ live' = (live \ unused) \ (Chain(tail) \ {first})
        /\ tail' = first /\ reserve' = first
        /\ offs' = [offs EXCEPT ![first] = Header]
  /\ regions' = {} /\ allocs' = [t \in Threads |-> 0]
  /\ UNCHANGED <<prev, at, chunk, size, seen, next>>

Next ==
  \/ \E t \in Threads :
       \/ \E s \in Sizes : Alloc(t, s)
       \/ Scan(t) \/ Bump(t) \/ ReserveChunk(t) \/ OfferReserve(t)
       \/ GetNextChunk(t) \/ Compete(t) \/ Advance(t)
  \/ Clear

Spec == Init /\ [][Next]_allocVars

-----------------------------------------------------------------------------
\* No two stack traces share memory, and none lies outside its chunk or on its header.
RegionsAreDisjoint ==
  \A r \in regions :
    /\ r.chunk \in live /\ r.from >= Header /\ r.from + r.size <= ChunkSize
    /\ \A q \in regions \ {r} :
         q.chunk = r.chunk => r.from + r.size <= q.from \/ q.from + q.size <= r.from

\* Every mapped chunk is reachable for clear: on the chain of the tail, the reserve, or
\* in the hands of the thread that has just made it.  Nothing is leaked, nothing is
\* reachable that was unmapped, and no thread holds a chunk that is gone.  clear knows an
\* unused reserve by its prev: one in use is on the tail's chain.
NoChunkIsLost ==
  LET own == {next[t] : t \in {u \in Threads : at[u] \in {"offer", "compete"}}}
  IN /\ live = Chain(tail) \cup {reserve} \cup own
     /\ reserve = tail \/ prev[reserve] = tail \/ reserve \in Chain(tail)
  /\ \A t \in Threads : at[t] # "idle" =>
       /\ chunk[t] \in live
       /\ at[t] \in {"offer", "compete", "advance"} => next[t] \in live
=============================================================================
