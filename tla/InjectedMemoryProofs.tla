------------------------ MODULE InjectedMemoryProofs ------------------------
(***************************************************************************)
(* Proofs that the memory of pyki's recording side is sound for any        *)
(* number of threads, sizes, chunks, tables and traces: its lock-free      *)
(* allocator (linear_allocator.cpp, module LinearAllocator) hands out      *)
(* memory once and loses no chunk, and every id of its trace table         *)
(* (stack_trace_storage.cpp, module StackTraceStorage) resolves to the     *)
(* trace it was handed out for.                                            *)
(***************************************************************************)
EXTENDS InjectedCode, FiniteSetTheorems, NaturalsInduction, WellFoundedInduction, TLAPS

(* The allocator.                                                          *)

Places == {"idle", "scan", "bump", "reserve", "offer", "next", "compete", "advance"}
Making == {"offer", "compete"}        \* the thread holds a chunk it has just made

(* The chunks that a function of previous chunks leads back to from c. *)
Behind(p, c) ==
  {d \in Alloc!Chunks : \A S \in SUBSET Alloc!Chunks :
     c \in S /\ (\A e \in S : p[e] # Alloc!NULL => p[e] \in S) => d \in S}

Line == Behind(prev, tail)
Own == {next[t] : t \in {u \in Allocators : at[u] \in Making}}

(* What the allocator's variables are. *)
AllocType ==
  /\ tail \in Alloc!Chunks /\ reserve \in Alloc!Chunks /\ live \in SUBSET Alloc!Chunks
  /\ prev \in [Alloc!Chunks -> Alloc!Chunks \cup {Alloc!NULL}] /\ offs \in [Alloc!Chunks -> Nat]
  /\ at \in [Allocators -> Places]
  /\ chunk \in [Allocators -> Alloc!Chunks \cup {Alloc!NULL}] /\ size \in [Allocators -> Nat]
  /\ seen \in [Allocators -> Nat] /\ next \in [Allocators -> Alloc!Chunks \cup {Alloc!NULL}]
  /\ regions \in SUBSET [chunk : Alloc!Chunks, from : Nat, size : Nat, owner : Allocators]
  /\ allocs \in [Allocators -> Nat]

(* The tail's chain is a line back to the first chunk, and the reserve is the tail or a
   chunk in front of it. *)
ChainIsLine ==
  /\ 1 \in Line /\ \A c \in Line : (prev[c] = Alloc!NULL) <=> (c = 1)
  /\ reserve = tail \/ (prev[reserve] = tail /\ reserve \notin Line)

(* The mapped chunks are the line, the reserve and what a thread has just made; these
   are different chunks, and each is in front of the one its thread tried. *)
ChunksAreAccounted ==
  /\ live = Line \cup {reserve} \cup Own
  /\ \A t \in Allocators : at[t] \in Making =>
       /\ next[t] \in Alloc!Chunks /\ next[t] \notin Line \cup {reserve} /\ prev[next[t]] = chunk[t]
       /\ \A u \in Allocators : u # t /\ at[u] \in Making => next[u] # next[t]

(* A thread inside alloc works on the line; a thread about to move the tail it knows
   moves it to the reserve. *)
ThreadsAreOnLine ==
  \A t \in Allocators : at[t] # "idle" =>
    /\ chunk[t] \in Line /\ size[t] \in Sizes
    /\ at[t] = "bump" => seen[t] >= Alloc!Header /\ seen[t] + size[t] <= ChunkSize
    /\ at[t] = "advance" => /\ next[t] \in Line \cup {reserve}
                            /\ tail = chunk[t] => next[t] = reserve /\ reserve # tail

(* What was handed out lies below the offset of its chunk. *)
RegionsAreBelow ==
  /\ \A c \in Alloc!Chunks : offs[c] >= Alloc!Header
  /\ \A r \in regions :
       /\ r.chunk \in Line /\ r.size > 0 /\ r.from >= Alloc!Header
       /\ r.from + r.size <= offs[r.chunk] /\ r.from + r.size <= ChunkSize
       /\ \A q \in regions \ {r} :
            q.chunk = r.chunk => r.from + r.size <= q.from \/ q.from + q.size <= r.from

AllocInvariant ==
  AllocType /\ ChainIsLine /\ ChunksAreAccounted /\ ThreadsAreOnLine /\ RegionsAreBelow

-----------------------------------------------------------------------------
(* Chains.                                                                 *)

\* There is a first chunk, and no chunk is NULL.
LEMMA ChunksAreNumbered == 1 \in Alloc!Chunks /\ Alloc!NULL \notin Alloc!Chunks
BY ChunkAssumption DEF Alloc!Chunks, Alloc!NULL

\* A chain starts at its chunk.
LEMMA BehindSelf ==
  ASSUME NEW p, NEW c \in Alloc!Chunks
  PROVE  c \in Behind(p, c) /\ Behind(p, c) \in SUBSET Alloc!Chunks
BY DEF Behind

\* A chain goes on to the previous chunk.
LEMMA BehindClosed ==
  ASSUME NEW p \in [Alloc!Chunks -> Alloc!Chunks \cup {Alloc!NULL}], NEW c \in Alloc!Chunks,
         NEW e \in Behind(p, c), p[e] # Alloc!NULL
  PROVE  p[e] \in Behind(p, c)
BY DEF Behind

\* A chain has nothing else.
LEMMA BehindLeast ==
  ASSUME NEW p, NEW c \in Alloc!Chunks, NEW S \in SUBSET Alloc!Chunks, c \in S,
         \A e \in S : p[e] # Alloc!NULL => p[e] \in S
  PROVE  Behind(p, c) \subseteq S
BY DEF Behind

\* The chain of a chunk is the chunk and the chain of the one before it.
LEMMA BehindStep ==
  ASSUME NEW p \in [Alloc!Chunks -> Alloc!Chunks \cup {Alloc!NULL}], NEW c \in Alloc!Chunks,
         p[c] # Alloc!NULL
  PROVE  Behind(p, c) = {c} \cup Behind(p, p[c])
<1>1. p[c] \in Alloc!Chunks
  OBVIOUS
<1>2. Behind(p, c) \subseteq {c} \cup Behind(p, p[c])
  <2> DEFINE S == {c} \cup Behind(p, p[c])
  <2>1. \A e \in S : p[e] # Alloc!NULL => p[e] \in S
    BY <1>1, BehindSelf, BehindClosed
  <2>2. S \in SUBSET Alloc!Chunks /\ c \in S
    BY <1>1, BehindSelf
  <2> HIDE DEF S
  <2>3. Behind(p, c) \subseteq S
    BY <2>1, <2>2, BehindLeast
  <2>4. QED
    BY <2>3 DEF S
<1>3. Behind(p, p[c]) \subseteq Behind(p, c)
  <2>1. p[c] \in Behind(p, c) /\ Behind(p, c) \in SUBSET Alloc!Chunks
    BY BehindSelf, BehindClosed
  <2>2. QED
    BY <1>1, <2>1, BehindClosed, BehindLeast
<1>4. QED
  BY <1>2, <1>3, BehindSelf

\* The chain of the first chunk is that chunk.
LEMMA BehindFirst ==
  ASSUME NEW p, NEW c \in Alloc!Chunks, p[c] = Alloc!NULL
  PROVE  Behind(p, c) = {c}
<1>1. Behind(p, c) \subseteq {c}
  <2>1. {c} \in SUBSET Alloc!Chunks
    OBVIOUS
  <2>2. QED
    BY <2>1 DEF Behind
<1>2. QED
  BY <1>1, BehindSelf

\* A chain depends on its own chunks only.
LEMMA BehindFrame ==
  ASSUME NEW p \in [Alloc!Chunks -> Alloc!Chunks \cup {Alloc!NULL}],
         NEW q \in [Alloc!Chunks -> Alloc!Chunks \cup {Alloc!NULL}],
         NEW c \in Alloc!Chunks, \A e \in Behind(p, c) : q[e] = p[e]
  PROVE  Behind(q, c) = Behind(p, c)
<1>1. Behind(q, c) \subseteq Behind(p, c)
  <2>1. \A e \in Behind(p, c) : q[e] # Alloc!NULL => q[e] \in Behind(p, c)
    BY BehindClosed
  <2>2. QED
    BY <2>1, BehindSelf, BehindLeast
<1>2. Behind(p, c) \subseteq Behind(q, c)
  <2>1. \A e \in Behind(q, c) : p[e] # Alloc!NULL => p[e] \in Behind(q, c)
    BY <1>1, BehindClosed
  <2>2. QED
    BY <2>1, BehindSelf, BehindLeast
<1>3. QED
  BY <1>1, <1>2

-----------------------------------------------------------------------------
(* Steps.                                                                  *)

\* The line is made of chunks, starts at the tail and leads on.
LEMMA LineFacts ==
  AllocType => /\ Line \in SUBSET Alloc!Chunks /\ tail \in Line
               /\ \A e \in Line : prev[e] # Alloc!NULL => prev[e] \in Line
BY BehindSelf, BehindClosed DEF AllocType, Line

\* The line stays when its tail and the headers of its chunks do.
LEMMA LineStays ==
  ASSUME AllocType, AllocType', tail' = tail, \A e \in Line : prev'[e] = prev[e]
  PROVE  Line' = Line
BY BehindFrame DEF AllocType, Line

\* A fresh chunk is on no line.
LEMMA FreshKeepsLine ==
  ASSUME AllocInvariant, AllocType', tail' = tail, NEW c \in Alloc!Chunks \ live, NEW p,
         prev' = [prev EXCEPT ![c] = p]
  PROVE  Line' = Line
<1>1. Line \subseteq live
  BY DEF AllocInvariant, ChunksAreAccounted
<1>2. \A e \in Line : prev'[e] = prev[e]
  BY <1>1 DEF AllocInvariant, AllocType
<1>3. QED
  BY <1>2, LineStays DEF AllocInvariant

\* alloc starts at the tail.
LEMMA AllocKeepsAlloc ==
  AllocInvariant /\ (\E t \in Allocators, s \in Sizes : Alloc!Alloc(t, s)) => AllocInvariant'
<1> SUFFICES ASSUME AllocInvariant, NEW t \in Allocators, NEW s \in Sizes, Alloc!Alloc(t, s)
              PROVE AllocInvariant'
  OBVIOUS
<1> USE ChunkAssumption, SizesAssumption, ChunksAreNumbered, LineFacts
    DEF AllocInvariant, Places, Making, Alloc!Alloc, Alloc!Moves
<1>1. AllocType'
  BY DEF AllocType, Alloc!Header, Alloc!sharedVars
<1>2. Line' = Line
  BY <1>1, LineStays DEF Alloc!sharedVars
<1>3. ChainIsLine'
  BY <1>2 DEF Alloc!sharedVars, AllocType, ChainIsLine, ChunksAreAccounted, ThreadsAreOnLine
<1>4. ChunksAreAccounted'
  BY <1>2 DEF Alloc!sharedVars, AllocType, ChainIsLine, ChunksAreAccounted, ThreadsAreOnLine, Own
<1>5. ThreadsAreOnLine'
  BY <1>2
     DEF Alloc!sharedVars, AllocType, ChainIsLine, ChunksAreAccounted, ThreadsAreOnLine,
       RegionsAreBelow, Alloc!Header
<1>6. RegionsAreBelow'
  BY <1>2
     DEF Alloc!sharedVars, AllocType, ChunksAreAccounted, RegionsAreBelow, ThreadsAreOnLine,
       Alloc!Header
<1>7. QED
  BY <1>1, <1>3, <1>4, <1>5, <1>6

\* The offset is read; it may be stale at once.
LEMMA ScanKeepsAlloc == AllocInvariant /\ (\E t \in Allocators : Alloc!Scan(t)) => AllocInvariant'
<1> SUFFICES ASSUME AllocInvariant, NEW t \in Allocators, Alloc!Scan(t) PROVE AllocInvariant'
  OBVIOUS
<1> USE ChunkAssumption, SizesAssumption, ChunksAreNumbered, LineFacts
    DEF AllocInvariant, Places, Making, Alloc!Scan, Alloc!Moves
<1>1. AllocType'
  <2>1. chunk[t] \in Alloc!Chunks /\ size[t] \in Nat
    BY DEF AllocType, ThreadsAreOnLine
  <2>2. QED
    BY <2>1 DEF AllocType, Alloc!sharedVars
<1>2. Line' = Line
  BY <1>1, LineStays DEF Alloc!sharedVars
<1>3. ChainIsLine'
  BY <1>2 DEF Alloc!sharedVars, AllocType, ChainIsLine, ChunksAreAccounted, ThreadsAreOnLine
<1>4. ChunksAreAccounted'
  BY <1>2 DEF Alloc!sharedVars, AllocType, ChainIsLine, ChunksAreAccounted, ThreadsAreOnLine, Own
<1>5. ThreadsAreOnLine'
  BY <1>2
     DEF Alloc!sharedVars, AllocType, ChainIsLine, ChunksAreAccounted, ThreadsAreOnLine,
       RegionsAreBelow, Alloc!Header
<1>6. RegionsAreBelow'
  BY <1>2
     DEF Alloc!sharedVars, AllocType, ChunksAreAccounted, RegionsAreBelow, ThreadsAreOnLine,
       Alloc!Header
<1>7. QED
  BY <1>1, <1>3, <1>4, <1>5, <1>6

\* The bump succeeds only on the offset that was read.
LEMMA BumpKeepsAlloc == AllocInvariant /\ (\E t \in Allocators : Alloc!Bump(t)) => AllocInvariant'
<1> SUFFICES ASSUME AllocInvariant, NEW t \in Allocators, Alloc!Bump(t) PROVE AllocInvariant'
  OBVIOUS
<1> USE ChunkAssumption, SizesAssumption, ChunksAreNumbered, LineFacts
    DEF AllocInvariant, Places, Making, Alloc!Bump, Alloc!Moves
<1>1. AllocType'
  <2>1. chunk[t] \in Alloc!Chunks /\ size[t] \in Nat /\ offs[chunk[t]] + size[t] \in Nat
    BY DEF AllocType, ThreadsAreOnLine
  <2>2. [chunk |-> chunk[t], from |-> seen[t], size |-> size[t], owner |-> t]
          \in [chunk : Alloc!Chunks, from : Nat, size : Nat, owner : Allocators]
    BY <2>1 DEF AllocType
  <2>3. QED
    BY <2>1, <2>2 DEF AllocType
<1>2. Line' = Line
  BY <1>1, LineStays DEF Alloc!sharedVars
<1>3. ChainIsLine'
  BY <1>2 DEF AllocType, ChainIsLine, ChunksAreAccounted, ThreadsAreOnLine
<1>4. ChunksAreAccounted'
  BY <1>2 DEF AllocType, ChainIsLine, ChunksAreAccounted, ThreadsAreOnLine, Own
<1>5. ThreadsAreOnLine'
  BY <1>2 DEF AllocType, ChainIsLine, ChunksAreAccounted, ThreadsAreOnLine, RegionsAreBelow, Alloc!Header
<1>6. RegionsAreBelow'
  BY <1>2 DEF AllocType, ChunksAreAccounted, RegionsAreBelow, ThreadsAreOnLine, Alloc!Header
<1>7. QED
  BY <1>1, <1>3, <1>4, <1>5, <1>6

\* A new chunk is put in front of the one its maker tried.
LEMMA ReserveChunkKeepsAlloc ==
  AllocInvariant /\ (\E t \in Allocators : Alloc!ReserveChunk(t)) => AllocInvariant'
<1> SUFFICES ASSUME AllocInvariant, NEW t \in Allocators, Alloc!ReserveChunk(t) PROVE AllocInvariant'
  OBVIOUS
<1> USE ChunkAssumption, SizesAssumption, ChunksAreNumbered, LineFacts
    DEF AllocInvariant, Places, Making, Alloc!ReserveChunk, Alloc!Moves, Alloc!allocateChunk
<1>1. AllocType'
  BY DEF AllocType, Alloc!Header, Alloc!sharedVars
<1>2. Line' = Line
  <2>1. CASE prev' = prev
    BY <1>1, <2>1, LineStays
  <2>2. CASE prev' # prev
    BY <1>1, <2>2, FreshKeepsLine
  <2>3. QED
    BY <2>1, <2>2
<1>3. ChainIsLine'
  BY <1>2 DEF AllocType, ChainIsLine, ChunksAreAccounted, ThreadsAreOnLine
<1>4. ChunksAreAccounted'
  BY <1>2 DEF AllocType, ChainIsLine, ChunksAreAccounted, ThreadsAreOnLine, Own
<1>5. ThreadsAreOnLine'
  BY <1>2 DEF AllocType, ChainIsLine, ChunksAreAccounted, ThreadsAreOnLine, RegionsAreBelow, Alloc!Header
<1>6. RegionsAreBelow'
  BY <1>2 DEF AllocType, ChunksAreAccounted, RegionsAreBelow, ThreadsAreOnLine, Alloc!Header
<1>7. QED
  BY <1>1, <1>3, <1>4, <1>5, <1>6

\* The new chunk becomes the reserve, or nobody has seen it.
LEMMA OfferReserveKeepsAlloc ==
  AllocInvariant /\ (\E t \in Allocators : Alloc!OfferReserve(t)) => AllocInvariant'
<1> SUFFICES ASSUME AllocInvariant, NEW t \in Allocators, Alloc!OfferReserve(t) PROVE AllocInvariant'
  OBVIOUS
<1> USE ChunkAssumption, SizesAssumption, ChunksAreNumbered, LineFacts
    DEF AllocInvariant, Places, Making, Alloc!OfferReserve, Alloc!Moves
<1>1. AllocType'
  <2>1. next[t] \in Alloc!Chunks
    BY DEF ChunksAreAccounted
  <2>2. QED
    BY <2>1 DEF AllocType
<1>2. Line' = Line
  BY <1>1, LineStays DEF Alloc!sharedVars
<1>3. ChainIsLine'
  BY <1>2 DEF AllocType, ChainIsLine, ChunksAreAccounted, ThreadsAreOnLine
<1>4. ChunksAreAccounted'
  BY <1>2 DEF AllocType, ChainIsLine, ChunksAreAccounted, ThreadsAreOnLine, Own
<1>5. ThreadsAreOnLine'
  BY <1>2 DEF AllocType, ChainIsLine, ChunksAreAccounted, ThreadsAreOnLine, RegionsAreBelow, Alloc!Header
<1>6. RegionsAreBelow'
  BY <1>2 DEF AllocType, ChunksAreAccounted, RegionsAreBelow, ThreadsAreOnLine, Alloc!Header
<1>7. QED
  BY <1>1, <1>3, <1>4, <1>5, <1>6

\* The reserve is there, or a new chunk competes to become it.
LEMMA GetNextChunkKeepsAlloc ==
  AllocInvariant /\ (\E t \in Allocators : Alloc!GetNextChunk(t)) => AllocInvariant'
<1> SUFFICES ASSUME AllocInvariant, NEW t \in Allocators, Alloc!GetNextChunk(t) PROVE AllocInvariant'
  OBVIOUS
<1> USE ChunkAssumption, SizesAssumption, ChunksAreNumbered, LineFacts
    DEF AllocInvariant, Places, Making, Alloc!GetNextChunk, Alloc!Moves, Alloc!allocateChunk
<1>1. AllocType'
  BY DEF AllocType, Alloc!Header, Alloc!sharedVars
<1>2. Line' = Line
  <2>1. CASE prev' = prev
    BY <1>1, <2>1, LineStays
  <2>2. CASE prev' # prev
    BY <1>1, <2>2, FreshKeepsLine
  <2>3. QED
    BY <2>1, <2>2
<1>3. ChainIsLine'
  BY <1>2 DEF AllocType, ChainIsLine, ChunksAreAccounted, ThreadsAreOnLine
<1>4. ChunksAreAccounted'
  BY <1>2 DEF AllocType, ChainIsLine, ChunksAreAccounted, ThreadsAreOnLine, Own
<1>5. ThreadsAreOnLine'
  BY <1>2 DEF AllocType, ChainIsLine, ChunksAreAccounted, ThreadsAreOnLine, RegionsAreBelow, Alloc!Header
<1>6. RegionsAreBelow'
  BY <1>2 DEF AllocType, ChunksAreAccounted, RegionsAreBelow, ThreadsAreOnLine, Alloc!Header
<1>7. QED
  BY <1>1, <1>3, <1>4, <1>5, <1>6

\* The new chunk becomes the reserve, or the other one is taken.
LEMMA CompeteKeepsAlloc == AllocInvariant /\ (\E t \in Allocators : Alloc!Compete(t)) => AllocInvariant'
<1> SUFFICES ASSUME AllocInvariant, NEW t \in Allocators, Alloc!Compete(t) PROVE AllocInvariant'
  OBVIOUS
<1> USE ChunkAssumption, SizesAssumption, ChunksAreNumbered, LineFacts
    DEF AllocInvariant, Places, Making, Alloc!Compete, Alloc!Moves
<1>1. AllocType'
  <2>1. next[t] \in Alloc!Chunks
    BY DEF ChunksAreAccounted
  <2>2. QED
    BY <2>1 DEF AllocType
<1>2. Line' = Line
  BY <1>1, LineStays DEF Alloc!sharedVars
<1>3. ChainIsLine'
  BY <1>2 DEF AllocType, ChainIsLine, ChunksAreAccounted, ThreadsAreOnLine
<1>4. ChunksAreAccounted'
  BY <1>2 DEF AllocType, ChainIsLine, ChunksAreAccounted, ThreadsAreOnLine, Own
<1>5. ThreadsAreOnLine'
  BY <1>2 DEF AllocType, ChainIsLine, ChunksAreAccounted, ThreadsAreOnLine, RegionsAreBelow, Alloc!Header
<1>6. RegionsAreBelow'
  BY <1>2 DEF AllocType, ChunksAreAccounted, RegionsAreBelow, ThreadsAreOnLine, Alloc!Header
<1>7. QED
  BY <1>1, <1>3, <1>4, <1>5, <1>6

\* The tail moves to the reserve, which is in front of it: the line grows by one chunk.
LEMMA AdvanceKeepsAlloc == AllocInvariant /\ (\E t \in Allocators : Alloc!Advance(t)) => AllocInvariant'
<1> SUFFICES ASSUME AllocInvariant, NEW t \in Allocators, Alloc!Advance(t) PROVE AllocInvariant'
  OBVIOUS
<1> USE ChunkAssumption, SizesAssumption, ChunksAreNumbered, LineFacts
    DEF AllocInvariant, Places, Making, Alloc!Advance, Alloc!Moves
<1>1. AllocType'
  BY DEF AllocType, ThreadsAreOnLine
<1>2. IF tail = chunk[t] THEN Line' = Line \cup {reserve} ELSE Line' = Line
  <2>1. CASE tail = chunk[t]
    <3>1. tail' = reserve /\ prev' = prev /\ prev[reserve] = tail /\ reserve \in Alloc!Chunks
      BY <2>1 DEF AllocType, ChainIsLine, ThreadsAreOnLine
    <3>2. prev[reserve] # Alloc!NULL
      BY <3>1 DEF AllocType
    <3>3. Behind(prev, reserve) = {reserve} \cup Behind(prev, tail)
      BY <3>1, <3>2, BehindStep DEF AllocType
    <3>4. QED
      BY <2>1, <3>1, <3>3 DEF Line
  <2>2. CASE tail # chunk[t]
    BY <1>1, <2>2, LineStays
  <2>3. QED
    BY <2>1, <2>2
<1>3. ChainIsLine'
  BY <1>2 DEF AllocType, ChainIsLine, ThreadsAreOnLine
<1>4. ChunksAreAccounted'
  BY <1>2 DEF AllocType, ChainIsLine, ChunksAreAccounted, ThreadsAreOnLine, Own
<1>5. ThreadsAreOnLine'
  BY <1>1, <1>2 DEF AllocType, ChainIsLine, ChunksAreAccounted, ThreadsAreOnLine
<1>6. RegionsAreBelow'
  BY <1>2 DEF AllocType, RegionsAreBelow
<1>7. QED
  BY <1>1, <1>3, <1>4, <1>5, <1>6

\* clear comes when nobody is inside: only the first chunk is left.
LEMMA ClearKeepsAlloc == AllocInvariant /\ Alloc!Clear => AllocInvariant'
<1> SUFFICES ASSUME AllocInvariant, Alloc!Clear PROVE AllocInvariant'
  OBVIOUS
<1> USE ChunkAssumption, ChunksAreNumbered, LineFacts DEF AllocInvariant
<1>1. Alloc!Chain(tail) = Line
  BY DEF Alloc!Chain, Line, Behind
<1>2. Alloc!First(tail) = 1
  BY <1>1 DEF ChainIsLine, Alloc!First
<1>3. Own = {}
  BY DEF Alloc!Clear, Own, Making
<1>4. tail' = 1 /\ reserve' = 1 /\ prev' = prev
  BY <1>2 DEF Alloc!Clear
<1>5. live' = {1}
  <2>1. live = Line \cup {reserve}
    BY <1>3 DEF ChunksAreAccounted
  <2>2. live' = (live \ (IF prev[reserve] = tail THEN {reserve} ELSE {})) \ (Line \ {1})
    BY <1>1, <1>2 DEF Alloc!Clear
  <2>3. 1 \in Line /\ prev[1] = Alloc!NULL /\ (reserve \in Line \/ prev[reserve] = tail)
    BY DEF ChainIsLine
  <2>4. prev[reserve] = tail => reserve # 1
    BY <2>3 DEF AllocType
  <2>5. QED
    BY <2>1, <2>2, <2>3, <2>4
<1>6. Line' = {1}
  <2>1. prev[1] = Alloc!NULL
    BY DEF ChainIsLine
  <2>2. QED
    BY <1>4, <2>1, BehindFirst DEF Line
<1>7. AllocType'
  BY <1>2, <1>4, <1>5 DEF AllocType, Alloc!Clear, Alloc!Header
<1>8. ChainIsLine'
  BY <1>4, <1>6 DEF ChainIsLine
<1>9. ChunksAreAccounted'
  BY <1>4, <1>5, <1>6 DEF ChunksAreAccounted, Alloc!Clear, Own, Making
<1>10. ThreadsAreOnLine'
  BY DEF ThreadsAreOnLine, Alloc!Clear
<1>11. RegionsAreBelow'
  BY <1>2 DEF AllocType, RegionsAreBelow, Alloc!Clear, Alloc!Header
<1>12. QED
  BY <1>7, <1>8, <1>9, <1>10, <1>11

-----------------------------------------------------------------------------
LEMMA InitIsAlloc == Init => AllocInvariant
<1> SUFFICES ASSUME Init PROVE AllocInvariant
  OBVIOUS
<1> USE ChunkAssumption, ChunksAreNumbered DEF Init, Alloc!Init
<1>1. AllocType
  BY DEF AllocType, Places, Alloc!Header
<1>2. Line = {1}
  BY BehindFirst DEF Line
<1>3. QED
  BY <1>1, <1>2 DEF AllocInvariant, ChainIsLine, ChunksAreAccounted, ThreadsAreOnLine,
     RegionsAreBelow, Own, Making, Alloc!Header

LEMMA RestKeepsAlloc == AllocInvariant /\ UNCHANGED allocVars => AllocInvariant'
BY DEF AllocInvariant, AllocType, ChainIsLine, ChunksAreAccounted, ThreadsAreOnLine, RegionsAreBelow,
       Line, Own, allocVars

LEMMA NextKeepsAlloc == AllocInvariant /\ [Next]_vars => AllocInvariant'
<1> SUFFICES ASSUME AllocInvariant, [Next]_vars PROVE AllocInvariant'
  OBVIOUS
<1>1. CASE AllocNext
  <2>1. Alloc!Next
    BY <1>1 DEF AllocNext
  <2>2. QED
    BY <2>1, AllocKeepsAlloc, ScanKeepsAlloc, BumpKeepsAlloc, ReserveChunkKeepsAlloc,
       OfferReserveKeepsAlloc, GetNextChunkKeepsAlloc, CompeteKeepsAlloc, AdvanceKeepsAlloc,
       ClearKeepsAlloc DEF Alloc!Next
<1>2. CASE UNCHANGED allocVars
  BY <1>2, RestKeepsAlloc
<1>3. QED
  BY <1>1, <1>2 DEF Next, vars, StorageNext, RecorderNext, HooksNext, TracerNext,
     DwarfNext, SymbolsNext, SamplerNext, SiteNext, LauncherNext

\* The invariant says what is promised of the allocator.
LEMMA AllocIsSound == AllocInvariant => AllocatorIsSound
<1> SUFFICES ASSUME AllocInvariant PROVE AllocatorIsSound
  OBVIOUS
<1>1. Alloc!Chain(tail) = Line
  BY DEF Alloc!Chain, Line, Behind
<1>2. Alloc!RegionsAreDisjoint
  BY DEF AllocInvariant, RegionsAreBelow, ChunksAreAccounted, Alloc!RegionsAreDisjoint
<1>3. Alloc!NoChunkIsLost
  BY <1>1 DEF AllocInvariant, AllocType, ChainIsLine, ChunksAreAccounted, ThreadsAreOnLine, Own, Making,
     Alloc!NoChunkIsLost
<1>4. QED
  BY <1>2, <1>3 DEF AllocatorIsSound

\* Whatever threads and signal handlers use pyki's allocator (linear_allocator.cpp) at the
\* same time, no two stack traces share memory, none lies outside its chunk, and every
\* mapped chunk can be reached by clear, which leaves the first one only.
THEOREM MemoryIsHandedOutOnce == Spec => []AllocatorIsSound
<1>1. Spec => []AllocInvariant
  BY InitIsAlloc, NextKeepsAlloc, PTL DEF Spec
<1>2. QED
  BY <1>1, AllocIsSound, PTL

-----------------------------------------------------------------------------
(* The trace table.                                                        *)

\* Every set of natural numbers with a member has a least one.
LEMMA LeastOfNaturals ==
  ASSUME NEW S \in SUBSET Nat, S # {}
  PROVE  \E k \in S : \A n \in S : k <= n
<1> DEFINE Less == OpToRel(<, Nat)
<1>1. IsWellFoundedOn(Less, Nat)
  BY NatLessThanWellFounded
<1>2. ASSUME NEW n \in Nat, NEW k \in Nat, n < k PROVE <<n, k>> \in Less
  BY <1>2 DEF OpToRel
<1> HIDE DEF Less
<1>3. PICK k \in S : \A n \in S : ~(<<n, k>> \in Less)
  BY <1>1, WFMin
<1>4. \A n \in S : ~(n < k)
  BY <1>2, <1>3
<1>5. QED
  BY <1>4

\* A set of natural numbers that has 0, and with each number below a bound the next one,
\* reaches the bound.
LEMMA Climb ==
  ASSUME NEW S, NEW bound \in Nat, 0 \in S,
         \A n \in 0..(bound - 1) : n \in S => n + 1 \in S
  PROVE  0..bound \subseteq S
<1> DEFINE Out == {n \in 0..bound : n \notin S}
<1> SUFFICES ASSUME Out # {} PROVE FALSE
  OBVIOUS
<1> Out \in SUBSET Nat
  OBVIOUS
<1>1. PICK k \in Out : \A n \in Out : k <= n
  BY LeastOfNaturals
<1>2. k \in Nat /\ k # 0 /\ k <= bound /\ k - 1 \notin Out
  BY <1>1
<1>3. k - 1 \in 0..(bound - 1) /\ k - 1 \in S /\ (k - 1) + 1 = k
  BY <1>2
<1>4. QED
  BY <1>1, <1>3

LEMMA Products ==
  /\ \A a, b \in Nat : a * b \in Nat
  /\ \A a, b \in Int : a * b \in Int /\ a * b = b * a
  /\ \A a, b, c \in Int : (a + b) * c = a * c + b * c /\ a * (b * c) = (a * b) * c
OBVIOUS

\* What the remainder is.
LEMMA Remainder ==
  ASSUME NEW a \in Nat, NEW c \in Nat \ {0}
  PROVE  \E q \in Nat : \E r \in 0..(c - 1) : r = a % c /\ a = q * c + r
<1>1. a = c * (a \div c) + (a % c) /\ a % c \in 0..(c - 1) /\ a \div c \in Int
  OBVIOUS
<1>2. a \div c >= 0
  <2> SUFFICES ASSUME a \div c <= -1 PROVE FALSE
    BY <1>1
  <2>1. c * (a \div c) <= -c
    BY <1>1
  <2>2. QED
    BY <1>1, <2>1
<1>3. (a \div c) * c = c * (a \div c)
  BY <1>1
<1>4. QED
  BY <1>1, <1>2, <1>3

LEMMA RemainderIsUnique ==
  ASSUME NEW c \in Nat \ {0}, NEW p \in Int, NEW q \in Int, NEW r \in 0..(c - 1), NEW s \in 0..(c - 1),
         p * c + r = q * c + s
  PROVE  p = q /\ r = s
<1>1. (p - q) * c = s - r
  OBVIOUS
<1>2. ~(p - q >= 1)
  <2> SUFFICES ASSUME p - q >= 1 PROVE FALSE
    OBVIOUS
  <2>1. (p - q) * c >= c
    OBVIOUS
  <2>2. QED
    BY <1>1, <2>1
<1>3. ~(q - p >= 1)
  <2> SUFFICES ASSUME q - p >= 1 PROVE FALSE
    OBVIOUS
  <2>1. (q - p) * c >= c /\ (q - p) * c = r - s
    BY <1>1
  <2>2. QED
    BY <2>1
<1>4. QED
  BY <1>1, <1>2, <1>3

LEMMA RemainderOfSum ==
  ASSUME NEW a \in Nat, NEW n \in Nat, NEW c \in Nat \ {0}
  PROVE  ((a % c) + n) % c = (a + n) % c
<1>1. PICK p \in Nat, r \in 0..(c - 1) : r = a % c /\ a = p * c + r
  BY Remainder
<1>2. r + n \in Nat /\ a + n \in Nat
  OBVIOUS
<1>3. PICK q \in Nat, s \in 0..(c - 1) : s = (r + n) % c /\ r + n = q * c + s
  BY <1>2, Remainder
<1>4. PICK v \in Nat, u \in 0..(c - 1) : u = (a + n) % c /\ a + n = v * c + u
  BY <1>2, Remainder
<1>5. (p + q) * c + s = v * c + u
  <2>1. (p + q) * c = p * c + q * c
    BY Products
  <2>2. a = p * c + r /\ r + n = q * c + s /\ a + n = v * c + u
    BY <1>1, <1>3, <1>4, Zenon
  <2>3. p * c \in Nat /\ q * c \in Nat /\ v * c \in Nat
    BY Products
  <2>4. QED
    BY <2>1, <2>2, <2>3
<1>6. s = u
  BY <1>5, RemainderIsUnique
<1>7. QED
  BY <1>1, <1>3, <1>4, <1>6

Powers == 0..(InitialCapacity + MaxTables + Width + 1)

LEMMA PowersAreNatural == \A k \in Powers : 2^k \in Nat \ {0}
<1> DEFINE S == {k \in Nat : 2^k \in Nat \ {0}}
<1> DEFINE top == InitialCapacity + MaxTables + Width
<1>0. top \in Nat
  BY HashAssumption, TableAssumption, WidthAssumption
<1>1. 0 \in S
  BY PowersAssumption
<1>2. ASSUME NEW n \in 0..top, n \in S PROVE n + 1 \in S
  BY <1>2, <1>0, PowersAssumption
<1> HIDE DEF S, top
<1>3. 0..(top + 1) \subseteq S
  BY <1>0, <1>1, <1>2, Climb
<1>4. QED
  BY <1>3 DEF Powers, S, top

\* An odd factor does not take part in a power of two.
LEMMA Parity == \A m \in Nat : \E j \in Nat, d \in {0, 1} : m = 2 * j + d /\ m % 2 = d
<1> TAKE m \in Nat
<1>1. PICK j \in Nat, d \in 0..1 : d = m % 2 /\ m = j * 2 + d
  BY Remainder
<1>2. QED
  BY <1>1

LEMMA OddFactor ==
  \A k \in Powers : \A a, b, q \in Nat : a % 2 = 1 /\ a * b = 2^k * q => \E r \in Nat : b = 2^k * r
<1> DEFINE S == {k \in Nat : \A a, b, q \in Nat :
                   a % 2 = 1 /\ a * b = 2^k * q => \E r \in Nat : b = 2^k * r}
<1> DEFINE top == InitialCapacity + MaxTables + Width
<1>0. top \in Nat
  BY HashAssumption, TableAssumption, WidthAssumption
<1>1. 0 \in S
  BY PowersAssumption
<1>2. ASSUME NEW n \in 0..top, n \in S PROVE n + 1 \in S
  <2>1. n \in Nat /\ n + 1 \in Nat /\ n \in Powers
    BY <1>0 DEF Powers
  <2>2. PICK x \in Nat : x = 2^n /\ 2^(n + 1) = 2 * x
    BY <2>1, PowersAreNatural, PowersAssumption, <1>0
  <2>3. ASSUME NEW a \in Nat, NEW b \in Nat, NEW q \in Nat, a % 2 = 1, a * b = 2 * x * q
        PROVE  \E r \in Nat : b = 2 * x * r
    <3>1. PICK i \in Nat : a = 2 * i + 1
      BY <2>3, Parity
    <3>2. PICK j \in Nat, d \in {0, 1} : b = 2 * j + d
      BY Parity
    <3>3. a * b = 2 * (i * b + j) + d
      <4>1. a * b = 2 * (i * b) + b
        BY <3>1
      <4>2. QED
        BY <4>1, <3>2
    <3>4. PICK y \in Nat : y = x * q /\ a * b = 2 * y
      <4>1. x * q \in Nat /\ 2 * x * q = 2 * (x * q)
        BY Products
      <4>2. QED
        BY <4>1, <2>3
    <3>5. d = 0
      <4>1. PICK z \in Nat : z = i * b + j
        BY Products
      <4>2. 2 * y = 2 * z + d
        BY <4>1, <3>3, <3>4
      <4>3. QED
        BY <4>2
    <3>6. a * j = x * q
      <4>1. a * b = 2 * (a * j)
        BY <3>2, <3>5
      <4>2. PICK w \in Nat : w = a * j
        BY Products
      <4>3. QED
        BY <4>1, <4>2, <3>4
    <3>7. PICK r \in Nat : j = x * r
      BY <1>2, <2>2, <2>3, <3>6
    <3>8. QED
      BY <3>2, <3>5, <3>7
  <2>4. ASSUME NEW a \in Nat, NEW b \in Nat, NEW q \in Nat, a % 2 = 1, a * b = 2^(n + 1) * q
        PROVE  \E r \in Nat : b = 2^(n + 1) * r
    <3>1. a * b = 2 * x * q
      BY <2>2, <2>4, Zenon
    <3>2. PICK r \in Nat : b = 2 * x * r
      BY <2>3, <2>4, <3>1, Zenon
    <3>3. QED
      BY <2>2, <3>2, Zenon
  <2>5. QED
    BY <2>1, <2>4, Zenon
<1> HIDE DEF S, top
<1>3. 0..(top + 1) \subseteq S
  BY <1>0, <1>1, <1>2, Climb
<1>4. QED
  BY <1>3 DEF Powers, S, top

-----------------------------------------------------------------------------
(* Triangular numbers, the offsets of a probe sequence.                    *)

Triangle(n) == (n * (n + 1)) \div 2

LEMMA Triangles ==
  ASSUME NEW n \in Nat
  PROVE  /\ Triangle(n) \in Nat /\ 2 * Triangle(n) = n * (n + 1)
         /\ Triangle(0) = 0 /\ Triangle(n + 1) = Triangle(n) + n + 1
<1>1. \A m \in Nat : \E t \in Nat : m * (m + 1) = 2 * t
  <2> TAKE m \in Nat
  <2>1. PICK j \in Nat, d \in {0, 1} : m = 2 * j + d
    BY Parity
  <2>2. CASE d = 0
    <3>1. j * (m + 1) \in Nat
      BY Products
    <3>2. m * (m + 1) = 2 * (j * (m + 1))
      <4>1. m = 2 * j
        BY <2>1, <2>2
      <4>2. QED
        BY <4>1, Products
    <3>3. QED
      BY <3>1, <3>2
  <2>3. CASE d = 1
    <3>1. m * (j + 1) \in Nat
      BY Products
    <3>2. m * (m + 1) = 2 * (m * (j + 1))
      <4>1. m + 1 = 2 * (j + 1)
        BY <2>1, <2>3
      <4>2. QED
        BY <4>1, Products
    <3>3. QED
      BY <3>1, <3>2
  <2>4. QED
    BY <2>2, <2>3
<1>2. \A t \in Nat : (2 * t) \div 2 = t
  OBVIOUS
<1>3. ASSUME NEW m \in Nat PROVE Triangle(m) \in Nat /\ 2 * Triangle(m) = m * (m + 1)
  <2>1. PICK t \in Nat : m * (m + 1) = 2 * t
    BY <1>1
  <2>2. Triangle(m) = t
    BY <1>2, <2>1, Zenon DEF Triangle
  <2>3. QED
    BY <2>1, <2>2
<1>4. Triangle(0) = 0
  BY DEF Triangle
<1>5. Triangle(n + 1) = Triangle(n) + n + 1
  <2>1. PICK x \in Nat : x = Triangle(n) /\ 2 * x = n * (n + 1)
    BY <1>3
  <2>2. PICK y \in Nat : y = Triangle(n + 1) /\ 2 * y = (n + 1) * ((n + 1) + 1)
    BY <1>3
  <2>3. PICK u, v \in Nat : u = n * (n + 1) /\ v = (n + 1) * ((n + 1) + 1) /\ v = u + 2 * (n + 1)
    <3>1. (n + 1) * ((n + 1) + 1) = n * (n + 1) + 2 * (n + 1)
      OBVIOUS
    <3>2. n * (n + 1) \in Nat /\ (n + 1) * ((n + 1) + 1) \in Nat
      BY Products
    <3>3. QED
      BY <3>1, <3>2, Zenon
  <2>4. y = x + n + 1
    <3>1. 2 * x = u /\ 2 * y = v
      BY <2>1, <2>2, <2>3, Zenon
    <3>2. QED
      BY <2>3, <3>1
  <2>5. QED
    BY <2>1, <2>2, <2>4
<1>6. QED
  BY <1>3, <1>4, <1>5

-----------------------------------------------------------------------------
(* Capacities and ids.                                                     *)

LEMMA PowersMultiply ==
  ASSUME NEW k \in 0..InitialCapacity
  PROVE  \A m \in 0..MaxTables : 2^k * 2^m = 2^(k + m)
<1> DEFINE S == {m \in Nat : 2^k * 2^m = 2^(k + m)}
<1>0. MaxTables \in Nat /\ InitialCapacity \in Nat /\ Width \in Nat
  BY HashAssumption, TableAssumption, WidthAssumption
<1>1. 0 \in S
  <2>1. k \in Powers
    BY <1>0 DEF Powers
  <2>2. PICK x \in Nat : x = 2^k
    BY <2>1, PowersAreNatural
  <2>3. k + 0 = k /\ x * 1 = x
    OBVIOUS
  <2>4. QED
    BY <2>2, <2>3, PowersAssumption
<1>2. ASSUME NEW n \in 0..(MaxTables - 1), n \in S PROVE n + 1 \in S
  <2>1. k \in Powers /\ n \in Powers /\ k + n \in Powers
    BY <1>0 DEF Powers
  <2>2. PICK x, y, z \in Nat : x = 2^k /\ y = 2^n /\ z = 2^(k + n)
    BY <2>1, PowersAreNatural
  <2>3. 2^(n + 1) = 2 * y /\ 2^((k + n) + 1) = 2 * z
    BY <1>0, <2>2, PowersAssumption
  <2>4. x * y = z
    BY <1>2, <2>2, Zenon
  <2>5. x * (2 * y) = 2 * (x * y)
    BY Products
  <2>6. (k + n) + 1 = k + (n + 1) /\ n + 1 \in Nat
    OBVIOUS
  <2>7. 2^k * 2^(n + 1) = 2^(k + (n + 1))
    BY <2>2, <2>3, <2>4, <2>5, <2>6, Zenon
  <2>8. QED
    BY <2>6, <2>7
<1> HIDE DEF S
<1>3. 0..MaxTables \subseteq S
  BY <1>0, <1>1, <1>2, Climb
<1>4. QED
  BY <1>3 DEF S

LEMMA CapacityIsPower ==
  \A tb \in Storage!Tables : \E k \in Nat : k + 1 \in Powers /\ Storage!Capacity(tb) = 2^k
<1> TAKE tb \in Storage!Tables
<1>1. PICK k \in 0..InitialCapacity : InitialCapacity = 2^k
  BY TableAssumption
<1>2. tb - 1 \in 0..MaxTables /\ k + (tb - 1) \in Nat /\ (k + (tb - 1)) + 1 \in Powers
  BY HashAssumption, TableAssumption, WidthAssumption DEF Storage!Tables, Powers
<1>3. 2^k * 2^(tb - 1) = 2^(k + (tb - 1))
  BY <1>2, PowersMultiply
<1>4. Storage!Capacity(tb) = 2^(k + (tb - 1))
  BY <1>1, <1>3 DEF Storage!Capacity
<1>5. QED
  BY <1>2, <1>4

LEMMA CapacityDoubles ==
  /\ \A tb \in Storage!Tables : Storage!Capacity(tb) \in Nat \ {0}
  /\ \A tb \in Storage!Tables : tb + 1 \in Storage!Tables =>
       Storage!Capacity(tb + 1) = 2 * Storage!Capacity(tb)
<1>1. ASSUME NEW tb \in Storage!Tables PROVE Storage!Capacity(tb) \in Nat \ {0}
  <2>1. PICK k \in Nat : k + 1 \in Powers /\ Storage!Capacity(tb) = 2^k
    BY CapacityIsPower
  <2>2. k \in Powers
    BY <2>1, HashAssumption, TableAssumption, WidthAssumption DEF Powers
  <2>3. QED
    BY <2>1, <2>2, PowersAreNatural
<1>2. ASSUME NEW tb \in Storage!Tables, tb + 1 \in Storage!Tables
      PROVE  Storage!Capacity(tb + 1) = 2 * Storage!Capacity(tb)
  <2>1. tb - 1 \in 0..(InitialCapacity + MaxTables + Width) /\ (tb + 1) - 1 = (tb - 1) + 1
    BY HashAssumption, TableAssumption, WidthAssumption DEF Storage!Tables
  <2>2. PICK x : x = 2^(tb - 1) /\ 2^((tb - 1) + 1) = 2 * x
    BY <2>1, PowersAssumption
  <2>3. x \in Nat
    <3>1. tb - 1 \in Powers
      BY <2>1, HashAssumption, TableAssumption, WidthAssumption DEF Powers
    <3>2. QED
      BY <3>1, <2>2, PowersAreNatural
  <2>4. InitialCapacity * (2 * x) = 2 * (InitialCapacity * x)
    BY <2>3, HashAssumption, Products
  <2>5. Storage!Capacity(tb) = InitialCapacity * x
    BY <2>2, Zenon DEF Storage!Capacity
  <2>6. Storage!Capacity(tb + 1) = InitialCapacity * 2^((tb + 1) - 1)
    BY Zenon DEF Storage!Capacity
  <2>7. QED
    BY <2>1, <2>2, <2>4, <2>5, <2>6, Zenon
<1>3. QED
  BY <1>1, <1>2

LEMMA CapacityGrows ==
  ASSUME NEW tb \in Storage!Tables, NEW ub \in Storage!Tables, tb < ub
  PROVE  Storage!Capacity(ub) >= 2 * Storage!Capacity(tb)
<1> DEFINE c(m) == Storage!Capacity(m)
<1> DEFINE S == {m \in Nat : tb + 1 + m \in Storage!Tables => c(tb + 1 + m) >= 2 * c(tb)}
<1>0. tb \in Nat /\ ub \in Nat /\ MaxTables \in Nat /\ ub <= MaxTables
  BY TableAssumption DEF Storage!Tables
<1>1. 0 \in S
  <2>1. tb + 1 \in Storage!Tables /\ tb + 1 + 0 = tb + 1
    BY <1>0 DEF Storage!Tables
  <2>2. QED
    BY <2>1, CapacityDoubles
<1>2. ASSUME NEW n \in 0..(ub - tb - 1 - 1), n \in S PROVE n + 1 \in S
  <2>1. /\ tb + 1 + n \in Storage!Tables /\ tb + 1 + (n + 1) = (tb + 1 + n) + 1
        /\ (tb + 1 + n) + 1 \in Storage!Tables
    BY <1>0 DEF Storage!Tables
  <2>2. c((tb + 1 + n) + 1) = 2 * c(tb + 1 + n) /\ c(tb + 1 + n) \in Nat /\ c(tb) \in Nat
    BY <2>1, CapacityDoubles
  <2>3. c(tb + 1 + n) >= 2 * c(tb)
    BY <1>2, <2>1
  <2>4. c(tb + 1 + (n + 1)) >= 2 * c(tb)
    BY <2>1, <2>2, <2>3
  <2>5. QED
    BY <2>4
<1>3. ub - tb - 1 \in Nat /\ tb + 1 + (ub - tb - 1) = ub
  BY <1>0
<1> HIDE DEF S
<1>4. 0..(ub - tb - 1) \subseteq S
  BY <1>1, <1>2, <1>3, Climb
<1>5. ub - tb - 1 \in S
  BY <1>3, <1>4
<1>6. QED
  BY <1>3, <1>5 DEF S

\* No two entries share an id.
LEMMA IdsAreUnique ==
  ASSUME NEW tb \in Storage!Tables, NEW ub \in Storage!Tables,
         NEW s \in Storage!Slots(tb), NEW u \in Storage!Slots(ub),
         Storage!IdOf(tb, s) = Storage!IdOf(ub, u)
  PROVE  tb = ub /\ s = u
<1>1. PICK x, y \in Nat \ {0} : x = Storage!Capacity(tb) /\ y = Storage!Capacity(ub)
  BY CapacityDoubles
<1>2. s \in 0..(x - 1) /\ u \in 0..(y - 1) /\ x - (InitialCapacity - 1) + s = y - (InitialCapacity - 1) + u
  BY <1>1, Zenon DEF Storage!Slots, Storage!IdOf
<1>3. x + s = y + u
  BY <1>2, HashAssumption
<1>4. ~(tb < ub) /\ ~(ub < tb)
  BY <1>1, <1>2, <1>3, CapacityGrows
<1>5. tb = ub
  BY <1>4 DEF Storage!Tables
<1>6. QED
  BY <1>1, <1>2, <1>3, <1>5

LEMMA IdsAreNatural ==
  \A tb \in Storage!Tables : \A s \in Storage!Slots(tb) : Storage!IdOf(tb, s) \in Nat
<1> TAKE tb \in Storage!Tables
<1> TAKE s \in Storage!Slots(tb)
<1>0. 1 \in Storage!Tables /\ tb \in Nat /\ tb >= 1
  BY TableAssumption DEF Storage!Tables
<1>1. PICK x, y \in Nat \ {0} : x = Storage!Capacity(tb) /\ y = Storage!Capacity(1)
  BY <1>0, CapacityDoubles
<1>2. x >= y
  <2>1. CASE tb = 1
    BY <1>1, <2>1
  <2>2. CASE tb # 1
    <3>1. x >= 2 * y
      BY <1>0, <1>1, <2>2, CapacityGrows
    <3>2. QED
      BY <3>1
  <2>3. QED
    BY <2>1, <2>2
<1>3. y = InitialCapacity
  <2>1. 2^(1 - 1) = 1
    BY PowersAssumption
  <2>2. Storage!Capacity(1) = InitialCapacity * 1
    BY <2>1, Zenon DEF Storage!Capacity
  <2>3. QED
    BY <1>1, <2>2, HashAssumption
<1>4. s \in Nat /\ Storage!IdOf(tb, s) = x - (InitialCapacity - 1) + s
  <2>1. s \in 0..(x - 1)
    BY <1>1, Zenon DEF Storage!Slots
  <2>2. Storage!IdOf(tb, s) = x - (InitialCapacity - 1) + s
    BY <1>1, Zenon DEF Storage!IdOf
  <2>3. QED
    BY <1>1, <2>1, <2>2
<1>5. QED
  BY <1>1, <1>2, <1>3, <1>4, HashAssumption

-----------------------------------------------------------------------------
(* The probe sequence.                                                     *)

\* The slot that is n steps into the search for a hash.
ProbeAt(tb, h, n) == (h + Triangle(n)) % Storage!Capacity(tb)

LEMMA ProbeStep ==
  ASSUME NEW tb \in Storage!Tables, NEW h \in Nat, NEW n \in Nat
  PROVE  /\ ProbeAt(tb, h, n) \in Storage!Slots(tb)
         /\ ProbeAt(tb, h, 0) = h % Storage!Capacity(tb)
         /\ ProbeAt(tb, h, n + 1) = (ProbeAt(tb, h, n) + n + 1) % Storage!Capacity(tb)
<1>1. PICK c \in Nat \ {0} : c = Storage!Capacity(tb)
  BY CapacityDoubles
<1>2. PICK x \in Nat : x = Triangle(n) /\ Triangle(n + 1) = x + n + 1
  BY Triangles
<1>3. PICK r \in 0..(c - 1) : r = (h + x) % c
  <2>1. h + x \in Nat
    OBVIOUS
  <2>2. QED
    BY <2>1, Remainder
<1>4. ProbeAt(tb, h, n) = r
  BY <1>1, <1>2, <1>3, Zenon DEF ProbeAt
<1>5. ProbeAt(tb, h, 0) = h % c
  <2>1. Triangle(0) = 0 /\ h + 0 = h
    BY Triangles
  <2>2. QED
    BY <1>1, <2>1, Zenon DEF ProbeAt
<1>6. ProbeAt(tb, h, n + 1) = (r + n + 1) % c
  <2>1. h + x \in Nat /\ n + 1 \in Nat /\ r + n + 1 = r + (n + 1) /\ h + (x + n + 1) = (h + x) + (n + 1)
    OBVIOUS
  <2>2. (((h + x) % c) + (n + 1)) % c = ((h + x) + (n + 1)) % c
    BY <2>1, RemainderOfSum
  <2>3. QED
    BY <1>1, <1>2, <1>3, <2>1, <2>2, Zenon DEF ProbeAt
<1>7. r \in Storage!Slots(tb)
  BY <1>1, <1>3 DEF Storage!Slots
<1>8. QED
  BY <1>1, <1>4, <1>5, <1>6, <1>7

\* The recursive function of the model is that one.
LEMMA ProbeSequenceIs ==
  ASSUME NEW tb \in Storage!Tables, NEW h \in Nat
  PROVE  Storage!ProbeSequence(tb, h) = [n \in 0..(Storage!Capacity(tb) - 1) |-> ProbeAt(tb, h, n)]
<1> DEFINE c == Storage!Capacity(tb)
<1> DEFINE D == 0..(c - 1)
<1> DEFINE g == [n \in D |-> ProbeAt(tb, h, n)]
<1> DEFINE Body(f) == [n \in D |-> IF n = 0 THEN h % c ELSE (f[n - 1] + n) % c]
<1>1. c \in Nat \ {0}
  BY CapacityDoubles
<1>2. \A n \in D : n # 0 => n - 1 \in D /\ n - 1 \in Nat /\ (n - 1) + 1 = n
  BY <1>1
<1>3. \A n \in D : n # 0 => ProbeAt(tb, h, n) = (ProbeAt(tb, h, n - 1) + n) % c
  <2> TAKE n \in D
  <2> HAVE n # 0
  <2>1. n - 1 \in Nat /\ (n - 1) + 1 = n
    BY <1>2
  <2>2. ProbeAt(tb, h, (n - 1) + 1) = (ProbeAt(tb, h, n - 1) + (n - 1) + 1) % c
    BY <2>1, ProbeStep
  <2>3. ProbeAt(tb, h, n - 1) \in Int
    BY <2>1, <1>1, ProbeStep DEF Storage!Slots
  <2>4. ProbeAt(tb, h, n - 1) + (n - 1) + 1 = ProbeAt(tb, h, n - 1) + n
    BY <2>1, <2>3
  <2>5. QED
    BY <2>1, <2>2, <2>4, Zenon
<1>4. ProbeAt(tb, h, 0) = h % c
  BY ProbeStep
<1> HIDE DEF c
<1>5. g = Body(g)
  <2>1. ASSUME NEW n \in D PROVE g[n] = Body(g)[n]
    BY <1>2, <1>3, <1>4
  <2>2. QED
    BY <2>1
<1>6. ASSUME NEW f, f = Body(f) PROVE f = g
  <2> DEFINE Off == {n \in D : f[n] # g[n]}
  <2>1. CASE Off # {}
    <3>1. Off \in SUBSET Nat
      BY <1>1
    <3>2. PICK k \in Off : \A n \in Off : k <= n
      BY <2>1, <3>1, LeastOfNaturals
    <3>3. k # 0
      BY <1>4, <1>6, <3>2
    <3>4. k - 1 \in D /\ f[k - 1] = g[k - 1]
      BY <1>2, <3>2, <3>3
    <3>5. f[k] = (f[k - 1] + k) % c
      BY <1>6, <3>2, <3>3
    <3>6. g[k] = (g[k - 1] + k) % c
      BY <1>3, <3>2, <3>3, <3>4
    <3>7. QED
      BY <3>2, <3>4, <3>5, <3>6
  <2>2. CASE Off = {}
    <3>1. f = [n \in D |-> f[n]]
      BY <1>6
    <3>2. QED
      BY <2>2, <3>1
  <2>3. QED
    BY <2>1, <2>2
<1>7. Storage!ProbeSequence(tb, h) = CHOOSE f : f = Body(f)
  BY DEF Storage!ProbeSequence, c
<1> HIDE DEF Body, g
<1>8. QED
  <2>1. (CHOOSE f : f = Body(f)) = g
    BY <1>5, <1>6
  <2>2. QED
    BY <1>7, <2>1 DEF g, c

\* A product with a factor that is not zero is at least the other factor.
LEMMA Multiples ==
  \A c \in Nat, z \in Nat : z # 0 => (2 * c) * z >= 2 * c
<1> SUFFICES ASSUME NEW c \in Nat, NEW z \in Nat, z # 0 PROVE (2 * c) * z >= 2 * c
  OBVIOUS
<1>1. PICK a \in Nat : a = 2 * c
  OBVIOUS
<1>2. a * z = a + a * (z - 1) /\ a * (z - 1) >= 0
  OBVIOUS
<1>3. a * z >= a
  <2>1. PICK u \in Nat : u = a * (z - 1)
    BY Products
  <2>2. QED
    BY <1>2, <2>1
<1>4. QED
  BY <1>1, <1>3, Zenon

\* No two of the first probes, as many as there are slots, are at the same slot.
LEMMA ProbesDiffer ==
  ASSUME NEW tb \in Storage!Tables, NEW h \in Nat,
         NEW i \in 0..(Storage!Capacity(tb) - 1), NEW j \in 0..(Storage!Capacity(tb) - 1), i < j
  PROVE  ProbeAt(tb, h, i) # ProbeAt(tb, h, j)
<1>1. PICK k \in Nat : k + 1 \in Powers /\ Storage!Capacity(tb) = 2^k
  BY CapacityIsPower
<1>2. k \in Powers /\ k \in 0..(InitialCapacity + MaxTables + Width)
  BY <1>1, HashAssumption, TableAssumption, WidthAssumption DEF Powers
<1>3. PICK c \in Nat \ {0} : c = Storage!Capacity(tb) /\ c = 2^k /\ 2^(k + 1) = 2 * c
  BY <1>1, <1>2, PowersAreNatural, PowersAssumption
<1>4. i \in 0..(c - 1) /\ j \in 0..(c - 1)
  BY <1>3, Zenon
<1>40. (2 * c) * 0 = 0 /\ \A z \in Nat : z # 0 => (2 * c) * z >= 2 * c
  <2>1. c \in Nat /\ (2 * c) * 0 = 0
    BY <1>3
  <2>2. QED
    BY <2>1, Multiples, Zenon
<1> SUFFICES ASSUME ProbeAt(tb, h, i) = ProbeAt(tb, h, j) PROVE FALSE
  OBVIOUS
<1>5. PICK x, y \in Nat : /\ x = Triangle(i) /\ 2 * x = i * (i + 1)
                          /\ y = Triangle(j) /\ 2 * y = j * (j + 1)
  <2>1. i \in Nat /\ j \in Nat
    BY <1>4
  <2>2. QED
    BY <2>1, Triangles
<1>6. h + x \in Nat /\ h + y \in Nat
  OBVIOUS
<1>7. PICK p \in Nat, r \in 0..(c - 1) : r = (h + x) % c /\ h + x = p * c + r
  BY <1>6, Remainder
<1>8. PICK q \in Nat, s \in 0..(c - 1) : s = (h + y) % c /\ h + y = q * c + s
  BY <1>6, Remainder
<1>9. r = s
  BY <1>3, <1>5, <1>7, <1>8, Zenon DEF ProbeAt
\* The difference of the two numbers is a product with one odd factor.
<1>10. PICK a, b \in Nat : a = j - i /\ b = i + j + 1 /\ a > 0 /\ a < c /\ b > 0 /\ b < 2 * c
  BY <1>4
<1>11. a * b = 2 * y - 2 * x
  <2>1. (j - i) * (i + j + 1) = j * (j + 1) - i * (i + 1)
    BY <1>4
  <2>2. QED
    BY <1>5, <1>10, <2>1
<1>12. y - x = (q - p) * c
  <2>1. h + x = p * c + r /\ h + y = q * c + r
    BY <1>7, <1>8, <1>9, Zenon
  <2>2. p * c \in Nat /\ q * c \in Nat /\ (q - p) * c = q * c - p * c
    BY Products
  <2>3. QED
    BY <2>1, <2>2
<1>13. a * b = (2 * c) * (q - p)
  <2>1. (q - p) * c \in Int /\ 2 * ((q - p) * c) = (2 * c) * (q - p)
    BY Products
  <2>2. 2 * y - 2 * x = 2 * ((q - p) * c)
    BY <1>12, <2>1
  <2>3. QED
    BY <1>11, <2>1, <2>2
<1>14. q - p \in Nat
  <2> SUFFICES ASSUME q - p <= -1 PROVE FALSE
    OBVIOUS
  <2>1. a * b >= 0
    BY Products
  <2>2. (2 * c) * (q - p) <= -(2 * c)
    OBVIOUS
  <2>3. QED
    BY <1>13, <2>1, <2>2
<1>15. a % 2 = 1 \/ b % 2 = 1
  <2>1. PICK m \in Nat, d \in {0, 1} : a = 2 * m + d /\ a % 2 = d
    BY Parity
  <2>2. PICK n \in Nat, e \in {0, 1} : b = 2 * n + e /\ b % 2 = e
    BY Parity
  <2>3. a + b = 2 * j + 1
    BY <1>4, <1>10
  <2>4. d = 1 \/ e = 1
    BY <2>1, <2>2, <2>3, <1>4
  <2>5. QED
    BY <2>1, <2>2, <2>4
<1>16. k + 1 \in Powers /\ 2^(k + 1) = 2 * c
  BY <1>1, <1>3
<1>17. CASE a % 2 = 1
  <2>0. a * b = 2^(k + 1) * (q - p) /\ a \in Nat /\ b \in Nat /\ k + 1 \in Powers /\ q - p \in Nat
    BY <1>13, <1>14, <1>16, <1>10, Zenon
  <2>1. PICK z \in Nat : b = (2 * c) * z
    <3>1. \A q1 \in Nat : a % 2 = 1 /\ a * b = 2^(k + 1) * q1 => \E z \in Nat : b = 2^(k + 1) * z
      BY <2>0, OddFactor, Zenon
    <3>2. \E z \in Nat : b = 2^(k + 1) * z
      BY <2>0, <3>1, <1>17, Zenon
    <3>3. QED
      BY <3>2, <1>16, Zenon
  <2>2. z # 0
    <3> SUFFICES ASSUME z = 0 PROVE FALSE
      OBVIOUS
    <3>1. b = 0
      BY <2>1, <1>40, Zenon
    <3>2. QED
      BY <3>1, <1>10
  <2>3. (2 * c) * z >= 2 * c
    BY <2>1, <2>2, <1>40, Zenon
  <2>4. QED
    BY <1>10, <2>1, <2>3
<1>18. CASE b % 2 = 1
  <2>0. b * a = 2^(k + 1) * (q - p) /\ a \in Nat /\ b \in Nat /\ k + 1 \in Powers /\ q - p \in Nat
    <3>1. b * a = a * b
      BY Products
    <3>2. QED
      BY <3>1, <1>13, <1>14, <1>16, <1>10, Zenon
  <2>1. PICK z \in Nat : a = (2 * c) * z
    <3>1. \A q1 \in Nat : b % 2 = 1 /\ b * a = 2^(k + 1) * q1 => \E z \in Nat : a = 2^(k + 1) * z
      BY <2>0, OddFactor, Zenon
    <3>2. \E z \in Nat : a = 2^(k + 1) * z
      BY <2>0, <3>1, <1>18, Zenon
    <3>3. QED
      BY <3>2, <1>16, Zenon
  <2>2. z # 0
    <3> SUFFICES ASSUME z = 0 PROVE FALSE
      OBVIOUS
    <3>1. a = 0
      BY <2>1, <1>40, Zenon
    <3>2. QED
      BY <3>1, <1>10
  <2>3. (2 * c) * z >= 2 * c
    BY <2>1, <2>2, <1>40, Zenon
  <2>4. QED
    BY <1>10, <2>1, <2>3
<1>19. QED
  BY <1>15, <1>17, <1>18

\* A search that has taken as many steps as there are slots has been everywhere.
LEMMA ProbesReachAll ==
  ASSUME NEW tb \in Storage!Tables, NEW h \in Nat
  PROVE  \A s \in Storage!Slots(tb) : \E n \in Storage!Slots(tb) : ProbeAt(tb, h, n) = s
<1> DEFINE D == Storage!Slots(tb)
<1> DEFINE f == [n \in D |-> ProbeAt(tb, h, n)]
<1>1. IsFiniteSet(D)
  <2>1. Storage!Capacity(tb) - 1 \in Int
    BY CapacityDoubles
  <2>2. QED
    BY <2>1, FS_Interval DEF Storage!Slots
<1>2. D \subseteq Nat
  BY CapacityDoubles DEF Storage!Slots
<1>3. f \in [D -> D]
  BY <1>2, ProbeStep
<1>4. \A i, j \in D : f[i] = f[j] => i = j
  <2> SUFFICES ASSUME NEW i \in D, NEW j \in D, i < j PROVE f[i] # f[j]
    BY <1>2
  <2>1. QED
    BY ProbesDiffer DEF Storage!Slots
<1> HIDE DEF D
<1>5. f \in Injection(D, D)
  BY <1>3, <1>4 DEF Injection, IsInjective
<1> HIDE DEF f
<1>6. f \in Surjection(D, D)
  BY <1>1, <1>5, FS_Injection
<1>7. \A s \in D : \E n \in D : f[n] = s
  BY <1>6 DEF Surjection
<1>8. QED
  BY <1>7 DEF D, f

-----------------------------------------------------------------------------
(* The inductive invariant.                                                *)

Holding == {"count", "grow", "fill", "set"}     \* the thread has claimed the slot
Looking == {"probe", "claim"}                   \* the thread still searches

IsTable(f) ==
  /\ f \in [Storage!Tables -> UNION {[Storage!Slots(tb) -> Hashes \cup {0}] : tb \in Storage!Tables}]
  /\ \A tb \in Storage!Tables : f[tb] \in [Storage!Slots(tb) -> Hashes \cup {0}]

Owned(tb) == {s \in Storage!Slots(tb) : keys[tb][s] # Storage!Free}
Counting(tb) == {p \in Putters : pc[p] = "count" /\ table[p] = tb}
Held == {<<table[p], slot[p]>> : p \in {q \in Putters : pc[q] \in Holding}}
IsFull(tb) == \A s \in Storage!Slots(tb) : keys[tb][s] # Storage!Free

StorageType ==
  /\ current \in Storage!Tables /\ IsTable(keys) /\ IsTable(values)
  /\ used \in [Storage!Tables -> Nat] /\ overflow \in BOOLEAN
  /\ pc \in [Putters -> {"out"} \cup Looking \cup Holding]
  /\ hash \in [Putters -> Hashes \cup {0}] /\ table \in [Putters -> Storage!Tables]
  /\ slot \in [Putters -> Nat] /\ step \in [Putters -> Nat] /\ trace \in [Putters -> Hashes \cup {0}]

(* A thread inside put is on the probe sequence of its hash, has seen no free slot before
   its own, and while it searches not its hash either; what it has claimed is its hash's
   and still empty. *)
PuttersAreOnTheirWay ==
  \A p \in Putters : pc[p] # "out" =>
    /\ hash[p] \in Hashes /\ table[p] <= current /\ step[p] \in Storage!Slots(table[p])
    /\ slot[p] = ProbeAt(table[p], hash[p], step[p])
    /\ pc[p] \in Looking => \A m \in 0..(step[p] - 1) :
         keys[table[p]][ProbeAt(table[p], hash[p], m)] \notin {Storage!Free, hash[p]}
    /\ pc[p] \in Holding => /\ keys[table[p]][slot[p]] = hash[p]
                            /\ values[table[p]][slot[p]] = Storage!NoTrace
                            /\ <<table[p], slot[p]>> \notin torn
    /\ pc[p] = "set" => trace[p] \in {Storage!NoTrace, hash[p]}

HoldersDiffer ==
  \A p, q \in Putters :
    p # q /\ pc[p] \in Holding /\ pc[q] \in Holding /\ table[p] = table[q] => slot[p] # slot[q]

(* An entry is on the probe sequence of its key, behind entries of other keys; it has its
   key's trace, or it is torn, or somebody holds it. *)
EntriesAreOnTheirWay ==
  \A tb \in Storage!Tables : \A s \in Storage!Slots(tb) : keys[tb][s] # Storage!Free =>
    \E n \in Storage!Slots(tb) :
      /\ s = ProbeAt(tb, keys[tb][s], n)
      /\ \A m \in 0..(n - 1) : keys[tb][ProbeAt(tb, keys[tb][s], m)] \notin {Storage!Free, keys[tb][s]}

EntriesAreAccounted ==
  \A tb \in Storage!Tables : \A s \in Storage!Slots(tb) :
    /\ values[tb][s] \in {Storage!NoTrace, keys[tb][s]}
    /\ <<tb, s>> \in torn => keys[tb][s] # Storage!Free /\ values[tb][s] = Storage!NoTrace
    /\ keys[tb][s] # Storage!Free =>
         \/ values[tb][s] # Storage!NoTrace
         \/ <<tb, s>> \in torn
         \/ <<tb, s>> \in Held

SizesAreCounted ==
  \A tb \in Storage!Tables : used[tb] + Cardinality(Counting(tb)) = Cardinality(Owned(tb))

ReturnedResolve ==
  \A r \in returned :
    \/ r.id = Storage!OverflowId /\ overflow /\ \E full \in 1..current : IsFull(full)
    \/ \E tb \in 1..current : \E s \in Storage!Slots(tb) :
         r.id = Storage!IdOf(tb, s) /\ keys[tb][s] = r.hash /\ r.hash # Storage!Free

StorageInvariant ==
  /\ StorageType /\ PuttersAreOnTheirWay /\ HoldersDiffer /\ EntriesAreOnTheirWay
  /\ EntriesAreAccounted /\ SizesAreCounted /\ ReturnedResolve

-----------------------------------------------------------------------------
(* Facts about the invariant's parts.                                      *)

\* One entry of a table is written, and what is in the table then.
Writes(f, g, tb, s, v) == g = [f EXCEPT ![tb][s] = v]
Written(f, g, tb, s, v) ==
  /\ IsTable(g) /\ g[tb][s] = v
  /\ \A ub \in Storage!Tables : \A u \in Storage!Slots(ub) : ub # tb \/ u # s => g[ub][u] = f[ub][u]

LEMMA OneEntryChanges ==
  ASSUME NEW f, NEW g, NEW tb \in Storage!Tables, NEW s \in Storage!Slots(tb),
         NEW v \in Hashes \cup {0}, IsTable(f), Writes(f, g, tb, s, v)
  PROVE  Written(f, g, tb, s, v)
<1>0. g = [f EXCEPT ![tb][s] = v]
  BY DEF Writes
<1>1. g = [f EXCEPT ![tb] = [f[tb] EXCEPT ![s] = v]]
  BY <1>0
<1>2. f[tb] \in [Storage!Slots(tb) -> Hashes \cup {0}]
  BY DEF IsTable
<1>3. [f[tb] EXCEPT ![s] = v] \in [Storage!Slots(tb) -> Hashes \cup {0}]
  BY <1>2
<1> DEFINE Row == [f[tb] EXCEPT ![s] = v]
<1>4. Row[s] = v /\ \A u \in Storage!Slots(tb) : u # s => Row[u] = f[tb][u]
  BY <1>2
<1>5. g = [f EXCEPT ![tb] = Row] /\ Row \in [Storage!Slots(tb) -> Hashes \cup {0}]
  BY <1>1, <1>3
<1> HIDE DEF Row
<1>6. DOMAIN f = Storage!Tables
  BY DEF IsTable
<1>7. g[tb] = Row /\ \A ub \in Storage!Tables : ub # tb => g[ub] = f[ub]
  BY <1>5, <1>6
<1>8. IsTable(g)
  BY <1>5, <1>7 DEF IsTable
<1>9. QED
  BY <1>4, <1>7, <1>8 DEF Written

LEMMA SlotsAreFinite ==
  \A tb \in Storage!Tables : IsFiniteSet(Storage!Slots(tb)) /\ Storage!Slots(tb) \subseteq Nat
<1> TAKE tb \in Storage!Tables
<1>1. Storage!Capacity(tb) - 1 \in Int
  BY CapacityDoubles
<1>2. QED
  BY <1>1, FS_Interval DEF Storage!Slots

LEMMA OwnedIsFinite ==
  StorageType => \A tb \in Storage!Tables : IsFiniteSet(Owned(tb)) /\ IsFiniteSet(Counting(tb))
<1> SUFFICES ASSUME StorageType, NEW tb \in Storage!Tables
             PROVE  IsFiniteSet(Owned(tb)) /\ IsFiniteSet(Counting(tb))
  OBVIOUS
<1>1. Owned(tb) \subseteq Storage!Slots(tb) /\ Counting(tb) \subseteq Putters
  BY DEF Owned, Counting
<1>2. QED
  BY <1>1, SlotsAreFinite, FS_Subset, TableAssumption

LEMMA SameCardinality == \A S : Storage!Cardinality(S) = Cardinality(S)
BY DEF Storage!Cardinality, Cardinality

\* Where the thread is: one of the slots of its table.
LEMMA SlotsAreSlots ==
  StorageType /\ PuttersAreOnTheirWay =>
    \A p \in Putters : pc[p] # "out" =>
      /\ slot[p] \in Storage!Slots(table[p]) /\ hash[p] \in Nat \ {0} /\ step[p] \in Nat
      /\ \A m \in Nat : ProbeAt(table[p], hash[p], m) \in Storage!Slots(table[p])
<1> SUFFICES ASSUME StorageType, PuttersAreOnTheirWay, NEW p \in Putters, pc[p] # "out"
             PROVE  /\ slot[p] \in Storage!Slots(table[p]) /\ hash[p] \in Nat \ {0} /\ step[p] \in Nat
                    /\ \A m \in Nat : ProbeAt(table[p], hash[p], m) \in Storage!Slots(table[p])
  OBVIOUS
<1>1. table[p] \in Storage!Tables /\ hash[p] \in Nat \ {0} /\ step[p] \in Nat
  BY HashAssumption DEF StorageType, PuttersAreOnTheirWay
<1>2. \A m \in Nat : ProbeAt(table[p], hash[p], m) \in Storage!Slots(table[p])
  BY <1>1, ProbeStep
<1>3. QED
  BY <1>1, <1>2 DEF PuttersAreOnTheirWay

\* Two threads never work on the same entry, and an entry has its key once in a table.
LEMMA KeysAreUnique ==
  StorageType /\ EntriesAreOnTheirWay =>
    \A tb \in Storage!Tables : \A s, u \in Owned(tb) : keys[tb][s] = keys[tb][u] => s = u
<1> SUFFICES ASSUME StorageType, EntriesAreOnTheirWay, NEW tb \in Storage!Tables,
                    NEW s \in Owned(tb), NEW u \in Owned(tb), keys[tb][s] = keys[tb][u]
             PROVE  s = u
  OBVIOUS
<1>1. PICK n \in Storage!Slots(tb) :
        /\ s = ProbeAt(tb, keys[tb][s], n)
        /\ \A m \in 0..(n - 1) : keys[tb][ProbeAt(tb, keys[tb][s], m)] \notin {Storage!Free, keys[tb][s]}
  BY DEF EntriesAreOnTheirWay, Owned
<1>2. PICK k \in Storage!Slots(tb) :
        /\ u = ProbeAt(tb, keys[tb][u], k)
        /\ \A m \in 0..(k - 1) : keys[tb][ProbeAt(tb, keys[tb][u], m)] \notin {Storage!Free, keys[tb][u]}
  BY DEF EntriesAreOnTheirWay, Owned
<1>3. n \in Nat /\ k \in Nat
  BY SlotsAreFinite
<1>4. ~(n < k)
  BY <1>1, <1>2, <1>3
<1>5. ~(k < n)
  BY <1>1, <1>2, <1>3
<1>6. QED
  BY <1>1, <1>2, <1>3, <1>4, <1>5

-----------------------------------------------------------------------------
(* Each action.                                                            *)

LEMMA PutKeepsStorage ==
  ASSUME StorageInvariant, NEW p \in Putters, NEW h \in Hashes, Storage!Put(p, h)
  PROVE  StorageInvariant'
<1> USE DEF StorageInvariant, Storage!Free, Storage!NoTrace, Storage!tableVars
<1>1. /\ pc' = [pc EXCEPT ![p] = "probe"] /\ pc[p] = "out"
      /\ hash' = [hash EXCEPT ![p] = h] /\ table' = [table EXCEPT ![p] = current]
      /\ slot' = [slot EXCEPT ![p] = h % Storage!Capacity(current)] /\ step' = [step EXCEPT ![p] = 0]
      /\ trace' = trace /\ returned' = returned /\ torn' = torn
      /\ current' = current /\ keys' = keys /\ values' = values /\ used' = used /\ overflow' = overflow
  BY DEF Storage!Put, Storage!Goes
<1>2. h \in Nat \ {0} /\ current \in Storage!Tables /\ current <= current
  BY HashAssumption DEF StorageType, Storage!Tables
<1>3. /\ h % Storage!Capacity(current) = ProbeAt(current, h, 0)
      /\ ProbeAt(current, h, 0) \in Storage!Slots(current)
  BY <1>2, ProbeStep
<1>4. 0 \in Storage!Slots(current) /\ ProbeAt(current, h, 0) \in Nat
  BY <1>2, <1>3, CapacityDoubles, SlotsAreFinite DEF Storage!Slots
<1>5. StorageType'
  BY <1>1, <1>2, <1>3, <1>4 DEF StorageType, Looking, IsTable
<1>6. PuttersAreOnTheirWay'
  <2> SUFFICES ASSUME NEW q \in Putters, pc'[q] # "out"
               PROVE  PuttersAreOnTheirWay!(q)!2'
    BY DEF PuttersAreOnTheirWay
  <2>1. CASE q = p
    BY <1>1, <1>2, <1>3, <1>4, <2>1 DEF StorageType, Looking, Holding
  <2>2. CASE q # p
    BY <1>1, <2>2 DEF StorageType, PuttersAreOnTheirWay
  <2>3. QED
    BY <2>1, <2>2
<1>7. HoldersDiffer'
  BY <1>1 DEF StorageType, HoldersDiffer, Holding
<1>8. Held' = Held
  BY <1>1 DEF StorageType, Held, Holding
<1>9. EntriesAreOnTheirWay' /\ EntriesAreAccounted'
  BY <1>1, <1>8 DEF EntriesAreOnTheirWay, EntriesAreAccounted
<1>10. SizesAreCounted'
  <2>1. \A tb \in Storage!Tables : Counting(tb)' = Counting(tb) /\ Owned(tb)' = Owned(tb)
    BY <1>1 DEF StorageType, Counting, Owned
  <2>2. QED
    BY <1>1, <2>1 DEF SizesAreCounted
<1>11. ReturnedResolve'
  BY <1>1 DEF ReturnedResolve, IsFull
<1>12. QED
  BY <1>5, <1>6, <1>7, <1>9, <1>10, <1>11

\* put ends for a thread that holds no entry: nothing that is said of the others changes.
LEMMA LeaveKeeps ==
  \A p \in Putters :
    /\ StorageInvariant /\ Storage!Leave(p) /\ pc[p] # "count"
    /\ current' = current /\ keys' = keys /\ used' = used
    /\ IsTable(values') /\ overflow' \in BOOLEAN
    /\ \A tb \in Storage!Tables : \A s \in Storage!Slots(tb) :
         pc[p] \notin Holding \/ <<tb, s>> # <<table[p], slot[p]>> => values'[tb][s] = values[tb][s] /\ (<<tb, s>> \in torn' <=> <<tb, s>> \in torn)
    => /\ StorageType' /\ PuttersAreOnTheirWay' /\ HoldersDiffer' /\ EntriesAreOnTheirWay'
       /\ SizesAreCounted'
       /\ Held' = Held \ (IF pc[p] \in Holding THEN {<<table[p], slot[p]>>} ELSE {})
<1> SUFFICES ASSUME NEW p \in Putters, StorageInvariant, Storage!Leave(p), pc[p] # "count",
                    current' = current, keys' = keys, used' = used,
                    IsTable(values'), overflow' \in BOOLEAN,
                    \A tb \in Storage!Tables : \A s \in Storage!Slots(tb) :
                      pc[p] \notin Holding \/ <<tb, s>> # <<table[p], slot[p]>> =>
                        values'[tb][s] = values[tb][s] /\ (<<tb, s>> \in torn' <=> <<tb, s>> \in torn)
             PROVE  /\ StorageType' /\ PuttersAreOnTheirWay' /\ HoldersDiffer' /\ EntriesAreOnTheirWay'
                    /\ SizesAreCounted'
                    /\ Held' = Held \ (IF pc[p] \in Holding THEN {<<table[p], slot[p]>>} ELSE {})
  OBVIOUS
<1> USE DEF StorageInvariant, Storage!Free, Storage!NoTrace
<1>1. /\ pc' = [pc EXCEPT ![p] = "out"] /\ hash' = [hash EXCEPT ![p] = 0]
      /\ table' = [table EXCEPT ![p] = 1] /\ slot' = [slot EXCEPT ![p] = 0]
      /\ step' = [step EXCEPT ![p] = 0] /\ trace' = [trace EXCEPT ![p] = 0]
  BY DEF Storage!Leave
<1>2. StorageType'
  <2>1. 1 \in Storage!Tables
    BY TableAssumption DEF Storage!Tables
  <2>2. QED
    BY <1>1, <2>1 DEF StorageType, IsTable
<1>3. PuttersAreOnTheirWay'
  <2> SUFFICES ASSUME NEW q \in Putters, pc'[q] # "out"
               PROVE  PuttersAreOnTheirWay!(q)!2'
    BY DEF PuttersAreOnTheirWay
  <2>1. q # p /\ pc[q] # "out" /\ pc'[q] = pc[q] /\ table'[q] = table[q] /\ hash'[q] = hash[q]
        /\ slot'[q] = slot[q] /\ step'[q] = step[q] /\ trace'[q] = trace[q]
    BY <1>1 DEF StorageType
  <2>2. slot[q] \in Storage!Slots(table[q]) /\ table[q] \in Storage!Tables
    BY <2>1, SlotsAreSlots DEF StorageType
  <2>3. pc[q] \in Holding => pc[p] \notin Holding \/ <<table[q], slot[q]>> # <<table[p], slot[p]>>
    BY <2>1 DEF HoldersDiffer
  <2>4. QED
    BY <2>1, <2>2, <2>3 DEF PuttersAreOnTheirWay
<1>4. HoldersDiffer'
  BY <1>1 DEF StorageType, HoldersDiffer, Holding
<1>5. EntriesAreOnTheirWay'
  BY DEF EntriesAreOnTheirWay
<1>6. SizesAreCounted'
  <2>1. \A tb \in Storage!Tables : Counting(tb)' = Counting(tb) /\ Owned(tb)' = Owned(tb)
    BY <1>1 DEF StorageType, Counting, Owned
  <2>2. QED
    BY <1>1, <2>1 DEF SizesAreCounted
<1>7. Held' = Held \ (IF pc[p] \in Holding THEN {<<table[p], slot[p]>>} ELSE {})
  BY <1>1 DEF StorageType, HoldersDiffer, Held, Holding
<1>8. QED
  BY <1>2, <1>3, <1>4, <1>5, <1>6, <1>7

LEMMA ProbeKeepsStorage ==
  ASSUME StorageInvariant, NEW p \in Putters, Storage!Probe(p)
  PROVE  StorageInvariant'
<1> DEFINE tb == table[p]
<1> DEFINE key == keys[tb][slot[p]]
<1> USE DEF StorageInvariant, Storage!Free, Storage!NoTrace
<1>1. /\ pc[p] = "probe" /\ current' = current /\ keys' = keys /\ values' = values /\ used' = used
      /\ torn' = torn
  BY DEF Storage!Probe
<1>2. /\ tb \in Storage!Tables /\ tb \in 1..current /\ hash[p] \in Hashes /\ hash[p] \in Nat \ {0}
      /\ slot[p] \in Storage!Slots(tb) /\ slot[p] = ProbeAt(tb, hash[p], step[p])
      /\ step[p] \in Storage!Slots(tb) /\ step[p] \in Nat
      /\ \A m \in 0..(step[p] - 1) : keys[tb][ProbeAt(tb, hash[p], m)] \notin {0, hash[p]}
  <2>1. /\ slot[p] \in Storage!Slots(tb) /\ hash[p] \in Nat \ {0} /\ step[p] \in Nat
    BY <1>1, SlotsAreSlots
  <2>2. /\ hash[p] \in Hashes /\ table[p] <= current /\ step[p] \in Storage!Slots(tb)
        /\ slot[p] = ProbeAt(tb, hash[p], step[p])
        /\ \A m \in 0..(step[p] - 1) : keys[tb][ProbeAt(tb, hash[p], m)] \notin {0, hash[p]}
    BY <1>1 DEF PuttersAreOnTheirWay, Looking
  <2>3. tb \in Storage!Tables /\ tb \in 1..current
    BY <2>2 DEF StorageType, Storage!Tables
  <2>4. QED
    BY <2>1, <2>2, <2>3
<1>20. \A s \in Storage!Slots(tb) : \E n \in Storage!Slots(tb) : ProbeAt(tb, hash[p], n) = s
  <2>1. tb \in Storage!Tables /\ hash[p] \in Nat
    BY <1>2
  <2>2. QED
    BY <2>1, ProbesReachAll
<1>21. pc[p] \notin Holding /\ pc[p] # "count"
  BY <1>1 DEF Holding
<1>3. CASE /\ key = hash[p] /\ Storage!Return(p, Storage!IdOf(tb, slot[p])) /\ overflow' = overflow
  <2>1. Storage!Leave(p) /\ returned' = returned \cup {[id |-> Storage!IdOf(tb, slot[p]), hash |-> hash[p]]}
    BY <1>3 DEF Storage!Return
  <2>2. /\ StorageType' /\ PuttersAreOnTheirWay' /\ HoldersDiffer' /\ EntriesAreOnTheirWay'
        /\ SizesAreCounted'
        /\ Held' = Held
    <3>1. /\ IsTable(values') /\ overflow' \in BOOLEAN /\ pc[p] # "count"
          /\ \A ub \in Storage!Tables : \A s \in Storage!Slots(ub) :
               values'[ub][s] = values[ub][s] /\ (<<ub, s>> \in torn' <=> <<ub, s>> \in torn)
      BY <1>1, <1>21, <1>3 DEF StorageType
    <3>2. QED
      BY <1>1, <1>21, <2>1, <3>1, LeaveKeeps
  <2>3. EntriesAreAccounted'
    BY <1>1, <1>21, <2>2 DEF EntriesAreAccounted
  <2>4. ReturnedResolve'
    BY <1>1, <1>2, <1>3, <2>1 DEF ReturnedResolve, IsFull
  <2>5. QED
    BY <2>2, <2>3, <2>4
<1>4. CASE /\ key = 0 /\ pc' = [pc EXCEPT ![p] = "claim"]
           /\ UNCHANGED <<overflow, returned>> /\ UNCHANGED Storage!putVars
  <2>1. UNCHANGED <<overflow, returned, hash, table, slot, step, trace>>
    BY <1>4 DEF Storage!putVars
  <2>2. StorageType'
    BY <1>1, <1>4, <2>1 DEF StorageType, IsTable, Looking
  <2>3. PuttersAreOnTheirWay'
    BY <1>1, <1>4, <2>1 DEF StorageType, PuttersAreOnTheirWay, Looking, Holding
  <2>4. HoldersDiffer'
    BY <1>1, <1>4, <2>1 DEF StorageType, HoldersDiffer, Holding
  <2>5. Held' = Held
    BY <1>1, <1>4, <2>1 DEF StorageType, Held, Holding
  <2>6. EntriesAreOnTheirWay' /\ EntriesAreAccounted' /\ ReturnedResolve'
    BY <1>1, <2>1, <2>5 DEF EntriesAreOnTheirWay, EntriesAreAccounted, ReturnedResolve, IsFull
  <2>7. SizesAreCounted'
    <3>1. \A ub \in Storage!Tables : Counting(ub)' = Counting(ub) /\ Owned(ub)' = Owned(ub)
      BY <1>1, <1>4, <2>1 DEF StorageType, Counting, Owned
    <3>2. QED
      BY <1>1, <3>1 DEF SizesAreCounted
  <2>8. QED
    BY <2>2, <2>3, <2>4, <2>6, <2>7
<1>5. CASE /\ key \notin {0, hash[p]} /\ step[p] + 1 >= Storage!Capacity(tb)
           /\ overflow' = TRUE /\ Storage!Return(p, Storage!OverflowId)
  <2>1. Storage!Leave(p) /\ returned' = returned \cup {[id |-> Storage!OverflowId, hash |-> hash[p]]}
    BY <1>5 DEF Storage!Return
  <2>2. /\ StorageType' /\ PuttersAreOnTheirWay' /\ HoldersDiffer' /\ EntriesAreOnTheirWay'
        /\ SizesAreCounted'
        /\ Held' = Held
    <3>1. /\ IsTable(values') /\ overflow' \in BOOLEAN /\ pc[p] # "count"
          /\ \A ub \in Storage!Tables : \A s \in Storage!Slots(ub) :
               values'[ub][s] = values[ub][s] /\ (<<ub, s>> \in torn' <=> <<ub, s>> \in torn)
      BY <1>1, <1>21, <1>5 DEF StorageType
    <3>2. QED
      BY <1>1, <1>21, <2>1, <3>1, LeaveKeeps
  <2>3. EntriesAreAccounted'
    BY <1>1, <1>21, <2>2 DEF EntriesAreAccounted
  <2>4. IsFull(tb)
    <3> SUFFICES ASSUME NEW s \in Storage!Slots(tb) PROVE keys[tb][s] # 0
      BY DEF IsFull
    <3>1. PICK n \in Storage!Slots(tb) : ProbeAt(tb, hash[p], n) = s
      BY <1>20
    <3>2. n \in Nat /\ n <= step[p]
      BY <1>2, <1>5, CapacityDoubles DEF Storage!Slots
    <3>3. CASE n = step[p]
      BY <1>2, <1>5, <3>1, <3>3
    <3>4. CASE n < step[p]
      <4>1. n \in 0..(step[p] - 1)
        BY <1>2, <3>2, <3>4
      <4>2. QED
        BY <1>2, <3>1, <4>1
    <3>5. QED
      BY <1>2, <3>2, <3>3, <3>4
  <2>5. ReturnedResolve'
    BY <1>1, <1>2, <1>5, <2>1, <2>4 DEF ReturnedResolve, IsFull
  <2>6. QED
    BY <2>2, <2>3, <2>5
<1>6. CASE /\ key \notin {0, hash[p]} /\ step[p] + 1 < Storage!Capacity(tb)
           /\ step' = [step EXCEPT ![p] = @ + 1]
           /\ slot' = [slot EXCEPT ![p] = (@ + step[p] + 1) % Storage!Capacity(tb)]
           /\ UNCHANGED <<pc, hash, table, trace, overflow, returned>>
  <2>1. step' = [step EXCEPT ![p] = step[p] + 1] /\ slot' = [slot EXCEPT ![p] = ProbeAt(tb, hash[p], step[p] + 1)]
    <3>1. ProbeAt(tb, hash[p], step[p] + 1) = (slot[p] + step[p] + 1) % Storage!Capacity(tb)
      BY <1>2, ProbeStep
    <3>2. QED
      BY <1>6, <3>1, Zenon
  <2>2. step[p] + 1 \in Storage!Slots(tb) /\ step[p] + 1 \in Nat
    BY <1>2, <1>6, CapacityDoubles DEF Storage!Slots
  <2>3. ProbeAt(tb, hash[p], step[p] + 1) \in Storage!Slots(tb) /\ ProbeAt(tb, hash[p], step[p] + 1) \in Nat
    BY <1>2, <2>2, ProbeStep, SlotsAreFinite
  <2>4. UNCHANGED <<pc, hash, table, trace, overflow, returned>>
    BY <1>6
  <2>5. StorageType'
    BY <1>1, <2>1, <2>2, <2>3, <2>4 DEF StorageType, IsTable
  <2>6. PuttersAreOnTheirWay'
    <3> SUFFICES ASSUME NEW q \in Putters, pc'[q] # "out"
                 PROVE  PuttersAreOnTheirWay!(q)!2'
      BY DEF PuttersAreOnTheirWay
    <3>1. CASE q # p
      BY <1>1, <2>1, <2>4, <3>1 DEF StorageType, PuttersAreOnTheirWay
    <3>2. CASE q = p
      <4>1. step'[p] = step[p] + 1 /\ slot'[p] = ProbeAt(tb, hash[p], step[p] + 1)
        BY <2>1 DEF StorageType
      <4>2. \A m \in 0..((step[p] + 1) - 1) : keys[tb][ProbeAt(tb, hash[p], m)] \notin {0, hash[p]}
        <5> TAKE m \in 0..((step[p] + 1) - 1)
        <5>1. m = step[p] \/ m \in 0..(step[p] - 1)
          BY <1>2
        <5>2. QED
          BY <1>2, <1>6, <5>1
      <4>3. QED
        BY <1>1, <1>2, <2>2, <2>4, <3>2, <4>1, <4>2 DEF Looking, Holding, Storage!Tables
    <3>3. QED
      BY <3>1, <3>2
  <2>7. HoldersDiffer'
    BY <1>1, <2>1, <2>4 DEF StorageType, HoldersDiffer, Holding
  <2>8. Held' = Held
    BY <1>1, <2>1, <2>4 DEF StorageType, Held, Holding
  <2>9. EntriesAreOnTheirWay' /\ EntriesAreAccounted' /\ ReturnedResolve'
    BY <1>1, <2>4, <2>8 DEF EntriesAreOnTheirWay, EntriesAreAccounted, ReturnedResolve, IsFull
  <2>10. SizesAreCounted'
    <3>1. \A ub \in Storage!Tables : Counting(ub)' = Counting(ub) /\ Owned(ub)' = Owned(ub)
      BY <1>1, <2>4 DEF Counting, Owned
    <3>2. QED
      BY <1>1, <3>1 DEF SizesAreCounted
  <2>11. QED
    BY <2>5, <2>6, <2>7, <2>9, <2>10
<1>7. QED
  BY <1>3, <1>4, <1>5, <1>6 DEF Storage!Probe

LEMMA ClaimKeepsStorage ==
  ASSUME StorageInvariant, NEW p \in Putters, Storage!Claim(p)
  PROVE  StorageInvariant'
<1> USE DEF StorageInvariant, Storage!Free, Storage!NoTrace
<1>1. /\ pc[p] = "claim" /\ current' = current /\ values' = values /\ used' = used
      /\ overflow' = overflow /\ returned' = returned /\ torn' = torn
      /\ hash' = hash /\ table' = table /\ slot' = slot /\ step' = step /\ trace' = trace
  BY DEF Storage!Claim, Storage!putVars
<1>2. PICK a, u, h, n :
        /\ a = table[p] /\ u = slot[p] /\ h = hash[p] /\ n = step[p]
        /\ a \in Storage!Tables /\ u \in Storage!Slots(a) /\ h \in Hashes /\ h \in Nat \ {0}
        /\ n \in Storage!Slots(a) /\ n \in Nat /\ u = ProbeAt(a, h, n)
        /\ \A m \in 0..(n - 1) : keys[a][ProbeAt(a, h, m)] \notin {0, h}
  <2>1. /\ slot[p] \in Storage!Slots(table[p]) /\ hash[p] \in Nat \ {0} /\ step[p] \in Nat
    BY <1>1, SlotsAreSlots
  <2>2. /\ hash[p] \in Hashes /\ step[p] \in Storage!Slots(table[p])
        /\ slot[p] = ProbeAt(table[p], hash[p], step[p])
        /\ \A m \in 0..(step[p] - 1) :
             keys[table[p]][ProbeAt(table[p], hash[p], m)] \notin {0, hash[p]}
    BY <1>1 DEF PuttersAreOnTheirWay, Looking
  <2>3. table[p] \in Storage!Tables
    BY DEF StorageType
  <2>4. QED
    BY <2>1, <2>2, <2>3
<1>6. a = table[p] /\ u = slot[p] /\ h = hash[p]
  BY <1>2
<1>3. CASE keys[a][u] # 0
  <2>1. keys' = keys /\ pc' = [pc EXCEPT ![p] = "probe"]
    BY <1>2, <1>3 DEF Storage!Claim
  <2>2. StorageType'
    BY <1>1, <2>1 DEF StorageType, IsTable, Looking
  <2>3. PuttersAreOnTheirWay'
    BY <1>1, <2>1 DEF StorageType, PuttersAreOnTheirWay, Looking, Holding
  <2>4. HoldersDiffer' /\ Held' = Held
    BY <1>1, <2>1 DEF StorageType, HoldersDiffer, Held, Holding
  <2>5. EntriesAreOnTheirWay' /\ EntriesAreAccounted' /\ ReturnedResolve'
    BY <1>1, <2>1, <2>4 DEF EntriesAreOnTheirWay, EntriesAreAccounted, ReturnedResolve, IsFull
  <2>6. SizesAreCounted'
    <3>1. \A tb \in Storage!Tables : Counting(tb)' = Counting(tb) /\ Owned(tb)' = Owned(tb)
      BY <1>1, <2>1 DEF StorageType, Counting, Owned
    <3>2. QED
      BY <1>1, <3>1 DEF SizesAreCounted
  <2>7. QED
    BY <2>2, <2>3, <2>4, <2>5, <2>6
<1>4. CASE keys[a][u] = 0
  <2>1. keys' = [keys EXCEPT ![a][u] = h] /\ pc' = [pc EXCEPT ![p] = "count"]
    BY <1>2, <1>4 DEF Storage!Claim
  <2>2. /\ IsTable(keys') /\ keys'[a][u] = h
        /\ \A tb \in Storage!Tables : \A s \in Storage!Slots(tb) :
             tb # a \/ s # u => keys'[tb][s] = keys[tb][s]
    <3>1. h \in Hashes \cup {0} /\ IsTable(keys)
      BY <1>2 DEF StorageType
    <3>2. Writes(keys, keys', a, u, h)
      BY <2>1 DEF Writes
    <3>3. QED
      <4>1. a \in Storage!Tables /\ u \in Storage!Slots(a)
        BY <1>2
      <4>2. Written(keys, keys', a, u, h)
        BY <3>1, <3>2, <4>1, OneEntryChanges, Zenon
      <4>3. QED
        BY <4>2 DEF Written
  <2>3. \A tb \in Storage!Tables : \A s \in Storage!Slots(tb) :
          keys[tb][s] # 0 => keys'[tb][s] = keys[tb][s]
    BY <1>4, <2>2
  <2>4. StorageType'
    BY <1>1, <2>1, <2>2 DEF StorageType, IsTable, Holding
  <2>5. values[a][u] = 0 /\ <<a, u>> \notin torn
    BY <1>2, <1>4 DEF EntriesAreAccounted
  <2>6. PuttersAreOnTheirWay'
    <3> SUFFICES ASSUME NEW q \in Putters, pc'[q] # "out"
                 PROVE  PuttersAreOnTheirWay!(q)!2'
      BY DEF PuttersAreOnTheirWay
    <3>1. CASE q = p
      <4>1. pc'[p] = "count"
        BY <2>1 DEF StorageType
      <4>2. QED
        BY <1>1, <1>2, <2>2, <2>5, <3>1, <4>1 DEF PuttersAreOnTheirWay, Looking, Holding
    <3>2. CASE q # p
      <4>1. pc'[q] = pc[q]
        BY <2>1, <3>2 DEF StorageType
      <4>2. /\ slot[q] \in Storage!Slots(table[q]) /\ table[q] \in Storage!Tables
            /\ hash[q] \in Nat \ {0} /\ step[q] \in Nat
            /\ \A m \in Nat : ProbeAt(table[q], hash[q], m) \in Storage!Slots(table[q])
        BY <4>1, SlotsAreSlots DEF StorageType
      <4>3. pc[q] \in Holding => keys'[table[q]][slot[q]] = keys[table[q]][slot[q]]
        BY <2>3, <4>1, <4>2 DEF PuttersAreOnTheirWay
      <4>4. pc[q] \in Looking => \A m \in 0..(step[q] - 1) :
              keys'[table[q]][ProbeAt(table[q], hash[q], m)] \notin {0, hash[q]}
        <5> SUFFICES ASSUME pc[q] \in Looking, NEW m \in 0..(step[q] - 1)
                     PROVE  keys'[table[q]][ProbeAt(table[q], hash[q], m)] \notin {0, hash[q]}
          OBVIOUS
        <5>1. keys[table[q]][ProbeAt(table[q], hash[q], m)] \notin {0, hash[q]}
          BY <4>1 DEF PuttersAreOnTheirWay
        <5>2. m \in Nat
          BY <4>2
        <5>3. ProbeAt(table[q], hash[q], m) \in Storage!Slots(table[q])
          BY <4>2, <5>2
        <5>4. QED
          BY <2>3, <4>2, <5>1, <5>3
      <4>5. QED
        BY <1>1, <4>1, <4>3, <4>4 DEF PuttersAreOnTheirWay
    <3>3. QED
      BY <3>1, <3>2
  <2>7. HoldersDiffer'
    <3>1. \A q \in Putters : pc[q] \in Holding /\ table[q] = a => slot[q] # u
      <4> SUFFICES ASSUME NEW q \in Putters, pc[q] \in Holding, table[q] = a, slot[q] = u PROVE FALSE
        OBVIOUS
      <4>1. keys[table[q]][slot[q]] = hash[q] /\ hash[q] # 0
        BY SlotsAreSlots DEF PuttersAreOnTheirWay, Holding
      <4>2. QED
        BY <1>4, <4>1
    <3>2. QED
      BY <1>1, <1>6, <2>1, <3>1 DEF StorageType, HoldersDiffer, Holding
  <2>8. Held' = Held \cup {<<a, u>>}
    BY <1>1, <1>6, <2>1 DEF StorageType, Held, Holding
  <2>9. EntriesAreOnTheirWay'
    <3> SUFFICES ASSUME NEW tb \in Storage!Tables, NEW s \in Storage!Slots(tb), keys'[tb][s] # 0
                 PROVE  \E k \in Storage!Slots(tb) :
                          /\ s = ProbeAt(tb, keys'[tb][s], k)
                          /\ \A m \in 0..(k - 1) :
                               keys'[tb][ProbeAt(tb, keys'[tb][s], m)] \notin {0, keys'[tb][s]}
      BY DEF EntriesAreOnTheirWay
    <3>1. \A k \in Nat, g \in Nat : ProbeAt(tb, g, k) \in Storage!Slots(tb)
      BY ProbeStep
    <3>2. CASE tb = a /\ s = u
      <4>1. \A m \in 0..(n - 1) : keys'[a][ProbeAt(a, h, m)] \notin {0, h}
        BY <1>2, <2>3, <3>1, <3>2
      <4>2. QED
        BY <1>2, <2>2, <3>2, <4>1
    <3>3. CASE tb # a \/ s # u
      <4>1. keys'[tb][s] = keys[tb][s] /\ keys[tb][s] # 0 /\ keys[tb][s] \in Nat
        <5>1. keys'[tb][s] = keys[tb][s]
          BY <2>2, <3>3
        <5>2. keys[tb][s] \in Hashes \cup {0}
          BY DEF StorageType, IsTable
        <5>3. QED
          BY <5>1, <5>2, HashAssumption
      <4>2. PICK k \in Storage!Slots(tb) :
              /\ s = ProbeAt(tb, keys[tb][s], k)
              /\ \A m \in 0..(k - 1) :
                   keys[tb][ProbeAt(tb, keys[tb][s], m)] \notin {0, keys[tb][s]}
        BY <4>1 DEF EntriesAreOnTheirWay
      <4>3. k \in Nat
        BY SlotsAreFinite
      <4>4. \A m \in 0..(k - 1) :
              keys'[tb][ProbeAt(tb, keys[tb][s], m)] \notin {0, keys[tb][s]}
        <5> TAKE m \in 0..(k - 1)
        <5>1. keys[tb][ProbeAt(tb, keys[tb][s], m)] \notin {0, keys[tb][s]}
          BY <4>2
        <5>2. ProbeAt(tb, keys[tb][s], m) \in Storage!Slots(tb)
          BY <3>1, <4>1, <4>3
        <5>3. QED
          BY <2>3, <5>1, <5>2
      <4>5. QED
        BY <4>1, <4>2, <4>4
    <3>4. QED
      BY <3>2, <3>3
  <2>10. EntriesAreAccounted'
    <3> SUFFICES ASSUME NEW tb \in Storage!Tables, NEW s \in Storage!Slots(tb)
                 PROVE  /\ values[tb][s] \in {0, keys'[tb][s]}
                        /\ <<tb, s>> \in torn => keys'[tb][s] # 0 /\ values[tb][s] = 0
                        /\ keys'[tb][s] # 0 =>
                             values[tb][s] # 0 \/ <<tb, s>> \in torn \/ <<tb, s>> \in Held'
      BY <1>1 DEF EntriesAreAccounted
    <3>1. CASE tb = a /\ s = u
      BY <2>5, <2>8, <3>1
    <3>2. CASE tb # a \/ s # u
      <4>1. keys'[tb][s] = keys[tb][s]
        BY <2>2, <3>2
      <4>2. QED
        BY <2>8, <4>1 DEF EntriesAreAccounted
    <3>3. QED
      BY <3>1, <3>2
  <2>11. SizesAreCounted'
    <3> SUFFICES ASSUME NEW tb \in Storage!Tables
                 PROVE  used[tb] + Cardinality(Counting(tb)') = Cardinality(Owned(tb)')
      BY <1>1 DEF SizesAreCounted
    <3>0. /\ used[tb] + Cardinality(Counting(tb)) = Cardinality(Owned(tb))
          /\ IsFiniteSet(Counting(tb)) /\ IsFiniteSet(Owned(tb)) /\ used[tb] \in Nat
      BY OwnedIsFinite DEF SizesAreCounted, StorageType
    <3>1. CASE tb # a
      <4>1. Counting(tb)' = Counting(tb)
        BY <1>1, <1>2, <2>1, <3>1 DEF StorageType, Counting
      <4>2. Owned(tb)' = Owned(tb)
        BY <2>2, <3>1 DEF Owned
      <4>3. QED
        BY <3>0, <4>1, <4>2
    <3>2. CASE tb = a
      <4>1. Counting(tb)' = Counting(tb) \cup {p} /\ p \notin Counting(tb)
        BY <1>1, <1>2, <2>1, <3>2 DEF StorageType, Counting
      <4>2. Owned(tb)' = Owned(tb) \cup {u} /\ u \notin Owned(tb)
        <5>1. u \in Owned(tb)' /\ u \notin Owned(tb)
          BY <1>2, <1>4, <2>2, <3>2 DEF Owned
        <5>2. \A s \in Storage!Slots(tb) : s # u => (s \in Owned(tb)' <=> s \in Owned(tb))
          BY <2>2, <3>2 DEF Owned
        <5>3. Owned(tb)' \subseteq Storage!Slots(tb) /\ Owned(tb) \subseteq Storage!Slots(tb)
          BY DEF Owned
        <5>4. QED
          BY <5>1, <5>2, <5>3
      <4>3. /\ Cardinality(Counting(tb)') = Cardinality(Counting(tb)) + 1
            /\ Cardinality(Owned(tb)') = Cardinality(Owned(tb)) + 1
        BY <3>0, <4>1, <4>2, FS_AddElement
      <4>4. Cardinality(Counting(tb)) \in Nat /\ Cardinality(Owned(tb)) \in Nat
        BY <3>0, FS_CardinalityType
      <4>5. QED
        BY <3>0, <4>3, <4>4
    <3>3. QED
      BY <3>1, <3>2
  <2>12. ReturnedResolve'
    <3> SUFFICES ASSUME NEW r \in returned
                 PROVE  \/ /\ r.id = Storage!OverflowId /\ overflow
                           /\ \E full \in 1..current : \A s \in Storage!Slots(full) : keys'[full][s] # 0
                        \/ \E tb \in 1..current : \E s \in Storage!Slots(tb) :
                             r.id = Storage!IdOf(tb, s) /\ keys'[tb][s] = r.hash /\ r.hash # 0
      BY <1>1 DEF ReturnedResolve, IsFull
    <3>1. \A tb \in 1..current : tb \in Storage!Tables
      BY TableAssumption DEF StorageType, Storage!Tables
    <3>2. CASE r.id = Storage!OverflowId /\ overflow /\ \E full \in 1..current : IsFull(full)
      BY <2>3, <3>1, <3>2 DEF IsFull
    <3>3. CASE \E tb \in 1..current : \E s \in Storage!Slots(tb) :
                 r.id = Storage!IdOf(tb, s) /\ keys[tb][s] = r.hash /\ r.hash # 0
      BY <2>3, <3>1, <3>3
    <3>4. QED
      BY <3>2, <3>3 DEF ReturnedResolve
  <2>13. QED
    BY <2>4, <2>6, <2>7, <2>9, <2>10, <2>11, <2>12
<1>5. QED
  BY <1>3, <1>4

\* What every step keeps that only moves one holder on, without touching the entries.
LEMMA HolderMoves ==
  \A p \in Putters, to \in Holding :
    /\ StorageInvariant /\ pc[p] \in Holding /\ pc' = [pc EXCEPT ![p] = to]
    /\ keys' = keys /\ values' = values /\ overflow' = overflow /\ returned' = returned /\ torn' = torn
    /\ hash' = hash /\ table' = table /\ slot' = slot /\ step' = step
    /\ current' \in Storage!Tables /\ current' >= current
    /\ used' \in [Storage!Tables -> Nat] /\ trace' \in [Putters -> Hashes \cup {0}]
    /\ \A q \in Putters : q # p => trace'[q] = trace[q]
    /\ to = "set" => trace'[p] \in {0, hash[p]}
    => /\ StorageType' /\ PuttersAreOnTheirWay' /\ HoldersDiffer' /\ EntriesAreOnTheirWay'
       /\ EntriesAreAccounted' /\ ReturnedResolve'
<1> SUFFICES ASSUME NEW p \in Putters, NEW to \in Holding,
                    StorageInvariant, pc[p] \in Holding, pc' = [pc EXCEPT ![p] = to],
                    keys' = keys, values' = values, overflow' = overflow, returned' = returned,
                    torn' = torn, hash' = hash, table' = table, slot' = slot, step' = step,
                    current' \in Storage!Tables, current' >= current,
                    used' \in [Storage!Tables -> Nat], trace' \in [Putters -> Hashes \cup {0}],
                    \A q \in Putters : q # p => trace'[q] = trace[q],
                    to = "set" => trace'[p] \in {0, hash[p]}
             PROVE  /\ StorageType' /\ PuttersAreOnTheirWay' /\ HoldersDiffer' /\ EntriesAreOnTheirWay'
                    /\ EntriesAreAccounted' /\ ReturnedResolve'
  OBVIOUS
<1> USE DEF StorageInvariant, Storage!Free, Storage!NoTrace
<1>1. \A q \in Putters : /\ q # p => pc'[q] = pc[q]
                         /\ pc'[q] \in Holding <=> pc[q] \in Holding
                         /\ pc'[q] \in Looking <=> pc[q] \in Looking
                         /\ pc'[q] # "out" <=> pc[q] # "out"
  BY DEF StorageType, Holding, Looking
<1>2. StorageType'
  BY DEF StorageType, IsTable
<1>3. PuttersAreOnTheirWay'
  <2> SUFFICES ASSUME NEW q \in Putters, pc'[q] # "out"
               PROVE  PuttersAreOnTheirWay!(q)!2'
    BY DEF PuttersAreOnTheirWay
  <2>1. table[q] <= current'
    <3>1. table[q] <= current
      BY <1>1 DEF PuttersAreOnTheirWay
    <3>2. table[q] \in Storage!Tables /\ current \in Storage!Tables
      BY DEF StorageType
    <3>3. QED
      BY <3>1, <3>2, TableAssumption DEF Storage!Tables
  <2>2. pc'[q] = "set" => trace'[q] \in {0, hash[q]}
    BY <1>1 DEF PuttersAreOnTheirWay, StorageType
  <2>3. QED
    BY <1>1, <2>1, <2>2 DEF PuttersAreOnTheirWay
<1>4. HoldersDiffer' /\ Held' = Held
  BY <1>1 DEF HoldersDiffer, Held
<1>5. EntriesAreOnTheirWay' /\ EntriesAreAccounted'
  BY <1>4 DEF EntriesAreOnTheirWay, EntriesAreAccounted
<1>6. ReturnedResolve'
  <2>1. 1..current \subseteq 1..current'
    BY TableAssumption DEF StorageType, Storage!Tables
  <2>2. QED
    BY <2>1 DEF ReturnedResolve, IsFull
<1>7. QED
  BY <1>2, <1>3, <1>4, <1>5, <1>6

LEMMA IncSizeKeepsStorage ==
  ASSUME StorageInvariant, NEW p \in Putters, Storage!IncSize(p)
  PROVE  StorageInvariant'
<1> USE DEF StorageInvariant, Storage!Free, Storage!NoTrace
<1>1. /\ pc[p] = "count" /\ current' = current /\ keys' = keys /\ values' = values
      /\ overflow' = overflow /\ returned' = returned /\ torn' = torn
      /\ hash' = hash /\ table' = table /\ slot' = slot /\ step' = step /\ trace' = trace
      /\ used' = [used EXCEPT ![table[p]] = used[table[p]] + 1]
  BY DEF Storage!IncSize, Storage!putVars
<1>2. PICK to \in {"grow", "fill"} : pc' = [pc EXCEPT ![p] = to]
  BY DEF Storage!IncSize
<1>3. table[p] \in Storage!Tables /\ used[table[p]] \in Nat
  BY DEF StorageType
<1>4. /\ StorageType' /\ PuttersAreOnTheirWay' /\ HoldersDiffer' /\ EntriesAreOnTheirWay'
      /\ EntriesAreAccounted' /\ ReturnedResolve'
  <2>1. /\ to \in Holding /\ to # "set" /\ pc[p] \in Holding
        /\ current' \in Storage!Tables /\ current' >= current
        /\ used' \in [Storage!Tables -> Nat] /\ trace' \in [Putters -> Hashes \cup {0}]
    BY <1>1, <1>3 DEF StorageType, Holding, Storage!Tables
  <2>2. QED
    BY <1>1, <1>2, <2>1, HolderMoves
<1>5. SizesAreCounted'
  <2> SUFFICES ASSUME NEW tb \in Storage!Tables
               PROVE  used'[tb] + Cardinality(Counting(tb)') = Cardinality(Owned(tb)')
    BY DEF SizesAreCounted
  <2>1. /\ used[tb] + Cardinality(Counting(tb)) = Cardinality(Owned(tb))
        /\ IsFiniteSet(Counting(tb)) /\ used[tb] \in Nat
    BY OwnedIsFinite DEF SizesAreCounted, StorageType
  <2>2. Owned(tb)' = Owned(tb)
    BY <1>1 DEF Owned
  <2>3. CASE tb # table[p]
    <3>1. Counting(tb)' = Counting(tb)
      BY <1>1, <1>2, <2>3 DEF StorageType, Counting
    <3>2. used'[tb] = used[tb]
      BY <1>1, <2>3 DEF StorageType
    <3>3. QED
      BY <2>1, <2>2, <3>1, <3>2
  <2>4. CASE tb = table[p]
    <3>1. Counting(tb)' = Counting(tb) \ {p} /\ p \in Counting(tb)
      BY <1>1, <1>2, <2>4 DEF StorageType, Counting
    <3>2. used'[tb] = used[tb] + 1
      BY <1>1, <2>4 DEF StorageType
    <3>3. Cardinality(Counting(tb)') = Cardinality(Counting(tb)) - 1
      BY <2>1, <3>1, FS_RemoveElement
    <3>4. Cardinality(Counting(tb)) \in Nat
      BY <2>1, FS_CardinalityType
    <3>5. QED
      BY <2>1, <2>2, <3>2, <3>3, <3>4
  <2>5. QED
    BY <2>3, <2>4
<1>6. QED
  BY <1>4, <1>5

LEMMA GrowKeepsStorage ==
  ASSUME StorageInvariant, NEW p \in Putters, Storage!Grow(p)
  PROVE  StorageInvariant'
<1> USE DEF StorageInvariant, Storage!Free, Storage!NoTrace
<1>1. /\ pc[p] = "grow" /\ pc' = [pc EXCEPT ![p] = "fill"] /\ keys' = keys /\ values' = values
      /\ overflow' = overflow /\ returned' = returned /\ torn' = torn /\ used' = used
      /\ hash' = hash /\ table' = table /\ slot' = slot /\ step' = step /\ trace' = trace
  BY DEF Storage!Grow, Storage!Goes, Storage!putVars
<1>2. current' \in Storage!Tables /\ current' >= current
  <2>1. current' = current \/ (table[p] < MaxTables /\ current = table[p] /\ current' = table[p] + 1)
    BY DEF Storage!Grow
  <2>2. current \in 1..MaxTables /\ table[p] \in 1..MaxTables /\ MaxTables \in Nat
    BY TableAssumption DEF StorageType, Storage!Tables
  <2>3. QED
    BY <2>1, <2>2 DEF Storage!Tables
<1>3. /\ StorageType' /\ PuttersAreOnTheirWay' /\ HoldersDiffer' /\ EntriesAreOnTheirWay'
      /\ EntriesAreAccounted' /\ ReturnedResolve'
  <2>1. /\ "fill" \in Holding /\ pc[p] \in Holding
        /\ used' \in [Storage!Tables -> Nat] /\ trace' \in [Putters -> Hashes \cup {0}]
    BY <1>1 DEF StorageType, Holding
  <2>2. QED
    BY <1>1, <1>2, <2>1, HolderMoves
<1>4. SizesAreCounted'
  <2>1. \A tb \in Storage!Tables : Counting(tb)' = Counting(tb) /\ Owned(tb)' = Owned(tb)
    BY <1>1 DEF StorageType, Counting, Owned
  <2>2. QED
    BY <1>1, <2>1 DEF SizesAreCounted
<1>5. QED
  BY <1>3, <1>4

\* What is found along a sequence of slots.
FoundAlong(seq, tb, h) ==
  LET hits == {n \in DOMAIN seq : /\ keys[tb][seq[n]] = h
                                  /\ \A m \in 0..(n - 1) : keys[tb][seq[m]] # 0}
  IN IF hits = {} THEN 0 ELSE values[tb][seq[CHOOSE n \in hits : \A m \in hits : n <= m]]

\* find_stack_trace finds nothing, or what was stored for the hash.
LEMMA FindStackTraceFinds ==
  ASSUME StorageInvariant, NEW tb \in Storage!Tables, NEW h \in Hashes
  PROVE  Storage!FindStackTrace(tb, h) \in {0, h}
<1> DEFINE hits == {n \in Storage!Slots(tb) :
                      /\ keys[tb][ProbeAt(tb, h, n)] = h
                      /\ \A m \in 0..(n - 1) : keys[tb][ProbeAt(tb, h, m)] # 0}
<1> DEFINE first == CHOOSE n \in hits : \A m \in hits : n <= m
<1>1. h \in Nat
  BY HashAssumption
<1>2. Storage!FindStackTrace(tb, h) = IF hits = {} THEN 0 ELSE values[tb][ProbeAt(tb, h, first)]
  <2>1. Storage!ProbeSequence(tb, h) = [n \in Storage!Slots(tb) |-> ProbeAt(tb, h, n)]
    BY <1>1, ProbeSequenceIs DEF Storage!Slots
  <2> DEFINE seq == [n \in Storage!Slots(tb) |-> ProbeAt(tb, h, n)]
  <2> DEFINE found == {n \in DOMAIN seq : /\ keys[tb][seq[n]] = h
                                          /\ \A m \in 0..(n - 1) : keys[tb][seq[m]] # 0}
  <2>2. found = hits
    <3>1. \A n \in Storage!Slots(tb) : \A m \in 0..(n - 1) : m \in Storage!Slots(tb)
      BY CapacityDoubles DEF Storage!Slots
    <3>2. QED
      BY <3>1
  <2>3. Storage!FindStackTrace(tb, h) =
          IF found = {} THEN 0 ELSE values[tb][seq[CHOOSE n \in found : \A m \in found : n <= m]]
    <3>1. Storage!FindStackTrace(tb, h) = FoundAlong(Storage!ProbeSequence(tb, h), tb, h)
      BY DEF FoundAlong, Storage!FindStackTrace, Storage!Free, Storage!NoTrace
    <3>2. Storage!FindStackTrace(tb, h) = FoundAlong(seq, tb, h)
      BY <2>1, <3>1, Zenon
    <3>3. FoundAlong(seq, tb, h) =
            IF found = {} THEN 0 ELSE values[tb][seq[CHOOSE n \in found : \A m \in found : n <= m]]
      BY DEF FoundAlong
    <3>4. QED
      BY <3>2, <3>3, Zenon
  <2> HIDE DEF hits, found
  <2>4. CASE hits = {}
    BY <2>2, <2>3, <2>4
  <2>5. CASE hits # {}
    <3>1. hits \subseteq Storage!Slots(tb) /\ Storage!Slots(tb) \subseteq Nat
      BY SlotsAreFinite DEF hits
    <3>2. \E n \in hits : \A m \in hits : n <= m
      BY <2>5, <3>1, LeastOfNaturals
    <3>3. first \in hits
      BY <3>2
    <3>4. Storage!FindStackTrace(tb, h) = values[tb][seq[first]]
      BY <2>2, <2>3, <2>5, Zenon
    <3>5. seq[first] = ProbeAt(tb, h, first)
      BY <3>1, <3>3
    <3>6. QED
      BY <2>5, <3>4, <3>5, Zenon
  <2>6. QED
    BY <2>4, <2>5
<1>3. CASE hits # {}
  <2>1. hits \subseteq Storage!Slots(tb) /\ Storage!Slots(tb) \subseteq Nat
    BY SlotsAreFinite
  <2>2. \E n \in hits : \A m \in hits : n <= m
    <3> HIDE DEF hits
    <3>1. QED
      BY <1>3, <2>1, LeastOfNaturals
  <2>3. first \in hits
    <3> HIDE DEF hits
    <3>1. QED
      BY <2>2
  <2>4. keys[tb][ProbeAt(tb, h, first)] = h
    <3> HIDE DEF first
    <3>1. QED
      BY <2>3
  <2>5. ProbeAt(tb, h, first) \in Storage!Slots(tb)
    <3> HIDE DEF first
    <3>1. first \in Nat
      BY <2>1, <2>3
    <3>2. QED
      BY <1>1, <3>1, ProbeStep
  <2>6. values[tb][ProbeAt(tb, h, first)] \in {0, keys[tb][ProbeAt(tb, h, first)]}
    <3> HIDE DEF first
    <3>1. QED
      BY <2>5 DEF StorageInvariant, EntriesAreAccounted, Storage!NoTrace
  <2>7. QED
    <3> HIDE DEF first, hits
    <3>1. QED
      BY <1>2, <1>3, <2>4, <2>6
<1>4. QED
  BY <1>2, <1>3

LEMMA FillKeepsStorage ==
  ASSUME StorageInvariant, NEW p \in Putters, Storage!Fill(p)
  PROVE  StorageInvariant'
<1> DEFINE old == IF table[p] = 1 THEN 0 ELSE Storage!FindStackTrace(table[p] - 1, hash[p])
<1> USE DEF StorageInvariant, Storage!Free, Storage!NoTrace
<1>1. /\ pc[p] = "fill" /\ pc' = [pc EXCEPT ![p] = "set"] /\ keys' = keys /\ values' = values
      /\ overflow' = overflow /\ returned' = returned /\ torn' = torn /\ used' = used
      /\ hash' = hash /\ table' = table /\ slot' = slot /\ step' = step /\ current' = current
  BY DEF Storage!Fill, Storage!Goes, Storage!tableVars
<1>2. hash[p] \in Hashes /\ table[p] \in Storage!Tables
  BY <1>1 DEF PuttersAreOnTheirWay, StorageType
<1>3. old \in {0, hash[p]}
  <2>1. CASE table[p] = 1
    BY <2>1
  <2>2. CASE table[p] # 1
    <3>1. table[p] - 1 \in Storage!Tables
      BY <1>2, <2>2, TableAssumption DEF Storage!Tables
    <3>2. Storage!FindStackTrace(table[p] - 1, hash[p]) \in {0, hash[p]}
      BY <1>2, <3>1, FindStackTraceFinds
    <3>3. QED
      BY <2>2, <3>2
  <2>3. QED
    BY <2>1, <2>2
<1>4. \E t \in {0, hash[p]} : trace' = [trace EXCEPT ![p] = t]
  <2>1. \/ trace' = [trace EXCEPT ![p] = old] \/ trace' = [trace EXCEPT ![p] = hash[p]]
        \/ trace' = [trace EXCEPT ![p] = 0]
    BY DEF Storage!Fill
  <2> HIDE DEF old
  <2>2. QED
    BY <1>3, <2>1
<1> HIDE DEF old
<1>5. PICK t \in {0, hash[p]} : trace' = [trace EXCEPT ![p] = t]
  BY <1>4
<1>6. /\ StorageType' /\ PuttersAreOnTheirWay' /\ HoldersDiffer' /\ EntriesAreOnTheirWay'
      /\ EntriesAreAccounted' /\ ReturnedResolve'
  <2>1. /\ "set" \in Holding /\ pc[p] \in Holding
        /\ used' \in [Storage!Tables -> Nat] /\ trace' \in [Putters -> Hashes \cup {0}]
        /\ trace'[p] \in {0, hash[p]} /\ \A q \in Putters : q # p => trace'[q] = trace[q]
        /\ current' \in Storage!Tables /\ current' >= current
    BY <1>1, <1>2, <1>5 DEF StorageType, Holding, Storage!Tables
  <2>2. QED
    BY <1>1, <2>1, HolderMoves
<1>7. SizesAreCounted'
  <2>1. \A tb \in Storage!Tables : Counting(tb)' = Counting(tb) /\ Owned(tb)' = Owned(tb)
    BY <1>1 DEF StorageType, Counting, Owned
  <2>2. QED
    BY <1>1, <2>1 DEF SizesAreCounted
<1>8. QED
  BY <1>6, <1>7

\* The copy faults: the entry the thread holds stays empty, and is torn.
LEMMA FaultKeepsStorage ==
  ASSUME StorageInvariant, NEW p \in Putters, Storage!Fault(p)
  PROVE  StorageInvariant'
<1> USE DEF StorageInvariant, Storage!Free, Storage!NoTrace
<1>1. /\ pc[p] = "fill" /\ Storage!Leave(p) /\ torn' = torn \cup {<<table[p], slot[p]>>}
      /\ current' = current /\ keys' = keys /\ values' = values /\ overflow' = overflow
      /\ returned' = returned /\ used' = used
  BY DEF Storage!Fault, Storage!tableVars
<1>2. pc[p] \in Holding /\ pc[p] # "count"
  BY <1>1 DEF Holding
<1>3. /\ keys[table[p]][slot[p]] # 0 /\ values[table[p]][slot[p]] = 0
  BY <1>1, <1>2, SlotsAreSlots DEF PuttersAreOnTheirWay
<1>4. /\ StorageType' /\ PuttersAreOnTheirWay' /\ HoldersDiffer' /\ EntriesAreOnTheirWay'
      /\ SizesAreCounted' /\ Held' = Held \ {<<table[p], slot[p]>>}
  <2>1. /\ IsTable(values') /\ overflow' \in BOOLEAN
        /\ \A tb \in Storage!Tables : \A s \in Storage!Slots(tb) :
             <<tb, s>> # <<table[p], slot[p]>> =>
               values'[tb][s] = values[tb][s] /\ (<<tb, s>> \in torn' <=> <<tb, s>> \in torn)
    BY <1>1 DEF StorageType
  <2>2. QED
    BY <1>1, <1>2, <2>1, LeaveKeeps
<1>5. EntriesAreAccounted'
  BY <1>1, <1>3, <1>4 DEF EntriesAreAccounted
<1>6. ReturnedResolve'
  BY <1>1 DEF ReturnedResolve, IsFull
<1>7. QED
  BY <1>4, <1>5, <1>6

LEMMA SetStackTraceKeepsStorage ==
  ASSUME StorageInvariant, NEW p \in Putters, Storage!SetStackTrace(p)
  PROVE  StorageInvariant'
<1> USE DEF StorageInvariant, Storage!Free, Storage!NoTrace
<1>1. /\ pc[p] = "set" /\ current' = current /\ keys' = keys /\ overflow' = overflow /\ used' = used
      /\ Storage!Leave(p)
      /\ returned' = returned \cup {[id |-> Storage!IdOf(table[p], slot[p]), hash |-> hash[p]]}
  BY DEF Storage!SetStackTrace, Storage!Return
<1>2. PICK a, u, h, t :
        /\ a = table[p] /\ u = slot[p] /\ h = hash[p] /\ t = trace[p]
        /\ a \in Storage!Tables /\ a \in 1..current /\ u \in Storage!Slots(a)
        /\ h \in Hashes /\ h # 0 /\ t \in {0, h} /\ keys[a][u] = h /\ values[a][u] = 0
        /\ <<a, u>> \notin torn
  <2>1. slot[p] \in Storage!Slots(table[p]) /\ hash[p] # 0
    BY <1>1, SlotsAreSlots
  <2>2. /\ hash[p] \in Hashes /\ table[p] <= current /\ trace[p] \in {0, hash[p]}
        /\ keys[table[p]][slot[p]] = hash[p] /\ values[table[p]][slot[p]] = 0
        /\ <<table[p], slot[p]>> \notin torn
    BY <1>1 DEF PuttersAreOnTheirWay, Holding
  <2>3. table[p] \in Storage!Tables /\ table[p] \in 1..current
    BY <2>2, TableAssumption DEF StorageType, Storage!Tables
  <2>4. QED
    BY <2>1, <2>2, <2>3
<1>3. /\ values' = [values EXCEPT ![a][u] = t]
      /\ torn' = IF t = 0 THEN torn \cup {<<a, u>>} ELSE torn
  BY <1>2 DEF Storage!SetStackTrace
<1>4. /\ IsTable(values') /\ values'[a][u] = t
      /\ \A tb \in Storage!Tables : \A s \in Storage!Slots(tb) :
           tb # a \/ s # u => values'[tb][s] = values[tb][s]
  <2>1. t \in Hashes \cup {0} /\ IsTable(values) /\ a \in Storage!Tables /\ u \in Storage!Slots(a)
    BY <1>2 DEF StorageType
  <2>2. Writes(values, values', a, u, t)
    BY <1>3 DEF Writes
  <2>3. Written(values, values', a, u, t)
    BY <2>1, <2>2, OneEntryChanges, Zenon
  <2>4. QED
    BY <2>3 DEF Written
<1>5. /\ StorageType' /\ PuttersAreOnTheirWay' /\ HoldersDiffer' /\ EntriesAreOnTheirWay'
      /\ SizesAreCounted' /\ Held' = Held \ {<<table[p], slot[p]>>}
  <2>1. /\ overflow' \in BOOLEAN /\ pc[p] \in Holding /\ pc[p] # "count"
        /\ \A tb \in Storage!Tables : \A s \in Storage!Slots(tb) :
             <<tb, s>> # <<table[p], slot[p]>> =>
               values'[tb][s] = values[tb][s] /\ (<<tb, s>> \in torn' <=> <<tb, s>> \in torn)
    BY <1>1, <1>2, <1>3, <1>4 DEF StorageType, Holding
  <2>2. QED
    BY <1>1, <1>4, <2>1, LeaveKeeps
<1>6. EntriesAreAccounted'
  <2> SUFFICES ASSUME NEW tb \in Storage!Tables, NEW s \in Storage!Slots(tb)
               PROVE  /\ values'[tb][s] \in {0, keys[tb][s]}
                      /\ <<tb, s>> \in torn' => keys[tb][s] # 0 /\ values'[tb][s] = 0
                      /\ keys[tb][s] # 0 =>
                           values'[tb][s] # 0 \/ <<tb, s>> \in torn' \/ <<tb, s>> \in Held'
    BY <1>1 DEF EntriesAreAccounted
  <2>1. CASE tb = a /\ s = u
    BY <1>2, <1>3, <1>4, <2>1
  <2>2. CASE tb # a \/ s # u
    <3>1. values'[tb][s] = values[tb][s] /\ (<<tb, s>> \in torn' <=> <<tb, s>> \in torn)
      BY <1>3, <1>4, <2>2
    <3>2. <<tb, s>> \in Held' <=> <<tb, s>> \in Held
      BY <1>2, <1>5, <2>2
    <3>3. QED
      BY <3>1, <3>2 DEF EntriesAreAccounted
  <2>3. QED
    BY <2>1, <2>2
<1>7. ReturnedResolve'
  BY <1>1, <1>2 DEF ReturnedResolve, IsFull
<1>8. QED
  BY <1>5, <1>6, <1>7

LEMMA EmptyTables ==
  /\ IsTable([tb \in Storage!Tables |-> Storage!EmptyTable(tb, 0)])
  /\ \A tb \in Storage!Tables : \A s \in Storage!Slots(tb) :
       [ub \in Storage!Tables |-> Storage!EmptyTable(ub, 0)][tb][s] = 0
BY DEF IsTable, Storage!EmptyTable

\* A table nobody has used, as init and clear leave it.
StorageIsEmpty ==
  /\ current = 1 /\ overflow = FALSE /\ returned = {} /\ torn = {}
  /\ keys = [tb \in Storage!Tables |-> Storage!EmptyTable(tb, 0)]
  /\ values = [tb \in Storage!Tables |-> Storage!EmptyTable(tb, 0)]
  /\ used = [tb \in Storage!Tables |-> 0]
  /\ pc \in [Putters -> {"out"}]
  /\ hash \in [Putters -> Hashes \cup {0}] /\ table \in [Putters -> Storage!Tables]
  /\ slot \in [Putters -> Nat] /\ step \in [Putters -> Nat] /\ trace \in [Putters -> Hashes \cup {0}]

LEMMA EmptyStorage == StorageIsEmpty => StorageInvariant
<1> SUFFICES ASSUME StorageIsEmpty PROVE StorageInvariant
  OBVIOUS
<1> USE DEF StorageIsEmpty
<1>1. /\ IsTable(keys) /\ IsTable(values)
      /\ \A tb \in Storage!Tables : \A s \in Storage!Slots(tb) : keys[tb][s] = 0 /\ values[tb][s] = 0
  BY EmptyTables
<1>2. 1 \in Storage!Tables
  BY TableAssumption DEF Storage!Tables
<1>3. StorageType
  BY <1>1, <1>2 DEF StorageType
<1>4. PuttersAreOnTheirWay /\ HoldersDiffer /\ ReturnedResolve
  BY DEF PuttersAreOnTheirWay, HoldersDiffer, ReturnedResolve, Holding
<1>5. EntriesAreOnTheirWay /\ EntriesAreAccounted
  BY <1>1 DEF EntriesAreOnTheirWay, EntriesAreAccounted, Storage!Free, Storage!NoTrace
<1>6. SizesAreCounted
  <2> SUFFICES ASSUME NEW tb \in Storage!Tables
               PROVE  used[tb] + Cardinality(Counting(tb)) = Cardinality(Owned(tb))
    BY DEF SizesAreCounted
  <2>1. Counting(tb) = {} /\ Owned(tb) = {} /\ used[tb] = 0
    BY <1>1 DEF Counting, Owned, Storage!Free
  <2>2. QED
    BY <2>1, FS_EmptySet
<1>7. QED
  BY <1>3, <1>4, <1>5, <1>6 DEF StorageInvariant

LEMMA InitIsStorage == Init => StorageInvariant
<1> SUFFICES ASSUME Init PROVE StorageInvariant
  OBVIOUS
<1>1. 1 \in Storage!Tables
  BY TableAssumption DEF Storage!Tables
<1>2. QED
  BY <1>1, EmptyStorage DEF StorageIsEmpty, Init, Storage!Init, Storage!Free, Storage!NoTrace

LEMMA ClearKeepsStorage == StorageInvariant /\ Storage!Clear => StorageInvariant'
<1> SUFFICES ASSUME StorageInvariant, Storage!Clear PROVE StorageInvariant'
  OBVIOUS
<1> USE DEF Storage!Free, Storage!NoTrace
<1>1. /\ current' = 1 /\ keys' = [tb \in Storage!Tables |-> Storage!EmptyTable(tb, 0)]
      /\ values' = [tb \in Storage!Tables |-> Storage!EmptyTable(tb, 0)]
      /\ used' = [tb \in Storage!Tables |-> 0] /\ overflow' = FALSE
      /\ returned' = {} /\ torn' = {} /\ pc' = pc
      /\ hash' = hash /\ table' = table /\ slot' = slot /\ step' = step /\ trace' = trace
  BY DEF Storage!Clear, Storage!putVars
<1>2. pc' \in [Putters -> {"out"}]
  BY <1>1 DEF StorageInvariant, StorageType, Storage!Clear, Storage!Quiet
<1>3. /\ hash' \in [Putters -> Hashes \cup {0}] /\ table' \in [Putters -> Storage!Tables]
      /\ slot' \in [Putters -> Nat] /\ step' \in [Putters -> Nat] /\ trace' \in [Putters -> Hashes \cup {0}]
  BY <1>1 DEF StorageInvariant, StorageType
<1>4. StorageIsEmpty'
  BY <1>1, <1>2, <1>3 DEF StorageIsEmpty
<1>5. QED
  BY <1>4, EmptyStorage, PTL

LEMMA RestKeepsStorage == StorageInvariant /\ UNCHANGED storageVars => StorageInvariant'
<1> SUFFICES ASSUME StorageInvariant, UNCHANGED storageVars PROVE StorageInvariant'
  OBVIOUS
<1>1. StorageType' /\ PuttersAreOnTheirWay' /\ HoldersDiffer' /\ EntriesAreOnTheirWay'
  BY DEF StorageInvariant, StorageType, PuttersAreOnTheirWay, HoldersDiffer, EntriesAreOnTheirWay,
     IsTable, storageVars
<1>2. EntriesAreAccounted' /\ ReturnedResolve'
  BY DEF StorageInvariant, EntriesAreAccounted, ReturnedResolve, Held, IsFull, storageVars
<1>3. SizesAreCounted'
  BY DEF StorageInvariant, SizesAreCounted, Counting, Owned, storageVars
<1>4. QED
  BY <1>1, <1>2, <1>3 DEF StorageInvariant

LEMMA NextKeepsStorage == StorageInvariant /\ [Next]_vars => StorageInvariant'
<1> SUFFICES ASSUME StorageInvariant, [Next]_vars PROVE StorageInvariant'
  OBVIOUS
<1>1. CASE StorageNext
  <2>1. Storage!Next
    BY <1>1 DEF StorageNext
  <2>2. QED
    BY <2>1, PutKeepsStorage, ProbeKeepsStorage, ClaimKeepsStorage, IncSizeKeepsStorage,
       GrowKeepsStorage, FillKeepsStorage, FaultKeepsStorage, SetStackTraceKeepsStorage,
       ClearKeepsStorage DEF Storage!Next
<1>2. CASE UNCHANGED storageVars
  BY <1>2, RestKeepsStorage
<1>3. QED
  BY <1>1, <1>2 DEF Next, vars, AllocNext, RecorderNext, HooksNext, TracerNext,
     DwarfNext, SymbolsNext, SamplerNext, SiteNext, LauncherNext

-----------------------------------------------------------------------------
(* The invariant says what is promised of the table.                       *)

LEMMA StorageResolves == StorageInvariant => Storage!EveryIdResolves
<1> SUFFICES ASSUME StorageInvariant, Storage!Quiet
             PROVE  /\ \A a, b \in Storage!CollectStackTraces : a.id = b.id => a = b
                    /\ \A r \in returned :
                         \/ r.id = Storage!OverflowId /\ overflow
                         \/ [id |-> r.id, hash |-> r.hash] \in Storage!CollectStackTraces
                         \/ \E e \in torn : r.id = Storage!IdOf(e[1], e[2]) /\ keys[e[1]][e[2]] = r.hash
                                            /\ values[e[1]][e[2]] = Storage!NoTrace
  BY DEF Storage!EveryIdResolves
<1> USE DEF StorageInvariant, Storage!Free, Storage!NoTrace
<1>1. \A tb \in 1..current : tb \in Storage!Tables
  BY TableAssumption DEF StorageType, Storage!Tables
<1>2. \A a : a \in Storage!CollectStackTraces <=>
        \E tb \in 1..current : \E s \in Storage!Slots(tb) :
          keys[tb][s] # 0 /\ values[tb][s] # 0
          /\ a = [id |-> Storage!IdOf(tb, s), hash |-> values[tb][s]]
  BY DEF Storage!CollectStackTraces
<1>3. ASSUME NEW a \in Storage!CollectStackTraces, NEW b \in Storage!CollectStackTraces, a.id = b.id
      PROVE  a = b
  <2>1. PICK tb \in 1..current : \E s \in Storage!Slots(tb) :
               a = [id |-> Storage!IdOf(tb, s), hash |-> values[tb][s]]
    BY <1>2
  <2>2. PICK s \in Storage!Slots(tb) : a = [id |-> Storage!IdOf(tb, s), hash |-> values[tb][s]]
    BY <2>1
  <2>3. PICK ub \in 1..current : \E u \in Storage!Slots(ub) :
               b = [id |-> Storage!IdOf(ub, u), hash |-> values[ub][u]]
    BY <1>2
  <2>4. PICK u \in Storage!Slots(ub) : b = [id |-> Storage!IdOf(ub, u), hash |-> values[ub][u]]
    BY <2>3
  <2>5. tb \in Storage!Tables /\ ub \in Storage!Tables /\ Storage!IdOf(tb, s) = Storage!IdOf(ub, u)
    BY <1>1, <1>3, <2>2, <2>4
  <2>6. tb = ub /\ s = u
    BY <2>5, IdsAreUnique
  <2>7. QED
    BY <2>2, <2>4, <2>6
<1>4. ASSUME NEW r \in returned
      PROVE  \/ r.id = Storage!OverflowId /\ overflow
             \/ [id |-> r.id, hash |-> r.hash] \in Storage!CollectStackTraces
             \/ \E e \in torn : r.id = Storage!IdOf(e[1], e[2]) /\ keys[e[1]][e[2]] = r.hash
                                /\ values[e[1]][e[2]] = 0
  <2>1. CASE r.id = Storage!OverflowId /\ overflow
    BY <2>1
  <2>2. CASE \E tb \in 1..current : \E s \in Storage!Slots(tb) :
               r.id = Storage!IdOf(tb, s) /\ keys[tb][s] = r.hash /\ r.hash # 0
    <3>1. PICK tb \in 1..current : \E s \in Storage!Slots(tb) :
                 r.id = Storage!IdOf(tb, s) /\ keys[tb][s] = r.hash /\ r.hash # 0
      BY <2>2
    <3>2. PICK s \in Storage!Slots(tb) :
                 r.id = Storage!IdOf(tb, s) /\ keys[tb][s] = r.hash /\ r.hash # 0
      BY <3>1
    <3>3. tb \in Storage!Tables
      BY <1>1
    <3>4. Held = {}
      BY DEF Held, Holding, Storage!Quiet
    <3>5. /\ values[tb][s] \in {0, r.hash} /\ (<<tb, s>> \in torn => values[tb][s] = 0)
          /\ values[tb][s] # 0 \/ <<tb, s>> \in torn
      BY <3>2, <3>3, <3>4 DEF EntriesAreAccounted
    <3>6. CASE values[tb][s] # 0
      BY <1>2, <3>2, <3>5, <3>6
    <3>7. CASE <<tb, s>> \in torn
      BY <3>2, <3>5, <3>7
    <3>8. QED
      BY <3>5, <3>6, <3>7
  <2>3. QED
    BY <2>1, <2>2 DEF ReturnedResolve
<1>5. QED
  BY <1>3, <1>4

LEMMA StorageIsSound == StorageInvariant => Storage!TableIsSound
<1> SUFFICES ASSUME StorageInvariant PROVE Storage!TableIsSound
  OBVIOUS
<1> USE DEF StorageInvariant
<1>1. \A tb \in 1..current : tb \in Storage!Tables
  BY TableAssumption DEF StorageType, Storage!Tables
<1>2. (\E r \in returned : r.id = Storage!OverflowId) =>
        \E full \in 1..current : \A s \in Storage!Slots(full) : keys[full][s] # Storage!Free
  <2> SUFFICES ASSUME NEW r \in returned, r.id = Storage!OverflowId
               PROVE  \E full \in 1..current : \A s \in Storage!Slots(full) : keys[full][s] # Storage!Free
    OBVIOUS
  <2>1. ASSUME NEW tb \in 1..current, NEW s \in Storage!Slots(tb) PROVE r.id # Storage!IdOf(tb, s)
    <3>1. Storage!IdOf(tb, s) \in Nat
      BY <1>1, IdsAreNatural
    <3>2. QED
      BY <3>1 DEF Storage!OverflowId
  <2>2. QED
    BY <2>1 DEF ReturnedResolve, IsFull
<1>3. ASSUME NEW tb \in Storage!Tables, NEW s \in Owned(tb)
      PROVE  \E n \in DOMAIN Storage!ProbeSequence(tb, keys[tb][s]) :
               /\ Storage!ProbeSequence(tb, keys[tb][s])[n] = s
               /\ \A m \in 0..n : Storage!ProbeSequence(tb, keys[tb][s])[m] \in Owned(tb)
  <2>1. s \in Storage!Slots(tb) /\ keys[tb][s] \in Nat /\ keys[tb][s] # Storage!Free
    BY HashAssumption DEF Owned, StorageType, IsTable, Storage!Free
  <2>2. Storage!ProbeSequence(tb, keys[tb][s]) =
          [n \in Storage!Slots(tb) |-> ProbeAt(tb, keys[tb][s], n)]
    BY <2>1, ProbeSequenceIs DEF Storage!Slots
  <2>3. PICK n \in Storage!Slots(tb) :
          /\ s = ProbeAt(tb, keys[tb][s], n)
          /\ \A m \in 0..(n - 1) :
               keys[tb][ProbeAt(tb, keys[tb][s], m)] \notin {Storage!Free, keys[tb][s]}
    BY <2>1 DEF EntriesAreOnTheirWay
  <2>4. n \in Nat /\ \A m \in 0..n : m \in Storage!Slots(tb) /\ m \in Nat
    BY CapacityDoubles DEF Storage!Slots
  <2>5. \A m \in 0..n : ProbeAt(tb, keys[tb][s], m) \in Owned(tb)
    <3> TAKE m \in 0..n
    <3>1. ProbeAt(tb, keys[tb][s], m) \in Storage!Slots(tb)
      BY <2>1, <2>4, ProbeStep
    <3>2. m = n \/ m \in 0..(n - 1)
      BY <2>4
    <3>3. keys[tb][ProbeAt(tb, keys[tb][s], m)] # Storage!Free
      BY <2>1, <2>3, <3>2
    <3>4. QED
      BY <3>1, <3>3 DEF Owned
  <2>6. QED
    BY <2>2, <2>3, <2>4, <2>5
<1>4. \A tb \in Storage!Tables :
        /\ used[tb] + Cardinality(Counting(tb)) = Cardinality(Owned(tb))
        /\ \A s, u \in Owned(tb) : keys[tb][s] = keys[tb][u] => s = u
  BY KeysAreUnique DEF SizesAreCounted
<1> DEFINE Fine(tb) ==
  LET owned == {s \in Storage!Slots(tb) : keys[tb][s] # Storage!Free} IN
  /\ used[tb] + Storage!Cardinality({p \in Putters : pc[p] = "count" /\ table[p] = tb})
       = Storage!Cardinality(owned)
  /\ \A s, u \in owned : keys[tb][s] = keys[tb][u] => s = u
  /\ \A s \in owned :
       LET seq == Storage!ProbeSequence(tb, keys[tb][s]) IN
       \E n \in DOMAIN seq : seq[n] = s /\ \A m \in 0..n : seq[m] \in owned
  /\ (\E r \in returned : r.id = Storage!OverflowId) =>
       \E full \in 1..current : \A s \in Storage!Slots(full) : keys[full][s] # Storage!Free
<1>5. ASSUME NEW tb \in Storage!Tables PROVE Fine(tb)
  BY <1>2, <1>3, <1>4, SameCardinality, Zenon DEF Counting, Owned
<1>6. Storage!TableIsSound <=> \A tb \in Storage!Tables : Fine(tb)
  BY Zenon DEF Storage!TableIsSound
<1> HIDE DEF Fine
<1>7. QED
  BY <1>5, <1>6

\* Whatever threads and signal handlers put into pyki's trace table (stack_trace_storage.cpp),
\* through growth, migration and copies that fault: when the recorder collects, every id
\* resolves to the trace it was handed out for, and no id to two; a trace is in a table at
\* most once, where its probe sequence finds it; and an overflow means a full table.
THEOREM EveryTraceResolves == Spec => []TraceTableIsSound
<1>1. Spec => []StorageInvariant
  BY InitIsStorage, NextKeepsStorage, PTL DEF Spec
<1>2. StorageInvariant => TraceTableIsSound
  BY StorageResolves, StorageIsSound DEF TraceTableIsSound
<1>3. QED
  BY <1>1, <1>2, PTL
=============================================================================
