---------------------------- MODULE AppendOnlyList ----------------------------
(***************************************************************************)
(* AppendOnlyList of containers.h, which keeps the calls of the Python     *)
(* tracers: blocks of ChunkSize elements, a cursor into the last one, and  *)
(* iterators that walk the blocks up to the size there was at begin().     *)
(***************************************************************************)
EXTENDS Integers, Sequences

CONSTANTS
  ChunkSize,     \* elements of a block
  Readers,       \* iterators at a time
  MaxElements    \* bound: elements appended in all

VARIABLES
  buffer,        \* the blocks, each with what was written to it
  room,          \* end_ - next_
  iterators,     \* per reader its iterator, or None
  appended,      \* history: what was appended since the last clear, in order
  made,          \* history: number of elements made
  read           \* history: per reader what it has read

listVars == <<buffer, room, iterators, appended, made, read>>

None == [block |-> 0, current |-> 0, size |-> 0]

Init ==
  /\ buffer = <<>> /\ room = 0 /\ appended = <<>> /\ made = 0
  /\ iterators = [r \in Readers |-> None] /\ read = [r \in Readers |-> <<>>]

size == Len(buffer) * ChunkSize - room

\* maybe_grow adds a block when the cursor is at the end of the last one, or there is none.
maybe_grow == IF room = 0 THEN Append(buffer, <<>>) ELSE buffer

emplace_back ==
  /\ made < MaxElements
  /\ LET grown == maybe_grow IN
     buffer' = [grown EXCEPT ![Len(grown)] = Append(@, made + 1)]
  /\ room' = (IF room = 0 THEN ChunkSize ELSE room) - 1
  /\ appended' = Append(appended, made + 1) /\ made' = made + 1
  /\ UNCHANGED <<iterators, read>>

\* clear ends every iterator: none may be used after it.
clear ==
  /\ buffer' = <<>> /\ room' = 0 /\ appended' = <<>>
  /\ iterators' = [r \in Readers |-> None] /\ read' = [r \in Readers |-> <<>>]
  /\ UNCHANGED made

begin(r) ==
  /\ iterators' = [iterators EXCEPT ![r] = [block |-> 1, current |-> 0, size |-> size]]
  /\ read' = [read EXCEPT ![r] = <<>>]
  /\ UNCHANGED <<buffer, room, appended, made>>

exhausted(i) == i.current >= i.size

\* An iterator is told from end() by the address of its element, null when exhausted.
address(i) == IF exhausted(i) THEN 0 ELSE buffer[i.block][(i.current % ChunkSize) + 1]

\* operator++ goes to the next block after the last element of one.
Following(i) ==
  [i EXCEPT !.current = @ + 1, !.block = IF (i.current + 1) % ChunkSize = 0 THEN @ + 1 ELSE @]

Advance(r) ==
  /\ iterators[r].block # 0 /\ ~exhausted(iterators[r])
  /\ read' = [read EXCEPT ![r] = Append(@, address(iterators[r]))]
  /\ iterators' = [iterators EXCEPT ![r] = Following(@)]
  /\ UNCHANGED <<buffer, room, appended, made>>

Next == emplace_back \/ clear \/ \E r \in Readers : begin(r) \/ Advance(r)

Spec == Init /\ [][Next]_listVars

-----------------------------------------------------------------------------
\* An iterator yields what there was at its begin(), in order and to the end, whatever is
\* appended meanwhile, and never looks at a cell that was not written.
IteratorsReadTheirElements ==
  /\ size = Len(appended)
  /\ \A r \in Readers : LET i == iterators[r] IN
       /\ read[r] = SubSeq(appended, 1, i.current) /\ i.current <= i.size
       /\ i.block # 0 /\ ~exhausted(i) =>
            /\ i.block <= Len(buffer) /\ (i.current % ChunkSize) + 1 <= Len(buffer[i.block])
            /\ address(i) = appended[i.current + 1]
=============================================================================
