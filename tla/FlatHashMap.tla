----------------------------- MODULE FlatHashMap -----------------------------
(***************************************************************************)
(* sherwood_v3_table of flat_hash_map.h, the robin hood table under the    *)
(* value cache, the trace key caches and the name map of both Python       *)
(* tracers.  An entry stores how far it is from the cell its hash asks     *)
(* for; a lookup stops at the first entry that is closer to its own cell,  *)
(* and a key that would be max_lookups_ away makes the table grow, also    *)
(* while another rehash is filling it.  The cells end in one that looks    *)
(* like a value at its own place and holds none.                           *)
(***************************************************************************)
EXTENDS Integers, Sequences, SequencesExt, FiniteSets

CONSTANTS
  Keys,          \* keys of the map
  HashOf,        \* their hash, a number below 2^HashBits
  Values,
  HashBits,      \* bits of a hash (64 in the code)
  Multiplier,    \* of the fibonacci hash
  MinLookups,    \* min_lookups
  Requests       \* bucket counts asked of rehash and reserve

VARIABLES
  map,           \* the table
  expected,      \* what the user of the map has put into it and not removed
  next           \* the element a range loop goes on with after an erase: as returned, as due

mapVars == <<map, expected, next>>

Larger(a, b) == IF a > b THEN a ELSE b
Smaller(a, b) == IF a < b THEN a ELSE b

log2(n) == CHOOSE i \in 0..HashBits : 2^i <= n /\ n < 2^(i + 1)
next_power_of_two(n) == CHOOSE p \in {2^i : i \in 0..HashBits} : p >= n /\ (p > 1 => p \div 2 < n)

Empty == [distance |-> -1]
EndItem == [distance |-> 0]
Entry(distance, kv) == [distance |-> distance, key |-> kv.key, value |-> kv.value]

\* entries, num_slots_minus_one, hash_policy.shift, max_lookups and num_elements.
Allocated(slots, cells, shift, lookups) ==
  [entries |-> [i \in 0..(cells - 1) |-> IF i = cells - 1 THEN EndItem ELSE Empty],
   num_slots_minus_one |-> slots - 1, shift |-> shift, max_lookups |-> lookups, num_elements |-> 0]

empty_default_table == Allocated(1, MinLookups, HashBits - 1, MinLookups - 1)

bucket_count(t) == IF t.num_slots_minus_one = 0 THEN 0 ELSE t.num_slots_minus_one + 1

\* max_load_factor is 0.5 and nobody changes it.
num_buckets_for_reserve(n) == 2 * n
TooFull(t) == 2 * (t.num_elements + 1) > t.num_slots_minus_one + 1

compute_max_lookups(n) == Larger(MinLookups, log2(n))

index_for_hash(t, key) == ((Multiplier * HashOf[key]) % 2^HashBits) \div 2^t.shift

end(t) == t.num_slots_minus_one + t.max_lookups
HasValue(t, i) == i # end(t) /\ t.entries[i].distance >= 0
Positions(t) == {i \in 0..end(t) : HasValue(t, i)}

\* operator++ and begin: the next cell whose distance is not negative; the last one is end().
NextFrom(t, i) == CHOOSE j \in i..end(t) : /\ t.entries[j].distance >= 0
                                           /\ \A k \in i..(j - 1) : t.entries[k].distance < 0

\* The walk of find and emplace: the cell and the distance at which it stops, at an equal
\* key or at an entry closer to its own cell than the key would be.
Walk(t, key) ==
  LET first == index_for_hash(t, key)
      Stops(d) == LET at == t.entries[first + d] IN at.distance < d \/ at.key = key
      d == CHOOSE n \in 0..(end(t) - first) : Stops(n) /\ \A m \in 0..(n - 1) : ~Stops(m)
  IN [at |-> first + d, distance |-> d, found |-> t.entries[first + d].distance >= d]

find(t, key) == IF Walk(t, key).found THEN Walk(t, key).at ELSE end(t)

Set(t, i, entry) == [t EXCEPT !.entries[i] = entry]
Placed(t, i, entry) == [Set(t, i, entry) EXCEPT !.num_elements = @ + 1]

RECURSIVE emplace(_, _), Displace(_, _, _, _), rehash(_, _), Refill(_, _)

grow(t) == rehash(t, Larger(4, 2 * bucket_count(t)))

\* The loop of emplace_new_key: the entry in hand takes the first place held by one that is
\* closer to its cell than itself.  Where there is no room it takes the cell of the new key,
\* which goes into the table that has grown.
Displace(t, i, result, hand) ==
  LET at == t.entries[i] IN
  IF at.distance < 0 THEN Placed(t, i, hand)
  ELSE IF at.distance < hand.distance
       THEN Displace(Set(t, i, hand), i + 1, result, [at EXCEPT !.distance = @ + 1])
       ELSE IF hand.distance + 1 = t.max_lookups
            THEN LET first == t.entries[result]
                     back == Set(t, result, Entry(first.distance, hand))
                 IN emplace(grow(back), first)
            ELSE Displace(t, i + 1, result, [hand EXCEPT !.distance = @ + 1])

emplace_new_key(t, at, distance, kv) ==
  IF t.num_slots_minus_one = 0 \/ distance = t.max_lookups \/ TooFull(t)
  THEN emplace(grow(t), kv)
  ELSE IF t.entries[at].distance < 0 THEN Placed(t, at, Entry(distance, kv))
       ELSE Displace(Set(t, at, Entry(distance, kv)), at + 1, at,
                     [t.entries[at] EXCEPT !.distance = @ + 1])

emplace(t, kv) ==
  LET w == Walk(t, kv.key) IN
  IF w.found THEN t ELSE emplace_new_key(t, w.at, w.distance, kv)

Iterated(t) ==
  [i \in 1..Cardinality(Positions(t)) |->
     t.entries[CHOOSE p \in Positions(t) : Cardinality({q \in Positions(t) : q <= p}) = i]]

Refill(t, kvs) == IF kvs = <<>> THEN t ELSE Refill(emplace(t, Head(kvs)), Tail(kvs))

\* A request for fewer buckets than the elements need is raised; one for none leaves the
\* table of its own that a new map has.
rehash(t, request) ==
  LET wanted == Larger(request, 2 * t.num_elements)
      slots == Larger(2, next_power_of_two(wanted))
      lookups == compute_max_lookups(slots)
  IN IF wanted = 0 THEN empty_default_table
     ELSE IF slots = bucket_count(t) THEN t
     ELSE Refill(Allocated(slots, slots + lookups, HashBits - log2(slots), lookups), Iterated(t))

Reserved(t, n) ==
  IF num_buckets_for_reserve(n) > bucket_count(t) THEN rehash(t, num_buckets_for_reserve(n)) ELSE t

rehash_for_other_container(t, other) ==
  rehash(t, Smaller(num_buckets_for_reserve(other.num_elements), bucket_count(other)))

\* erase of one element: those behind it that are not at their own cell move up.
RECURSIVE MoveUp(_, _)
MoveUp(t, i) ==
  IF t.entries[i + 1].distance <= 0 THEN t
  ELSE MoveUp(Set(Set(t, i, [t.entries[i + 1] EXCEPT !.distance = @ - 1]), i + 1, Empty), i + 1)

\* Mutant of Erased: only the element right behind moves up.
ErasedMovesOne(t, i) ==
  LET gap == [Set(t, i, Empty) EXCEPT !.num_elements = @ - 1] IN
  IF t.entries[i + 1].distance <= 0 THEN gap
  ELSE Set(Set(gap, i, [t.entries[i + 1] EXCEPT !.distance = @ - 1]), i + 1, Empty)

Erased(t, i) == [MoveUp(Set(t, i, Empty), i) EXCEPT !.num_elements = @ - 1]

\* erase of a range: the elements behind it move up by as much as the range leaves room
\* for and as they are away from their own cells.
RECURSIVE MoveUpBy(_, _, _)
MoveUpBy(t, i, room) ==
  LET by == Smaller(t.entries[i].distance, room) IN
  IF t.entries[i].distance <= 0 THEN t
  ELSE MoveUpBy(Set(Set(t, i - by, [t.entries[i] EXCEPT !.distance = @ - by]), i, Empty), i + 1, by)

Emptied(t, from, to) ==
  [t EXCEPT !.entries = [i \in DOMAIN @ |-> IF i \in from..(to - 1) THEN Empty ELSE @[i]],
            !.num_elements = @ - Cardinality(Positions(t) \cap (from..(to - 1)))]

RangeErased(t, from, to) ==
  IF to = end(t) THEN Emptied(t, from, to) ELSE MoveUpBy(Emptied(t, from, to), to, to - from)

RangeReturns(t, from, to) ==
  IF to = end(t) THEN to ELSE to - Smaller(t.entries[to].distance, to - from)

-----------------------------------------------------------------------------
(* The operations.                                                         *)

Nowhere == "end"
KeyAt(t, i) == IF HasValue(t, i) THEN t.entries[i].key ELSE Nowhere
Same == [returned |-> Nowhere, due |-> Nowhere]

With(m, key, value) == [k \in (DOMAIN m) \cup {key} |-> IF k = key THEN value ELSE m[k]]
WithoutKeys(m, keys) == [k \in (DOMAIN m) \ keys |-> m[k]]

\* A map is made empty, or with a number of buckets.
InitWith(n) == map = rehash(empty_default_table, n) /\ expected = <<>> /\ next = Same
Init == \E n \in {0} \cup Requests : InitWith(n)

\* insert and emplace keep the value of a key that is there.
insert(key, value) ==
  /\ map' = emplace(map, [key |-> key, value |-> value])
  /\ expected' = IF key \in DOMAIN expected THEN expected ELSE With(expected, key, value)
  /\ next' = Same

\* operator[] with an assignment, and insert_or_assign.
insert_or_assign(key, value) ==
  LET t == emplace(map, [key |-> key, value |-> value]) IN
  /\ map' = Set(t, find(t, key), [t.entries[find(t, key)] EXCEPT !.value = value])
  /\ expected' = With(expected, key, value) /\ next' = Same

\* The iterator that erase returns is the cell erased, or the next value after it.
erase(key) ==
  LET at == find(map, key)
      t == Erased(map, at)
  IN /\ at # end(map) /\ map' = t /\ expected' = WithoutKeys(expected, {key})
     /\ next' = [returned |-> KeyAt(t, NextFrom(t, at)), due |-> KeyAt(map, NextFrom(map, at + 1))]

EraseRange(from, to) ==
  LET t == RangeErased(map, from, to) IN
  /\ from < to /\ map' = t
  /\ expected' = WithoutKeys(expected, {map.entries[i].key : i \in Positions(map) \cap (from..(to - 1))})
  /\ next' = [returned |-> KeyAt(t, RangeReturns(map, from, to)), due |-> KeyAt(map, to)]

Rehash(request) == map' = rehash(map, request) /\ next' = Same /\ UNCHANGED expected
reserve(n) == map' = Reserved(map, n) /\ next' = Same /\ UNCHANGED expected
shrink_to_fit == map' = rehash_for_other_container(map, map) /\ next' = Same /\ UNCHANGED expected

clear ==
  /\ map' = Emptied(map, 0, end(map)) /\ expected' = <<>> /\ next' = Same

\* The copy is made with as many buckets as the elements need and filled in the order of
\* the original; the caller goes on with it.
CopyConstruct ==
  /\ map' = Refill(rehash_for_other_container(empty_default_table, map), Iterated(map))
  /\ next' = Same /\ UNCHANGED expected

Next ==
  \/ \E key \in Keys, value \in Values : insert(key, value) \/ insert_or_assign(key, value)
  \/ \E key \in Keys : erase(key)
  \/ \E from \in Positions(map), to \in Positions(map) \cup {end(map)} : EraseRange(from, to)
  \/ \E n \in Requests : Rehash(n) \/ reserve(n)
  \/ shrink_to_fit \/ clear \/ CopyConstruct

Spec == Init /\ [][Next]_mapVars

-----------------------------------------------------------------------------
\* A lookup finds a key exactly when the user put it there, with the user's value; a loop
\* over the table meets each key once; size() is their number.
TableIsItsMapping ==
  /\ \A key \in Keys :
       IF key \in DOMAIN expected
       THEN find(map, key) # end(map) /\ map.entries[find(map, key)].value = expected[key]
       ELSE find(map, key) = end(map)
  /\ {Iterated(map)[i].key : i \in DOMAIN Iterated(map)} = DOMAIN expected
  /\ Len(Iterated(map)) = Cardinality(DOMAIN expected) /\ map.num_elements = Len(Iterated(map))

\* No entry is max_lookups or more away from its cell, so no walk reaches the cell behind
\* the last one, and that one is never taken for an element.
EntriesAreWithinReach ==
  /\ map.entries[end(map)] = EndItem
  /\ \A i \in Positions(map) :
       /\ map.entries[i].distance = i - index_for_hash(map, map.entries[i].key)
       /\ map.entries[i].distance < map.max_lookups

\* A loop that erases as it goes meets every element that is left.
EraseLoopMissesNothing == next.returned = next.due
=============================================================================
