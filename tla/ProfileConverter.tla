--------------------------- MODULE ProfileConverter ---------------------------
(***************************************************************************)
(* The reader of pyki's data files, profile_converter.rs: it parses the    *)
(* events and the two constant pools of a file, resolves traces to names,  *)
(* adds the events of each collector up per trace, and, when leaks are     *)
(* asked for, keeps what was allocated and not released.  Offsets count    *)
(* items instead of bytes; numbers are the bytes that the writer made.     *)
(***************************************************************************)
EXTENDS Integers, Sequences, SequencesExt, FiniteSets

CONSTANT GroupBits     \* bits of a number in a byte of its encoding (7 in the code)

Err == [failed |-> TRUE]

-----------------------------------------------------------------------------
(* Numbers.                                                                *)

More(byte) == byte >= 2^GroupBits

\* The bytes of a number: up to the first without the continuation bit, at most count.
ReadBytes(bytes, count) ==
  LET n == CHOOSE i \in 1..count : /\ i = count \/ ~More(bytes[i])
                                   /\ \A j \in 1..(i - 1) : More(bytes[j])
  IN SubSeq(bytes, 1, n)

\* All but the last of the count bytes give their low bits, that one gives all.
ReadVar(bytes, count) ==
  LET read == ReadBytes(bytes, count)
      Bits(i) == IF i < count THEN read[i] % 2^GroupBits ELSE read[i]
  IN FoldLeft(LAMBDA sum, i : sum + Bits(i) * 2^(GroupBits * (i - 1)), 0, [i \in DOMAIN read |-> i])

read_var_uint32(bytes) == ReadVar(bytes, 5)
read_var_uint64(bytes) == ReadVar(bytes, 9)

-----------------------------------------------------------------------------
(* The file.                                                               *)

Broken == 255          \* no UTF-8, or half of a surrogate pair

\* A string that does not decode fails the whole file; one byte per character always does.
Decodes(string) == string.kind # 1 => \A i \in DOMAIN string.text : string.text[i] # Broken

Events(file) == SubSeq(file.items, 1, file.constant_pool_offset - 1)
Pools(file) == SubSeq(file.items, file.constant_pool_offset, Len(file.items))
PoolOf(file, tag) ==
  LET all == SelectSeq(Pools(file), LAMBDA p : p.tag = tag)
  IN FlattenSeq([i \in DOMAIN all |-> all[i].entries])

\* Parser::parse: an offset of 0, before the first item, was never patched.  An id without
\* a string shows as no text.
parse(file) ==
  LET strings == PoolOf(file, "strings")
      traces == PoolOf(file, "traces")
      Text(id) == IF \E i \in DOMAIN strings : strings[i].id = id
                  THEN LET s == strings[CHOOSE i \in DOMAIN strings : strings[i].id = id]
                       IN [text |-> s.text, kind |-> s.kind]
                  ELSE [text |-> <<>>, kind |-> 0]
      Shown(f) == [file |-> Text(f.file), name |-> Text(f.name), line |-> f.line]
  IN IF file.constant_pool_offset = 0 \/ \E i \in DOMAIN strings : ~Decodes(strings[i])
     THEN Err
     ELSE [failed |-> FALSE,
           traces |-> [id \in {traces[i].id : i \in DOMAIN traces} |->
                         LET t == traces[CHOOSE i \in DOMAIN traces : traces[i].id = id]
                         IN [j \in DOMAIN t.frames |-> Shown(t.frames[j])]],
           events |-> [i \in DOMAIN Events(file) |->
                         LET e == Events(file)[i] IN
                         [e EXCEPT !.trace = read_var_uint32(@), !.size = read_var_uint64(@)]]]

-----------------------------------------------------------------------------
(* Leaks.                                                                  *)

Interval(begin, end, event) == [begin |-> begin, end |-> end, event |-> event]
size(i) == i.end - i.begin

\* remove_interval: nothing, the end, the start or both sides of an interval are left.
Left(i, begin, end) ==
  LET b == IF i.begin > begin THEN i.begin ELSE begin
      e == IF i.end < end THEN i.end ELSE end
  IN IF b >= e THEN <<i>>
     ELSE (IF i.begin < b THEN <<Interval(i.begin, b, i.event)>> ELSE <<>>)
            \o (IF e < i.end THEN <<Interval(e, i.end, i.event)>> ELSE <<>>)

\* Mutant of remove_interval: an interval whose end is removed is kept.
KeepsCutStart(tree, begin, end) ==
  FlattenSeq([i \in DOMAIN tree |->
                IF tree[i].begin < begin /\ tree[i].end <= end THEN <<tree[i]>>
                ELSE Left(tree[i], begin, end)])

remove_interval(tree, begin, end) ==
  FlattenSeq([i \in DOMAIN tree |-> Left(tree[i], begin, end)])

\* find_leaks: blocks by address, mappings by range, in the order of the file.
find_leaks(events) ==
  LET Step(state, e) ==
        CASE e.op = "malloc" ->
               [state EXCEPT !.map = {x \in @ : x.address # e.address} \cup {e}]
          [] e.op = "free" -> [state EXCEPT !.map = {x \in @ : x.address # e.address}]
          [] e.op = "mmap" ->
               [state EXCEPT !.tree = IF e.size = 0 THEN @
                                      ELSE Append(@, Interval(e.address, e.address + e.size, e))]
          [] OTHER -> [state EXCEPT !.tree = remove_interval(@, e.address, e.address + e.size)]
  IN FoldLeft(Step, [map |-> {}, tree |-> <<>>], events)

\* merge_events: what is left of a mapping is taken off its size.
merge_events(found) ==
  [i \in DOMAIN found.tree |-> [found.tree[i].event EXCEPT !.size = @ - size(found.tree[i])]]
    \o SetToSeq(found.map)

-----------------------------------------------------------------------------
(* The profiles.                                                           *)

Tagged(events, tag) == SelectSeq(events, LAMBDA e : e.tag = tag)

\* The values of a trace: how many events and how much.
Added(values, events) ==
  [id \in DOMAIN values |->
     LET mine == SelectSeq(events, LAMBDA e : e.trace = id) IN
     [count |-> values[id].count + Len(mine),
      amount |-> FoldLeft(LAMBDA sum, e : sum + e.size, values[id].amount, mine)]]

NoOutput == <<>>

\* do_convert_to_pprof: one set of values for all three profiles, cleared between the
\* first two when there are allocations.
Profiles(traces, cpu, allocation, native) ==
  LET zero == [id \in DOMAIN traces |-> [count |-> 0, amount |-> 0]]
      afterCpu == Added(zero, [i \in DOMAIN cpu |-> [cpu[i] EXCEPT !.size = 10]])
      afterAllocation == IF allocation = <<>> THEN afterCpu ELSE Added(zero, allocation)
  IN [failed |-> FALSE, traces |-> traces,
      cpu |-> IF cpu = <<>> THEN NoOutput ELSE afterCpu,
      allocation |-> IF allocation = <<>> THEN NoOutput ELSE afterAllocation,
      native |-> IF native = <<>> THEN NoOutput ELSE Added(afterAllocation, native)]

Converted(parsed, leaks) ==
  IF parsed.failed THEN Err
  ELSE Profiles(parsed.traces, Tagged(parsed.events, "cpu"), Tagged(parsed.events, "allocation"),
                IF leaks THEN merge_events(find_leaks(Tagged(parsed.events, "malloc")))
                ELSE Tagged(parsed.events, "malloc"))

do_convert_to_pprof(file, leaks) == Converted(parse(file), leaks)
=============================================================================
