------------------------------ MODULE ProfileFile ------------------------------
(***************************************************************************)
(* The writer of pyki's data files: the buffers of the recorder            *)
(* (recorder.cpp, buffer.hpp), the dictionary of the strings               *)
(* (dictionary.cpp), and a rotation that ends a file with its traces and   *)
(* strings and then patches its header, one field at a time.  The process  *)
(* may die at any step.  What the reader makes of the file is              *)
(* ProfileConverter's.  A slot is written by the thread that has locked    *)
(* it: PykiRecorder has the locks, StackTraceStorage the ids.              *)
(***************************************************************************)
EXTENDS ProfileConverter

CONSTANTS
  Slots,         \* concurrency levels
  BUFFER_SIZE,   \* bytes of a buffer
  MaxNframes,    \* frames of a trace
  Samples,       \* the stacks there are: their native frames and what each eval runs
  Kinds,         \* the kinds of events: [tag, op]
  Sizes,         \* sizes of blocks
  Lengths,       \* sizes of mappings
  Addresses,     \* addresses of blocks
  ROWS, CELLS,   \* of a table of the dictionary
  HashBits,      \* bits of its hash (32 in the code)
  HashOf(_),     \* its hash of a string
  MaxEvents,     \* bound: events recorded
  MaxFiles       \* bound: data files

VARIABLES
  fd,            \* _fd: the file it is, or 0
  files,         \* per file its items and the fields of its header, 0 until patched
  buffer,        \* per slot [offset, items]
  stacks,        \* the traces put since the last rotation; the place is the id
  phase,         \* where rotate_to is: "none", "size", "end_time", "offset" or "switch"
  recorded,      \* history: the events, each with its file, slot and stack
  heap,          \* the byte behind a string of the dictionary is a zero
  peak,          \* history: the most bytes a buffer held
  dead           \* the process is gone

fileVars == <<fd, files, buffer, stacks, phase, recorded, heap, peak, dead>>

-----------------------------------------------------------------------------
(* Numbers.                                                                *)

\* One group of bits at a time, with the continuation bit while more are left.
RECURSIVE Groups(_)
Groups(v) ==
  IF v < 2^GroupBits THEN <<v>> ELSE <<(v % 2^GroupBits) + 2^GroupBits>> \o Groups(v \div 2^GroupBits)

put_var32(v) == Groups(v)

\* Three groups at a time while the rest does not fit into three; after the third time,
\* the byte has the continuation bit whatever is left.
put_var64(v) ==
  LET nine == 2^(9 * GroupBits) IN
  IF v < nine THEN Groups(v)
  ELSE SubSeq(Groups(v), 1, 8)
         \o <<LET rest == v \div 2^(8 * GroupBits) IN (rest % 2^GroupBits) + 2^GroupBits>>

-----------------------------------------------------------------------------
(* The dictionary: a tree of tables of rows of cells.                      *)

ROW_BITS == CHOOSE b \in 0..HashBits : 2^b = ROWS
TABLE_CAPACITY == ROWS * CELLS
Row == [keys |-> <<>>, next |-> 0]
Table(base) == [rows |-> [r \in 0..(ROWS - 1) |-> Row], base_index |-> base]
NewDictionary == <<Table(1 + TABLE_CAPACITY)>>

ByteAt(text, i) == IF i <= Len(text) THEN text[i] ELSE IF i = Len(text) + 1 \/ heap THEN 0 ELSE 1

\* Mutant of keyEquals: a string is found by its beginning.
keyStartsAlike(candidate, key) ==
  \A i \in 1..Len(key) : i <= Len(candidate) => ByteAt(candidate, i) = key[i]

\* strncmp ends at a zero byte, and a zero is looked for where the key ends: the kind does
\* not count, nor what follows a zero.
keyEquals(candidate, key) ==
  /\ \A i \in 1..Len(key) :
       \/ ByteAt(candidate, i) = key[i]
       \/ \E j \in 1..(i - 1) : ByteAt(candidate, j) = 0 /\ key[j] = 0
  /\ ByteAt(candidate, Len(key) + 1) = 0

Found(id, dictionary) == [id |-> id, dictionary |-> dictionary]

\* lookup: the first cell of the row that is free or has the string; a full row leads to a
\* table of its own, where the next bits of the hash count.
CellOf(row, string) ==
  LET c == SelectInSeq(row.keys, LAMBDA key : keyEquals(key.text, string.text))
  IN IF c = 0 THEN Len(row.keys) + 1 ELSE c

WithTable(d, t, r) ==
  Append([d EXCEPT ![t].rows[r].next = Len(d) + 1], Table(d[Len(d)].base_index + TABLE_CAPACITY))

RECURSIVE LookupIn(_, _, _, _)
LookupAt(d, t, r, cell, rotated, string) ==
  LET row == d[t].rows[r]
      index == d[t].base_index + (cell - 1) * ROWS + r
  IN IF cell <= Len(row.keys) THEN Found(index, d)
     ELSE IF cell <= CELLS THEN Found(index, [d EXCEPT ![t].rows[r].keys = Append(@, string)])
     ELSE IF row.next # 0 THEN LookupIn(d, row.next, rotated, string)
     ELSE LookupIn(WithTable(d, t, r), Len(d) + 1, rotated, string)

LookupIn(d, t, h, string) ==
  LookupAt(d, t, h % ROWS, CellOf(d[t].rows[h % ROWS], string),
           (h \div ROWS) + (h % ROWS) * 2^(HashBits - ROW_BITS), string)

lookup(d, string) == LookupIn(d, 1, HashOf(string), string)

\* collect: every string under its index, by index.
collect(d) ==
  LET Cells(t) == {<<r, c>> \in (0..(ROWS - 1)) \X (1..CELLS) : c \in DOMAIN d[t].rows[r].keys}
      All == {[id |-> d[t].base_index + (rc[2] - 1) * ROWS + rc[1],
               kind |-> d[t].rows[rc[1]].keys[rc[2]].kind,
               text |-> d[t].rows[rc[1]].keys[rc[2]].text] :
                <<t, rc>> \in UNION {{t} \X Cells(t) : t \in DOMAIN d}}
  IN SetToSortSeq(All, LAMBDA a, b : a.id < b.id)

-----------------------------------------------------------------------------
(* The stack traces.                                                       *)

Unknown == [text |-> <<117>>, kind |-> 0]     \* <unknown>, a constant of every file
ConstantStrings == <<[id |-> 0, kind |-> 0, text |-> Unknown.text]>>

PythonFrames(stack) == FlattenSeq(stack.groups)

\* One lookup after the other: the ids of the strings, 0 where there is none.
WithId(found, one) == [ids |-> Append(found.ids, one.id), dictionary |-> one.dictionary]
Lookups(d, strings) ==
  FoldLeft(LAMBDA found, s :
             WithId(found, IF s = <<>> THEN Found(0, found.dictionary) ELSE lookup(found.dictionary, s[1])),
           [ids |-> <<>>, dictionary |-> d], strings)

Written(f, line, found) == [file |-> found.ids[1], name |-> found.ids[2], line |-> line]

\* write_python_frame: the flag that an entry frame was written is never taken back.
PythonWritten(w, f, found) ==
  [w EXCEPT !.frames = Append(@, Written(f, f.line, found)), !.python = Tail(@),
            !.entry = @ \/ f.entry, !.dictionary = found.dictionary]
WritePythonFrame(w) ==
  PythonWritten(w, Head(w.python),
                Lookups(w.dictionary, <<<<Head(w.python).file>>, <<Head(w.python).name>>>>))

RECURSIVE WritePythonFrames(_, _)
MorePythonFrames(w, toEntry) == IF toEntry /\ w.entry THEN w ELSE WritePythonFrames(w, toEntry)
WritePythonFrames(w, toEntry) ==
  IF w.python = <<>> THEN w ELSE MorePythonFrames(WritePythonFrame(w), toEntry)

\* A native frame; one of the interpreter loop comes after the Python frames it runs.
NativeWritten(w, f, found) ==
  LET named == [w EXCEPT !.dictionary = found.dictionary]
  IN [(IF f.eval THEN WritePythonFrames(named, TRUE) ELSE named)
      EXCEPT !.frames = Append(@, Written(f, 0, found))]
WriteNativeFrame(w, f) == NativeWritten(w, f, Lookups(w.dictionary, <<f.library, f.name>>))

WriteTrace(d, stack) ==
  LET start == [frames |-> <<>>, python |-> PythonFrames(stack), entry |-> FALSE, dictionary |-> d]
  IN WritePythonFrames(FoldLeft(WriteNativeFrame, start, stack.native), FALSE)

-----------------------------------------------------------------------------
(* The buffers.                                                            *)

NoBuffer == [offset |-> 0, items |-> <<>>]
NewFile == [items |-> <<>>, size |-> 0, end_time |-> 0, constant_pool_offset |-> 0]

InitWith(zero) ==
  /\ fd = 1 /\ files = [f \in 1..MaxFiles |-> NewFile] /\ buffer = [s \in Slots |-> NoBuffer]
  /\ stacks = <<>> /\ phase = "none" /\ recorded = <<>>
  /\ heap = zero /\ peak = 0 /\ dead = FALSE

Init == \E zero \in BOOLEAN : InitWith(zero)

\* flush without a file drops the bytes.
flush(file, b) == IF fd = 0 THEN file ELSE [file EXCEPT !.items = @ \o b.items]

\* flush_if_needed and what is put after it.
Put(w, required, item, bytes) ==
  LET full == w.buffer.offset + required > BUFFER_SIZE
      b == IF full THEN NoBuffer ELSE w.buffer
  IN [file |-> IF full THEN flush(w.file, w.buffer) ELSE w.file,
      buffer |-> [offset |-> b.offset + bytes, items |-> Append(b.items, item)],
      peak |-> IF b.offset + bytes > w.peak THEN b.offset + bytes ELSE w.peak]

Required(tag) == CASE tag = "cpu" -> 11 [] tag = "allocation" -> 20 [] OTHER -> 30
Bytes(item) ==
  1 + 1 + Len(item.trace)
    + (IF item.tag = "cpu" THEN 0 ELSE Len(item.size)) + (IF item.tag = "malloc" THEN 2 ELSE 0)

Releases == {"free", "munmap"}

\* record_cpu_event, record_malloc_event, record_native_malloc_event and _free_event.
\* A release carries no trace.  The number of the event is for the properties only.
Record(slot, sample, kind, number, address) ==
  LET known == \E i \in DOMAIN stacks : stacks[i] = sample
      id == IF kind.op \in Releases THEN 0
            ELSE IF known THEN CHOOSE i \in DOMAIN stacks : stacks[i] = sample ELSE Len(stacks) + 1
      item == [n |-> Len(recorded) + 1, tag |-> kind.tag, op |-> kind.op, address |-> address,
               trace |-> put_var32(id), size |-> put_var64(number)]
      w == Put([file |-> files[fd], buffer |-> buffer[slot], peak |-> peak],
               Required(kind.tag), item, Bytes(item))
  IN /\ ~dead /\ phase = "none" /\ fd # 0 /\ Len(recorded) < MaxEvents
     /\ stacks' = IF id > Len(stacks) THEN Append(stacks, sample) ELSE stacks
     /\ files' = [files EXCEPT ![fd] = w.file] /\ buffer' = [buffer EXCEPT ![slot] = w.buffer]
     /\ peak' = w.peak
     /\ recorded' = Append(recorded, [file |-> fd, slot |-> slot, tag |-> kind.tag, op |-> kind.op,
                                      address |-> address, size |-> number, sample |-> sample])
     /\ UNCHANGED <<fd, phase, heap, dead>>

-----------------------------------------------------------------------------
(* The rotation, under all locks.                                          *)

Nframes(stack) == Len(stack.native) + Len(PythonFrames(stack))

\* write_stack_traces: the traces with the dictionary they are written with.
WithTrace(w, id, one) ==
  [entries |-> Append(w.entries, [id |-> id, frames |-> one.frames]), dictionary |-> one.dictionary]
AllTraces ==
  FoldLeft(LAMBDA w, i : WithTrace(w, i, WriteTrace(w.dictionary, stacks[i])),
           [entries |-> <<>>, dictionary |-> NewDictionary], [i \in DOMAIN stacks |-> i])

\* Widths are those of the largest ids.
TracePeak == LET sizes == {10 + 15 * Nframes(stacks[i]) : i \in DOMAIN stacks} \cup {peak}
             IN CHOOSE m \in sizes : \A n \in sizes : n <= m

\* flush_all_buffers, write_stack_traces and write_strings, and the tables cleared.
PoolsOf(traces) ==
  <<[tag |-> "traces", entries |-> traces.entries],
    [tag |-> "strings", entries |-> ConstantStrings \o collect(traces.dictionary)]>>
rotate_to ==
  LET Flushed == FoldLeft(LAMBDA f, s : flush(f, buffer[s]), files[fd], SetToSeq(Slots))
  IN /\ ~dead /\ phase = "none" /\ fd # 0
     /\ files' = [files EXCEPT ![fd] = [Flushed EXCEPT !.items = @ \o PoolsOf(AllTraces)]]
     /\ buffer' = [s \in Slots |-> NoBuffer] /\ phase' = "size" /\ stacks' = <<>>
     /\ peak' = TracePeak
     /\ UNCHANGED <<fd, recorded, heap, dead>>

\* patch_header: three writes in place.
patch_header ==
  LET n == Len(files[fd].items)
      pool == CHOOSE i \in 1..n : /\ files[fd].items[i].tag = "traces"
                                  /\ \A j \in 1..(i - 1) : files[fd].items[j].tag # "traces"
  IN /\ ~dead
     /\ \/ phase = "size" /\ phase' = "end_time" /\ files' = [files EXCEPT ![fd].size = n]
        \/ phase = "end_time" /\ phase' = "offset" /\ files' = [files EXCEPT ![fd].end_time = 1]
        \/ /\ phase = "offset" /\ phase' = "switch"
           /\ files' = [files EXCEPT ![fd].constant_pool_offset = pool]
     /\ UNCHANGED <<fd, buffer, stacks, recorded, heap, peak, dead>>

\* The next file, or none when the collectors were stopped.
SwitchFile(next) ==
  /\ ~dead /\ phase = "switch" /\ next \in {0, fd + 1} /\ next <= MaxFiles
  /\ fd' = next /\ phase' = "none"
  /\ UNCHANGED <<files, buffer, stacks, recorded, heap, peak, dead>>

Crash == ~dead /\ dead' = TRUE /\ UNCHANGED <<fd, files, buffer, stacks, phase, recorded, heap, peak>>

Next ==
  \/ \E slot \in Slots, sample \in Samples, kind \in Kinds :
       \E number \in IF kind.op \in {"mmap", "munmap"} THEN Lengths
                    ELSE IF kind.op \in {"none", "free"} THEN {0} ELSE Sizes,
          address \in IF kind.tag = "malloc" THEN Addresses ELSE {0} :
         Record(slot, sample, kind, number, address)
  \/ rotate_to \/ patch_header \/ Crash
  \/ \E next \in 0..MaxFiles : SwitchFile(next)

Spec == Init /\ [][Next]_fileVars

-----------------------------------------------------------------------------
Of(f) == {n \in DOMAIN recorded : recorded[n].file = f}
StackOf(n) == recorded[n].sample

PythonStrings(stack) == UNION {{f.file, f.name} : f \in ToSet(PythonFrames(stack))}
NativeStrings(stack) == UNION {ToSet(f.library) \cup ToSet(f.name) : f \in ToSet(stack.native)}
Strings(f) == UNION {PythonStrings(StackOf(n)) \cup NativeStrings(StackOf(n)) : n \in Of(f)}

\* What the dictionary takes for one string: what is the same up to a zero.
UpToZero(text) ==
  LET ends == {i \in DOMAIN text : text[i] = 0} \cup {Len(text) + 1}
  IN SubSeq(text, 1, (CHOOSE i \in ends : \A j \in ends : i <= j) - 1)
LookAlikes(f, string) == {other \in Strings(f) : UpToZero(other.text) = UpToZero(string.text)}

\* A file is read back only when its rotation came to the end, whenever the process died,
\* and, if all its strings decode, then always; what is read are the events recorded in it,
\* each once and those of a slot in their order.  No buffer overflows.
FilesAreWhole ==
  /\ peak <= BUFFER_SIZE
  /\ \A f \in 1..MaxFiles :
       LET p == parse(files[f])
           Same(e) == LET r == recorded[e.n] IN
             <<r.tag, r.op, r.address, r.size>> = <<e.tag, e.op, e.address, e.size>>
       IN IF p.failed
          THEN files[f].end_time = 0 \/ (f = fd /\ phase = "offset") \/ \E s \in Strings(f) : ~Decodes(s)
          ELSE /\ {p.events[i].n : i \in DOMAIN p.events} = Of(f)
               /\ Len(p.events) = Cardinality(Of(f))
               /\ \A i \in DOMAIN p.events : Same(p.events[i])
               /\ \A i, j \in DOMAIN p.events :
                    i < j /\ recorded[p.events[i].n].slot = recorded[p.events[j].n].slot
                      => p.events[i].n < p.events[j].n

Lines(frames) == [i \in DOMAIN frames |-> frames[i].line]
NativeName(f) == IF f.name = <<>> THEN Unknown ELSE f.name[1]

\* Each native frame of the interpreter loop stands after the frames it runs.
RECURSIVE Interleaved(_, _)
Interleaved(native, groups) ==
  IF native = <<>> THEN Lines(FlattenSeq(groups))
  ELSE IF Head(native).eval /\ groups # <<>>
       THEN Lines(Head(groups)) \o <<0>> \o Interleaved(Tail(native), Tail(groups))
       ELSE <<0>> \o Interleaved(Tail(native), groups)

\* The stack of an event: the Python frames and the native ones are all there, each in
\* their order; where no interpreter loop but the first runs more than one frame, each
\* frame stands with the loop that runs it.  A name is its own text, or that of a string
\* of the same file that is the same up to a zero.
FramesAreTheStack ==
  \A f \in 1..MaxFiles :
    LET p == parse(files[f]) IN
    ~p.failed => \A i \in DOMAIN p.events :
      LET e == p.events[i]
          stack == StackOf(e.n)
          frames == p.traces[e.trace]
          python == SelectSeq(frames, LAMBDA x : x.line # 0)
          native == SelectSeq(frames, LAMBDA x : x.line = 0)
          own == PythonFrames(stack)
      IN e.op \notin Releases =>
           /\ Lines(python) = Lines(own) /\ Len(native) = Len(stack.native)
           /\ (\A g \in 2..Len(stack.groups) : Len(stack.groups[g]) = 1)
                => Lines(frames) = Interleaved(stack.native, stack.groups)
           /\ \A k \in DOMAIN own : /\ python[k].file \in LookAlikes(f, own[k].file)
                                   /\ python[k].name \in LookAlikes(f, own[k].name)
           /\ \A k \in DOMAIN native : LET name == NativeName(stack.native[k]) IN
                native[k].name \in {Unknown} \cup LookAlikes(f, name) /\ (name = Unknown => native[k].name = Unknown)

Count(events, id) == Cardinality({i \in DOMAIN events : events[i].trace = id})
Total(events, id) ==
  FoldLeft(LAMBDA sum, e : IF e.trace = id THEN sum + e.size ELSE sum, 0, events)

\* The profiles add up what was recorded, per trace: the native one only where the file
\* has no other events, whose values it starts from.
ProfilesAddUp ==
  \A f \in 1..MaxFiles :
    LET c == do_convert_to_pprof(files[f], FALSE)
        events == parse(files[f]).events
        cpu == Tagged(events, "cpu")
        allocation == Tagged(events, "allocation")
        native == Tagged(events, "malloc")
        Is(profile, of, id) == profile[id] = [count |-> Count(of, id), amount |-> Total(of, id)]
    IN ~c.failed => \A id \in DOMAIN c.traces :
         /\ cpu # <<>> => c.cpu[id] = [count |-> Count(cpu, id), amount |-> 10 * Count(cpu, id)]
         /\ allocation # <<>> => Is(c.allocation, allocation, id)
         /\ native # <<>> /\ cpu = <<>> /\ allocation = <<>> => Is(c.native, native, id)

\* What is allocated in a file and not released in it: a block until its address is used
\* again, a mapping byte by byte.
Reused(n) == \E m \in Of(recorded[n].file) :
  m > n /\ recorded[m].address = recorded[n].address /\ recorded[m].op \in {"malloc", "free"}
Mapped(n) ==
  LET Covers(m) == recorded[m].address..(recorded[m].address + recorded[m].size - 1)
  IN Covers(n) \ UNION {Covers(m) : m \in {k \in Of(recorded[n].file) : k > n /\ recorded[k].op = "munmap"}}

\* With all events from one slot, the leaks are the blocks and the parts of mappings that
\* were not released, each part once.
LeaksAreFound ==
  \A f \in 1..MaxFiles :
    LET p == parse(files[f])
        found == find_leaks(Tagged(p.events, "malloc"))
        Pieces(n) == {i \in DOMAIN found.tree : found.tree[i].event.n = n}
        Kept(n) == UNION {found.tree[i].begin..(found.tree[i].end - 1) : i \in Pieces(n)}
    IN ~p.failed /\ Cardinality({recorded[n].slot : n \in Of(f)}) <= 1 =>
         /\ {e.n : e \in found.map} = {n \in Of(f) : recorded[n].op = "malloc" /\ ~Reused(n)}
         /\ \A n \in Of(f) : recorded[n].op = "mmap" => Kept(n) = Mapped(n)
         /\ \A i, j \in DOMAIN found.tree :
              i # j /\ found.tree[i].event.n = found.tree[j].event.n =>
                found.tree[i].end < found.tree[j].begin \/ found.tree[j].end < found.tree[i].begin
=============================================================================
