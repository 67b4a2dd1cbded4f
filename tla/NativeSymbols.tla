----------------------------- MODULE NativeSymbols -----------------------------
(***************************************************************************)
(* pyki's knowledge of native code: Symbols::parseLibraries and ElfParser  *)
(* (symbol.cpp), the CodeCache of each library (codeCache.cpp) and the     *)
(* lookup by address the stack walker makes (stack_trace.cpp), next to     *)
(* threads that load and unload libraries meanwhile.  A library occupies a *)
(* slot of Span addresses, its ELF header first and its text after it, the *)
(* stubs of its PLT at the end.  An ELF image is what the parser takes     *)
(* from it: the virtual address it was linked for, its tables of symbols,  *)
(* where else symbols of it may lie, and what its PLT calls.               *)
(***************************************************************************)
EXTENDS Integers, Sequences, SequencesExt, FiniteSets

CONSTANTS
  Libs,        \* shared libraries; the executable "main" is not among them
  Slots,       \* bound: where libraries are mapped; "main" has slot 0
  Tables,      \* symbol tables the studied library may have, besides Own
  Studied,     \* the library whose tables vary
  MaxMoves     \* bound: loads and unloads

VARIABLES
  maps,        \* per slot the library mapped there
  users,       \* per library the dlopen count the program holds
  files,       \* per library its p_vaddr, symtab, dynamic symbols, debug files and PLT
  parse,       \* the parse: stage, libraries left, the one at hand, its cache, the handle
  caches,      \* _native_libs
  touched,     \* history: slots whose mapping changed after /proc/self/maps was read
  moves        \* history: number of loads and unloads

symbolVars == <<maps, users, files, parse, caches, touched, moves>>

Main == "main"
Free == "free"
Absent == <<[start |-> 0, end |-> 0, name |-> "absent"]>>     \* no such section or file
Span == 6
PltStart == 5
Base(s) == Span * s
NoCache == [lib |-> Free, base |-> 0, blobs |-> <<>>, debug |-> FALSE, dwarf |-> FALSE]

\* Where symbols are looked for when the library has no .symtab, in order.
Places == <<"build-id", "debuginfod", "beside", ".debug", "/usr/lib/debug">>

Own == <<[start |-> 3, end |-> 4, name |-> "g"], [start |-> 1, end |-> 3, name |-> "f"]>>

\* The studied library has the given table as its .symtab, as its dynamic symbols only, or
\* in the debug file at the given place, where an empty file may come before it.
InitWith(table, kind, at, empty) ==
  /\ maps = [s \in Slots \cup {0} |-> IF s = 0 THEN Main ELSE Free]
  /\ users = [l \in Libs |-> 0]
  /\ files = [l \in Libs \cup {Main} |->
       IF l # Studied
       THEN [vaddr |-> 0, symtab |-> IF l = Main THEN Own ELSE Absent, dynsym |-> Own,
             debug |-> [i \in 1..Len(Places) |-> Absent], plt |-> <<>>]
       ELSE [vaddr |-> 2, plt |-> <<"h@plt">>, symtab |-> IF kind = "symtab" THEN table ELSE Absent,
             dynsym |-> IF kind = "dynamic" THEN table ELSE SubSeq(Own, 1, 1),
             debug |-> [i \in 1..Len(Places) |->
               IF kind # "debug" \/ i < at THEN Absent
               ELSE IF empty /\ i = at THEN <<>> ELSE table]]]
  /\ parse = [stage |-> "idle", left |-> {}, cc |-> NoCache, held |-> FALSE]
  /\ caches = <<>> /\ touched = {} /\ moves = 0

Init ==
  \E table \in Tables \cup {Own}, kind \in {"symtab", "dynamic", "debug"}, at \in 1..Len(Places), empty \in BOOLEAN :
    /\ IF kind = "debug" THEN table = Own ELSE at = 1 /\ ~empty
    /\ InitWith(table, kind, at, empty)

-----------------------------------------------------------------------------
(* One library's symbols.                                                  *)

\* CodeBlob::comparator: by start, the larger first.
Sorted(blobs) ==
  SortSeq(blobs, LAMBDA x, y : x.start < y.start \/ (x.start = y.start /\ x.end > y.end))

\* A value in the image, for what the source has linked at an offset.
Linked(f, offset) == f.vaddr + offset

\* The difference between where the first segment is and what it was linked for.
calcVirtualLoadAddress(cc, f) == cc.base - f.vaddr

\* CodeCache::add, for what the image says of start and end.
Added(cc, f, start, end, name) ==
  LET base == calcVirtualLoadAddress(cc, f) IN
  [cc EXCEPT !.blobs = Append(@, [start |-> base + start, end |-> base + end, name |-> name])]

loadSymbolTable(cc, f, table) ==
  FoldLeft(LAMBDA c, b : Added(c, f, Linked(f, b.start), Linked(f, b.end), b.name), cc, table)

\* addRelocationSymbols: one stub after the other, each named after what it calls.
addRelocationSymbols(cc, f) ==
  FoldLeft(LAMBDA c, i : Added(c, f, Linked(f, PltStart + i - 1), Linked(f, PltStart + i),
                               f.plt[i]),
           cc, [i \in 1..Len(f.plt) |-> i])

\* loadSymbols: .symtab, else the first debug file that can be opened, whatever it holds;
\* in any case the stubs.
LoadSymbols(cc, f) ==
  LET found == {i \in 1..Len(Places) : f.debug[i] # Absent}
      first == CHOOSE i \in found : \A j \in found : i <= j
      named == CASE f.symtab # Absent -> [loadSymbolTable(cc, f, f.symtab) EXCEPT !.debug = TRUE]
                 [] f.symtab = Absent /\ found # {} ->
                      [loadSymbolTable(cc, f, f.debug[first]) EXCEPT !.debug = (f.debug[first] # <<>>)]
                 [] OTHER -> cc
  IN addRelocationSymbols(named, f)

\* parseDynamicSection and parseDwarfInfo, from the mapped image.
ReadHeaders(cc, f) ==
  [(IF cc.debug THEN cc ELSE loadSymbolTable(cc, f, f.dynsym)) EXCEPT !.dwarf = TRUE]

\* The symbol an address lies in; failing that the one before it, if it has no size or
\* ends there; failing that the library.
BinarySearch(cc, address) ==
  LET b == cc.blobs
      find[low \in 1..(Len(b) + 1), high \in 0..Len(b)] ==
        LET mid == (low + high) \div 2 IN
        CASE low > high -> IF low > 1 /\ (b[low - 1].start = b[low - 1].end \/ b[low - 1].end = address)
                           THEN b[low - 1].name ELSE cc.lib
          [] low <= high /\ b[mid].end <= address -> find[mid + 1, high]
          [] low <= high /\ b[mid].end > address /\ b[mid].start > address -> find[low, mid - 1]
          [] OTHER -> b[mid].name
  IN find[1, Len(b)]

\* findLibraryByAddress: the first cache whose text contains the address.
Containing(address) ==
  {i \in DOMAIN caches : address > caches[i].base /\ address < caches[i].base + Span}

FindNativeMethod(address) ==
  LET is == Containing(address) IN
  IF is = {} THEN [lib |-> Free, name |-> Free]
  ELSE LET cc == caches[CHOOSE i \in is : \A j \in is : i <= j]
       IN [lib |-> cc.lib, name |-> BinarySearch(cc, address)]

-----------------------------------------------------------------------------
(* parseLibraries.                                                         *)

\* A MemoryMapDesc: the library that is mapped in a slot.
Mapping(s) == [lib |-> maps[s], slot |-> s]

\* collectSharedLibraries.
Collect ==
  /\ parse.stage = "idle"
  /\ parse' = [parse EXCEPT !.stage = "next",
                            !.left = {Mapping(s) : s \in {s \in DOMAIN maps : maps[s] # Free}}]
  /\ UNCHANGED <<maps, users, files, caches, touched, moves>>

\* The libraries come in the order of a hash table; the file is read, not the memory.
ParseFile ==
  /\ parse.stage = "next"
  /\ \E m \in parse.left :
       parse' = [parse EXCEPT !.stage = "file", !.left = @ \ {m},
                   !.cc = LoadSymbols([NoCache EXCEPT !.lib = m.lib, !.base = Base(m.slot)], files[m.lib])]
  /\ UNCHANGED <<maps, users, files, caches, touched, moves>>

Mapped(l) == \E s \in DOMAIN maps : maps[s] = l

\* Mutant of Protect: the handle is taken without asking where the library is now.
ProtectAnywhere ==
  /\ parse.stage = "file"
  /\ LET known == parse.cc.lib = Main \/ Mapped(parse.cc.lib) IN
     parse' = [parse EXCEPT !.stage = IF known THEN "headers" ELSE "sort",
                            !.held = (parse.cc.lib # Main /\ Mapped(parse.cc.lib))]
  /\ UNCHANGED <<maps, users, files, caches, touched, moves>>

\* UnloadProtection: dlopen finds a library that is still loaded, and it must be where
\* it was; the executable cannot go away.
Protect ==
  /\ parse.stage = "file"
  /\ LET l == parse.cc.lib
         there == \E s \in DOMAIN maps : maps[s] = l /\ Base(s) = parse.cc.base
     IN parse' = [parse EXCEPT !.stage = IF l = Main \/ there THEN "headers" ELSE "sort",
                               !.held = (l # Main /\ Mapped(l))]
  /\ UNCHANGED <<maps, users, files, caches, touched, moves>>

ParseHeaders ==
  /\ parse.stage = "headers"
  /\ parse' = [parse EXCEPT !.stage = "sort", !.cc = ReadHeaders(@, files[parse.cc.lib])]
  /\ UNCHANGED <<maps, users, files, caches, touched, moves>>

Unmapped(l) == [s \in DOMAIN maps |-> IF maps[s] = l THEN Free ELSE maps[s]]
SlotsOf(l) == {s \in DOMAIN maps : maps[s] = l}

\* The handle is closed, which unloads a library nobody else has open any more; the
\* cache is sorted and published.
AddCache ==
  /\ parse.stage = "sort"
  /\ LET l == parse.cc.lib
         gone == parse.held /\ users[l] = 0
     IN /\ maps' = IF gone THEN Unmapped(l) ELSE maps
        /\ touched' = IF gone THEN touched \cup SlotsOf(l) ELSE touched
  /\ caches' = Append(caches, [parse.cc EXCEPT !.blobs = Sorted(@)])
  /\ parse' = [parse EXCEPT !.stage = IF parse.left = {} THEN "done" ELSE "next",
                            !.cc = NoCache, !.held = FALSE]
  /\ UNCHANGED <<users, files, moves>>

-----------------------------------------------------------------------------
(* The program.                                                            *)

Load(l, s) ==
  /\ moves < MaxMoves /\ users[l] = 0 /\ moves' = moves + 1
  /\ users' = [users EXCEPT ![l] = 1]
  /\ IF Mapped(l) THEN UNCHANGED <<maps, touched>>
     ELSE /\ maps[s] = Free /\ maps' = [maps EXCEPT ![s] = l]
          /\ touched' = IF parse.stage = "idle" THEN touched ELSE touched \cup {s}
  /\ UNCHANGED <<files, parse, caches>>

Unload(l) ==
  /\ moves < MaxMoves /\ users[l] = 1 /\ moves' = moves + 1
  /\ users' = [users EXCEPT ![l] = 0]
  /\ IF parse.held /\ parse.cc.lib = l THEN UNCHANGED <<maps, touched>>
     ELSE /\ maps' = Unmapped(l)
          /\ touched' = IF parse.stage = "idle" THEN touched ELSE touched \cup SlotsOf(l)
  /\ UNCHANGED <<files, parse, caches>>

Next ==
  \/ Collect \/ ParseFile \/ Protect \/ ParseHeaders \/ AddCache
  \/ \E l \in Libs : Unload(l) \/ \E s \in Slots : Load(l, s)

Spec == Init /\ [][Next]_symbolVars

-----------------------------------------------------------------------------

\* The image whose headers are being read is mapped where it is read: no thread can
\* unload it, or have moved it, since its address was taken from /proc/self/maps.
HeadersAreMapped ==
  parse.stage = "headers" => \E s \in DOMAIN maps : maps[s] = parse.cc.lib /\ Base(s) = parse.cc.base

\* The best symbols there are for a library, at their offsets, and its stubs.
Best(l) ==
  LET f == files[l]
      found == {i \in 1..Len(Places) : f.debug[i] # Absent}
      first == CHOOSE i \in found : \A j \in found : i <= j
  IN ToSet(CASE f.symtab # Absent -> f.symtab
             [] f.symtab = Absent /\ found # {} /\ f.debug[first] # <<>> -> f.debug[first]
             [] OTHER -> f.dynsym)
       \cup {[start |-> PltStart + i - 1, end |-> PltStart + i, name |-> f.plt[i]] : i \in DOMAIN f.plt}

\* An address in a library that stayed where it was is named after a symbol of that
\* library that contains it, when there is one; otherwise after the closest symbol
\* before it or after the library.
NamesAreOwn ==
  \A i \in DOMAIN caches : \A s \in DOMAIN maps \ touched :
    maps[s] = caches[i].lib =>
      \A a \in 1..(Span - 1) :
        LET found == FindNativeMethod(Base(s) + a)
            table == Best(maps[s])
            around == {b \in table : b.start <= a /\ a < b.end}
            before == {b \in table : b.end <= a /\ \A c \in table : c.end <= a => c.start <= b.start}
        IN /\ found.lib = maps[s]
           /\ IF around # {} THEN \E b \in around : found.name = b.name
              ELSE found.name = maps[s] \/ \E b \in before : found.name = b.name
===============================================================================
