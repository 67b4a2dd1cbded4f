-------------------------- MODULE StackTraceStorage --------------------------
(***************************************************************************)
(* pyki's lock-free table of stack traces (stack_trace_storage.cpp).       *)
(* Threads put traces from allocator hooks and from SIGPROF handlers; a    *)
(* table that fills up gets a successor of twice the capacity, and the     *)
(* traces of the old one migrate when they are seen again.  One action is  *)
(* one access to memory that another thread may change.  A trace is its    *)
(* hash: the code compares nothing else.                                   *)
(***************************************************************************)
EXTENDS Integers, FiniteSets

CONSTANTS
  Putters,        \* threads inside a critical section
  Hashes,         \* the hashes of the traces they see; none is 0
  InitialCapacity,\* INITIAL_CAPACITY, a power of two
  MaxTables,      \* bound: tables that can be mapped; safe_alloc fails beyond
  MaxPuts,        \* bound: calls of put per thread between two clears
  MaxFaults       \* bound: faults while a trace is copied

Tables == 1..MaxTables
Capacity(tb) == InitialCapacity * 2^(tb - 1)
Slots(tb) == 0..(Capacity(tb) - 1)
Free == 0               \* a key nobody claimed
NoTrace == 0            \* an entry without a trace
OverflowId == -1

VARIABLES
  current,        \* _current_table; its _prev chain is the tables below it
  keys, values,   \* of each table
  used,           \* _size of each table
  overflow,       \* _overflow > 0
  pc,             \* where each thread is in put
  hash, table, slot, step, trace,   \* its locals
  returned,       \* history: [id, hash] of every put since the last clear
  torn,           \* history: <<table, slot>> claimed by a thread that faulted, or
                  \* left empty because memory was out
  puts, faults    \* history: counters for the bounds

tableVars == <<current, keys, values, used, overflow>>
putVars == <<hash, table, slot, step, trace>>
storageVars == <<current, keys, values, used, overflow, pc, hash, table, slot, step, trace,
                 returned, torn, puts, faults>>

EmptyTable(tb, v) == [s \in Slots(tb) |-> v]

Init ==
  /\ current = 1 /\ overflow = FALSE
  /\ keys = [tb \in Tables |-> EmptyTable(tb, Free)]
  /\ values = [tb \in Tables |-> EmptyTable(tb, NoTrace)]
  /\ used = [tb \in Tables |-> 0]
  /\ pc = [p \in Putters |-> "out"]
  /\ hash = [p \in Putters |-> Free] /\ trace = [p \in Putters |-> NoTrace]
  /\ table = [p \in Putters |-> 1]
  /\ slot = [p \in Putters |-> 0] /\ step = [p \in Putters |-> 0]
  /\ returned = {} /\ torn = {}
  /\ puts = [p \in Putters |-> 0] /\ faults = 0

Goes(p, from, to) == pc[p] = from /\ pc' = [pc EXCEPT ![p] = to]

\* The ids of the tables follow each other without a gap.
IdOf(tb, s) == Capacity(tb) - (InitialCapacity - 1) + s

\* put: the table it reads now is the one it uses, whatever replaces it.
Put(p, h) ==
  /\ Goes(p, "out", "probe") /\ puts[p] < MaxPuts
  /\ puts' = [puts EXCEPT ![p] = @ + 1]
  /\ hash' = [hash EXCEPT ![p] = h]
  /\ table' = [table EXCEPT ![p] = current]
  /\ slot' = [slot EXCEPT ![p] = h % Capacity(current)]
  /\ step' = [step EXCEPT ![p] = 0]
  /\ UNCHANGED <<trace, returned, torn, faults>> /\ UNCHANGED tableVars

\* put is over and its locals are gone.
Leave(p) ==
  /\ pc' = [pc EXCEPT ![p] = "out"] /\ hash' = [hash EXCEPT ![p] = Free]
  /\ table' = [table EXCEPT ![p] = 1] /\ slot' = [slot EXCEPT ![p] = 0]
  /\ step' = [step EXCEPT ![p] = 0] /\ trace' = [trace EXCEPT ![p] = NoTrace]

Return(p, id) ==
  Leave(p) /\ returned' = returned \cup {[id |-> id, hash |-> hash[p]]}

\* One look at a key: found, free, or on to the next slot of the probe sequence;
\* after as many steps as there are slots the table counts as overflown.
Probe(p) ==
  /\ pc[p] = "probe"
  /\ LET tb == table[p]
         key == keys[tb][slot[p]]
     IN \/ /\ key = hash[p] /\ Return(p, IdOf(tb, slot[p])) /\ UNCHANGED overflow
        \/ /\ key = Free /\ pc' = [pc EXCEPT ![p] = "claim"]
           /\ UNCHANGED <<overflow, returned>> /\ UNCHANGED putVars
        \/ /\ key \notin {Free, hash[p]} /\ step[p] + 1 >= Capacity(tb)
           /\ overflow' = TRUE /\ Return(p, OverflowId)
        \/ /\ key \notin {Free, hash[p]} /\ step[p] + 1 < Capacity(tb)
           /\ step' = [step EXCEPT ![p] = @ + 1]
           /\ slot' = [slot EXCEPT ![p] = (@ + step[p] + 1) % Capacity(tb)]
           /\ UNCHANGED <<pc, hash, table, trace, overflow, returned>>
  /\ UNCHANGED <<current, keys, values, used, torn, puts, faults>>

\* The CAS on the key; the loser looks at the same slot again.
Claim(p) ==
  /\ pc[p] = "claim"
  /\ IF keys[table[p]][slot[p]] = Free
     THEN keys' = [keys EXCEPT ![table[p]][slot[p]] = hash[p]] /\ pc' = [pc EXCEPT ![p] = "count"]
     ELSE UNCHANGED keys /\ pc' = [pc EXCEPT ![p] = "probe"]
  /\ UNCHANGED <<current, values, used, overflow, returned, torn, puts, faults>> /\ UNCHANGED putVars

\* incSize; the one insertion that makes the table three quarters full grows it.
IncSize(p) ==
  /\ pc[p] = "count"
  /\ used' = [used EXCEPT ![table[p]] = @ + 1]
  /\ pc' = [pc EXCEPT ![p] = IF used'[table[p]] = (Capacity(table[p]) * 3) \div 4
                             THEN "grow" ELSE "fill"]
  /\ UNCHANGED <<current, keys, values, overflow, returned, torn, puts, faults>> /\ UNCHANGED putVars

\* LongHashTable::allocate and the CAS on _current_table.  Without memory nobody
\* tries again until the next clear.
Grow(p) ==
  /\ Goes(p, "grow", "fill")
  /\ \/ table[p] < MaxTables /\ current' = IF current = table[p] THEN table[p] + 1 ELSE current
     \/ UNCHANGED current
  /\ UNCHANGED <<keys, values, used, overflow, returned, torn, puts, faults>> /\ UNCHANGED putVars

\* The slots find_stack_trace visits for h in table tb, in order.
ProbeSequence(tb, h) ==
  LET seq[n \in 0..(Capacity(tb) - 1)] ==
        IF n = 0 THEN h % Capacity(tb) ELSE (seq[n - 1] + n) % Capacity(tb)
  IN seq

\* find_stack_trace in the previous table: its entry may be claimed and still empty.
FindStackTrace(tb, h) ==
  LET seq == ProbeSequence(tb, h)
      hits == {n \in DOMAIN seq : /\ keys[tb][seq[n]] = h
                                  /\ \A m \in 0..(n - 1) : keys[tb][seq[m]] # Free}
  IN IF hits = {} THEN NoTrace
     ELSE values[tb][seq[CHOOSE n \in hits : \A m \in hits : n <= m]]

\* The trace migrates, or store_stack_trace copies it; a copy fails without memory.
Fill(p) ==
  /\ Goes(p, "fill", "set")
  /\ LET old == IF table[p] = 1 THEN NoTrace ELSE FindStackTrace(table[p] - 1, hash[p])
     IN \/ old # NoTrace /\ trace' = [trace EXCEPT ![p] = old]
        \/ old = NoTrace /\ trace' = [trace EXCEPT ![p] = hash[p]]
        \/ old = NoTrace /\ faults < MaxFaults /\ trace' = [trace EXCEPT ![p] = NoTrace]
  /\ faults' = IF trace'[p] = NoTrace THEN faults + 1 ELSE faults
  /\ UNCHANGED <<hash, table, slot, step, returned, torn, puts>> /\ UNCHANGED tableVars

\* The copy reads what the stack walk took for code objects: it may fault, and
\* CrashProtection jumps out of put.  The key stays claimed and the entry empty.
Fault(p) ==
  /\ pc[p] = "fill" /\ faults < MaxFaults /\ Leave(p)
  /\ faults' = faults + 1 /\ torn' = torn \cup {<<table[p], slot[p]>>}
  /\ UNCHANGED <<returned, puts>> /\ UNCHANGED tableVars

\* Mutant of SetStackTrace: a trace that migrated is left where it was.
SetOnlyNewTrace(p) ==
  /\ pc[p] = "set"
  /\ values' = IF table[p] > 1 THEN values
               ELSE [values EXCEPT ![table[p]][slot[p]] = trace[p]]
  /\ torn' = IF trace[p] = NoTrace THEN torn \cup {<<table[p], slot[p]>>} ELSE torn
  /\ Return(p, IdOf(table[p], slot[p]))
  /\ UNCHANGED <<current, keys, used, overflow, puts, faults>>

\* set_stack_trace, and put returns the id.
SetStackTrace(p) ==
  /\ pc[p] = "set"
  /\ values' = [values EXCEPT ![table[p]][slot[p]] = trace[p]]
  /\ torn' = IF trace[p] = NoTrace THEN torn \cup {<<table[p], slot[p]>>} ELSE torn
  /\ Return(p, IdOf(table[p], slot[p]))
  /\ UNCHANGED <<current, keys, used, overflow, puts, faults>>

\* collect_stack_traces: what the recorder writes for this segment.
CollectStackTraces ==
  UNION {{[id |-> IdOf(tb, s), hash |-> values[tb][s]] :
            s \in {u \in Slots(tb) : keys[tb][u] # Free /\ values[tb][u] # NoTrace}} :
         tb \in 1..current}

Quiet == \A p \in Putters : pc[p] = "out"

\* clear, under all locks: every table but the first is unmapped, the first is wiped.
Clear ==
  /\ Quiet
  /\ current' = 1 /\ keys' = [tb \in Tables |-> EmptyTable(tb, Free)]
  /\ values' = [tb \in Tables |-> EmptyTable(tb, NoTrace)]
  /\ used' = [tb \in Tables |-> 0] /\ overflow' = FALSE
  /\ returned' = {} /\ torn' = {} /\ puts' = [p \in Putters |-> 0]
  /\ UNCHANGED <<pc, faults>> /\ UNCHANGED putVars

Next ==
  \/ \E p \in Putters :
       \/ \E h \in Hashes : Put(p, h)
       \/ Probe(p) \/ Claim(p) \/ IncSize(p) \/ Grow(p) \/ Fill(p) \/ Fault(p) \/ SetStackTrace(p)
  \/ Clear

Spec == Init /\ [][Next]_storageVars

-----------------------------------------------------------------------------
\* When the recorder collects, under all locks, every id that was handed out resolves
\* to the trace it was handed out for, through every growth and migration, and no id
\* stands for two traces; only an entry whose copy faulted or found no memory resolves
\* to nothing, and never to another trace.
EveryIdResolves ==
  Quiet =>
    /\ \A a, b \in CollectStackTraces : a.id = b.id => a = b
    /\ \A r \in returned :
      \/ r.id = OverflowId /\ overflow
      \/ [id |-> r.id, hash |-> r.hash] \in CollectStackTraces
      \/ \E e \in torn : r.id = IdOf(e[1], e[2]) /\ keys[e[1]][e[2]] = r.hash
                         /\ values[e[1]][e[2]] = NoTrace

\* A trace sits at most once in a table, where its probe sequence finds it, and the size
\* counts the claimed keys; so the table grows exactly once and an overflow means that
\* it is full.
TableIsSound ==
  \A tb \in Tables :
    LET owned == {s \in Slots(tb) : keys[tb][s] # Free} IN
    /\ used[tb] + Cardinality({p \in Putters : pc[p] = "count" /\ table[p] = tb})
         = Cardinality(owned)
    /\ \A s, u \in owned : keys[tb][s] = keys[tb][u] => s = u
    /\ \A s \in owned :
         LET seq == ProbeSequence(tb, keys[tb][s]) IN
         \E n \in DOMAIN seq : seq[n] = s /\ \A m \in 0..n : seq[m] \in owned
    /\ (\E r \in returned : r.id = OverflowId) =>
         \E full \in 1..current : \A s \in Slots(full) : keys[full][s] # Free
=============================================================================
