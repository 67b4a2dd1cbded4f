----------------------------- MODULE CollectedData -----------------------------
(***************************************************************************)
(* The parts of the injected collectors that keep what is collected: the C *)
(* tracer of pystackCollector, pyki's tracer for free-threaded Python and  *)
(* its callback for Python 3.12, the hash table and the list that both are *)
(* built on, pyki's walker of Python stacks, and pyki's data files from    *)
(* the buffers of the recorder to the profiles of the converter.  As in InjectedCode a *)
(* behaviour exercises one part while the others rest: a tracer uses table *)
(* and list with the GIL, or for one thread at a time, and the recorder's  *)
(* locks are PykiRecorder's.  The data files are looked at three times:    *)
(* with few events of all stacks, with events of allocations only, and     *)
(* with more slots and files; the names of Rust functions in them are a    *)
(* part of their own.                                                      *)
(***************************************************************************)
EXTENDS Integers, Sequences

CONSTANTS
  Parts,                                                        \* the parts a run looks at
  Workers, MaxDepth, MaxFrames, MaxTraces,                      \* PystackTracer
  Spawned, StateAddresses, MaxCodes,                            \* FreeThreadedTracer
  MaxMethods,                                                   \* CallMonitoring
  Keys, KeyHashes, Values, KeyHashBits, Multiplier, MinLookups, Requests,    \* FlatHashMap
  ChunkSize, Readers, MaxElements,                              \* AppendOnlyList
  Codes, PyNframes, MaxPyFrames,                                \* PythonStack
  GroupBits, BUFFER_SIZE, MaxNframes, ROWS, CELLS, HashBits,    \* ProfileFile
  StringHash(_),
  Stacks, OneStack, CpuKinds, AllKinds, Sizes, Lengths, Addresses, Slots, MaxStacks, MaxBlocks,
  MaxEvents, MaxFiles,
  MaxInt, MaxNibbles, LifetimeNames, Hash, MaxNesting, MaxWide,  \* RustMangle, RustDemangle
  FirstRoom, RoomLimit, Margin, Paths, Crates, LegacyPaths, Endings, DamagedPaths,
  Letters

ASSUME ChunkAssumption == ChunkSize \in Nat \ {0}
ASSUME NamesAssumption == MaxInt > 65535 /\ FirstRoom > 0 /\ MaxWide \in Nat
ASSUME FileAssumption == GroupBits \in Nat \ {0} /\ BUFFER_SIZE >= 10 + 15 * MaxNframes

VARIABLES
  part,           \* the part that is exercised
  alive, calls, made, compensates, toolTaken, monitored, withC, profiled, session, queueId, cache,
  tls, subqueues, owner, at, pending, refs, records, broken,
  life, address, frames, entered, muted, code, profile, where, work, cached, stage, turn, instance,
  hook, cToo, results, held, intervals, late, crashed,
  active, count, hushed, lacks, cRecorded, tool, callback, other, tracing, starts, summary, kept,
  unmatched, thrown,
  map, expected, next,
  blocks, room, iterators, appended, elements, read,
  version, columns, compiled, pyFrames, sample, sampledAt,
  fd, files, buffer, stacks, rotation, recorded, heap, peak, dead,
  symbol, wanted, shown

Tracer == INSTANCE PystackTracer WITH MaxSessions <- MaxTraces
Free == INSTANCE FreeThreadedTracer WITH Workers <- Spawned, Addresses <- StateAddresses,
          calls <- frames, made <- entered, at <- where, session <- stage, withC <- cToo,
          tls <- results, refs <- held, records <- intervals, broken <- crashed
Called == INSTANCE CallMonitoring WITH MaxFrames <- MaxMethods, MaxSessions <- MaxTraces,
            calls <- active, made <- count, muted <- hushed, compensates <- lacks,
            withC <- cRecorded, session <- tracing, sessions <- starts, tls <- summary,
            refs <- kept, broken <- thrown
Map == INSTANCE FlatHashMap WITH HashOf <- KeyHashes, HashBits <- KeyHashBits
List == INSTANCE AppendOnlyList WITH buffer <- blocks, made <- elements
Stack == INSTANCE PythonStack WITH MaxNframes <- PyNframes, MaxDepth <- MaxPyFrames, code <- compiled
Shown == INSTANCE ProfileFile WITH phase <- rotation, HashOf <- StringHash, Slots <- {1},
           Samples <- Stacks, Kinds <- CpuKinds, MaxEvents <- MaxStacks, MaxFiles <- 1
Leaks == INSTANCE ProfileFile WITH phase <- rotation, HashOf <- StringHash, Slots <- {1},
           Samples <- OneStack, Kinds <- AllKinds, MaxEvents <- MaxBlocks, MaxFiles <- 1
Buffers == INSTANCE ProfileFile WITH phase <- rotation, HashOf <- StringHash,
             Samples <- OneStack, Kinds <- CpuKinds
Names == INSTANCE RustDemangle WITH MaxDepth <- MaxNesting

tracerVars == <<alive, calls, made, compensates, toolTaken, monitored, withC, profiled, session,
                queueId, cache, tls, subqueues, owner, at, pending, refs, records, broken>>
freeVars == <<life, address, frames, entered, muted, code, profile, where, work, cached, stage,
              turn, instance, hook, cToo, results, held, intervals, late, crashed>>
calledVars == <<active, count, hushed, lacks, cRecorded, tool, callback, other, tracing, starts,
                summary, kept, unmatched, thrown>>
mapVars == <<map, expected, next>>
listVars == <<blocks, room, iterators, appended, elements, read>>
stackVars == <<version, columns, compiled, pyFrames, sample, sampledAt>>
fileVars == <<fd, files, buffer, stacks, rotation, recorded, heap, peak, dead>>
nameVars == <<symbol, wanted, shown>>
vars == <<part, tracerVars, freeVars, calledVars, mapVars, listVars, stackVars, fileVars,
          nameVars>>

Init ==
  /\ part \in Parts
  /\ IF part = "tracer" THEN Tracer!Init ELSE Tracer!InitWith(FALSE, FALSE, FALSE)
  /\ IF part = "free" THEN Free!Init ELSE Free!InitWith(FALSE)
  /\ IF part = "called" THEN Called!Init ELSE Called!InitWith(FALSE, FALSE)
  /\ IF part = "stack" THEN Stack!Init ELSE Stack!InitWith(11, TRUE, <<>>)
  /\ IF part = "map" THEN Map!Init ELSE Map!InitWith(0)
  /\ List!Init /\ Names!Init
  /\ IF part = "shown" THEN Shown!Init ELSE Buffers!InitWith(TRUE)

TracerNext ==
  /\ part = "tracer" /\ Tracer!Next
  /\ UNCHANGED <<part, freeVars, calledVars, mapVars, listVars, stackVars, fileVars, nameVars>>

FreeNext ==
  /\ part = "free" /\ Free!Next
  /\ UNCHANGED <<part, tracerVars, calledVars, mapVars, listVars, stackVars, fileVars, nameVars>>

CalledNext ==
  /\ part = "called" /\ Called!Next
  /\ UNCHANGED <<part, tracerVars, freeVars, mapVars, listVars, stackVars, fileVars, nameVars>>

MapNext ==
  /\ part = "map" /\ Map!Next
  /\ UNCHANGED <<part, tracerVars, freeVars, calledVars, listVars, stackVars, fileVars, nameVars>>

ListNext ==
  /\ part = "list" /\ List!Next
  /\ UNCHANGED <<part, tracerVars, freeVars, calledVars, mapVars, stackVars, fileVars, nameVars>>

StackNext ==
  /\ part = "stack" /\ Stack!Next
  /\ UNCHANGED <<part, tracerVars, freeVars, calledVars, mapVars, listVars, fileVars, nameVars>>

FileNext ==
  /\ \/ part = "shown" /\ Shown!Next
     \/ part = "leaks" /\ Leaks!Next
     \/ part = "buffers" /\ Buffers!Next
  /\ UNCHANGED <<part, tracerVars, freeVars, calledVars, mapVars, listVars, stackVars, nameVars>>

NamesNext ==
  /\ part = "names" /\ Names!Next
  /\ UNCHANGED <<part, tracerVars, freeVars, calledVars, mapVars, listVars, stackVars, fileVars>>

Next ==
  \/ TracerNext \/ FreeNext \/ CalledNext \/ MapNext \/ ListNext \/ StackNext \/ FileNext
  \/ NamesNext

Spec == Init /\ [][Next]_vars

-----------------------------------------------------------------------------
\* pystackCollector's tracer: an interval is that of the call that returned, every call it
\* refers to is kept alive as often, and a thread waits with the GIL only for a newcomer.
\* pyki's tracer for free-threaded Python: the same for the threads it can tell apart, and
\* stop leaves no callback and no pointer behind.  Its callback for Python 3.12 keeps the
\* stack in step with the calls and leaves other profilers their events.
TraceIsTheCalls ==
  /\ part = "tracer" => /\ Tracer!ReferencesFollowTheStacks /\ Tracer!RecordsAreTheirCalls
                        /\ Tracer!OnlyNewcomersBlock
  /\ part = "free" => /\ Free!ReferencesFollowTheStacks /\ Free!RecordsAreTheirCalls
                      /\ Free!StopWaitsForCallbacks
  /\ part = "called" => Called!StackIsTheCalls /\ Called!ToolIdIsShared

\* What both tracers keep their data in: through growing, displacing and erasing, the table is
\* the mapping its user made, no walk leaves it, and erasing loops miss nothing; an iterator
\* of the list of calls reads what there was when it began.
ContainersAreSound ==
  /\ part = "map" => /\ Map!TableIsItsMapping /\ Map!EntriesAreWithinReach
                     /\ Map!EraseLoopMissesNothing
  /\ part = "list" => List!IteratorsReadTheirElements

\* pyki's stack walker: a sample shows the frames in order, each at the line it stands at.
SampleIsTheStack ==
  part = "stack" => Stack!SampleIsTheStack

\* pyki's data files: what is read back of a file is what was recorded in it, and a stack
\* shows its frames in order under their names.
FilesReadBack ==
  /\ part = "shown" => Shown!FilesAreWhole /\ Shown!FramesAreTheStack
  /\ part = "buffers" => Buffers!FilesAreWhole

\* pyki's converter: the profiles add up the events of their kind, and the leaks are what
\* was not released.
ProfilesAreTheEvents ==
  part = "leaks" => Leaks!FilesAreWhole /\ Leaks!ProfilesAddUp /\ Leaks!LeaksAreFound

\* The names of Rust functions in native frames: what is shown is what was compiled, and the
\* pass that looks through a name without printing it ends where the printing one does.
NamesAreTheirPaths ==
  part = "names" => Names!NamesAreTheirPaths /\ Names!SkippingAndPrintingAgree
=============================================================================
