----------------------------- MODULE InjectedCode -----------------------------
(***************************************************************************)
(* The parts of the code that the agent injects into a target: pyki's      *)
(* allocator, trace table, recorder, allocation hooks, heap sampler,       *)
(* Python tracer, frame table, symbol table and call-site hooks, and       *)
(* cuprof's launcher.  A behaviour exercises one part, chosen at the       *)
(* start, while the others rest: between the parts there is no shared      *)
(* state that is not modelled on both sides (the recorder has the trace    *)
(* table and the slots of its own, the sampler its share of the hooks).    *)
(***************************************************************************)
EXTENDS Integers, FiniteSets

CONSTANTS
  Parts,                                                  \* the parts a run looks at
  Allocators, ChunkSize, Sizes, MaxChunks, MaxAllocs,     \* LinearAllocator
  Putters, Hashes, InitialCapacity, MaxTables, MaxPuts, MaxCopyFaults,    \* StackTraceStorage
  Threads, Home, Level, BufferEvents, Quotas, MaxFiles,   \* PykiRecorder
  Allocating, Libs, Late, Exempt, Sealed, Blocks, MaxCalls, MaxStarts,    \* NativeHooks
  Workers, MaxDepth, MaxFrames,                           \* PythonTracer
  MaxLoc, MaxFrame,                                       \* DwarfTable
  Objects, MapSlots, SymbolInputs, Studied, MaxMoves,              \* NativeSymbols
  Sampled, Asked, SMALL, Intervals, Points, MaxAsked, MaxSessions,        \* PymemSampler
  Callers, Pages, MaxEnables,                             \* CallSiteHook
  Width, MaxWords                                         \* CuprofLaunch

ASSUME ChunkAssumption == ChunkSize \in Nat /\ ChunkSize > 2 /\ ChunkSize % 2 = 0 /\ MaxChunks \in Nat \ {0}
ASSUME SizesAssumption == Sizes \subseteq 1..(ChunkSize - 1) /\ Sizes # {}
ASSUME HashAssumption == Hashes \subseteq Nat \ {0} /\ InitialCapacity \in Nat \ {0}
ASSUME TableAssumption ==
  IsFiniteSet(Putters) /\ MaxTables \in Nat \ {0} /\ \E k \in 0..InitialCapacity : InitialCapacity = 2^k
ASSUME LevelAssumption == Level \in Nat \ {0} /\ Home \in [Threads -> 0..(Level - 1)]
ASSUME BufferAssumption == BufferEvents \in Nat \ {0} /\ MaxFiles \in Nat
ASSUME ThreadAssumption == {"none", "rotation"} \cap Threads = {}
ASSUME ObjectAssumption == Late \subseteq Libs /\ Exempt \subseteq Libs /\ Sealed \subseteq Libs
ASSUME AllocatingAssumption == {"none", "profiler"} \cap Allocating = {}
ASSUME QuotaAssumption ==
  Quotas # {} /\ \A q \in Quotas : q.threads \subseteq Threads /\ q.samples \in Nat /\ q.faults \in Nat
ASSUME StudiedAssumption == Studied \in Objects
ASSUME SampledAssumption ==
  /\ Asked \subseteq Nat \ {0} /\ Intervals \subseteq Nat
  /\ Points \in [Intervals \cup {0} -> (SUBSET (Nat \ {0})) \ {{}}]
ASSUME PagesAssumption == "original" \notin Pages /\ MaxEnables \in Nat
ASSUME WidthAssumption == Width \in Nat /\ Width % 2 = 0 /\ Width > 5
ASSUME TraceesAssumption == "main" \notin Workers /\ MaxDepth \in Nat \ {0} /\ MaxFrames \in Nat \ {0}

\* What 2^k is, as far as it is used; TLC computes it, a prover only knows the symbol.
ASSUME PowersAssumption ==
  2^0 = 1 /\ \A k \in 0..(InitialCapacity + MaxTables + Width) : 2^(k + 1) = 2 * 2^k

VARIABLES
  part,           \* the part that is exercised
  tail, reserve, live, prev, offs, at, chunk, size, seen, next, regions, allocs,
  current, keys, values, used, overflow, pc, hash, table, slot, step, trace, returned, torn,
  puts, copyFaults,
  frames, lock, context, buffer, traces, fd, file, sampling, rotation, dead, quota, sampled,
  faults, opened, recorded, dropped, skipped,
  loaded, got, enabled, mutex, sweep, control, guard, call, owner, events, allocations,
  intercepted, starts, late,
  alive, calls, muted, profile, ctx, session, listed, instance, threadHook, withC, tls, refs,
  records, made, exported, broken,
  cfi, open, kind, from, loc, regs, resume, laid, closed,
  maps, users, files, parse, caches, touched, moves,
  phase, todo, heapOptions, installed, saved, replaced, interval, meta, raw, asked, attributed, exact,
  allocated, sessions,
  role, site, original, page, hook, api, ran, nested, clobbered, enables,
  stage, argv, options, env, cfgFiles, config, event

Alloc == INSTANCE LinearAllocator WITH Threads <- Allocators
Storage == INSTANCE StackTraceStorage WITH MaxFaults <- MaxCopyFaults, faults <- copyFaults
Recorder == INSTANCE PykiRecorder WITH Capacity <- BufferEvents
Hooks == INSTANCE NativeHooks WITH Callers <- Allocating, calls <- intercepted
Tracer == INSTANCE PythonTracer WITH hook <- threadHook
Dwarf == INSTANCE DwarfTable WITH at <- laid
Symbols == INSTANCE NativeSymbols WITH Libs <- Objects, Slots <- MapSlots, Tables <- SymbolInputs
Sampler == INSTANCE PymemSampler WITH Threads <- Sampled, Sizes <- Asked, MaxCalls <- MaxAsked,
             options <- heapOptions, current <- installed, original <- replaced, seen <- asked,
             calls <- allocated
Site == INSTANCE CallSiteHook
Launcher == INSTANCE CuprofLaunch WITH parse <- options, files <- cfgFiles

allocVars == <<tail, reserve, live, prev, offs, at, chunk, size, seen, next, regions, allocs>>
storageVars == <<current, keys, values, used, overflow, pc, hash, table, slot, step, trace,
                 returned, torn, puts, copyFaults>>
recorderVars == <<frames, lock, context, buffer, traces, fd, file, sampling, rotation, dead,
                  quota, sampled, faults, opened, recorded, dropped, skipped>>
hooksVars == <<loaded, got, enabled, mutex, sweep, control, guard, call, owner, events,
               allocations, intercepted, starts, late>>
tracedVars == <<alive, calls, muted, profile, ctx, session, listed, instance, threadHook, withC,
                tls, refs, records, made, exported, broken>>
dwarfVars == <<cfi, open, kind, from, loc, regs, resume, laid, closed>>
symbolVars == <<maps, users, files, parse, caches, touched, moves>>
samplerVars == <<phase, todo, heapOptions, installed, saved, replaced, interval, meta, raw, asked,
                 attributed, exact, allocated, sessions>>
siteVars == <<role, site, original, page, hook, api, ran, nested, clobbered, enables>>
launchVars == <<stage, argv, options, env, cfgFiles, config, event>>
vars == <<part, allocVars, storageVars, recorderVars, hooksVars, tracedVars, dwarfVars, symbolVars,
          samplerVars, siteVars, launchVars>>

Init ==
  /\ part \in Parts
  /\ Alloc!Init /\ Storage!Init /\ Hooks!Init /\ Sampler!Init /\ Dwarf!Init
  /\ IF part = "recorder" THEN Recorder!Init
                          ELSE Recorder!InitWith(CHOOSE q \in Quotas : TRUE)
  /\ IF part = "tracer" THEN Tracer!Init ELSE Tracer!InitWith(FALSE)
  /\ IF part = "symbols" THEN Symbols!Init ELSE Symbols!InitWith(Symbols!Own, "symtab", 1, FALSE)
  /\ IF part = "site" THEN Site!Init ELSE Site!InitWith("save")
  /\ IF part = "launcher" THEN Launcher!Init
                          ELSE Launcher!InitWith("options", <<>>, Launcher!NoText, Launcher!NoText)

AllocNext ==
  /\ part = "allocator" /\ Alloc!Next
  /\ UNCHANGED <<part, storageVars, recorderVars, hooksVars, tracedVars, dwarfVars, symbolVars,
                 samplerVars, siteVars, launchVars>>

StorageNext ==
  /\ part = "storage" /\ Storage!Next
  /\ UNCHANGED <<part, allocVars, recorderVars, hooksVars, tracedVars, dwarfVars, symbolVars,
                 samplerVars, siteVars, launchVars>>

RecorderNext ==
  /\ part = "recorder" /\ Recorder!Next
  /\ UNCHANGED <<part, allocVars, storageVars, hooksVars, tracedVars, dwarfVars, symbolVars,
                 samplerVars, siteVars, launchVars>>

HooksNext ==
  /\ part = "hooks" /\ Hooks!Next
  /\ UNCHANGED <<part, allocVars, storageVars, recorderVars, tracedVars, dwarfVars, symbolVars,
                 samplerVars, siteVars, launchVars>>

TracerNext ==
  /\ part = "tracer" /\ Tracer!Next
  /\ UNCHANGED <<part, allocVars, storageVars, recorderVars, hooksVars, dwarfVars, symbolVars,
                 samplerVars, siteVars, launchVars>>

DwarfNext ==
  /\ part = "dwarf" /\ Dwarf!Next
  /\ UNCHANGED <<part, allocVars, storageVars, recorderVars, hooksVars, tracedVars, symbolVars,
                 samplerVars, siteVars, launchVars>>

SymbolsNext ==
  /\ part = "symbols" /\ Symbols!Next
  /\ UNCHANGED <<part, allocVars, storageVars, recorderVars, hooksVars, tracedVars, dwarfVars,
                 samplerVars, siteVars, launchVars>>

SamplerNext ==
  /\ part = "sampler" /\ Sampler!Next
  /\ UNCHANGED <<part, allocVars, storageVars, recorderVars, hooksVars, tracedVars, dwarfVars,
                 symbolVars, siteVars, launchVars>>

SiteNext ==
  /\ part = "site" /\ Site!Next
  /\ UNCHANGED <<part, allocVars, storageVars, recorderVars, hooksVars, tracedVars, dwarfVars,
                 symbolVars, samplerVars, launchVars>>

LauncherNext ==
  /\ part = "launcher" /\ Launcher!Next
  /\ UNCHANGED <<part, allocVars, storageVars, recorderVars, hooksVars, tracedVars, dwarfVars,
                 symbolVars, samplerVars, siteVars>>

Next ==
  \/ AllocNext \/ StorageNext \/ RecorderNext \/ HooksNext \/ TracerNext
  \/ DwarfNext \/ SymbolsNext \/ SamplerNext \/ SiteNext \/ LauncherNext

Spec == Init /\ [][Next]_vars

-----------------------------------------------------------------------------
\* pyki's allocator: concurrent signal handlers never get overlapping memory, and every
\* chunk stays reachable for the one that frees it.
AllocatorIsSound ==
  part = "allocator" => Alloc!RegionsAreDisjoint /\ Alloc!NoChunkIsLost

\* pyki's trace table: an id resolves to the trace it was given for, through every growth
\* and migration, and the table keeps the shape its probing and growing rely on.
TraceTableIsSound ==
  part = "storage" => Storage!EveryIdResolves /\ Storage!TableIsSound

\* pyki's recorder: each event is written once, every trace it names is in the table of the
\* same file, across rotations and for handlers that outlive the collectors; a slot has one
\* holder that still runs, except where a fault jumped over it, and a rotation works on
\* buffers that nobody writes to.
RecorderIsSound ==
  part = "recorder" => /\ Recorder!EventsAreKeptOnce /\ Recorder!EveryEventResolves
                       /\ Recorder!SlotsAreReleased

\* pyki's hooks: a block is counted once, and its release before its next owner; the GOT
\* entries follow the collector, whatever is loaded meanwhile.
HooksAreSound ==
  part = "hooks" => /\ Hooks!BlocksAreCountedOnce /\ Hooks!ReleasesComeFirst
                    /\ Hooks!HooksFollowTheCollector

\* pyki's heap profiler: a session leaves Python's allocators as they were, and its events
\* stand for no more than was allocated.
SamplesAddUp ==
  part = "sampler" => Sampler!AllocatorsAreRestored /\ Sampler!SamplesAddUp

\* pyki's tracer: every frame it refers to is kept alive exactly as often as it refers to
\* it, and an interval is recorded for the call that returned, once.
TracerIsSound ==
  part = "tracer" => Tracer!ReferencesFollowTheStacks /\ Tracer!RecordsAreTheirCalls

\* pyki's frame table: from every instruction a compiler can emit here, one step of the
\* unwinder leads to the caller.
UnwindReturnsToCaller ==
  part = "dwarf" => Dwarf!UnwindReturnsToCaller

\* pyki's symbols: no header is read of a library that went away, and an address is named
\* after what lies there.
SymbolsAreOwn ==
  part = "symbols" => Symbols!HeadersAreMapped /\ Symbols!NamesAreOwn

\* pyki's call-site hooks: a redirected call always lands on code, and only while a hook
\* is there to serve it.
SiteLeadsToCode ==
  part = "site" => Site!SiteLeadsToCode

\* cuprof's launcher and configuration: the target gets its words, the window what was
\* asked for, and the trace times that did not wrap.
WindowIsLaunchedAsAsked ==
  part = "launcher" => Launcher!OptionsEndAtTarget /\ Launcher!WindowIsAsAsked /\ Launcher!TimesNeverWrap
=============================================================================
