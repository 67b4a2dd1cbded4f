----------------------------- MODULE CallSiteHook -----------------------------
(***************************************************************************)
(* pyki's hooks into libtorch (pytorch.cpp): one call instruction of a     *)
(* libtorch function is redirected, through a trampoline mapped near it,   *)
(* to a function of pyki's, and restored afterwards.  One Python thread    *)
(* enables and disables it without the GIL's protection, so threads of the *)
(* target run through the call at every step, and others map memory.       *)
(* The hook is that of the export (kineto_save_no_gil) or that of          *)
(* PythonTraceback::gather (Py_IsInitialized_gil_check).                   *)
(***************************************************************************)
EXTENDS Integers, FiniteSets

CONSTANTS
  Callers,       \* threads that run the patched function
  Pages,         \* holes near the call instruction
  MaxEnables     \* bound: calls of enable

VARIABLES
  role,          \* which of the two hooks this is
  site,          \* what the call instruction targets: "original" or a page
  original,      \* per hook object: "none", "saved" its instruction, "known" its callee too
  page,          \* per page: "free", "other" (somebody's), "blank", "code"
  hook,          \* the global pointer: the number of its hook object, 0 for null
  api,           \* the enable or disable that runs: stage, hook object, page at hand
  ran,           \* per caller where it is, what came of its call, and whether the hook was
                 \* at rest throughout (history)
  nested,        \* history: a hook was enabled while one was enabled
  clobbered,     \* history: pages of others that a trampoline replaced
  enables        \* history: number of calls of enable

hookVars == <<role, site, original, page, hook, api, ran, nested, clobbered, enables>>

Idle == [stage |-> "idle", object |-> 0, at |-> "none"]
AtRest == [pc |-> "out", target |-> "none", answer |-> "none", calm |-> TRUE, hook |-> 0]

InitWith(r) ==
  /\ role = r /\ site = "original" /\ hook = 0
  /\ original = [h \in 1..MaxEnables |-> "none"]
  /\ page = [p \in Pages |-> "free"] /\ api = Idle
  /\ ran = [t \in Callers |-> AtRest]
  /\ nested = FALSE /\ clobbered = {} /\ enables = 0

Init == \E r \in {"save", "gather"} : InitWith(r)

Stage(s) == api' = [api EXCEPT !.stage = s]

-----------------------------------------------------------------------------
(* enable.                                                                 *)

\* The pointer is set before the site is touched; both functions must be known.
Enable ==
  /\ api.stage = "idle" /\ enables < MaxEnables
  /\ enables' = enables + 1 /\ hook' = enables + 1
  /\ nested' = (nested \/ site # "original")
  /\ \E known \in BOOLEAN :
       api' = [stage |-> IF known /\ site = "original" THEN "search" ELSE "failed",
               object |-> enables + 1, at |-> "none"]
  /\ UNCHANGED <<role, site, original, page, ran, clobbered>>

\* find_nearby_hole reads /proc/self/maps; there may be none in reach.
FindHole ==
  /\ api.stage = "search"
  /\ \/ \E p \in Pages : page[p] = "free" /\ api' = [api EXCEPT !.stage = "map", !.at = p]
     \/ Stage("failed")
  /\ UNCHANGED <<role, site, original, page, hook, ran, nested, clobbered, enables>>

\* mmap with MAP_FIXED: whatever came to lie there since is replaced.
MapTrampoline ==
  /\ api.stage = "map" /\ Stage("write")
  /\ page' = [page EXCEPT ![api.at] = "blank"]
  /\ clobbered' = IF page[api.at] = "other" THEN clobbered \cup {api.at} ELSE clobbered
  /\ UNCHANGED <<role, site, original, hook, ran, nested, enables>>

WriteTrampoline ==
  /\ api.stage = "write" /\ Stage("save")
  /\ page' = [page EXCEPT ![api.at] = "code"]
  /\ UNCHANGED <<role, site, original, hook, ran, nested, clobbered, enables>>

SaveOriginal ==
  /\ api.stage = "save" /\ Stage("patch")
  /\ original' = [original EXCEPT ![api.object] = "saved"]
  /\ UNCHANGED <<role, site, page, hook, ran, nested, clobbered, enables>>

PatchSite ==
  /\ api.stage = "patch" /\ Stage("know")
  /\ site' = api.at
  /\ UNCHANGED <<role, original, page, hook, ran, nested, clobbered, enables>>

\* Only now can pyki's function find the original.
KnowOriginal ==
  /\ api.stage = "know" /\ api' = Idle
  /\ original' = [original EXCEPT ![api.object] = "known"]
  /\ UNCHANGED <<role, site, page, hook, ran, nested, clobbered, enables>>

\* A hook that could not be entered is deleted, whatever an earlier one has patched.
EnableFails ==
  /\ api.stage = "failed" /\ api' = Idle /\ hook' = 0
  /\ UNCHANGED <<role, site, original, page, ran, nested, clobbered, enables>>

-----------------------------------------------------------------------------
(* disable.                                                                *)

\* Mutant of RestoreSite: the trampoline goes before the instruction is restored.
UnmapFirst ==
  /\ api.stage = "idle" /\ hook # 0 /\ site # "original"
  /\ page' = [page EXCEPT ![site] = "free"]
  /\ api' = [stage |-> "unmap", object |-> hook, at |-> site]
  /\ UNCHANGED <<role, site, original, hook, ran, nested, clobbered, enables>>

\* exit_hook puts the saved instruction back, then unmaps the trampoline.
RestoreSite ==
  /\ api.stage = "idle" /\ hook # 0
  /\ site' = IF original[hook] = "none" THEN site ELSE "original"
  /\ api' = [stage |-> "unmap", object |-> hook, at |-> site]
  /\ UNCHANGED <<role, original, page, hook, ran, nested, clobbered, enables>>

UnmapTrampoline ==
  /\ api.stage = "unmap" /\ Stage("forget")
  /\ page' = [page EXCEPT ![api.at] = "free"]
  /\ UNCHANGED <<role, site, original, hook, ran, nested, clobbered, enables>>

ForgetHook ==
  /\ api.stage = "forget" /\ api' = Idle /\ hook' = 0
  /\ UNCHANGED <<role, site, original, page, ran, nested, clobbered, enables>>

-----------------------------------------------------------------------------
(* The threads of the target.                                              *)

Goes(t, s) == ran' = [ran EXCEPT ![t] = s]
Calm(t) == ran[t].calm /\ api = Idle /\ hook = ran[t].hook

\* The call instruction is fetched.
CallSite(t) ==
  /\ ran[t].pc = "out"
  /\ Goes(t, [pc |-> "landed", target |-> site, answer |-> "none", calm |-> api = Idle, hook |-> hook])
  /\ UNCHANGED <<role, site, original, page, hook, api, nested, clobbered, enables>>

\* What the call reaches: the original, or pyki's function by way of the trampoline, or a
\* page that is no trampoline any more.
Land(t) ==
  /\ ran[t].pc = "landed"
  /\ Goes(t, [ran[t] EXCEPT !.calm = Calm(t),
       !.pc = IF ran[t].target # "original" /\ page[ran[t].target] = "code" THEN "hooked" ELSE "out",
       !.answer = CASE ran[t].target = "original" -> "original"
                    [] ran[t].target # "original" /\ page[ran[t].target] = "code" -> "none"
                    [] OTHER -> "fault"])
  /\ UNCHANGED <<role, site, original, page, hook, api, nested, clobbered, enables>>

\* pyki's function asks the hook for the original; without one the export saves nothing
\* and the check returns no value at all.
RunHook(t) ==
  /\ ran[t].pc = "hooked"
  /\ \E a \in IF hook # 0 /\ original[hook] = "known" THEN {"original"}
              ELSE IF role = "save" THEN {"nothing"} ELSE {"true", "false"} :
       Goes(t, [AtRest EXCEPT !.answer = a, !.calm = Calm(t)])
  /\ UNCHANGED <<role, site, original, page, hook, api, nested, clobbered, enables>>

\* Another thread maps memory, anywhere the kernel likes.
MapElsewhere ==
  /\ \E p \in Pages : page[p] = "free" /\ page' = [page EXCEPT ![p] = "other"]
  /\ UNCHANGED <<role, site, original, hook, api, ran, nested, clobbered, enables>>

Next ==
  \/ Enable \/ FindHole \/ MapTrampoline \/ WriteTrampoline \/ SaveOriginal \/ PatchSite
  \/ KnowOriginal \/ EnableFails
  \/ RestoreSite \/ UnmapTrampoline \/ ForgetHook
  \/ MapElsewhere
  \/ \E t \in Callers : CallSite(t) \/ Land(t) \/ RunHook(t)

Spec == Init /\ [][Next]_hookVars

-----------------------------------------------------------------------------

\* At every step of an enable and a disable the call instruction targets the original
\* or a mapped and complete trampoline, whatever other threads map; at rest, unless hooks
\* were nested, a redirected call belongs to a hook that knows the original.  A call
\* during which no enable or disable ran reaches the original function.
SiteLeadsToCode ==
  /\ site # "original" => page[site] = "code"
  /\ api = Idle /\ ~nested /\ site # "original" => hook # 0 /\ original[hook] = "known"
  /\ hook = 0 /\ api = Idle /\ ~nested => site = "original"
  /\ \A t \in Callers :
       ran[t].pc = "out" /\ ran[t].calm /\ ~nested => ran[t].answer \in {"none", "original"}
===============================================================================
