-------------------------- MODULE InjectedSiteProofs --------------------------
(***************************************************************************)
(* Proof that pyki's call-site hooks (pytorch.cpp, module CallSiteHook)    *)
(* never lead a call anywhere but to code, as the injected code runs them, *)
(* for any number of threads, pages and enables.                           *)
(***************************************************************************)
EXTENDS InjectedCode, TLAPS

Entering == {"search", "map", "write", "save", "patch", "know"}
Leaving == {"unmap", "forget"}
Stages == Entering \cup Leaving \cup {"idle", "failed"}

(* What a caller may remember of a call. *)
Runs(n) ==
  [pc : {"out", "landed", "hooked"}, target : Pages \cup {"none", "original"},
   answer : {"none", "original", "nothing", "true", "false", "fault"}, calm : BOOLEAN, hook : 0..n]

(* What the site's variables are. *)
SiteType ==
  /\ role \in {"save", "gather"} /\ site \in Pages \cup {"original"}
  /\ original \in [1..MaxEnables -> {"none", "saved", "known"}]
  /\ page \in [Pages -> {"free", "other", "blank", "code"}]
  /\ enables \in 0..MaxEnables /\ hook \in 0..enables /\ nested \in BOOLEAN
  /\ api \in [stage : Stages, object : 0..enables, at : Pages \cup {"none", "original"}]
  /\ ran \in [Callers -> Runs(enables)]

(* How far an enable has come: what it has mapped, saved and patched. *)
EnableProgress ==
  /\ api.stage \in Entering => hook = api.object /\ hook # 0
  /\ api.stage \in Entering \ {"know"} => site = "original"
  /\ api.stage \in Entering \ {"search"} => api.at \in Pages
  /\ api.stage = "write" => page[api.at] = "blank"
  /\ api.stage \in {"save", "patch", "know"} => page[api.at] = "code"
  /\ api.stage \in {"patch", "know"} => original[api.object] = "saved"
  /\ api.stage = "know" => site = api.at
  /\ api.stage = "failed" /\ ~nested => site = "original"

(* Between the calls a hook is a whole one; a disable takes the site back first. *)
RestIsWhole ==
  /\ site # "original" => page[site] = "code"
  /\ api.stage = "idle" => api = Site!Idle
  /\ api.stage = "idle" /\ hook # 0 => site # "original" /\ original[hook] = "known"
  /\ api.stage = "idle" /\ hook = 0 /\ ~nested => site = "original"
  /\ api.stage \in Leaving => site = "original" /\ hook # 0

(* A call that met no enable and no disable so far still goes where the site goes: hook
   objects are numbered, so the same one at rest is there without a break. *)
CallFollowsSite(t) ==
  /\ ran[t].pc = "landed" /\ ran[t].calm /\ ~nested =>
       /\ ran[t].hook = 0 => ran[t].target = "original"
       /\ ran[t].hook # 0 /\ hook = ran[t].hook /\ api = Site!Idle => ran[t].target = site
       /\ api.stage \in Entering => ran[t].hook # hook
  /\ ran[t].pc = "hooked" /\ ran[t].calm /\ ~nested => ran[t].hook # 0
  /\ ran[t].pc = "out" /\ ran[t].calm /\ ~nested => ran[t].answer \in {"none", "original"}

SiteInvariant ==
  SiteType /\ EnableProgress /\ RestIsWhole /\ \A t \in Callers : CallFollowsSite(t)

-----------------------------------------------------------------------------
\* Enable sets the pointer; a patched site makes it fail.
LEMMA EnableKeepsSite == SiteInvariant /\ Site!Enable => SiteInvariant'
<1> SUFFICES ASSUME SiteInvariant, Site!Enable PROVE SiteInvariant'
  OBVIOUS
<1> USE PagesAssumption DEF SiteInvariant, SiteType, Runs, Stages, Entering, Leaving,
       Site!Enable, Site!Stage, Site!Idle
<1>1. SiteType'
  BY DEF EnableProgress, RestIsWhole
<1>2. EnableProgress'
  <2>1. ~nested' => ~nested /\ site = "original"
    BY Zenon
  <2>2. api'.stage \in {"search", "failed"} /\ api'.object = enables + 1 /\ hook' = enables + 1
    OBVIOUS
  <2>3. api'.stage = "search" => site = "original"
    OBVIOUS
  <2>4. QED
    BY <2>1, <2>2, <2>3 DEF EnableProgress
<1>3. RestIsWhole'
  BY DEF EnableProgress, RestIsWhole
<1>4. ASSUME NEW t \in Callers PROVE CallFollowsSite(t)'
  BY DEF EnableProgress, RestIsWhole, CallFollowsSite
<1>5. QED
  BY <1>1, <1>2, <1>3, <1>4

\* A hole near the site is found, or not.
LEMMA FindHoleKeepsSite == SiteInvariant /\ Site!FindHole => SiteInvariant'
<1> SUFFICES ASSUME SiteInvariant, Site!FindHole PROVE SiteInvariant'
  OBVIOUS
<1> USE PagesAssumption DEF SiteInvariant, SiteType, Runs, Stages, Entering, Leaving,
       Site!FindHole, Site!Stage, Site!Idle
<1>1. SiteType'
  <2>1. UNCHANGED <<role, site, original, page, hook, ran, nested, enables>>
    OBVIOUS
  <2>2. api' \in [stage : Stages, object : 0..enables, at : Pages \cup {"none", "original"}]
    OBVIOUS
  <2> HIDE DEF Site!FindHole
  <2>3. QED
    BY <2>1, <2>2
<1>2. EnableProgress'
  <2>1. api.stage = "search" /\ UNCHANGED <<site, original, page, hook, nested, enables>>
    OBVIOUS
  <2>2. \/ \E p \in Pages : page[p] = "free" /\ api' = [api EXCEPT !.stage = "map", !.at = p]
        \/ api' = [api EXCEPT !.stage = "failed"]
    OBVIOUS
  <2>3. ASSUME NEW p \in Pages, api' = [api EXCEPT !.stage = "map", !.at = p]
        PROVE  EnableProgress'
    BY <2>1, <2>3 DEF EnableProgress
  <2>4. ASSUME api' = [api EXCEPT !.stage = "failed"] PROVE EnableProgress'
    BY <2>1, <2>4 DEF EnableProgress
  <2>5. QED
    BY <2>2, <2>3, <2>4
<1>3. RestIsWhole'
  BY DEF EnableProgress, RestIsWhole
<1>4. ASSUME NEW t \in Callers PROVE CallFollowsSite(t)'
  BY DEF EnableProgress, RestIsWhole, CallFollowsSite
<1>5. QED
  BY <1>1, <1>2, <1>3, <1>4

\* The page is mapped, over whatever lies there now.
LEMMA MapTrampolineKeepsSite == SiteInvariant /\ Site!MapTrampoline => SiteInvariant'
<1> SUFFICES ASSUME SiteInvariant, Site!MapTrampoline PROVE SiteInvariant'
  OBVIOUS
<1> USE PagesAssumption DEF SiteInvariant, SiteType, Runs, Stages, Entering, Leaving,
       Site!MapTrampoline, Site!Stage, Site!Idle
<1>1. SiteType'
  BY DEF EnableProgress, RestIsWhole
<1>2. EnableProgress'
  BY DEF EnableProgress, RestIsWhole
<1>3. RestIsWhole'
  BY DEF EnableProgress, RestIsWhole
<1>4. ASSUME NEW t \in Callers PROVE CallFollowsSite(t)'
  BY DEF EnableProgress, RestIsWhole, CallFollowsSite
<1>5. QED
  BY <1>1, <1>2, <1>3, <1>4

\* The trampoline is written before anything leads to it.
LEMMA WriteTrampolineKeepsSite == SiteInvariant /\ Site!WriteTrampoline => SiteInvariant'
<1> SUFFICES ASSUME SiteInvariant, Site!WriteTrampoline PROVE SiteInvariant'
  OBVIOUS
<1> USE PagesAssumption DEF SiteInvariant, SiteType, Runs, Stages, Entering, Leaving,
       Site!WriteTrampoline, Site!Stage, Site!Idle
<1>1. SiteType'
  BY DEF EnableProgress, RestIsWhole
<1>2. EnableProgress'
  BY DEF EnableProgress, RestIsWhole
<1>3. RestIsWhole'
  BY DEF EnableProgress, RestIsWhole
<1>4. ASSUME NEW t \in Callers PROVE CallFollowsSite(t)'
  BY DEF EnableProgress, RestIsWhole, CallFollowsSite
<1>5. QED
  BY <1>1, <1>2, <1>3, <1>4

\* The instruction is saved before it is replaced.
LEMMA SaveOriginalKeepsSite == SiteInvariant /\ Site!SaveOriginal => SiteInvariant'
<1> SUFFICES ASSUME SiteInvariant, Site!SaveOriginal PROVE SiteInvariant'
  OBVIOUS
<1> USE PagesAssumption DEF SiteInvariant, SiteType, Runs, Stages, Entering, Leaving,
       Site!SaveOriginal, Site!Stage, Site!Idle
<1>1. SiteType'
  BY DEF EnableProgress, RestIsWhole
<1>2. EnableProgress'
  BY DEF EnableProgress, RestIsWhole
<1>3. RestIsWhole'
  BY DEF EnableProgress, RestIsWhole
<1>4. ASSUME NEW t \in Callers PROVE CallFollowsSite(t)'
  BY DEF EnableProgress, RestIsWhole, CallFollowsSite
<1>5. QED
  BY <1>1, <1>2, <1>3, <1>4

\* The site leads to a written trampoline from here on.
LEMMA PatchSiteKeepsSite == SiteInvariant /\ Site!PatchSite => SiteInvariant'
<1> SUFFICES ASSUME SiteInvariant, Site!PatchSite PROVE SiteInvariant'
  OBVIOUS
<1> USE PagesAssumption DEF SiteInvariant, SiteType, Runs, Stages, Entering, Leaving,
       Site!PatchSite, Site!Stage, Site!Idle
<1>1. SiteType'
  BY DEF EnableProgress, RestIsWhole
<1>2. EnableProgress'
  BY DEF EnableProgress, RestIsWhole
<1>3. RestIsWhole'
  BY DEF EnableProgress, RestIsWhole
<1>4. ASSUME NEW t \in Callers PROVE CallFollowsSite(t)'
  BY DEF EnableProgress, RestIsWhole, CallFollowsSite
<1>5. QED
  BY <1>1, <1>2, <1>3, <1>4

\* Pyki's function can find the original from here on.
LEMMA KnowOriginalKeepsSite == SiteInvariant /\ Site!KnowOriginal => SiteInvariant'
<1> SUFFICES ASSUME SiteInvariant, Site!KnowOriginal PROVE SiteInvariant'
  OBVIOUS
<1> USE PagesAssumption DEF SiteInvariant, SiteType, Runs, Stages, Entering, Leaving,
       Site!KnowOriginal, Site!Stage, Site!Idle
<1>1. SiteType'
  BY DEF EnableProgress, RestIsWhole
<1>2. EnableProgress'
  BY DEF EnableProgress, RestIsWhole
<1>3. RestIsWhole'
  BY DEF EnableProgress, RestIsWhole
<1>4. ASSUME NEW t \in Callers PROVE CallFollowsSite(t)'
  BY DEF EnableProgress, RestIsWhole, CallFollowsSite
<1>5. QED
  BY <1>1, <1>2, <1>3, <1>4

\* A hook that could not be entered is deleted.
LEMMA EnableFailsKeepsSite == SiteInvariant /\ Site!EnableFails => SiteInvariant'
<1> SUFFICES ASSUME SiteInvariant, Site!EnableFails PROVE SiteInvariant'
  OBVIOUS
<1> USE PagesAssumption DEF SiteInvariant, SiteType, Runs, Stages, Entering, Leaving,
       Site!EnableFails, Site!Stage, Site!Idle
<1>1. SiteType'
  BY DEF EnableProgress, RestIsWhole
<1>2. EnableProgress'
  BY DEF EnableProgress, RestIsWhole
<1>3. RestIsWhole'
  BY DEF EnableProgress, RestIsWhole
<1>4. ASSUME NEW t \in Callers PROVE CallFollowsSite(t)'
  BY DEF EnableProgress, RestIsWhole, CallFollowsSite
<1>5. QED
  BY <1>1, <1>2, <1>3, <1>4

\* Disable restores the site before it unmaps.
LEMMA RestoreSiteKeepsSite == SiteInvariant /\ Site!RestoreSite => SiteInvariant'
<1> SUFFICES ASSUME SiteInvariant, Site!RestoreSite PROVE SiteInvariant'
  OBVIOUS
<1> USE PagesAssumption DEF SiteInvariant, SiteType, Runs, Stages, Entering, Leaving,
       Site!RestoreSite, Site!Stage, Site!Idle
<1>1. SiteType'
  BY DEF EnableProgress, RestIsWhole
<1>2. EnableProgress'
  BY DEF EnableProgress, RestIsWhole
<1>3. RestIsWhole'
  BY DEF EnableProgress, RestIsWhole
<1>4. ASSUME NEW t \in Callers PROVE CallFollowsSite(t)'
  BY DEF EnableProgress, RestIsWhole, CallFollowsSite
<1>5. QED
  BY <1>1, <1>2, <1>3, <1>4

\* Nothing leads to the trampoline any more.
LEMMA UnmapTrampolineKeepsSite == SiteInvariant /\ Site!UnmapTrampoline => SiteInvariant'
<1> SUFFICES ASSUME SiteInvariant, Site!UnmapTrampoline PROVE SiteInvariant'
  OBVIOUS
<1> USE PagesAssumption DEF SiteInvariant, SiteType, Runs, Stages, Entering, Leaving,
       Site!UnmapTrampoline, Site!Stage, Site!Idle
<1>1. SiteType'
  BY DEF EnableProgress, RestIsWhole
<1>2. EnableProgress'
  BY DEF EnableProgress, RestIsWhole
<1>3. RestIsWhole'
  BY DEF EnableProgress, RestIsWhole
<1>4. ASSUME NEW t \in Callers PROVE CallFollowsSite(t)'
  BY DEF EnableProgress, RestIsWhole, CallFollowsSite
<1>5. QED
  BY <1>1, <1>2, <1>3, <1>4

\* The pointer is cleared last.
LEMMA ForgetHookKeepsSite == SiteInvariant /\ Site!ForgetHook => SiteInvariant'
<1> SUFFICES ASSUME SiteInvariant, Site!ForgetHook PROVE SiteInvariant'
  OBVIOUS
<1> USE PagesAssumption DEF SiteInvariant, SiteType, Runs, Stages, Entering, Leaving,
       Site!ForgetHook, Site!Stage, Site!Idle
<1>1. SiteType'
  BY DEF EnableProgress, RestIsWhole
<1>2. EnableProgress'
  BY DEF EnableProgress, RestIsWhole
<1>3. RestIsWhole'
  BY DEF EnableProgress, RestIsWhole
<1>4. ASSUME NEW t \in Callers PROVE CallFollowsSite(t)'
  BY DEF EnableProgress, RestIsWhole, CallFollowsSite
<1>5. QED
  BY <1>1, <1>2, <1>3, <1>4

\* Others map memory only where nothing is mapped.
LEMMA MapElsewhereKeepsSite == SiteInvariant /\ Site!MapElsewhere => SiteInvariant'
<1> SUFFICES ASSUME SiteInvariant, Site!MapElsewhere PROVE SiteInvariant'
  OBVIOUS
<1> USE PagesAssumption DEF SiteInvariant, SiteType, Runs, Stages, Entering, Leaving,
       Site!MapElsewhere, Site!Stage, Site!Idle
<1>1. SiteType'
  BY DEF EnableProgress, RestIsWhole
<1>2. EnableProgress'
  BY DEF EnableProgress, RestIsWhole
<1>3. RestIsWhole'
  BY DEF EnableProgress, RestIsWhole
<1>4. ASSUME NEW t \in Callers PROVE CallFollowsSite(t)'
  BY DEF EnableProgress, RestIsWhole, CallFollowsSite
<1>5. QED
  BY <1>1, <1>2, <1>3, <1>4

\* A thread fetches the call's target.
LEMMA CallSiteKeepsSite == SiteInvariant /\ (\E t \in Callers : Site!CallSite(t)) => SiteInvariant'
<1> SUFFICES ASSUME SiteInvariant, NEW t \in Callers, Site!CallSite(t) PROVE SiteInvariant'
  OBVIOUS
<1> USE PagesAssumption DEF SiteInvariant, SiteType, Runs, Stages, Entering, Leaving,
       Site!CallSite, Site!Goes, Site!Calm, Site!AtRest, Site!Idle
<1>1. SiteType'
  BY DEF EnableProgress, RestIsWhole
<1>2. EnableProgress'
  BY DEF EnableProgress
<1>3. RestIsWhole'
  BY DEF RestIsWhole
<1>4. ASSUME NEW u \in Callers PROVE CallFollowsSite(u)'
  <2>1. CASE u = t
    <3>1. ran'[u].pc = "landed" /\ ran'[u].target = site /\ ran'[u].hook = hook
      BY <2>1
    <3>2. ran'[u].calm = (api = Site!Idle)
      BY <2>1
    <3>3. ran'[u].calm => api = Site!Idle
      BY ONLY <3>2, Zenon
    <3>4. ran'[u].calm => api.stage = "idle"
      BY <3>3
    <3>5. api.stage = "idle" => api.stage \notin Entering
      OBVIOUS
    <3>6. (hook # 0 /\ hook = ran'[u].hook) => ran'[u].target = site
      BY <3>1
    <3>7. UNCHANGED <<api, hook, nested, site>>
      OBVIOUS
    <3>8. ran'[u].calm /\ ~nested /\ hook = 0 => site = "original"
      BY <3>4 DEF RestIsWhole
    <3>9. QED
      BY ONLY <3>1, <3>4, <3>5, <3>6, <3>7, <3>8 DEF CallFollowsSite
  <2>2. CASE u # t
    BY <2>2 DEF CallFollowsSite
  <2>3. QED
    BY <2>1, <2>2
<1>5. QED
  BY <1>1, <1>2, <1>3, <1>4

\* It lands there.
LEMMA LandKeepsSite == SiteInvariant /\ (\E t \in Callers : Site!Land(t)) => SiteInvariant'
<1> SUFFICES ASSUME SiteInvariant, NEW t \in Callers, Site!Land(t) PROVE SiteInvariant'
  OBVIOUS
<1> USE PagesAssumption DEF SiteInvariant, SiteType, Runs, Stages, Entering, Leaving,
       Site!Land, Site!Goes, Site!Calm, Site!AtRest, Site!Idle
<1>1. SiteType'
  <2>1. PICK p \in {"out", "hooked"}, a \in {"none", "original", "fault"}, c \in BOOLEAN :
          ran' = [ran EXCEPT ![t] = [ran[t] EXCEPT !.calm = c, !.pc = p, !.answer = a]]
    OBVIOUS
  <2>2. ran[t] \in Runs(enables)
    OBVIOUS
  <2> DEFINE r == ran[t]
  <2>3. UNCHANGED <<role, site, original, page, enables, hook, nested, api>>
    OBVIOUS
  <2> HIDE DEF r, Site!Land, SiteInvariant
  <2>4. r \in Runs(enables) => [r EXCEPT !.calm = c, !.pc = p, !.answer = a] \in Runs(enables)
    OBVIOUS
  <2>5. [ran[t] EXCEPT !.calm = c, !.pc = p, !.answer = a] \in Runs(enables)
    BY <2>2, <2>4 DEF r
  <2> USE DEF SiteInvariant
  <2>6. QED
    BY <2>1, <2>3, <2>5
<1>2. EnableProgress'
  BY DEF EnableProgress
<1>3. RestIsWhole'
  BY DEF RestIsWhole
<1>4. ASSUME NEW u \in Callers PROVE CallFollowsSite(u)'
  BY DEF EnableProgress, RestIsWhole, CallFollowsSite
<1>5. QED
  BY <1>1, <1>2, <1>3, <1>4

\* Pyki's function looks for the original.
LEMMA RunHookKeepsSite == SiteInvariant /\ (\E t \in Callers : Site!RunHook(t)) => SiteInvariant'
<1> SUFFICES ASSUME SiteInvariant, NEW t \in Callers, Site!RunHook(t) PROVE SiteInvariant'
  OBVIOUS
<1> USE PagesAssumption DEF SiteInvariant, SiteType, Runs, Stages, Entering, Leaving,
       Site!RunHook, Site!Goes, Site!Calm, Site!AtRest, Site!Idle
<1>1. SiteType'
  <2>1. PICK a \in {"original", "nothing", "true", "false"}, c \in BOOLEAN :
          ran' = [ran EXCEPT ![t] = [Site!AtRest EXCEPT !.answer = a, !.calm = c]]
    OBVIOUS
  <2>2. Site!AtRest \in Runs(enables)
    BY DEF Runs
  <2>3. [Site!AtRest EXCEPT !.answer = a, !.calm = c] \in Runs(enables)
    BY <2>2 DEF Runs
  <2>4. QED
    BY <2>1, <2>3
<1>2. EnableProgress'
  BY DEF EnableProgress
<1>3. RestIsWhole'
  BY DEF RestIsWhole
<1>4. ASSUME NEW u \in Callers PROVE CallFollowsSite(u)'
  BY DEF EnableProgress, RestIsWhole, CallFollowsSite
<1>5. QED
  BY <1>1, <1>2, <1>3, <1>4

-----------------------------------------------------------------------------
\* The other parts' steps leave the site alone.
LEMMA RestKeepsSite == SiteInvariant /\ UNCHANGED siteVars => SiteInvariant'
BY DEF SiteInvariant, SiteType, Runs, EnableProgress, RestIsWhole, CallFollowsSite, siteVars, Site!Idle

LEMMA InitIsSite == Init => SiteInvariant
<1> SUFFICES ASSUME Init PROVE SiteInvariant
  OBVIOUS
<1>1. PICK r \in {"save", "gather"} : Site!InitWith(r)
  BY DEF Init, Site!Init
<1> USE <1>1, PagesAssumption DEF Site!InitWith, Site!Idle, Stages, Entering, Leaving
<1>2. \A t \in Callers : ran[t] = Site!AtRest
  OBVIOUS
<1>3. Site!AtRest \in Runs(0)
  BY DEF Site!AtRest, Runs
<1>4. SiteType
  <2>1. ran = [t \in Callers |-> Site!AtRest] /\ enables = 0
    OBVIOUS
  <2>2. ran \in [Callers -> Runs(enables)]
    BY ONLY <1>3, <2>1
  <2>3. original \in [1..MaxEnables -> {"none", "saved", "known"}]
    OBVIOUS
  <2>4. page \in [Pages -> {"free", "other", "blank", "code"}]
    OBVIOUS
  <2>5. enables \in 0..MaxEnables /\ hook \in 0..enables
    OBVIOUS
  <2>6. api \in [stage : Stages, object : 0..enables, at : Pages \cup {"none", "original"}]
    OBVIOUS
  <2>7. role \in {"save", "gather"} /\ site \in Pages \cup {"original"}
    OBVIOUS
  <2>8. nested \in BOOLEAN
    BY Zenon
  <2>9. QED
    BY ONLY <2>2, <2>3, <2>4, <2>5, <2>6, <2>7, <2>8 DEF SiteType
<1>5. EnableProgress /\ RestIsWhole
  BY DEF EnableProgress, RestIsWhole
<1>6. \A t \in Callers : CallFollowsSite(t)
  BY <1>2 DEF CallFollowsSite, Site!AtRest
<1>7. QED
  BY <1>4, <1>5, <1>6 DEF SiteInvariant

LEMMA NextKeepsSite == SiteInvariant /\ [Next]_vars => SiteInvariant'
<1> SUFFICES ASSUME SiteInvariant, [Next]_vars PROVE SiteInvariant'
  OBVIOUS
<1>1. CASE SiteNext
  <2>1. Site!Next
    BY <1>1 DEF SiteNext
  <2>2. QED
    BY <2>1, EnableKeepsSite, FindHoleKeepsSite, MapTrampolineKeepsSite, WriteTrampolineKeepsSite,
       SaveOriginalKeepsSite, PatchSiteKeepsSite, KnowOriginalKeepsSite, EnableFailsKeepsSite,
       RestoreSiteKeepsSite, UnmapTrampolineKeepsSite, ForgetHookKeepsSite, MapElsewhereKeepsSite,
       CallSiteKeepsSite, LandKeepsSite, RunHookKeepsSite DEF Site!Next
<1>2. CASE UNCHANGED siteVars
  BY <1>2, RestKeepsSite
<1>3. QED
  BY <1>1, <1>2 DEF Next, vars, AllocNext, StorageNext, RecorderNext, HooksNext,
     TracerNext, DwarfNext, SymbolsNext, SamplerNext, LauncherNext

\* At every step of enable and disable the patched call of libtorch (pytorch.cpp) leads to
\* the original or to a whole trampoline; one at rest belongs to a hook that knows the
\* original; and a call during which neither ran reaches the original function.
THEOREM CallsLandOnCode == Spec => []SiteLeadsToCode
<1>1. SiteInvariant => SiteLeadsToCode
  BY DEF SiteInvariant, SiteType, Runs, RestIsWhole, CallFollowsSite,
         SiteLeadsToCode, Site!SiteLeadsToCode, Site!Idle
<1>2. Spec => []SiteInvariant
  BY InitIsSite, NextKeepsSite, PTL DEF Spec
<1>3. QED
  BY <1>1, <1>2, PTL
===============================================================================
