---------------------------- MODULE ModelResidency ----------------------------
(***************************************************************************)
(* The models in RAM and what JavaScript believes about them: the native   *)
(* engines, the residency manager's map of residents, and the services     *)
(* that load and unload under its FIFO lock.                               *)
(*                                                                         *)
(* One operation holds the lock at a time; it decides against the budget,  *)
(* evicts, loads and registers, each a step with an await in between.      *)
(* Outside the lock a model may be selected or deleted, an embedding       *)
(* context may be released after a native error, and a native load whose   *)
(* timer fired long ago may still land.                                    *)
(***************************************************************************)
EXTENDS Integers, Sequences, FiniteSetsExt

CONSTANTS
  TextModels, ImageModels, \* the whisper and the embedding model are one each
  Size,     \* [Models -> Nat]: the estimated footprint
  Engine,   \* [TextModels -> {"llama", "litert"}]
  Policies, \* load policies the user switches between
  Budget,   \* computeBudgetMB by policy; the balanced one is the dirty ceiling too
  Free,     \* readings of the free memory, less the headroom kept for dirty pages
  Tight,    \* the device has 6 GB or less
  MaxAsks,  \* bound: requests, deletions and changes of policy
  MaxSelects, \* bound: selections without a load
  MaxLate,  \* bound: loads that time out
  MaxFailures, \* bound: image unloads that fail
  MaxAborts \* bound: native errors of the embedding engine

None == "none"
Models == TextModels \union ImageModels \union {"whisper", "embedding"}
Slots == {"llama", "litert", "image", "whisper", "embedding"}
Keys == {"text", "image", "whisper", "embedding"}
Key(m) == IF m \in TextModels THEN "text" ELSE IF m \in ImageModels THEN "image" ELSE m
Slot(m) == IF m \in TextModels THEN Engine[m] ELSE Key(m)
Sidecar(m) == m \in {"whisper", "embedding"}
Dirty(m) == m \in ImageModels \/ (m \in TextModels /\ Engine[m] = "litert")

ASSUME ResidencyConstants ==
  /\ TextModels \intersect ImageModels = {}
  /\ {None, "whisper", "embedding"} \intersect (TextModels \union ImageModels) = {}
  /\ Size \in [Models -> Nat \ {0}] /\ Engine \in [TextModels -> {"llama", "litert"}]
  /\ "balanced" \in Policies /\ Policies \subseteq {"balanced", "aggressive", "conservative"}
  /\ Budget \in [Policies -> Nat] /\ Free \subseteq Int /\ Free # {} /\ Tight \in BOOLEAN
  /\ {MaxAsks, MaxSelects, MaxLate, MaxFailures, MaxAborts} \subseteq Nat

VARIABLES
  native,    \* the model each engine holds in RAM
  residents, \* the manager's map: the resident of each key, or None
  newest,    \* the sidecar registered last
  loaded,    \* loadedTextModelId, loadedImageModelId
  active,    \* activeModelId, activeImageModelId: the selection
  context,   \* the embedding service has a context
  freeing,   \* an unlocked release of that context is under way: "no", of the
             \* context JavaScript still has: "live", of one since replaced: "stale"
  policy,    \* the load policy
  overrides, \* models the user chose to load anyway in this session
  waiting,   \* operations that wait for the lock
  turn,      \* the operation that holds it
  late,      \* native loads that go on although their timer fired
  charged,   \* history: keys whose resident was admitted at its full size
  limit,     \* history: the budget the last of them was admitted under
  count      \* how often each bounded step has happened

js   == <<residents, newest, loaded, active, context>>
hist == <<charged, limit>>
vars == <<native, residents, newest, loaded, active, context, freeing, policy, overrides,
          waiting, turn, late, charged, limit, count>>

Op(op, m, o) == [op |-> op, model |-> m, override |-> o, at |-> "start",
                 evict |-> {}, full |-> FALSE, budget |-> 0]
Idle == [op |-> None, model |-> None, override |-> FALSE, at |-> "idle",
         evict |-> {}, full |-> FALSE, budget |-> 0]
Requests ==
  {Op("load", m, FALSE) : m \in Models}
    \union {Op("load", m, TRUE) : m \in TextModels \union ImageModels}
    \union {Op("unload", k, FALSE) : k \in {"text", "image"}}
    \union {Op("eject", k, FALSE) : k \in Keys}
    \union {Op("warning", None, FALSE), Op("reclaim", None, FALSE)}

Init ==
  /\ native = [s \in Slots |-> None]
  /\ residents = [k \in Keys |-> None] /\ newest = "whisper"
  /\ loaded = [k \in {"text", "image"} |-> None] /\ active = loaded
  /\ context = FALSE /\ freeing = "no"
  /\ policy = "balanced" /\ overrides = {}
  /\ waiting = <<>> /\ turn = Idle /\ late = {}
  /\ charged = {} /\ limit = 0
  /\ count = [e \in {"ask", "select", "late", "failure", "abort", "sync"} |-> 0]

Happens(e, max) == count[e] < max /\ count' = [count EXCEPT ![e] = @ + 1]

-----------------------------------------------------------------------------
(* The policy.                                                             *)

Resident(k) == residents[k] # None
Without(k) == [residents EXCEPT ![k] = None]

\* The footprint of the residents with these keys.
Total(K) ==
  LET weight(k) == IF k \in K /\ Resident(k) THEN Size[residents[k]] ELSE 0
  IN weight("text") + weight("image") + weight("whisper") + weight("embedding")

\* Who may have to go, and in which order: sidecars by age, the image model, the
\* text model; a sidecar may only displace a sidecar.
VictimsOfAnyKind(m) == {k \in Keys \ {Key(m)} : Resident(k)}
Victims(m) == {k \in Keys \ {Key(m)} : Resident(k) /\ (Sidecar(m) => Sidecar(k))}
Rank(k) == CASE k = "text" -> 4 [] k = "image" -> 3 [] k = newest -> 2 [] OTHER -> 1

Cost(m) == IF Resident(Key(m)) THEN 0 ELSE Size[m]
Kept(m, evict) == Keys \ ({Key(m)} \union evict)
FitsUncharged(m, evict, budget) == Total(Kept(m, evict)) <= budget
FitsAfter(m, evict, budget) == Total(Kept(m, evict)) + Cost(m) <= budget

\* All victims for a single model, else the first ones, as few as will do.
Plans(m) == {E \in SUBSET Victims(m) : \A k \in E, j \in Victims(m) : Rank(j) < Rank(k) => j \in E}
Evictions(m, budget, single) ==
  {k \in Victims(m) : single \/ \A E \in Plans(m) : FitsAfter(m, E, budget) => k \in E}

DirtyResident(k) == Resident(k) /\ Dirty(residents[k])

BudgetFor(m, free) ==
  IF Dirty(m) \/ \E k \in Keys : DirtyResident(k)
  THEN Max({0, Min({Budget[policy], free + Total(Keys)})})
  ELSE Budget[policy]

DirtyCeilingExceeded(m, evict) ==
  /\ Dirty(m)
  /\ Size[m] + Total({k \in Kept(m, evict) : DirtyResident(k)}) > Budget["balanced"]

-----------------------------------------------------------------------------
(* Requests and what happens outside the lock.                             *)

Loading(m) == \E i \in 1 .. Len(waiting) + 1 :
                LET o == (<<turn>> \o waiting)[i] IN o.op = "load" /\ o.model = m

Current(m) == loaded["text"] = m /\ native[Engine[m]] # None

\* A request queues for the lock, unless its caller returns before that.
Ask(o) ==
  /\ ~ (o.op = "load" /\ o.model \in TextModels /\ Current(o.model))
  /\ o.op = "load" /\ Sidecar(o.model) => ~ Loading(o.model)
  /\ o.op = "load" /\ o.model = "embedding" => ~ context
  /\ o.op = "reclaim" => Tight /\ Resident("whisper")
  /\ Happens("ask", MaxAsks)
  /\ waiting' = Append(waiting, o)
  /\ UNCHANGED <<native, js, freeing, policy, overrides, turn, late, hist>>

\* loadTextModel() of the model that is loaded, and selectTextModel().
Select(m) ==
  /\ active["text"] # m
  /\ IF Current(m) THEN UNCHANGED count ELSE Happens("select", MaxSelects)
  /\ active' = [active EXCEPT !["text"] = m]
  /\ UNCHANGED <<native, residents, newest, loaded, context, freeing, policy, overrides,
                 waiting, turn, late, hist>>

SetLoadPolicy(p) ==
  /\ policy # p /\ Happens("ask", MaxAsks)
  /\ policy' = p
  /\ UNCHANGED <<native, js, freeing, overrides, waiting, turn, late, hist>>

\* Once after a launch the home screen reconciles what the service believes with
\* the engines: what a text engine holds is taken for the selected model.
Believed(k, held) ==
  IF held = {} THEN None ELSE IF loaded[k] = None THEN active[k] ELSE loaded[k]

SyncWithNativeState ==
  /\ Happens("sync", 1)
  /\ LET held(k) == {s \in IF k = "text" THEN {"llama", "litert"} ELSE {k} : native[s] # None}
     IN loaded' = [k \in {"text", "image"} |-> Believed(k, held(k))]
  /\ loaded' # loaded
  /\ UNCHANGED <<native, residents, newest, active, context, freeing, policy,
                 overrides, waiting, turn, late, hist>>

\* The speech model is unloaded without the lock, and stays in the map.
DeleteWhisper ==
  /\ native["whisper"] # None /\ Happens("ask", MaxAsks)
  /\ native' = [native EXCEPT !["whisper"] = None]
  /\ UNCHANGED <<js, freeing, policy, overrides, waiting, turn, late, hist>>

\* After a native error embed() unloads, without the lock: the context is
\* released, and after the await JavaScript forgets whatever it has by then.
EmbedFails ==
  /\ context /\ freeing = "no" /\ Happens("abort", MaxAborts)
  /\ freeing' = "live"
  /\ UNCHANGED <<native, js, policy, overrides, waiting, turn, late, hist>>

EmbedUnloaded ==
  /\ freeing # "no" /\ freeing' = "no"
  /\ native' = IF freeing = "live" THEN [native EXCEPT !["embedding"] = None] ELSE native
  /\ context' = FALSE /\ residents' = Without("embedding")
  /\ UNCHANGED <<newest, loaded, active, policy, overrides, waiting, turn, late, hist, count>>

\* A native load whose caller gave up ends, and the engine holds the model or
\* does not.  Nobody registers it.
Land(m) ==
  /\ m \in late /\ late' = late \ {m}
  /\ \/ native' = [native EXCEPT ![Slot(m)] = m]
     \/ UNCHANGED native
  /\ UNCHANGED <<js, freeing, policy, overrides, waiting, turn, hist, count>>

-----------------------------------------------------------------------------
(* What unloading the resident of a key does to the engines and to the     *)
(* service that owns it.  The text service unloads the engine of the       *)
(* selected model.                                                         *)

ActiveEngine == IF active["text"] = None THEN {} ELSE {Engine[active["text"]]}
FreesLlamaOnly(k) == {s \in {IF k = "text" THEN "llama" ELSE k} : native[s] # None}
Frees(k) ==
  {s \in CASE k = "text" -> ActiveEngine
           [] k = "embedding" -> IF context THEN {k} ELSE {}
           [] OTHER -> {k} : native[s] # None}

\* Every engine service catches the errors of its native unload, so that no
\* unload ever rejects.  An image server that could not be stopped is forgotten
\* all the same; the other services drop their handle whatever happens.
ImageUnloadFails == native["image"] # None /\ Happens("failure", MaxFailures)

Unload(k) ==
  /\ \/ native' = [s \in Slots |-> IF s \in Frees(k) THEN None ELSE native[s]] /\ UNCHANGED count
     \/ k = "image" /\ ImageUnloadFails /\ UNCHANGED native
  /\ loaded' = [j \in {"text", "image"} |-> IF j = k THEN None ELSE loaded[j]]
  /\ context' = (context /\ k # "embedding")
  /\ freeing' = IF k = "embedding" /\ context /\ freeing = "live" THEN "stale" ELSE freeing

-----------------------------------------------------------------------------
(* The operation that holds the lock.                                      *)

Release == turn' = Idle

TakeLock ==
  /\ turn = Idle /\ waiting # <<>>
  /\ LET o == Head(waiting)
         keys == CASE o.op = "eject" -> {o.model}
                   [] o.op = "reclaim" -> {"whisper"}
                   [] o.op = "warning" -> {"whisper", "embedding"}
                   [] OTHER -> {}
     IN turn' = [o EXCEPT !.at = IF o.model = "embedding" /\ o.op = "load" THEN "load"
                                 ELSE IF o.op = "load" THEN "decide"
                                 ELSE IF o.op = "unload" THEN "unload" ELSE "eject",
                          !.evict = {k \in keys : Resident(k)}]
  /\ waiting' = Tail(waiting)
  /\ UNCHANGED <<native, js, freeing, policy, overrides, late, hist, count>>

\* The model asked for is loaded by now.  An image model is loaded again
\* nevertheless if the number of threads was changed.
AlreadyLoaded ==
  /\ turn.at = "decide" /\ Key(turn.model) \in DOMAIN loaded
  /\ loaded[Key(turn.model)] = turn.model /\ native[Slot(turn.model)] # None
  /\ active' = [active EXCEPT ![Key(turn.model)] = turn.model]
  /\ Release
  /\ UNCHANGED <<native, residents, newest, loaded, context, freeing, policy, overrides,
                 waiting, late, hist, count>>

\* makeRoomFor() up to its first eviction: refuse, or fix the victims.
MakeRoom ==
  /\ turn.at = "decide"
  /\ turn.model \in TextModels => ~ Current(turn.model)
  /\ \E free \in Free :
       LET m == turn.model
           override == turn.override \/ m \in overrides
           budget == BudgetFor(m, free)
           evict == Evictions(m, budget, policy = "conservative" \/ override)
           refused == /\ ~ FitsAfter(m, evict, budget) \/ DirtyCeilingExceeded(m, evict)
                      /\ ~ override
       IN /\ overrides' = IF turn.override THEN overrides \union {m} ELSE overrides
          /\ IF refused THEN Release
             ELSE turn' = [turn EXCEPT !.at = "evict", !.override = override, !.budget = budget,
                                       !.evict = evict,
                                       !.full = ~ override /\ ~ Resident(Key(m))]
  /\ UNCHANGED <<native, js, freeing, policy, waiting, late, hist, count>>

\* An eviction runs inside the lock and must not ask for it again.
FirstOf(K) == {k \in K : \A j \in K : Rank(k) <= Rank(j)}
VictimAwaitsLock(k) == turn.at = "evict" /\ k \in FirstOf(turn.evict) /\ turn = Idle
VictimNext(k) == turn.at = "evict" /\ k \in FirstOf(turn.evict)

Evict(k) ==
  /\ VictimNext(k)
  /\ IF Resident(k) THEN Unload(k) /\ residents' = Without(k)
     ELSE UNCHANGED <<native, residents, loaded, context, freeing, count>>
  /\ turn' = [turn EXCEPT !.evict = @ \ {k}]
  /\ UNCHANGED <<newest, active, policy, overrides, waiting, late, hist>>

\* llm.ts loads and unloads under a mutex, which a late load still holds.
MutexFree == \A l \in late : Slot(l) # "llama"

\* The loader first unloads the model of its kind that is loaded.
Switch ==
  /\ turn.at = "evict" /\ turn.evict = {}
  /\ turn' = [turn EXCEPT !.at = "load"]
  /\ LET m == turn.model
         k == Key(m)
     IN IF k = "image" /\ loaded[k] # None
        THEN Unload(k)
        ELSE IF k = "text" /\ loaded[k] \notin {None, m}
        THEN /\ MutexFree
             /\ native' = [native EXCEPT !["llama"] = None, !["litert"] = None]
             /\ loaded' = [loaded EXCEPT ![k] = None]
             /\ UNCHANGED <<context, freeing, count>>
        ELSE UNCHANGED <<native, loaded, context, freeing, count>>
  /\ UNCHANGED <<residents, newest, active, policy, overrides, waiting, late, hist>>

Registered(m) == [residents EXCEPT ![Key(m)] = m]

\* The native call resolves: the model is registered and selected.
Load ==
  /\ turn.at = "load"
  /\ LET m == turn.model
         k == Key(m)
     IN /\ Slot(m) = "llama" => MutexFree
        /\ native' = [native EXCEPT ![Slot(m)] = m]
        /\ residents' = Registered(m)
        /\ newest' = IF Sidecar(m) THEN m ELSE newest
        /\ loaded' = [j \in DOMAIN loaded |-> IF j = k THEN m ELSE loaded[j]]
        /\ active' = [j \in DOMAIN active |-> IF j = k THEN m ELSE active[j]]
        /\ context' = (context \/ k = "embedding")
        /\ charged' = IF turn.full THEN charged \union {k} ELSE charged \ {k}
        /\ limit' = IF turn.full THEN turn.budget ELSE limit
  /\ Release
  /\ UNCHANGED <<freeing, policy, overrides, waiting, late, count>>

\* The load gives up; a text model that failed is no longer selected.
GiveUp ==
  /\ LET m == turn.model
         k == Key(m)
     IN /\ native' = [native EXCEPT ![Slot(m)] = None]
        /\ loaded' = [j \in DOMAIN loaded |-> IF j = k THEN None ELSE loaded[j]]
        /\ active' = [active EXCEPT !["text"] = IF k = "text" THEN None ELSE @]
  /\ Release
  /\ UNCHANGED <<residents, newest, context, freeing, policy, overrides, waiting, hist>>

LoadFails ==
  /\ turn.at = "load" /\ native[Slot(turn.model)] # turn.model
  /\ Slot(turn.model) = "llama" => MutexFree
  /\ GiveUp /\ UNCHANGED <<late, count>>

\* The timer of a text or image load fires first; the native call goes on.
LoadTimesOut ==
  /\ turn.at = "load" /\ ~ Sidecar(turn.model) /\ turn.model \notin late
  /\ Happens("late", MaxLate)
  /\ GiveUp /\ late' = late \union {turn.model}

\* unloadTextModel() and unloadImageModel(), which deselect.
UnloadByUser ==
  /\ turn.at = "unload"
  /\ LET k == turn.model
     IN IF active[k] = None /\ loaded[k] = None /\ Frees(k) = {}
        THEN UNCHANGED <<native, residents, loaded, active, context, freeing, count>>
        ELSE /\ Unload(k) /\ residents' = Without(k)
             /\ active' = [active EXCEPT ![k] = None]
  /\ Release
  /\ UNCHANGED <<newest, policy, overrides, waiting, late, hist>>

\* evictByKey(), handleMemoryWarning() and reclaimSttForGeneration().  A warning takes
\* the sidecars in the order of the map, which may be either.
Eject(k) ==
  /\ turn.at = "eject" /\ k \in turn.evict
  /\ Unload(k) /\ residents' = Without(k)
  /\ turn' = [turn EXCEPT !.evict = @ \ {k}]
  /\ UNCHANGED <<newest, active, policy, overrides, waiting, late, hist>>

Ejected ==
  /\ turn.at = "eject" /\ turn.evict = {} /\ Release
  /\ UNCHANGED <<native, js, freeing, policy, overrides, waiting, late, hist, count>>

-----------------------------------------------------------------------------

Work ==
  \/ AlreadyLoaded \/ MakeRoom \/ Switch \/ Load \/ LoadFails \/ LoadTimesOut
  \/ UnloadByUser \/ Ejected
  \/ \E k \in Keys : Evict(k) \/ Eject(k)

Next ==
  \/ \E o \in Requests : Ask(o)
  \/ \E m \in TextModels : Select(m)
  \/ \E p \in Policies : SetLoadPolicy(p)
  \/ SyncWithNativeState
  \/ DeleteWhisper \/ EmbedFails \/ EmbedUnloaded
  \/ \E m \in late : Land(m)
  \/ TakeLock \/ Work

Spec == Init /\ [][Next]_vars

\* The lock passes on, its holder's calls return or time out, and native calls
\* return in the end.
Fairness ==
  /\ WF_vars(TakeLock) /\ WF_vars(Work) /\ WF_vars(EmbedUnloaded)
  /\ \A m \in TextModels \union ImageModels : WF_vars(Land(m))
FairSpec == Spec /\ Fairness

-----------------------------------------------------------------------------
(* Properties.                                                             *)

\* The type invariant; every engine and every entry of the map has a model of its kind.
TypeOK ==
  /\ native \in [Slots -> Models \union {None}]
  /\ \A s \in Slots : native[s] # None => Slot(native[s]) = s
  /\ residents \in [Keys -> Models \union {None}] /\ newest \in {"whisper", "embedding"}
  /\ \A k \in Keys : Resident(k) => Key(residents[k]) = k
  /\ loaded \in [{"text", "image"} -> TextModels \union ImageModels \union {None}]
  /\ active \in [{"text", "image"} -> TextModels \union ImageModels \union {None}]
  /\ context \in BOOLEAN /\ freeing \in {"no", "live", "stale"}
  /\ policy \in Policies /\ overrides \subseteq TextModels \union ImageModels
  /\ waiting \in Seq(Requests)
  /\ turn.at \in {"idle", "decide", "evict", "load", "unload", "eject"}
  /\ turn.evict \subseteq Keys
  /\ late \subseteq TextModels \union ImageModels
  /\ charged \subseteq Keys /\ limit \in Nat

\* makeRoomFor(), the load and register() are atomic under the lock: whatever
\* else is asked for, deleted, freed or lands between them, the residents that
\* were admitted at their full size fit the budget the last one was admitted
\* under.  The decision reads the map two awaits before the map is written.
AdmissionsFit == Total(charged) <= limit

\* What can make the manager lose a model that is in RAM: for a text model a
\* load that lands late or a selection that names the other engine; for an image
\* model a late load or a failed unload; for the embedding model an unlocked
\* release after an error.
Blame(s) == CASE s \in {"llama", "litert"} -> {"late", "select"}
              [] s = "image" -> {"late", "failure"}
              [] s = "whisper" -> {}
              [] OTHER -> {"abort"}

\* Every model an engine holds is in the map, so that the next load is sized
\* against the real memory (index.ts, makeRoomFor), unless a mishap of its own
\* kind happened: nothing that befalls one modality loses a model of another.
Counted ==
  \A s \in Slots :
    native[s] # None /\ (\A e \in Blame(s) : count[e] = 0) => residents[Key(native[s])] = native[s]

\* A speech or embedding load never takes a generation model out of RAM or out
\* of the map ("that would break an in-flight answer", policy.ts).
SidecarsYield ==
  [][turn.op = "load" /\ Sidecar(turn.model)
       => /\ \A s \in {"llama", "litert", "image"} : native[s] # None => native'[s] # None
          /\ \A k \in {"text", "image"} : Resident(k) => residents'[k] = residents[k]]_vars

\* The lock is never held for good: whatever fails or times out, every
\* operation that waits gets its turn and ends.
Served == []<>(turn = Idle /\ waiting = <<>>)

\* "Cross-engine switch -> no co-residence" (loaders.ts): the two text engines
\* never hold a model at the same time.
OneTextEngine == native["llama"] = None \/ native["litert"] = None

\* Without an override, what makeRoomFor() admitted fits the budget: the lock "is
\* what makes the budget safe to enforce" (index.ts).  The embedding model, which
\* asks for no room, is not counted.
WithinBudget == overrides = {} => Total(Keys \ {"embedding"}) <= Budget[policy]
=============================================================================
