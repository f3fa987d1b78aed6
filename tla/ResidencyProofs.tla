--------------------------- MODULE ResidencyProofs ---------------------------
(***************************************************************************)
(* The residency manager, for every set of models, footprint, engine and   *)
(* budget: what was admitted fits its budget, no engine holds a model that *)
(* the map has lost, and a sidecar displaces no generation model.          *)
(***************************************************************************)
EXTENDS ModelResidency, SequenceTheorems, TLAPS

Ops == {None, "load", "unload", "eject", "warning", "reclaim"}
Generation == TextModels \union ImageModels
Turns == [op : Ops, model : Models \union Keys \union {None}, override : BOOLEAN,
          at : {"idle", "start", "decide", "evict", "load", "unload", "eject"},
          evict : SUBSET Keys, full : BOOLEAN, budget : Nat]
Events == {"ask", "select", "late", "failure", "abort", "sync"}

\* The parts of the type invariant, with the types that it leaves open.
MapOK ==
  /\ native \in [Slots -> Models \union {None}]
  /\ \A s \in Slots : native[s] # None => Slot(native[s]) = s
  /\ residents \in [Keys -> Models \union {None}] /\ newest \in {"whisper", "embedding"}
  /\ \A k \in Keys : Resident(k) => Key(residents[k]) = k

BeliefOK ==
  /\ loaded \in [{"text", "image"} -> Generation \union {None}]
  /\ active \in [{"text", "image"} -> Generation \union {None}]
  /\ loaded["text"] # None => loaded["text"] \in TextModels
  /\ active["text"] # None => active["text"] \in TextModels
  /\ context \in BOOLEAN /\ freeing \in {"no", "live", "stale"}

PolicyOK ==
  /\ policy \in Policies /\ overrides \subseteq Generation
  /\ late \subseteq Generation
  /\ count \in [Events -> Nat]
  /\ charged \subseteq Keys /\ limit \in Nat

\* The operation that holds the lock is one of the requests, on its way.
LockOK ==
  /\ waiting \in Seq(Requests)
  /\ turn \in Turns /\ turn.at # "start"
  /\ turn.op = "load" <=> turn.at \in {"decide", "evict", "load"}
  /\ turn.op = "load" => turn.model \in Models
  /\ turn.at = "decide" => (turn.override => turn.model \in Generation) /\ turn.evict = {}
  /\ turn.at = "load" => turn.evict = {}
  /\ turn.at = "unload" => turn.model \in {"text", "image"}
  /\ turn.op = "load" /\ Sidecar(turn.model) => turn.evict \subseteq {"whisper", "embedding"}

TypeInv == MapOK /\ BeliefOK /\ PolicyOK /\ LockOK

LEMMA TypeInvTypes == TypeInv => TypeOK
BY DEF TypeInv, TypeOK, MapOK, BeliefOK, PolicyOK, LockOK, Generation, Turns

-----------------------------------------------------------------------------
(* Keys, engines and requests.                                             *)

LEMMA KeyOf ==
  ASSUME NEW m \in Models
  PROVE  /\ Key(m) \in Keys /\ Slot(m) \in Slots /\ m # None
         /\ Key(m) = "text" <=> m \in TextModels
         /\ Key(m) = "image" <=> m \in ImageModels
         /\ m \in TextModels => Slot(m) = Engine[m] /\ Slot(m) \in {"llama", "litert"}
         /\ m \notin TextModels => Slot(m) = Key(m) /\ Slot(m) \notin {"llama", "litert"}
         /\ Sidecar(m) <=> Key(m) \in {"whisper", "embedding"}
         /\ m \in Generation <=> ~ Sidecar(m)
         /\ Sidecar(m) => Key(m) = m
BY ResidencyConstants DEF Models, Key, Slot, Keys, Slots, Sidecar, Generation, None

LEMMA RequestTypes ==
  ASSUME NEW r \in Requests
  PROVE  /\ r \in Turns /\ r.op # None /\ r.at = "start" /\ r.evict = {} /\ r.full = FALSE
         /\ r.op = "load" => r.model \in Models /\ (r.override => r.model \in Generation)
         /\ r.op = "unload" => r.model \in {"text", "image"}
         /\ r.op = "eject" => r.model \in Keys
<1>1. /\ Generation \subseteq Models /\ {"whisper", "embedding"} \subseteq Models
      /\ {"load", "unload", "eject", "warning", "reclaim"} \subseteq Ops
      /\ {"text", "image"} \subseteq Keys
  BY DEF Models, Generation, Ops, Keys
<1>2. ASSUME NEW op \in Ops, NEW m \in Models \union Keys \union {None}, NEW v \in BOOLEAN,
             r = Op(op, m, v)
      PROVE  /\ r \in Turns /\ r.op = op /\ r.model = m /\ r.override = v
             /\ r.at = "start" /\ r.evict = {} /\ r.full = FALSE
  <2>1. r = [op |-> op, model |-> m, override |-> v, at |-> "start",
             evict |-> {}, full |-> FALSE, budget |-> 0]
    BY <1>2 DEF Op
  <2> QED BY <2>1 DEF Turns
<1>3. ASSUME NEW m \in Models, r = Op("load", m, FALSE)
      PROVE  r \in Turns /\ r.op = "load" /\ r.model \in Models /\ r.override = FALSE
             /\ r.at = "start" /\ r.evict = {} /\ r.full = FALSE
  <2>1. "load" \in Ops /\ m \in Models \union Keys \union {None} /\ FALSE \in BOOLEAN  BY <1>1
  <2> QED BY <1>2, <1>3, <2>1
<1>4. ASSUME NEW m \in Generation, r = Op("load", m, TRUE)
      PROVE  r \in Turns /\ r.op = "load" /\ r.model \in Generation
             /\ r.at = "start" /\ r.evict = {} /\ r.full = FALSE
  <2>1. "load" \in Ops /\ m \in Models \union Keys \union {None} /\ TRUE \in BOOLEAN  BY <1>1
  <2> QED BY <1>2, <1>4, <2>1
<1>5. ASSUME NEW op \in {"unload", "eject"}, NEW k \in Keys, r = Op(op, k, FALSE)
      PROVE  r \in Turns /\ r.op = op /\ r.model = k
             /\ r.at = "start" /\ r.evict = {} /\ r.full = FALSE
  <2>1. op \in Ops /\ k \in Models \union Keys \union {None} /\ FALSE \in BOOLEAN  BY <1>1
  <2> QED BY <1>2, <1>5, <2>1
<1>6. ASSUME NEW op \in {"warning", "reclaim"}, r = Op(op, None, FALSE)
      PROVE  r \in Turns /\ r.op = op /\ r.at = "start" /\ r.evict = {} /\ r.full = FALSE
  <2>1. op \in Ops /\ None \in Models \union Keys \union {None} /\ FALSE \in BOOLEAN  BY <1>1
  <2> QED BY <1>2, <1>6, <2>1
<1>7. CASE r \in {Op("load", m, FALSE) : m \in Models}
  <2>1. PICK m \in Models : r = Op("load", m, FALSE)
    BY <1>7
  <2> QED BY <1>3, <2>1 DEF None
<1>8. CASE r \in {Op("load", m, TRUE) : m \in TextModels \union ImageModels}
  <2>1. PICK m \in Generation : r = Op("load", m, TRUE)
    BY <1>8 DEF Generation
  <2> QED BY <1>1, <1>4, <2>1 DEF None
<1>9. CASE r \in {Op("unload", k, FALSE) : k \in {"text", "image"}}
  <2>1. PICK k \in {"text", "image"} : r = Op("unload", k, FALSE)
    BY <1>9
  <2>2. k \in Keys  BY <1>1
  <2> QED BY <1>5, <2>1, <2>2 DEF None
<1>10. CASE r \in {Op("eject", k, FALSE) : k \in Keys}
  <2>1. PICK k \in Keys : r = Op("eject", k, FALSE)
    BY <1>10
  <2> QED BY <1>5, <2>1 DEF None
<1>11. CASE r \in {Op("warning", None, FALSE), Op("reclaim", None, FALSE)}
  <2>1. PICK op \in {"warning", "reclaim"} : r = Op(op, None, FALSE)
    BY <1>11
  <2> QED BY <1>6, <2>1 DEF None
<1> QED BY <1>7, <1>8, <1>9, <1>10, <1>11 DEF Requests

LEMMA IdleTypes == Idle \in Turns /\ Idle.op = None /\ Idle.at = "idle" /\ Idle.evict = {}
BY DEF Idle, Turns, Ops

LEMMA InitTypes == Init => TypeInv
<1> SUFFICES ASSUME Init PROVE TypeInv
  OBVIOUS
<1>1. MapOK
  BY DEF Init, MapOK, Resident
<1>2. BeliefOK
  BY DEF Init, BeliefOK
<1>3. PolicyOK
  BY ResidencyConstants DEF Init, PolicyOK, Events
<1>4. LockOK
  BY IdleTypes DEF Init, LockOK, None
<1> QED BY <1>1, <1>2, <1>3, <1>4 DEF TypeInv

LEMMA HappensTypes ==
  ASSUME PolicyOK, NEW e \in Events, NEW max, Happens(e, max)
  PROVE  /\ count' \in [Events -> Nat] /\ count'[e] > 0
         /\ \A d \in Events : count'[d] = 0 => count[d] = 0 /\ d # e
BY DEF PolicyOK, Happens

-----------------------------------------------------------------------------
(* The footprint and the budget.                                           *)

\* The footprint of the residents r with keys in K.
Weight(r, K, k) == IF k \in K /\ r[k] # None THEN Size[r[k]] ELSE 0
TotalOf(r, K) == Weight(r, K, "text") + Weight(r, K, "image")
                   + Weight(r, K, "whisper") + Weight(r, K, "embedding")

LEMMA TotalIs == \A K : Total(K) = TotalOf(residents, K) /\ Total(K)' = TotalOf(residents', K)
BY DEF Total, TotalOf, Weight, Resident

LEMMA WeightTypes ==
  ASSUME NEW r \in [Keys -> Models \union {None}], NEW K, NEW k \in Keys
  PROVE  Weight(r, K, k) \in Nat
BY ResidencyConstants DEF Weight

LEMMA TotalTypes ==
  ASSUME NEW r \in [Keys -> Models \union {None}], NEW K
  PROVE  TotalOf(r, K) \in Nat
BY WeightTypes DEF TotalOf, Keys

\* Fewer residents weigh less.
LEMMA TotalMono ==
  ASSUME NEW r \in [Keys -> Models \union {None}], NEW s \in [Keys -> Models \union {None}],
         NEW J, NEW K,
         \A k \in Keys : k \in J /\ r[k] # None => k \in K /\ s[k] = r[k]
  PROVE  TotalOf(r, J) <= TotalOf(s, K)
<1>1. \A k \in Keys : Weight(r, J, k) <= Weight(s, K, k)
  BY ResidencyConstants DEF Weight
<1>2. {"text", "image", "whisper", "embedding"} \subseteq Keys  BY DEF Keys
<1> QED BY <1>1, <1>2, WeightTypes DEF TotalOf

\* A resident adds its size.
LEMMA TotalAdd ==
  ASSUME NEW r \in [Keys -> Models \union {None}], NEW s \in [Keys -> Models \union {None}],
         NEW m \in Models, NEW J, NEW K,
         \A k \in Keys \ {Key(m)} : k \in J /\ r[k] # None => k \in K /\ s[k] = r[k],
         r[Key(m)] = m, Key(m) \notin K
  PROVE  TotalOf(r, J) <= TotalOf(s, K) + Size[m]
<1>1. \A k \in Keys \ {Key(m)} : Weight(r, J, k) <= Weight(s, K, k)
  BY ResidencyConstants DEF Weight
<1>2. Weight(r, J, Key(m)) <= Size[m] /\ Weight(s, K, Key(m)) = 0
  BY ResidencyConstants DEF Weight
<1>3. Key(m) \in {"text", "image", "whisper", "embedding"}  BY KeyOf DEF Keys
<1>4. Size[m] \in Nat  BY ResidencyConstants
<1>5. {"text", "image", "whisper", "embedding"} \subseteq Keys  BY DEF Keys
<1> QED BY <1>1, <1>2, <1>3, <1>4, <1>5, WeightTypes DEF TotalOf

LEMMA BudgetTypes ==
  ASSUME MapOK, PolicyOK, NEW m, NEW free \in Free
  PROVE  BudgetFor(m, free) \in Nat
<1>1. Total(Keys) \in Nat  BY TotalIs, TotalTypes DEF MapOK
<1>2. Budget[policy] \in Nat /\ free \in Int  BY ResidencyConstants DEF PolicyOK
<1>3. Min({Budget[policy], free + Total(Keys)}) \in Int
  BY <1>1, <1>2 DEF Min
<1>4. Max({0, Min({Budget[policy], free + Total(Keys)})}) \in Nat
  BY <1>3 DEF Max
<1> QED BY <1>2, <1>4 DEF BudgetFor

-----------------------------------------------------------------------------
(* What the operations share, and the types.                               *)

LEMMA WithoutTypes ==
  ASSUME MapOK, NEW k \in Keys
  PROVE  /\ Without(k) \in [Keys -> Models \union {None}]
         /\ \A j \in Keys : Without(k)[j] = IF j = k THEN None ELSE residents[j]
BY DEF MapOK, Without

\* The engines keep models of their kind, and the map its residents.
LEMMA Dropped ==
  ASSUME MapOK, native' \in [Slots -> Models \union {None}],
         \A s \in Slots : native'[s] # None => native'[s] = native[s],
         residents' \in [Keys -> Models \union {None}],
         \A j \in Keys : residents'[j] # None => residents'[j] = residents[j],
         newest' = newest
  PROVE  MapOK'
BY DEF MapOK, Resident

LEMMA DroppedFromMap ==
  ASSUME MapOK, NEW k \in Keys, residents' = Without(k) \/ residents' = residents
  PROVE  /\ residents' \in [Keys -> Models \union {None}]
         /\ \A j \in Keys : residents'[j] # None => residents'[j] = residents[j]
BY WithoutTypes DEF MapOK

LEMMA UnloadTypes ==
  ASSUME MapOK, BeliefOK, PolicyOK, NEW k \in Keys, Unload(k)
  PROVE  /\ native' \in [Slots -> Models \union {None}]
         /\ \A s \in Slots : native'[s] # None => native'[s] = native[s]
         /\ loaded' \in [{"text", "image"} -> Generation \union {None}]
         /\ \A j \in {"text", "image"} : loaded'[j] = IF j = k THEN None ELSE loaded[j]
         /\ context' = (context /\ k # "embedding") /\ freeing' \in {"no", "live", "stale"}
         /\ count' \in [Events -> Nat]
         /\ \A e \in Events : e # "failure" \/ k # "image" => count'[e] = count[e]
         /\ \A e \in Events : count'[e] = 0 => count[e] = 0
<1>1. \/ native' = [s \in Slots |-> IF s \in Frees(k) THEN None ELSE native[s]] /\ count' = count
      \/ k = "image" /\ Happens("failure", MaxFailures) /\ native' = native
  BY DEF Unload, ImageUnloadFails
<1>2. /\ native' \in [Slots -> Models \union {None}]
      /\ \A s \in Slots : native'[s] # None => native'[s] = native[s]
  BY <1>1 DEF MapOK
<1>3. /\ count' \in [Events -> Nat]
      /\ \A e \in Events : e # "failure" \/ k # "image" => count'[e] = count[e]
      /\ \A e \in Events : count'[e] = 0 => count[e] = 0
  BY <1>1 DEF Happens, PolicyOK, Events
<1>4. /\ loaded' = [j \in {"text", "image"} |-> IF j = k THEN None ELSE loaded[j]]
      /\ context' = (context /\ k # "embedding")
      /\ freeing' = IF k = "embedding" /\ context /\ freeing = "live" THEN "stale" ELSE freeing
  BY DEF Unload
<1>5. freeing' \in {"no", "live", "stale"}
  BY <1>4 DEF BeliefOK
<1>6. loaded' \in [{"text", "image"} -> Generation \union {None}]
  BY <1>4 DEF BeliefOK
<1> QED BY <1>2, <1>3, <1>4, <1>5, <1>6

\* The head of a queue is taken.
LEMMA Turned ==
  ASSUME LockOK, turn' = Idle, waiting' = waiting
  PROVE  LockOK'
BY IdleTypes DEF LockOK, None, Idle

\* A load that succeeds or gives up changes the engine and the beliefs of its kind.
LEMMA LoadingModel ==
  ASSUME LockOK, turn.at \in {"decide", "evict", "load"}
  PROVE  /\ turn.model \in Models /\ turn.op = "load" /\ Key(turn.model) \in Keys
         /\ Slot(turn.model) \in Slots /\ turn.model # None
         /\ turn.model \in TextModels <=> Key(turn.model) = "text"
         /\ Key(turn.model) \in {"text", "image"} => turn.model \in Generation
BY KeyOf DEF LockOK

LEMMA GiveUpTypes ==
  ASSUME TypeInv, turn.at = "load", GiveUp, late' \subseteq Generation, count' \in [Events -> Nat]
  PROVE  TypeInv'
<1> DEFINE m == turn.model
           k == Key(m)
<1>1. /\ native' = [native EXCEPT ![Slot(m)] = None]
      /\ loaded' = [j \in DOMAIN loaded |-> IF j = k THEN None ELSE loaded[j]]
      /\ active' = [active EXCEPT !["text"] = IF k = "text" THEN None ELSE @]
      /\ turn' = Idle
      /\ UNCHANGED <<residents, newest, context, freeing, policy, overrides, waiting, charged, limit>>
  BY DEF GiveUp, Release, hist
<1>2. MapOK'  BY <1>1, Dropped DEF TypeInv, MapOK
<1>3. BeliefOK'  BY <1>1 DEF TypeInv, BeliefOK
<1>4. PolicyOK'  BY <1>1 DEF TypeInv, PolicyOK
<1>5. LockOK'  BY <1>1, Turned DEF TypeInv
<1> QED BY <1>2, <1>3, <1>4, <1>5 DEF TypeInv

LEMMA AskTypes ==
  ASSUME TypeInv, NEW r \in Requests, Ask(r)
  PROVE  TypeInv'
<1>1. /\ Happens("ask", MaxAsks) /\ waiting' = Append(waiting, r)
      /\ UNCHANGED <<native, residents, newest, loaded, active, context, freeing, policy, overrides,
                     turn, late, charged, limit>>
  BY DEF Ask, js, hist
<1>2. MapOK' /\ BeliefOK'  BY <1>1 DEF TypeInv, MapOK, BeliefOK, Resident
<1>3. PolicyOK'  BY <1>1, HappensTypes DEF TypeInv, PolicyOK, Events
<1>4. waiting' \in Seq(Requests)  BY <1>1 DEF TypeInv, LockOK
<1>5. LockOK'  BY <1>1, <1>4 DEF TypeInv, LockOK
<1> QED BY <1>2, <1>3, <1>5 DEF TypeInv

LEMMA TakeLockTypes ==
  ASSUME TypeInv, TakeLock
  PROVE  /\ TypeInv' /\ turn' = [Head(waiting) EXCEPT !.at = turn'.at, !.evict = turn'.evict]
         /\ turn'.op = "load" /\ turn'.at # "decide" => turn'.model = "embedding" /\ turn'.at = "load"
         /\ turn'.full = FALSE
<1> DEFINE r == Head(waiting)
<1>1. waiting \in Seq(Requests) /\ waiting # <<>> /\ waiting' = Tail(waiting)
  BY DEF TakeLock, TypeInv, LockOK
<1>2. r \in Requests /\ waiting' \in Seq(Requests)  BY <1>1
<1>3. PICK K \in SUBSET Keys :
        /\ turn' = [r EXCEPT !.at = IF r.model = "embedding" /\ r.op = "load" THEN "load"
                                    ELSE IF r.op = "load" THEN "decide"
                                    ELSE IF r.op = "unload" THEN "unload" ELSE "eject",
                             !.evict = K]
        /\ r.op = "load" => K = {}
  <2> DEFINE keys == CASE r.op = "eject" -> {r.model}
                       [] r.op = "reclaim" -> {"whisper"}
                       [] r.op = "warning" -> {"whisper", "embedding"}
                       [] OTHER -> {}
             K == {k \in keys : Resident(k)}
  <2>1. K \in SUBSET Keys /\ (r.op = "load" => K = {})
    BY <1>2, RequestTypes DEF Keys
  <2>2. turn' = [r EXCEPT !.at = IF r.model = "embedding" /\ r.op = "load" THEN "load"
                                 ELSE IF r.op = "load" THEN "decide"
                                 ELSE IF r.op = "unload" THEN "unload" ELSE "eject",
                          !.evict = K]
    BY DEF TakeLock
  <2> QED BY <2>1, <2>2
<1>4. /\ r \in Turns /\ r.op # None /\ r.at = "start" /\ r.evict = {} /\ r.full = FALSE
      /\ r.op = "load" => r.model \in Models /\ (r.override => r.model \in Generation)
      /\ r.op = "unload" => r.model \in {"text", "image"}
  BY <1>2, RequestTypes
<1>5. /\ turn' \in Turns /\ turn'.op = r.op /\ turn'.model = r.model /\ turn'.override = r.override
      /\ turn'.full = FALSE
      /\ turn'.at = IF r.model = "embedding" /\ r.op = "load" THEN "load"
                    ELSE IF r.op = "load" THEN "decide"
                    ELSE IF r.op = "unload" THEN "unload" ELSE "eject"
      /\ r.op = "load" => turn'.evict = {}
      /\ turn' = [r EXCEPT !.at = turn'.at, !.evict = turn'.evict]
  BY <1>3, <1>4 DEF Turns
<1>6. LockOK'  BY <1>2, <1>4, <1>5 DEF LockOK
<1>7. UNCHANGED <<native, residents, newest, loaded, active, context, freeing, policy, overrides,
                  late, charged, limit, count>>
  BY DEF TakeLock, js, hist
<1>8. MapOK' /\ BeliefOK' /\ PolicyOK'
  BY <1>7 DEF TypeInv, MapOK, BeliefOK, PolicyOK, Resident
<1> QED BY <1>5, <1>6, <1>8 DEF TypeInv

\* The room a load makes: who has to go, and the budget.
LEMMA MakeRoomTypes ==
  ASSUME TypeInv, MakeRoom
  PROVE  /\ TypeInv'
         /\ UNCHANGED <<native, residents, newest, loaded, active, context, freeing, policy,
                        waiting, late, charged, limit, count>>
         /\ \/ turn' = Idle
            \/ /\ turn'.at = "evict" /\ turn'.model = turn.model /\ turn'.op = turn.op
               /\ turn'.evict \subseteq Victims(turn.model)
               /\ turn'.full => /\ FitsAfter(turn.model, turn'.evict, turn'.budget)
                                /\ ~ Resident(Key(turn.model))
<1> DEFINE m == turn.model
<1>1. /\ turn.at = "decide"
      /\ UNCHANGED <<native, residents, newest, loaded, active, context, freeing, policy,
                     waiting, late, charged, limit, count>>
  BY DEF MakeRoom, js, hist
<1>2. /\ m \in Models /\ Key(m) \in Keys /\ turn.op = "load" /\ turn \in Turns
      /\ turn.override => m \in Generation
  BY <1>1, LoadingModel DEF TypeInv, LockOK
<1>3. MapOK' /\ BeliefOK'
  BY <1>1 DEF TypeInv, MapOK, BeliefOK, Resident
<1>4. overrides' = (IF turn.override THEN overrides \union {m} ELSE overrides)
  BY DEF MakeRoom
<1>5. PolicyOK'
  BY <1>1, <1>2, <1>4 DEF TypeInv, PolicyOK
<1>6. PICK free \in Free :
        LET override == turn.override \/ m \in overrides
            budget == BudgetFor(m, free)
            evict == Evictions(m, budget, policy = "conservative" \/ override)
            refused == /\ ~ FitsAfter(m, evict, budget) \/ DirtyCeilingExceeded(m, evict)
                       /\ ~ override
        IN IF refused THEN turn' = Idle
           ELSE turn' = [turn EXCEPT !.at = "evict", !.override = override, !.budget = budget,
                                     !.evict = evict,
                                     !.full = ~ override /\ ~ Resident(Key(m))]
  BY DEF MakeRoom, Release
<1> DEFINE override == turn.override \/ m \in overrides
           budget == BudgetFor(m, free)
           evict == Evictions(m, budget, policy = "conservative" \/ override)
<1>7. budget \in Nat  BY <1>6, BudgetTypes DEF TypeInv
<1>8. evict \subseteq Victims(m)  BY DEF Evictions
<1>9. Victims(m) \subseteq Keys /\ (Sidecar(m) => Victims(m) \subseteq {"whisper", "embedding"})
  BY DEF Victims, Sidecar
<1>10. \/ turn' = Idle
       \/ /\ turn' = [turn EXCEPT !.at = "evict", !.override = override, !.budget = budget,
                                  !.evict = evict, !.full = ~ override /\ ~ Resident(Key(m))]
          /\ FitsAfter(m, evict, budget) \/ override
  BY <1>6
<1> HIDE DEF budget, evict
<1>11. CASE turn' = Idle
  <2>1. LockOK'  BY <1>1, <1>11, Turned DEF TypeInv
  <2> QED BY <1>1, <1>3, <1>5, <1>11, <2>1 DEF TypeInv
<1>12. CASE /\ turn' = [turn EXCEPT !.at = "evict", !.override = override, !.budget = budget,
                                    !.evict = evict, !.full = ~ override /\ ~ Resident(Key(m))]
            /\ FitsAfter(m, evict, budget) \/ override
  <2>1. override \in BOOLEAN /\ (~ override /\ ~ Resident(Key(m))) \in BOOLEAN
    BY <1>2 DEF Turns
  <2>2. /\ turn' \in Turns /\ turn'.at = "evict" /\ turn'.model = m /\ turn'.op = turn.op
        /\ turn'.evict = evict /\ turn'.budget = budget
        /\ turn'.full = (~ override /\ ~ Resident(Key(m)))
    BY <1>2, <1>7, <1>8, <1>9, <1>12, <2>1 DEF Turns
  <2>3. LockOK'
    BY <1>1, <1>2, <1>8, <1>9, <2>2 DEF TypeInv, LockOK, m
  <2> QED BY <1>1, <1>3, <1>5, <1>8, <1>12, <2>2, <2>3 DEF TypeInv, m
<1> QED BY <1>10, <1>11, <1>12

\* A victim goes, or is gone already.
LEMMA EvictTypes ==
  ASSUME TypeInv, NEW k \in Keys, Evict(k)
  PROVE  /\ TypeInv' /\ turn.at = "evict" /\ k \in turn.evict
         /\ turn' = [turn EXCEPT !.evict = @ \ {k}] /\ turn'.at = "evict"
         /\ turn'.model = turn.model /\ turn'.op = turn.op /\ turn'.full = turn.full
         /\ turn'.budget = turn.budget /\ turn'.evict = turn.evict \ {k}
<1>1. /\ turn.at = "evict" /\ k \in turn.evict /\ turn' = [turn EXCEPT !.evict = @ \ {k}]
      /\ UNCHANGED <<newest, active, policy, overrides, waiting, late, charged, limit>>
  BY DEF Evict, VictimNext, FirstOf, hist
<1>2. \/ Unload(k) /\ residents' = Without(k)
      \/ UNCHANGED <<native, residents, loaded, context, freeing, count>>
  BY DEF Evict
<1>3. /\ MapOK' /\ BeliefOK' /\ count' \in [Events -> Nat]
  <2>1. CASE Unload(k) /\ residents' = Without(k)
    <3>1. MapOK'  BY <1>1, <2>1, UnloadTypes, DroppedFromMap, Dropped DEF TypeInv
    <3>2. BeliefOK' /\ count' \in [Events -> Nat]
      BY <1>1, <2>1, UnloadTypes DEF TypeInv, BeliefOK
    <3> QED BY <3>1, <3>2
  <2>2. CASE UNCHANGED <<native, residents, loaded, context, freeing, count>>
    BY <1>1, <2>2 DEF TypeInv, MapOK, BeliefOK, PolicyOK, Resident
  <2> QED BY <1>2, <2>1, <2>2
<1>4. PolicyOK'  BY <1>1, <1>3 DEF TypeInv, PolicyOK
<1>5. /\ turn' \in Turns /\ turn'.at = "evict" /\ turn'.model = turn.model /\ turn'.op = turn.op
      /\ turn'.full = turn.full /\ turn'.budget = turn.budget /\ turn'.evict = turn.evict \ {k}
  BY <1>1 DEF TypeInv, LockOK, Turns
<1>6. LockOK'  BY <1>1, <1>5 DEF TypeInv, LockOK
<1> QED BY <1>1, <1>3, <1>4, <1>5, <1>6 DEF TypeInv

LEMMA EjectTypes ==
  ASSUME TypeInv, NEW k \in Keys, Eject(k)
  PROVE  TypeInv' /\ turn'.at = "eject" /\ turn.at = "eject" /\ turn'.op = turn.op
<1>1. /\ turn.at = "eject" /\ turn' = [turn EXCEPT !.evict = @ \ {k}]
      /\ Unload(k) /\ residents' = Without(k)
      /\ UNCHANGED <<newest, active, policy, overrides, waiting, late, charged, limit>>
  BY DEF Eject, hist
<1>2. MapOK'  BY <1>1, UnloadTypes, DroppedFromMap, Dropped DEF TypeInv
<1>3. BeliefOK' /\ count' \in [Events -> Nat]
  BY <1>1, UnloadTypes DEF TypeInv, BeliefOK
<1>4. PolicyOK'  BY <1>1, <1>3 DEF TypeInv, PolicyOK
<1>5. /\ turn' \in Turns /\ turn'.at = "eject" /\ turn'.model = turn.model /\ turn'.op = turn.op
      /\ turn'.full = turn.full /\ turn'.evict = turn.evict \ {k}
  BY <1>1 DEF TypeInv, LockOK, Turns
<1>6. LockOK'  BY <1>1, <1>5 DEF TypeInv, LockOK
<1> QED BY <1>1, <1>2, <1>3, <1>4, <1>5, <1>6 DEF TypeInv

\* What Switch unloads.
LEMMA SwitchUnloads ==
  ASSUME TypeInv, Switch
  PROVE  /\ turn.at = "evict" /\ turn.evict = {} /\ turn' = [turn EXCEPT !.at = "load"]
         /\ UNCHANGED <<residents, newest, active, policy, overrides, waiting, late, charged, limit>>
         /\ \/ Key(turn.model) = "image" /\ Unload("image")
            \/ /\ Key(turn.model) = "text" /\ loaded["text"] \notin {None, turn.model}
               /\ native' = [native EXCEPT !["llama"] = None, !["litert"] = None]
               /\ loaded' = [loaded EXCEPT !["text"] = None]
               /\ UNCHANGED <<context, freeing, count>>
            \/ /\ Key(turn.model) = "text" => loaded["text"] \in {None, turn.model}
               /\ UNCHANGED <<native, loaded, context, freeing, count>>
BY DEF Switch, hist

LEMMA SwitchTypes ==
  ASSUME TypeInv, Switch
  PROVE  /\ TypeInv' /\ turn'.at = "load" /\ turn'.model = turn.model /\ turn'.op = turn.op
         /\ turn'.full = turn.full /\ turn'.budget = turn.budget /\ turn'.evict = {}
<1>1. /\ turn.at = "evict" /\ turn.evict = {} /\ turn' = [turn EXCEPT !.at = "load"]
      /\ UNCHANGED <<residents, newest, active, policy, overrides, waiting, late, charged, limit>>
  BY SwitchUnloads
<1>2. MapOK' /\ BeliefOK' /\ count' \in [Events -> Nat]
  <2>1. CASE Key(turn.model) = "image" /\ Unload("image")
    <3>0. "image" \in Keys  BY DEF Keys
    <3>1. MapOK'  BY <1>1, <2>1, <3>0, UnloadTypes, DroppedFromMap, Dropped DEF TypeInv
    <3>2. BeliefOK' /\ count' \in [Events -> Nat]
      BY <1>1, <2>1, <3>0, UnloadTypes DEF TypeInv, BeliefOK
    <3> QED BY <3>1, <3>2
  <2>2. CASE /\ native' = [native EXCEPT !["llama"] = None, !["litert"] = None]
             /\ loaded' = [loaded EXCEPT !["text"] = None]
             /\ UNCHANGED <<context, freeing, count>>
    <3>1. MapOK'  BY <1>1, <2>2 DEF TypeInv, MapOK, Resident
    <3>2. BeliefOK' /\ count' \in [Events -> Nat]
      BY <1>1, <2>2 DEF TypeInv, BeliefOK, PolicyOK
    <3> QED BY <3>1, <3>2
  <2>3. CASE UNCHANGED <<native, loaded, context, freeing, count>>
    BY <1>1, <2>3 DEF TypeInv, MapOK, BeliefOK, PolicyOK, Resident
  <2> QED BY <2>1, <2>2, <2>3, SwitchUnloads
<1>3. PolicyOK'  BY <1>1, <1>2 DEF TypeInv, PolicyOK
<1>4. /\ turn' \in Turns /\ turn'.at = "load" /\ turn'.model = turn.model /\ turn'.op = turn.op
      /\ turn'.full = turn.full /\ turn'.budget = turn.budget /\ turn'.evict = {}
  BY <1>1 DEF TypeInv, LockOK, Turns
<1>5. LockOK'  BY <1>1, <1>4 DEF TypeInv, LockOK
<1> QED BY <1>2, <1>3, <1>4, <1>5 DEF TypeInv

LEMMA LoadTypes ==
  ASSUME TypeInv, Load
  PROVE  TypeInv'
<1> DEFINE m == turn.model
           k == Key(m)
<1>1. /\ turn.at = "load"
      /\ native' = [native EXCEPT ![Slot(m)] = m]
      /\ residents' = [residents EXCEPT ![k] = m]
      /\ newest' = IF Sidecar(m) THEN m ELSE newest
      /\ loaded' = [j \in DOMAIN loaded |-> IF j = k THEN m ELSE loaded[j]]
      /\ active' = [j \in DOMAIN active |-> IF j = k THEN m ELSE active[j]]
      /\ context' = (context \/ k = "embedding")
      /\ charged' = IF turn.full THEN charged \union {k} ELSE charged \ {k}
      /\ limit' = IF turn.full THEN turn.budget ELSE limit
      /\ turn' = Idle
      /\ UNCHANGED <<freeing, policy, overrides, waiting, late, count>>
  BY DEF Load, Release, Registered
<1>2. /\ m \in Models /\ k \in Keys /\ Slot(m) \in Slots /\ m # None
      /\ m \in TextModels <=> k = "text"
      /\ k \in {"text", "image"} => m \in Generation
      /\ Sidecar(m) => m \in {"whisper", "embedding"}
  BY <1>1, LoadingModel DEF TypeInv, Sidecar
<1> HIDE DEF m, k
<1>3. MapOK'
  <2>1. native' \in [Slots -> Models \union {None}]
    BY <1>1, <1>2 DEF TypeInv, MapOK
  <2>2. \A s \in Slots : native'[s] # None => Slot(native'[s]) = s
    BY <1>1, <1>2 DEF TypeInv, MapOK
  <2>3. residents' \in [Keys -> Models \union {None}] /\ newest' \in {"whisper", "embedding"}
    BY <1>1, <1>2 DEF TypeInv, MapOK
  <2>4. \A j \in Keys : residents'[j] # None => Key(residents'[j]) = j
    BY <1>1, <1>2 DEF TypeInv, MapOK, Resident, k
  <2> QED BY <2>1, <2>2, <2>3, <2>4 DEF MapOK, Resident
<1>4. BeliefOK'
  BY <1>1, <1>2 DEF TypeInv, BeliefOK
<1>5. PolicyOK'
  <2>1. turn.budget \in Nat  BY DEF TypeInv, LockOK, Turns, m
  <2> QED BY <1>1, <1>2, <2>1 DEF TypeInv, PolicyOK
<1>6. LockOK'  BY <1>1, Turned DEF TypeInv
<1> QED BY <1>3, <1>4, <1>5, <1>6 DEF TypeInv

\* The selection and the beliefs of JavaScript outside the lock.
LEMMA SelectTypes ==
  ASSUME TypeInv, NEW m \in TextModels, Select(m)
  PROVE  TypeInv'
<1>1. /\ active' = [active EXCEPT !["text"] = m]
      /\ (Current(m) /\ count' = count) \/ Happens("select", MaxSelects)
      /\ UNCHANGED <<native, residents, newest, loaded, context, freeing, policy, overrides,
                     waiting, turn, late, charged, limit>>
  BY DEF Select, hist
<1>2. count' \in [Events -> Nat]
  BY <1>1, HappensTypes DEF TypeInv, PolicyOK, Events
<1>3. MapOK' /\ PolicyOK' /\ LockOK'
  BY <1>1, <1>2 DEF TypeInv, MapOK, PolicyOK, LockOK, Resident
<1>4. BeliefOK'
  BY <1>1 DEF TypeInv, BeliefOK, Generation
<1> QED BY <1>3, <1>4 DEF TypeInv

LEMMA SyncTypes ==
  ASSUME TypeInv, SyncWithNativeState
  PROVE  /\ TypeInv'
         /\ \A k \in {"text", "image"} :
              \/ loaded'[k] = loaded[k]
              \/ loaded'[k] = None /\ \A s \in Slots :
                   s \in (IF k = "text" THEN {"llama", "litert"} ELSE {k}) => native[s] = None
              \/ loaded[k] = None /\ loaded'[k] = active[k] /\ \E s \in Slots :
                   s \in (IF k = "text" THEN {"llama", "litert"} ELSE {k}) /\ native[s] # None
         /\ UNCHANGED <<native, residents, newest, active, context, freeing, policy,
                        overrides, waiting, turn, late, charged, limit>>
         /\ \A e \in Events : e # "sync" => count'[e] = count[e]
<1> DEFINE held(k) == {s \in IF k = "text" THEN {"llama", "litert"} ELSE {k} : native[s] # None}
<1>1. /\ Happens("sync", 1)
      /\ loaded' = [k \in {"text", "image"} |-> Believed(k, held(k))]
      /\ UNCHANGED <<native, residents, newest, active, context, freeing, policy,
                     overrides, waiting, turn, late, charged, limit>>
  BY DEF SyncWithNativeState, hist
<1>2. \A k \in {"text", "image"} :
        loaded'[k] = IF held(k) = {} THEN None ELSE IF loaded[k] = None THEN active[k] ELSE loaded[k]
  BY <1>1 DEF Believed
<1>3. MapOK' /\ LockOK' /\ PolicyOK'
  BY <1>1, HappensTypes DEF TypeInv, MapOK, PolicyOK, LockOK, Resident, Events
<1>4. loaded' \in [{"text", "image"} -> Generation \union {None}]
  <2>1. DOMAIN loaded' = {"text", "image"} /\ loaded' = [k \in {"text", "image"} |-> loaded'[k]]
    BY <1>1
  <2>2. \A k \in {"text", "image"} : loaded'[k] \in Generation \union {None}
    BY <1>2 DEF TypeInv, BeliefOK
  <2> QED BY <2>1, <2>2
<1>5. BeliefOK'
  BY <1>1, <1>2, <1>4 DEF TypeInv, BeliefOK
<1>6. \A k \in {"text", "image"} : held(k) \subseteq Slots
  BY DEF Slots
<1>7. \A e \in Events : e # "sync" => count'[e] = count[e]
  BY <1>1 DEF Happens, TypeInv, PolicyOK
<1> QED BY <1>1, <1>2, <1>3, <1>5, <1>6, <1>7 DEF TypeInv

LEMMA TypesInductive == TypeInv /\ [Next]_vars => TypeInv'
<1> SUFFICES ASSUME TypeInv, [Next]_vars PROVE TypeInv'
  OBVIOUS
<1>1. CASE UNCHANGED vars
  BY <1>1 DEF vars, TypeInv, MapOK, BeliefOK, PolicyOK, LockOK, Resident
<1>2. ASSUME NEW p \in Policies, SetLoadPolicy(p)
      PROVE  TypeInv'
  BY <1>2, HappensTypes DEF SetLoadPolicy, js, hist, TypeInv, MapOK, BeliefOK, PolicyOK, LockOK,
                            Resident, Events
<1>3. CASE DeleteWhisper
  <2>1. MapOK'  BY <1>3, Dropped DEF DeleteWhisper, js, TypeInv, MapOK
  <2> QED BY <1>3, <2>1, HappensTypes
          DEF DeleteWhisper, js, hist, TypeInv, BeliefOK, PolicyOK, LockOK, Events
<1>4. CASE EmbedFails
  BY <1>4, HappensTypes DEF EmbedFails, js, hist, TypeInv, MapOK, BeliefOK, PolicyOK, LockOK,
                            Resident, Events
<1>5. CASE EmbedUnloaded
  <2>1. "embedding" \in Keys  BY DEF Keys
  <2>2. native' \in [Slots -> Models \union {None}]
        /\ \A s \in Slots : native'[s] # None => native'[s] = native[s]
    BY <1>5 DEF EmbedUnloaded, TypeInv, MapOK
  <2>3. MapOK'  BY <1>5, <2>1, <2>2, DroppedFromMap, Dropped DEF EmbedUnloaded, TypeInv
  <2> QED BY <1>5, <2>3 DEF EmbedUnloaded, hist, TypeInv, BeliefOK, PolicyOK, LockOK
<1>6. ASSUME NEW m \in late, Land(m)
      PROVE  TypeInv'
  <2>1. m \in Models /\ Slot(m) \in Slots
    BY KeyOf DEF TypeInv, PolicyOK, Generation, Models
  <2>2. MapOK'  BY <1>6, <2>1 DEF Land, js, TypeInv, MapOK, Resident
  <2> QED BY <1>6, <2>2 DEF Land, js, hist, TypeInv, BeliefOK, PolicyOK, LockOK
<1>7. CASE AlreadyLoaded
  <2>1. /\ turn.at = "decide" /\ turn' = Idle
        /\ active' = [active EXCEPT ![Key(turn.model)] = turn.model]
        /\ loaded[Key(turn.model)] = turn.model /\ Key(turn.model) \in DOMAIN loaded
        /\ UNCHANGED <<native, residents, newest, loaded, context, freeing, policy, overrides,
                       waiting, late, charged, limit, count>>
    BY <1>7 DEF AlreadyLoaded, Release, hist
  <2>2. LockOK'  BY <2>1, Turned DEF TypeInv
  <2>3. BeliefOK'  BY <2>1 DEF TypeInv, BeliefOK
  <2> QED BY <2>1, <2>2, <2>3 DEF TypeInv, MapOK, PolicyOK, Resident
<1>8. CASE LoadFails
  BY <1>8, GiveUpTypes DEF LoadFails, TypeInv, PolicyOK
<1>9. CASE LoadTimesOut
  <2>1. turn.at = "load" /\ GiveUp /\ late' = late \union {turn.model}
        /\ Happens("late", MaxLate) /\ ~ Sidecar(turn.model)
    BY <1>9 DEF LoadTimesOut
  <2>2. turn.model \in Generation
    BY <2>1, LoadingModel, KeyOf DEF TypeInv
  <2>3. late' \subseteq Generation /\ count' \in [Events -> Nat]
    BY <2>1, <2>2, HappensTypes DEF TypeInv, PolicyOK, Events
  <2> QED BY <2>1, <2>3, GiveUpTypes
<1>10. CASE UnloadByUser
  <2> DEFINE k == turn.model
  <2>1. /\ turn.at = "unload" /\ turn' = Idle
        /\ UNCHANGED <<newest, policy, overrides, waiting, late, charged, limit>>
        /\ \/ UNCHANGED <<native, residents, loaded, active, context, freeing, count>>
           \/ /\ Unload(k) /\ residents' = Without(k)
              /\ active' = [active EXCEPT ![k] = None]
    BY <1>10 DEF UnloadByUser, Release, hist
  <2>2. k \in {"text", "image"} /\ k \in Keys  BY <2>1 DEF TypeInv, LockOK, Keys
  <2>3. LockOK'  BY <2>1, Turned DEF TypeInv
  <2>4. CASE UNCHANGED <<native, residents, loaded, active, context, freeing, count>>
    BY <2>1, <2>3, <2>4 DEF TypeInv, MapOK, BeliefOK, PolicyOK, Resident
  <2>5. CASE Unload(k) /\ residents' = Without(k) /\ active' = [active EXCEPT ![k] = None]
    <3>1. MapOK'  BY <2>1, <2>2, <2>5, UnloadTypes, DroppedFromMap, Dropped DEF TypeInv
    <3>2. BeliefOK' /\ count' \in [Events -> Nat]
      BY <2>1, <2>2, <2>5, UnloadTypes DEF TypeInv, BeliefOK
    <3>3. PolicyOK'  BY <2>1, <3>2 DEF TypeInv, PolicyOK
    <3> QED BY <2>3, <3>1, <3>2, <3>3 DEF TypeInv
  <2> QED BY <2>1, <2>4, <2>5
<1>11. CASE Ejected
  <2>1. LockOK'  BY <1>11, Turned DEF Ejected, Release, TypeInv
  <2> QED BY <1>11, <2>1 DEF Ejected, js, hist, TypeInv, MapOK, BeliefOK, PolicyOK, Resident
<1> QED BY <1>1, <1>2, <1>3, <1>4, <1>5, <1>6, <1>7, <1>8, <1>9, <1>10, <1>11, AskTypes,
           SelectTypes, SyncTypes, TakeLockTypes, MakeRoomTypes, SwitchTypes, LoadTypes,
           EvictTypes, EjectTypes
        DEF Next, Work

LEMMA TypesHold == Spec => []TypeInv
<1> QED BY InitTypes, TypesInductive, PTL DEF Spec

\* For every set of models, footprints, engines, budgets and policies, and however often
\* things happen: all variables stay in their ranges, and every engine and every entry of
\* the map has a model of its kind.
THEOREM TypeCorrect == Spec => []TypeOK
BY TypesHold, TypeInvTypes, PTL

-----------------------------------------------------------------------------
(* What was admitted fits.                                                 *)

\* From the decision to the registration, what is kept leaves room for the model.
FitInv ==
  /\ AdmissionsFit
  /\ turn.at \in {"evict", "load"} /\ turn.full =>
       Total(Kept(turn.model, turn.evict)) + Size[turn.model] <= turn.budget

LEMMA FitIs ==
  /\ FitInv <=> /\ TotalOf(residents, charged) <= limit
                /\ turn.at \in {"evict", "load"} /\ turn.full =>
                     TotalOf(residents, Keys \ ({Key(turn.model)} \union turn.evict))
                       + Size[turn.model] <= turn.budget
  /\ FitInv' <=> /\ TotalOf(residents', charged') <= limit'
                 /\ turn'.at \in {"evict", "load"} /\ turn'.full =>
                      TotalOf(residents', Keys \ ({Key(turn'.model)} \union turn'.evict))
                        + Size[turn'.model] <= turn'.budget
BY DEF FitInv, AdmissionsFit, Total, TotalOf, Weight, Resident, Kept, Key

\* Residents only go, and the operation keeps at most what it kept.
LEMMA StillFits ==
  ASSUME TypeInv, TypeInv', FitInv,
         \A j \in Keys : residents'[j] # None => residents'[j] = residents[j],
         charged' = charged, limit' = limit,
         turn'.at \in {"evict", "load"} /\ turn'.full =>
           /\ turn.at \in {"evict", "load"} /\ turn.full
           /\ turn'.model = turn.model /\ turn'.budget = turn.budget
           /\ \A k \in Keys : residents'[k] # None /\ k \in turn.evict => k \in turn'.evict
  PROVE  FitInv'
<1>1. residents \in [Keys -> Models \union {None}] /\ residents' \in [Keys -> Models \union {None}]
  BY DEF TypeInv, MapOK
<1>2. TotalOf(residents', charged') <= limit'
  <2>1. TotalOf(residents', charged) <= TotalOf(residents, charged)  BY <1>1, TotalMono
  <2>2. TotalOf(residents, charged) <= limit /\ limit \in Nat  BY FitIs DEF TypeInv, PolicyOK
  <2>3. TotalOf(residents', charged) \in Nat /\ TotalOf(residents, charged) \in Nat
    BY <1>1, TotalTypes
  <2> QED BY <2>1, <2>2, <2>3
<1>3. ASSUME turn'.at \in {"evict", "load"}, turn'.full
      PROVE  TotalOf(residents', Keys \ ({Key(turn'.model)} \union turn'.evict))
               + Size[turn'.model] <= turn'.budget
  <2> DEFINE J == Keys \ ({Key(turn.model)} \union turn'.evict)
             K == Keys \ ({Key(turn.model)} \union turn.evict)
  <2>1. TotalOf(residents', J) <= TotalOf(residents, K)  BY <1>1, <1>3, TotalMono
  <2>2. TotalOf(residents, K) + Size[turn.model] <= turn.budget  BY <1>3, FitIs
  <2>3. TotalOf(residents', J) \in Nat /\ TotalOf(residents, K) \in Nat  BY <1>1, TotalTypes
  <2>4. Size[turn.model] \in Nat /\ turn.budget \in Nat
    BY <1>3, LoadingModel, ResidencyConstants DEF TypeInv, LockOK, Turns
  <2> HIDE DEF J, K
  <2>5. TotalOf(residents', J) + Size[turn.model] <= turn.budget
    BY <2>1, <2>2, <2>3, <2>4
  <2> QED BY <1>3, <2>5 DEF J
<1> QED BY <1>2, <1>3, FitIs

\* The resident just loaded was counted in full, or is no longer among those that were.
LEMMA LoadFits ==
  ASSUME TypeInv, TypeInv', FitInv, Load
  PROVE  FitInv'
<1> DEFINE m == turn.model
           k == Key(m)
<1>1. /\ turn.at = "load" /\ residents' = [residents EXCEPT ![k] = m]
      /\ charged' = IF turn.full THEN charged \union {k} ELSE charged \ {k}
      /\ limit' = IF turn.full THEN turn.budget ELSE limit
      /\ turn' = Idle
  BY DEF Load, Release, Registered
<1>2. m \in Models /\ k \in Keys /\ turn.evict = {} /\ turn.budget \in Nat /\ limit \in Nat
      /\ Size[m] \in Nat
  BY <1>1, LoadingModel, ResidencyConstants DEF TypeInv, LockOK, PolicyOK, Turns
<1>3. residents \in [Keys -> Models \union {None}] /\ residents' \in [Keys -> Models \union {None}]
  BY DEF TypeInv, MapOK
<1>4. TotalOf(residents, charged) <= limit
  BY FitIs
<1>5. turn.full => TotalOf(residents, Keys \ {k}) + Size[m] <= turn.budget
  <2>1. {k} \union turn.evict = {k}  BY <1>2
  <2> QED BY <1>1, <2>1, FitIs
<1>6. ~ turn'.at \in {"evict", "load"}
  BY <1>1, IdleTypes
<1>7. CASE turn.full
  <2>1. TotalOf(residents', charged') <= TotalOf(residents, Keys \ {k}) + Size[m]
    <3>1. \A j \in Keys \ {k} : j \in charged' /\ residents'[j] # None =>
                                  j \in Keys \ {k} /\ residents[j] = residents'[j]
      BY <1>1, <1>3
    <3>2. residents'[k] = m /\ k \notin Keys \ {k}
      BY <1>1, <1>2, <1>3
    <3> HIDE DEF m
    <3> QED BY <1>2, <1>3, <3>1, <3>2, TotalAdd
  <2>2. TotalOf(residents', charged') \in Nat /\ TotalOf(residents, Keys \ {k}) \in Nat
    BY <1>3, TotalTypes
  <2>3. TotalOf(residents', charged') <= limit'
    BY <1>1, <1>2, <1>5, <1>7, <2>1, <2>2
  <2> QED BY <1>6, <2>3, FitIs
<1>8. CASE ~ turn.full
  <2>1. TotalOf(residents', charged') <= TotalOf(residents, charged)
    <3>1. \A j \in Keys : j \in charged' /\ residents'[j] # None =>
                            j \in charged /\ residents[j] = residents'[j]
      BY <1>1, <1>3, <1>8
    <3> QED BY <1>3, <3>1, TotalMono
  <2>2. TotalOf(residents', charged') \in Nat /\ TotalOf(residents, charged) \in Nat
    BY <1>3, TotalTypes
  <2>3. TotalOf(residents', charged') <= limit'
    BY <1>1, <1>2, <1>4, <1>8, <2>1, <2>2
  <2> QED BY <1>6, <2>3, FitIs
<1> QED BY <1>7, <1>8

LEMMA FitInit == Init => FitInv
<1> SUFFICES ASSUME Init PROVE FitInv
  OBVIOUS
<1>1. \A k \in Keys : residents[k] = None  BY DEF Init
<1>2. TotalOf(residents, charged) = 0  BY <1>1 DEF TotalOf, Weight, Keys
<1>3. limit = 0 /\ turn = Idle  BY DEF Init
<1> QED BY <1>2, <1>3, FitIs, IdleTypes

LEMMA FitInductive == TypeInv /\ TypeInv' /\ FitInv /\ [Next]_vars => FitInv'
<1> SUFFICES ASSUME TypeInv, TypeInv', FitInv, [Next]_vars PROVE FitInv'
  OBVIOUS
<1> DEFINE Going == /\ \A j \in Keys : residents'[j] # None => residents'[j] = residents[j]
                    /\ charged' = charged /\ limit' = limit
<1>1. CASE UNCHANGED <<residents, charged, limit, turn>>
  BY <1>1, StillFits
<1>2. CASE Going /\ turn' = Idle
  BY <1>2, StillFits, IdleTypes
<1>3. CASE Going /\ turn' = turn
  BY <1>3, StillFits
<1>4. CASE TakeLock
  BY <1>4, StillFits, TakeLockTypes DEF TakeLock, js, hist
<1>5. CASE MakeRoom
  <2>1. CASE turn' = Idle
    BY <1>2, <1>5, <2>1, MakeRoomTypes
  <2>2. CASE /\ turn'.at = "evict" /\ turn'.model = turn.model
             /\ turn'.full => /\ FitsAfter(turn.model, turn'.evict, turn'.budget)
                              /\ ~ Resident(Key(turn.model))
    <3>1. turn'.full => TotalOf(residents, Keys \ ({Key(turn'.model)} \union turn'.evict))
                          + Size[turn'.model] <= turn'.budget
      BY <2>2 DEF FitsAfter, Cost, Kept, Total, TotalOf, Weight, Resident
    <3>2. UNCHANGED <<residents, charged, limit>>  BY <1>5, MakeRoomTypes
    <3> QED BY <2>2, <3>1, <3>2, FitIs
  <2> QED BY <1>5, <2>1, <2>2, MakeRoomTypes
<1>6. ASSUME NEW k \in Keys, Evict(k)
      PROVE  FitInv'
  <2>1. /\ turn.at = "evict" /\ turn'.model = turn.model /\ turn'.full = turn.full
        /\ turn'.budget = turn.budget /\ turn'.evict = turn.evict \ {k}
    BY <1>6, EvictTypes
  <2>2. /\ residents' = Without(k) \/ (residents' = residents /\ residents[k] = None)
        /\ charged' = charged /\ limit' = limit
    BY <1>6 DEF Evict, hist, Resident
  <2>3. /\ Going /\ residents'[k] = None
    BY <2>2, WithoutTypes DEF TypeInv
  <2>4. turn'.full => turn.full
    BY <2>1
  <2> QED BY <2>1, <2>3, <2>4, StillFits
<1>7. ASSUME NEW k \in Keys, Eject(k)
      PROVE  FitInv'
  <2>1. Going  BY <1>7, WithoutTypes DEF Eject, hist, TypeInv
  <2>2. turn'.at = "eject"  BY <1>7, EjectTypes
  <2> QED BY <2>1, <2>2, StillFits
<1>8. CASE Switch
  <2>1. UNCHANGED <<residents, charged, limit>> /\ turn.at = "evict" /\ turn.evict = {}
    BY <1>8, SwitchUnloads
  <2>2. turn'.model = turn.model /\ turn'.full = turn.full /\ turn'.budget = turn.budget
    BY <1>8, SwitchTypes
  <2>3. turn'.full => turn.full  BY <2>2
  <2> QED BY <2>1, <2>2, <2>3, StillFits
<1>9. CASE EmbedUnloaded
  <2>1. "embedding" \in Keys  BY DEF Keys
  <2>2. Going /\ turn' = turn  BY <1>9, <2>1, WithoutTypes DEF EmbedUnloaded, hist, TypeInv
  <2> QED BY <1>3, <2>2
<1>10. CASE UnloadByUser
  <2>1. /\ turn' = Idle /\ charged' = charged /\ limit' = limit /\ turn.at = "unload"
        /\ \/ residents' = residents
           \/ residents' = Without(turn.model)
    BY <1>10 DEF UnloadByUser, Release, hist
  <2>2. turn.model \in Keys  BY <2>1 DEF TypeInv, LockOK, Keys
  <2>3. Going  BY <2>1, <2>2, WithoutTypes DEF TypeInv
  <2> QED BY <1>2, <2>1, <2>3
<1>11. CASE LoadFails \/ LoadTimesOut
  <2>1. GiveUp  BY <1>11 DEF LoadFails, LoadTimesOut
  <2>2. turn' = Idle /\ UNCHANGED <<residents, charged, limit>>
    BY <2>1 DEF GiveUp, Release, hist
  <2> QED BY <1>2, <2>2
<1>12. CASE AlreadyLoaded \/ Ejected
  <2>1. turn' = Idle /\ UNCHANGED <<residents, charged, limit>>
    BY <1>12 DEF AlreadyLoaded, Ejected, Release, js, hist
  <2> QED BY <1>2, <2>1
<1>13. \/ UNCHANGED <<residents, charged, limit, turn>>
       \/ EmbedUnloaded \/ TakeLock \/ Work
  BY DEF Next, Ask, Select, SetLoadPolicy, SyncWithNativeState, DeleteWhisper, EmbedFails, Land,
         js, hist, vars
<1> QED BY <1>1, <1>4, <1>5, <1>6, <1>7, <1>8, <1>9, <1>10, <1>11, <1>12, <1>13, LoadFits
        DEF Work

\* For every set of models, footprints and budgets, whatever is asked for, deleted, freed or
\* lands between the decision and the registration: the residents that were admitted at
\* their full size fit the budget the last one was admitted under.
THEOREM AdmittedFits == Spec => []AdmissionsFit
<1>1. FitInv => AdmissionsFit  BY DEF FitInv
<1>2. Spec => []FitInv
  BY FitInit, FitInductive, TypesHold, PTL DEF Spec
<1> QED BY <1>1, <1>2, PTL

-----------------------------------------------------------------------------
(* What an engine holds is in the map, unless a mishap of its own kind     *)
(* happened.  The services' own beliefs have to be right for that: they    *)
(* say which engine an eviction unloads.                                   *)

TextSlots == {"llama", "litert"}

\* Until a native load outlives its timer or a selection runs ahead, the text service
\* knows what its engines hold; a load has emptied the engine it does not use.
TextBelieved ==
  count["late"] = 0 /\ count["select"] = 0 =>
    /\ \A s \in TextSlots :
         native[s] # None => loaded["text"] = native[s] /\ residents["text"] = native[s]
    /\ loaded["text"] # None => active["text"] = loaded["text"]
    /\ turn.at = "load" /\ turn.model \in TextModels =>
         \A s \in TextSlots : native[s] # None => s = Engine[turn.model]

ImageBelieved ==
  count["late"] = 0 /\ count["failure"] = 0 =>
    (native["image"] # None => residents["image"] = native["image"])

WhisperBelieved == native["whisper"] # None => residents["whisper"] = native["whisper"]

\* Until an unlocked release, the embedding service has the context that is in RAM.
EmbeddingBelieved ==
  count["abort"] = 0 =>
    /\ freeing = "no"
    /\ native["embedding"] # None => context /\ residents["embedding"] = native["embedding"]

BelievedInv ==
  /\ count["late"] = 0 => late = {}
  /\ TextBelieved /\ ImageBelieved /\ WhisperBelieved /\ EmbeddingBelieved

NoUndoing == \A e \in Events : count'[e] = 0 => count[e] = 0

LEMMA Mishaps == {"late", "select", "failure", "abort"} \subseteq Events
BY DEF Events

LEMMA KeysAre ==
  /\ {"text", "image", "whisper", "embedding"} = Keys
  /\ TextSlots \union {"image", "whisper", "embedding"} = Slots
BY DEF Keys, Slots, TextSlots

LEMMA BelievedInit == Init => BelievedInv
BY KeysAre, IdleTypes DEF Init, BelievedInv, TextBelieved, ImageBelieved, WhisperBelieved, EmbeddingBelieved

\* Nothing that the services believe changes.
LEMMA Quiet ==
  ASSUME BelievedInv, NoUndoing,
         UNCHANGED <<native, residents, loaded, active, context, freeing, late>>,
         turn'.at = "load" /\ turn'.model \in TextModels => turn' = turn
  PROVE  BelievedInv'
BY Mishaps DEF BelievedInv, TextBelieved, ImageBelieved, WhisperBelieved, EmbeddingBelieved, NoUndoing

\* What unloading a resident leaves in the engines.
LEMMA UnloadFrees ==
  ASSUME TypeInv, NEW k \in Keys, Unload(k)
  PROVE  /\ \A s \in Slots \ (TextSlots \union {k}) : native'[s] = native[s]
         /\ k = "text" => \A s \in TextSlots :
              active["text"] # None /\ s = Engine[active["text"]] => native'[s] = None
         /\ k # "text" => \A s \in TextSlots : native'[s] = native[s]
         /\ k = "image" => native'["image"] = None \/ count'["failure"] # 0
         /\ k = "whisper" => native'["whisper"] = None
         /\ k = "embedding" /\ context => native'["embedding"] = None
         /\ k = "embedding" /\ freeing = "no" => freeing' = "no"
         /\ k # "embedding" => freeing' = freeing
<1>1. \/ native' = [s \in Slots |-> IF s \in Frees(k) THEN None ELSE native[s]]
      \/ k = "image" /\ Happens("failure", MaxFailures) /\ native' = native
  BY DEF Unload, ImageUnloadFails
<1>2. freeing' = IF k = "embedding" /\ context /\ freeing = "live" THEN "stale" ELSE freeing
  BY DEF Unload
<1>3. Frees(k) = {s \in CASE k = "text" -> ActiveEngine
                          [] k = "embedding" -> IF context THEN {k} ELSE {}
                          [] OTHER -> {k} : native[s] # None}
  BY DEF Frees
<1>4. ActiveEngine = (IF active["text"] = None THEN {} ELSE {Engine[active["text"]]})
  BY DEF ActiveEngine
<1>5. active["text"] # None => Engine[active["text"]] \in TextSlots
  BY ResidencyConstants DEF TypeInv, BeliefOK, TextSlots
<1>6. native \in [Slots -> Models \union {None}]  BY DEF TypeInv, MapOK
<1>7. k = "image" /\ Happens("failure", MaxFailures) => count'["failure"] # 0
  BY Mishaps DEF Happens, TypeInv, PolicyOK
<1>8. CASE k = "text"
  <2>1. native' = [s \in Slots |-> IF s \in ActiveEngine /\ native[s] # None THEN None ELSE native[s]]
    BY <1>1, <1>3, <1>8
  <2> QED BY <1>2, <1>4, <1>5, <1>6, <1>8, <2>1, KeysAre
<1>9. CASE k = "embedding"
  <2>1. native' = [s \in Slots |-> IF s \in (IF context THEN {k} ELSE {}) /\ native[s] # None
                                   THEN None ELSE native[s]]
    BY <1>1, <1>3, <1>9
  <2>2. \A s \in Slots \ {k} : native'[s] = native[s]  BY <1>6, <2>1
  <2>3. context => native'[k] = None  BY <1>6, <1>9, <2>1, KeysAre
  <2>4. TextSlots \subseteq Slots \ {k}  BY <1>9, KeysAre DEF TextSlots
  <2> QED BY <1>2, <1>9, <2>2, <2>3, <2>4
<1>10. CASE k \notin {"text", "embedding"}
  <2>0. Frees(k) = {s \in {k} : native[s] # None}  BY <1>3, <1>10
  <2>1. \/ native' = [s \in Slots |-> IF s \in {k} /\ native[s] # None THEN None ELSE native[s]]
        \/ k = "image" /\ Happens("failure", MaxFailures) /\ native' = native
    BY <1>1, <2>0
  <2>2. \A s \in Slots \ {k} : native'[s] = native[s]  BY <1>6, <2>1
  <2>3. native'[k] = None \/ (k = "image" /\ count'["failure"] # 0)
    BY <1>6, <1>7, <1>10, <2>1, KeysAre
  <2>4. TextSlots \subseteq Slots \ {k}  BY <1>10, KeysAre DEF TextSlots
  <2> QED BY <1>2, <1>10, <2>2, <2>3, <2>4
<1> QED BY <1>8, <1>9, <1>10

\* A resident is unloaded and taken out of the map.
LEMMA UnloadBelieved ==
  ASSUME TypeInv, BelievedInv, NEW k \in Keys, Unload(k), residents' = Without(k),
         late' = late, turn'.at # "load",
         active' = active \/ active' = [active EXCEPT ![k] = None]
  PROVE  BelievedInv'
<1>1. /\ NoUndoing /\ count' \in [Events -> Nat]
      /\ \A j \in {"text", "image"} : loaded'[j] = IF j = k THEN None ELSE loaded[j]
      /\ context' = (context /\ k # "embedding")
  BY UnloadTypes DEF TypeInv, NoUndoing
<1>2. \A j \in Keys : residents'[j] = IF j = k THEN None ELSE residents[j]
  BY WithoutTypes DEF TypeInv
<1>3. count'["late"] = 0 => late' = {}
  BY <1>1, Mishaps DEF BelievedInv, NoUndoing
<1>4. TextBelieved'
  <2>1. SUFFICES ASSUME count'["late"] = 0, count'["select"] = 0
                 PROVE  /\ \A s \in TextSlots : native'[s] # None =>
                              loaded'["text"] = native'[s] /\ residents'["text"] = native'[s]
                        /\ loaded'["text"] # None => active'["text"] = loaded'["text"]
    BY DEF TextBelieved
  <2>2. /\ \A s \in TextSlots :
             native[s] # None => loaded["text"] = native[s] /\ residents["text"] = native[s]
        /\ loaded["text"] # None => active["text"] = loaded["text"]
    BY <1>1, <2>1, Mishaps DEF NoUndoing, BelievedInv, TextBelieved
  <2>3. CASE k = "text"
    <3>1. ASSUME NEW s \in TextSlots PROVE native'[s] = None
      <4>1. native'[s] # None => native'[s] = native[s]
        BY UnloadTypes, KeysAre DEF TypeInv
      <4>2. CASE native[s] # None
        <5>1. active["text"] = native[s]  BY <2>2, <4>2
        <5>2. Slot(native[s]) = s /\ native[s] \in Models
          BY <4>2, KeysAre DEF TypeInv, MapOK
        <5>3. Engine[native[s]] = s  BY <5>2, KeyOf DEF TextSlots
        <5> QED BY <2>3, <4>2, <5>1, <5>3, UnloadFrees
      <4> QED BY <4>1, <4>2
    <3> QED BY <1>1, <2>3, <3>1
  <2>4. CASE k # "text"
    <3>1. /\ \A s \in TextSlots : native'[s] = native[s]
          /\ residents'["text"] = residents["text"] /\ loaded'["text"] = loaded["text"]
          /\ active'["text"] = active["text"]
      BY <1>1, <1>2, <2>4, UnloadFrees, KeysAre DEF TypeInv, BeliefOK
    <3> QED BY <2>2, <3>1
  <2> QED BY <2>3, <2>4
<1>5. ImageBelieved'
  <2>1. CASE k = "image"
    BY <2>1, UnloadFrees DEF ImageBelieved
  <2>2. CASE k # "image"
    <3>1. native'["image"] = native["image"] /\ residents'["image"] = residents["image"]
      BY <1>2, <2>2, UnloadFrees, KeysAre DEF TextSlots
    <3> QED BY <1>1, <3>1, Mishaps DEF NoUndoing, BelievedInv, ImageBelieved
  <2> QED BY <2>1, <2>2
<1>6. WhisperBelieved'
  <2>1. CASE k = "whisper"
    BY <2>1, UnloadFrees DEF WhisperBelieved
  <2>2. CASE k # "whisper"
    <3>1. native'["whisper"] = native["whisper"] /\ residents'["whisper"] = residents["whisper"]
      BY <1>2, <2>2, UnloadFrees, KeysAre DEF TextSlots
    <3> QED BY <3>1 DEF BelievedInv, WhisperBelieved
  <2> QED BY <2>1, <2>2
<1>7. EmbeddingBelieved'
  <2>1. SUFFICES ASSUME count'["abort"] = 0
                 PROVE  /\ freeing' = "no"
                        /\ native'["embedding"] # None =>
                             context' /\ residents'["embedding"] = native'["embedding"]
    BY DEF EmbeddingBelieved
  <2>2. /\ freeing = "no"
        /\ native["embedding"] # None => context /\ residents["embedding"] = native["embedding"]
    BY <1>1, <2>1, Mishaps DEF NoUndoing, BelievedInv, EmbeddingBelieved
  <2>3. freeing' = "no"  BY <2>2, UnloadFrees
  <2>4. CASE k = "embedding"
    <3>1. native'["embedding"] = None
      BY <2>2, <2>4, UnloadFrees, UnloadTypes, KeysAre DEF TypeInv
    <3> QED BY <2>3, <3>1
  <2>5. CASE k # "embedding"
    <3>1. native'["embedding"] = native["embedding"] /\ residents'["embedding"] = residents["embedding"]
      BY <1>2, <2>5, UnloadFrees, KeysAre DEF TextSlots
    <3> QED BY <1>1, <2>2, <2>3, <2>5, <3>1
  <2> QED BY <2>4, <2>5
<1> QED BY <1>3, <1>4, <1>5, <1>6, <1>7 DEF BelievedInv

LEMMA SwitchBelieved ==
  ASSUME TypeInv, BelievedInv, Switch
  PROVE  BelievedInv'
<1> DEFINE m == turn.model
<1>1. /\ turn.at = "evict" /\ turn'.model = m
      /\ UNCHANGED <<residents, active, late>>
  BY SwitchUnloads, SwitchTypes
<1>2. m \in Models /\ (m \in TextModels <=> Key(m) = "text")
  BY <1>1, LoadingModel DEF TypeInv
<1>3. CASE Key(m) = "image" /\ Unload("image")
  <2>0. "image" \in Keys  BY KeysAre
  <2>1. /\ NoUndoing /\ loaded'["text"] = loaded["text"] /\ context' = context /\ freeing' = freeing
        /\ \A s \in Slots \ {"image"} : native'[s] = native[s]
        /\ native'["image"] = None \/ count'["failure"] # 0
    <3>1. \A s \in TextSlots : native'[s] = native[s]
      BY <1>3, <2>0, UnloadFrees
    <3>2. \A s \in Slots \ (TextSlots \union {"image"}) : native'[s] = native[s]
      BY <1>3, <2>0, UnloadFrees
    <3>3. native'["image"] = None \/ count'["failure"] # 0
      BY <1>3, <2>0, UnloadFrees
    <3>4. freeing' = freeing
      BY <1>3, <2>0, UnloadFrees
    <3>5. NoUndoing /\ loaded'["text"] = loaded["text"]
      BY <1>3, <2>0, UnloadTypes DEF TypeInv, NoUndoing
    <3>6. context' = context
      BY <1>3, <2>0, UnloadTypes DEF TypeInv, BeliefOK
    <3> QED BY <3>1, <3>2, <3>3, <3>4, <3>5, <3>6
  <2>2. m \notin TextModels  BY <1>2, <1>3
  <2>3. TextBelieved'
    <3>1. \A s \in TextSlots : native'[s] = native[s]  BY <2>1, KeysAre DEF TextSlots
    <3> QED BY <1>1, <2>1, <2>2, <3>1, Mishaps DEF NoUndoing, BelievedInv, TextBelieved
  <2>4. ImageBelieved'  BY <2>1 DEF ImageBelieved
  <2>5. native'["whisper"] = native["whisper"] /\ native'["embedding"] = native["embedding"]
    BY <2>1, KeysAre
  <2>6. WhisperBelieved' /\ EmbeddingBelieved' /\ (count'["late"] = 0 => late' = {})
    BY <1>1, <2>1, <2>5, Mishaps DEF NoUndoing, BelievedInv, WhisperBelieved, EmbeddingBelieved
  <2> QED BY <2>3, <2>4, <2>6 DEF BelievedInv
<1>4. CASE /\ Key(m) = "text" /\ loaded["text"] \notin {None, m}
           /\ native' = [native EXCEPT !["llama"] = None, !["litert"] = None]
           /\ loaded' = [loaded EXCEPT !["text"] = None]
           /\ UNCHANGED <<context, freeing, count>>
  <2>1. /\ \A s \in TextSlots : native'[s] = None
        /\ \A s \in Slots \ TextSlots : native'[s] = native[s]
        /\ loaded'["text"] = None
    BY <1>4, KeysAre DEF TypeInv, MapOK, BeliefOK, TextSlots
  <2>2. TextBelieved'  BY <2>1 DEF TextBelieved
  <2>3. /\ native'["whisper"] = native["whisper"] /\ native'["embedding"] = native["embedding"]
        /\ native'["image"] = native["image"]
    BY <2>1, KeysAre DEF TextSlots
  <2> QED BY <1>1, <1>4, <2>2, <2>3
          DEF BelievedInv, WhisperBelieved, EmbeddingBelieved, ImageBelieved
<1>5. CASE /\ Key(m) = "text" => loaded["text"] \in {None, m}
           /\ UNCHANGED <<native, loaded, context, freeing, count>>
  <2>1. ASSUME count["late"] = 0, count["select"] = 0, m \in TextModels,
               NEW s \in TextSlots, native[s] # None
        PROVE  s = Engine[m]
    <3>1. loaded["text"] = native[s]  BY <2>1 DEF BelievedInv, TextBelieved
    <3>2. native[s] = m  BY <1>2, <1>5, <2>1, <3>1
    <3>3. Slot(native[s]) = s  BY <2>1, KeysAre DEF TypeInv, MapOK
    <3> QED BY <1>2, <2>1, <3>2, <3>3, KeyOf
  <2>2. TextBelieved'
    BY <1>1, <1>5, <2>1 DEF BelievedInv, TextBelieved
  <2> QED BY <1>1, <1>5, <2>2
          DEF BelievedInv, WhisperBelieved, EmbeddingBelieved, ImageBelieved
<1> QED BY <1>3, <1>4, <1>5, SwitchUnloads

LEMMA LoadBelieved ==
  ASSUME TypeInv, BelievedInv, Load
  PROVE  BelievedInv'
<1> DEFINE m == turn.model
           k == Key(m)
<1>1. /\ turn.at = "load"
      /\ native' = [native EXCEPT ![Slot(m)] = m]
      /\ residents' = [residents EXCEPT ![k] = m]
      /\ loaded' = [j \in DOMAIN loaded |-> IF j = k THEN m ELSE loaded[j]]
      /\ active' = [j \in DOMAIN active |-> IF j = k THEN m ELSE active[j]]
      /\ context' = (context \/ k = "embedding")
      /\ turn' = Idle
      /\ UNCHANGED <<freeing, late, count>>
  BY DEF Load, Release, Registered
<1>2. m \in Models /\ k \in Keys /\ Slot(m) \in Slots
  BY <1>1, LoadingModel DEF TypeInv
<1>3. /\ k = "text" <=> m \in TextModels
      /\ k = "text" => Slot(m) = Engine[m] /\ Slot(m) \in TextSlots
      /\ k # "text" => Slot(m) = k /\ Slot(m) \notin TextSlots
  BY <1>2, KeyOf DEF TextSlots
<1>4. /\ \A s \in Slots : native'[s] = IF s = Slot(m) THEN m ELSE native[s]
      /\ \A j \in Keys : residents'[j] = IF j = k THEN m ELSE residents[j]
      /\ \A j \in {"text", "image"} : loaded'[j] = IF j = k THEN m ELSE loaded[j]
      /\ \A j \in {"text", "image"} : active'[j] = IF j = k THEN m ELSE active[j]
  BY <1>1, <1>2 DEF TypeInv, MapOK, BeliefOK
<1>5. turn'.at # "load"  BY <1>1, IdleTypes
<1>6. turn.at = "load" /\ (m \in TextModels /\ count["late"] = 0 /\ count["select"] = 0 =>
                             \A s \in TextSlots : native[s] # None => s = Slot(m))
  BY <1>1, <1>3 DEF BelievedInv, TextBelieved
<1>7. {"image", "whisper", "embedding"} \subseteq Slots /\ {"image", "whisper", "embedding"} \subseteq Keys
      /\ "text" \in Keys /\ TextSlots \subseteq Slots /\ TextSlots \intersect {"image", "whisper", "embedding"} = {}
  BY KeysAre DEF TextSlots
<1> HIDE DEF m, k
<1>8. TextBelieved'
  <2>1. CASE k = "text"
    BY <1>1, <1>3, <1>4, <1>5, <1>6, <1>7, <2>1 DEF TextBelieved
  <2>2. CASE k # "text"
    BY <1>1, <1>3, <1>4, <1>5, <1>7, <2>2 DEF BelievedInv, TextBelieved
  <2> QED BY <2>1, <2>2
<1>9. \A s \in {"image", "whisper", "embedding"} :
        \/ k = s /\ native'[s] = m /\ residents'[s] = m
        \/ k # s /\ native'[s] = native[s] /\ residents'[s] = residents[s]
  BY <1>3, <1>4, <1>7
<1>10. ImageBelieved' /\ WhisperBelieved' /\ EmbeddingBelieved'
  BY <1>1, <1>9 DEF BelievedInv, ImageBelieved, WhisperBelieved, EmbeddingBelieved
<1> QED BY <1>1, <1>8, <1>10 DEF BelievedInv

LEMMA GiveUpBelieved ==
  ASSUME TypeInv, BelievedInv, turn.at = "load", GiveUp, NoUndoing,
         count'["late"] = 0 => late' = {}
  PROVE  BelievedInv'
<1> DEFINE m == turn.model
           k == Key(m)
<1>1. /\ native' = [native EXCEPT ![Slot(m)] = None]
      /\ loaded' = [j \in DOMAIN loaded |-> IF j = k THEN None ELSE loaded[j]]
      /\ active' = [active EXCEPT !["text"] = IF k = "text" THEN None ELSE @]
      /\ turn' = Idle /\ UNCHANGED <<residents, context, freeing>>
  BY DEF GiveUp, Release
<1>2. m \in Models /\ k \in Keys /\ Slot(m) \in Slots
  BY LoadingModel DEF TypeInv
<1>3. /\ k = "text" <=> m \in TextModels
      /\ k = "text" => Slot(m) = Engine[m] /\ Slot(m) \in TextSlots
      /\ k # "text" => Slot(m) = k /\ Slot(m) \notin TextSlots
  BY <1>2, KeyOf DEF TextSlots
<1>4. /\ \A s \in Slots : native'[s] = IF s = Slot(m) THEN None ELSE native[s]
      /\ loaded'["text"] = IF k = "text" THEN None ELSE loaded["text"]
      /\ active'["text"] = IF k = "text" THEN None ELSE active["text"]
  BY <1>1, <1>2 DEF TypeInv, MapOK, BeliefOK
<1>5. turn'.at # "load"  BY <1>1, IdleTypes
<1>6. m \in TextModels /\ count["late"] = 0 /\ count["select"] = 0 =>
        \A s \in TextSlots : native[s] # None => s = Slot(m)
  BY <1>3 DEF BelievedInv, TextBelieved
<1> HIDE DEF m, k
<1>7. TextSlots \subseteq Slots  BY KeysAre
<1>8. TextBelieved'
  <2>1. CASE k = "text"
    <3>1. count'["late"] = 0 /\ count'["select"] = 0 => \A s \in TextSlots : native'[s] = None
      BY <1>3, <1>4, <1>6, <1>7, <2>1, Mishaps DEF NoUndoing
    <3> QED BY <1>4, <1>5, <2>1, <3>1 DEF TextBelieved
  <2>2. CASE k # "text"
    <3>1. \A s \in TextSlots : native'[s] = native[s]  BY <1>3, <1>4, <1>7, <2>2
    <3> QED BY <1>1, <1>4, <1>5, <2>2, <3>1, Mishaps DEF NoUndoing, BelievedInv, TextBelieved
  <2> QED BY <2>1, <2>2
<1>9. \A s \in {"image", "whisper", "embedding"} : native'[s] = None \/ native'[s] = native[s]
  BY <1>4, KeysAre
<1>10. ImageBelieved' /\ WhisperBelieved' /\ EmbeddingBelieved'
  BY <1>1, <1>9, Mishaps DEF NoUndoing, BelievedInv, ImageBelieved, WhisperBelieved, EmbeddingBelieved
<1> QED BY <1>8, <1>10 DEF BelievedInv

LEMMA SelectBelieved ==
  ASSUME TypeInv, BelievedInv, NEW m \in TextModels, Select(m)
  PROVE  BelievedInv'
<1>1. /\ active' = [active EXCEPT !["text"] = m]
      /\ UNCHANGED <<native, residents, loaded, context, freeing, late, turn>>
      /\ \/ Current(m) /\ count' = count
         \/ Happens("select", MaxSelects)
  BY DEF Select
<1>2. CASE Current(m) /\ count' = count
  <2>1. loaded["text"] = m /\ active'["text"] = m  BY <1>1, <1>2 DEF Current, TypeInv, BeliefOK
  <2> QED BY <1>1, <1>2, <2>1
          DEF BelievedInv, TextBelieved, ImageBelieved, WhisperBelieved, EmbeddingBelieved
<1>3. CASE Happens("select", MaxSelects)
  <2>1. count'["select"] # 0 /\ NoUndoing
    BY <1>3, Mishaps DEF Happens, TypeInv, PolicyOK, NoUndoing
  <2>2. TextBelieved'  BY <2>1 DEF TextBelieved
  <2> QED BY <1>1, <2>1, <2>2, Mishaps
          DEF BelievedInv, ImageBelieved, WhisperBelieved, EmbeddingBelieved, NoUndoing
<1> QED BY <1>1, <1>2, <1>3

LEMMA SyncBelieved ==
  ASSUME TypeInv, BelievedInv, SyncWithNativeState
  PROVE  BelievedInv'
<1>1. /\ UNCHANGED <<native, residents, active, context, freeing, turn, late>>
      /\ \A e \in Events : e # "sync" => count'[e] = count[e]
      /\ \/ loaded'["text"] = loaded["text"]
         \/ loaded'["text"] = None /\ \A s \in TextSlots : native[s] = None
         \/ loaded["text"] = None /\ \E s \in TextSlots : native[s] # None
  BY SyncTypes, KeysAre DEF TextSlots
<1>2. /\ count'["late"] = count["late"] /\ count'["select"] = count["select"]
      /\ count'["failure"] = count["failure"] /\ count'["abort"] = count["abort"]
  BY <1>1, Mishaps
<1>3. TextBelieved'
  BY <1>1, <1>2 DEF BelievedInv, TextBelieved
<1> QED BY <1>1, <1>2, <1>3
        DEF BelievedInv, ImageBelieved, WhisperBelieved, EmbeddingBelieved

LEMMA LandBelieved ==
  ASSUME TypeInv, BelievedInv, NEW m \in late, Land(m)
  PROVE  BelievedInv'
<1>1. /\ \/ native' = [native EXCEPT ![Slot(m)] = m]
         \/ native' = native
      /\ UNCHANGED <<residents, loaded, active, context, freeing, turn, count>>
  BY DEF Land, js
<1>2. count["late"] # 0 /\ m \in Generation
  BY DEF BelievedInv, TypeInv, PolicyOK
<1>3. Slot(m) \in Slots \ {"whisper", "embedding"}
  BY <1>2, KeyOf, ResidencyConstants DEF Generation, Models, Sidecar
<1>4. native'["whisper"] = native["whisper"] /\ native'["embedding"] = native["embedding"]
  <2>1. native \in [Slots -> Models \union {None}] /\ {"whisper", "embedding"} \subseteq Slots
    BY KeysAre DEF TypeInv, MapOK
  <2>2. Slot(m) # "whisper" /\ Slot(m) # "embedding"  BY <1>3
  <2> QED BY <1>1, <2>1, <2>2
<1>5. TextBelieved' /\ ImageBelieved'  BY <1>1, <1>2 DEF TextBelieved, ImageBelieved
<1> QED BY <1>1, <1>2, <1>4, <1>5 DEF BelievedInv, WhisperBelieved, EmbeddingBelieved

LEMMA EmbedBelieved ==
  ASSUME TypeInv, BelievedInv, EmbedFails \/ EmbedUnloaded
  PROVE  BelievedInv'
<1>1. UNCHANGED <<loaded, active, turn, late>> /\ NoUndoing
  BY HappensTypes DEF EmbedFails, EmbedUnloaded, js, TypeInv, NoUndoing, Events
<1>2. count'["abort"] # 0
  <2>1. CASE EmbedFails
    BY <2>1, Mishaps DEF EmbedFails, Happens, TypeInv, PolicyOK
  <2>2. CASE EmbedUnloaded
    BY <2>2 DEF EmbedUnloaded, BelievedInv, EmbeddingBelieved
  <2> QED BY <2>1, <2>2
<1>3. /\ \A s \in Slots \ {"embedding"} : native'[s] = native[s]
      /\ \A j \in Keys \ {"embedding"} : residents'[j] = residents[j]
  BY WithoutTypes, KeysAre DEF EmbedFails, EmbedUnloaded, js, TypeInv, MapOK
<1>4. /\ \A s \in TextSlots \union {"image", "whisper"} : native'[s] = native[s]
      /\ \A j \in {"text", "image", "whisper"} : residents'[j] = residents[j]
  BY <1>3, KeysAre DEF TextSlots
<1>5. TextBelieved' /\ ImageBelieved' /\ WhisperBelieved'
  BY <1>1, <1>4, Mishaps DEF NoUndoing, BelievedInv, TextBelieved, ImageBelieved, WhisperBelieved
<1>6. EmbeddingBelieved'  BY <1>2 DEF EmbeddingBelieved
<1> QED BY <1>1, <1>5, <1>6, Mishaps DEF BelievedInv, NoUndoing

LEMMA BelievedInductive == TypeInv /\ TypeInv' /\ BelievedInv /\ [Next]_vars => BelievedInv'
<1> SUFFICES ASSUME TypeInv, TypeInv', BelievedInv, [Next]_vars PROVE BelievedInv'
  OBVIOUS
<1> DEFINE Still == UNCHANGED <<native, residents, loaded, active, context, freeing, late>>
<1>1. CASE UNCHANGED vars
  BY <1>1, Quiet DEF vars, NoUndoing
<1>2. ASSUME Happens("ask", MaxAsks) PROVE NoUndoing
  BY <1>2, HappensTypes DEF TypeInv, NoUndoing, Events
<1>3. CASE (\E r \in Requests : Ask(r)) \/ (\E p \in Policies : SetLoadPolicy(p))
  <2>1. Still /\ turn' = turn /\ Happens("ask", MaxAsks)
    BY <1>3 DEF Ask, SetLoadPolicy, js
  <2> QED BY <1>2, <2>1, Quiet
<1>4. CASE DeleteWhisper
  <2>1. /\ native' = [native EXCEPT !["whisper"] = None] /\ NoUndoing
        /\ UNCHANGED <<residents, loaded, active, context, freeing, late, turn>>
    BY <1>2, <1>4 DEF DeleteWhisper, js
  <2>2. /\ native'["whisper"] = None
        /\ \A s \in Slots \ {"whisper"} : native'[s] = native[s]
    BY <2>1, KeysAre DEF TypeInv, MapOK
  <2>3. \A s \in TextSlots \union {"image", "embedding"} : native'[s] = native[s]
    BY <2>2, KeysAre DEF TextSlots
  <2> QED BY <2>1, <2>2, <2>3, Mishaps
          DEF BelievedInv, TextBelieved, ImageBelieved, WhisperBelieved, EmbeddingBelieved, NoUndoing
<1>5. CASE TakeLock
  <2>1. Still /\ count' = count  BY <1>5 DEF TakeLock, js, hist
  <2>2. ~ (turn'.at = "load" /\ turn'.model \in TextModels)
    <3>1. turn'.at = "load" => turn'.op = "load"  BY DEF TypeInv, LockOK
    <3>2. turn'.at = "load" => turn'.model = "embedding"  BY <1>5, <3>1, TakeLockTypes
    <3> QED BY <3>2, ResidencyConstants
  <2> QED BY <2>1, <2>2, Quiet DEF NoUndoing
<1>6. CASE MakeRoom
  <2>1. Still /\ count' = count /\ turn'.at # "load"
    BY <1>6, MakeRoomTypes, IdleTypes
  <2> QED BY <2>1, Quiet DEF NoUndoing
<1>7. CASE Ejected
  <2>1. Still /\ count' = count /\ turn' = Idle
    BY <1>7 DEF Ejected, Release, js, hist
  <2> QED BY <2>1, Quiet, IdleTypes DEF NoUndoing
<1>8. CASE AlreadyLoaded
  <2>1. /\ UNCHANGED <<native, residents, loaded, context, freeing, late, count>>
        /\ turn' = Idle
        /\ active' = [active EXCEPT ![Key(turn.model)] = turn.model]
        /\ loaded[Key(turn.model)] = turn.model /\ Key(turn.model) \in DOMAIN loaded
    BY <1>8 DEF AlreadyLoaded, Release
  <2>2. active'["text"] = active["text"] \/ active'["text"] = loaded["text"]
    BY <2>1 DEF TypeInv, BeliefOK
  <2>3. turn'.at # "load"  BY <2>1, IdleTypes
  <2> QED BY <2>1, <2>2, <2>3
          DEF BelievedInv, TextBelieved, ImageBelieved, WhisperBelieved, EmbeddingBelieved
<1>9. ASSUME NEW k \in Keys, Evict(k)
      PROVE  BelievedInv'
  <2>1. turn'.at = "evict" /\ UNCHANGED <<active, late>>
    BY <1>9, EvictTypes DEF Evict
  <2>2. \/ Unload(k) /\ residents' = Without(k)
        \/ UNCHANGED <<native, residents, loaded, context, freeing, count>>
    BY <1>9 DEF Evict
  <2> QED BY <2>1, <2>2, UnloadBelieved, Quiet DEF NoUndoing
<1>10. ASSUME NEW k \in Keys, Eject(k)
       PROVE  BelievedInv'
  <2>1. /\ turn'.at = "eject" /\ UNCHANGED <<active, late>>
        /\ Unload(k) /\ residents' = Without(k)
    BY <1>10, EjectTypes DEF Eject
  <2> QED BY <2>1, UnloadBelieved
<1>11. CASE UnloadByUser
  <2> DEFINE k == turn.model
  <2>1. /\ turn.at = "unload" /\ turn' = Idle /\ late' = late
        /\ \/ UNCHANGED <<native, residents, loaded, active, context, freeing, count>>
           \/ /\ Unload(k) /\ residents' = Without(k)
              /\ active' = [active EXCEPT ![k] = None]
    BY <1>11 DEF UnloadByUser, Release
  <2>2. k \in Keys  BY <2>1, KeysAre DEF TypeInv, LockOK
  <2>3. turn'.at # "load"  BY <2>1, IdleTypes
  <2> HIDE DEF k
  <2> QED BY <2>1, <2>2, <2>3, UnloadBelieved, Quiet DEF NoUndoing
<1>12. CASE LoadFails
  <2>1. turn.at = "load" /\ GiveUp /\ late' = late /\ count' = count
    BY <1>12 DEF LoadFails
  <2> QED BY <2>1, GiveUpBelieved DEF NoUndoing, BelievedInv
<1>13. CASE LoadTimesOut
  <2>1. turn.at = "load" /\ GiveUp /\ Happens("late", MaxLate)
    BY <1>13 DEF LoadTimesOut
  <2>2. NoUndoing /\ count'["late"] # 0
    BY <2>1, HappensTypes, Mishaps DEF TypeInv, NoUndoing
  <2> QED BY <2>1, <2>2, GiveUpBelieved
<1> QED BY <1>1, <1>3, <1>4, <1>5, <1>6, <1>7, <1>8, <1>9, <1>10, <1>11, <1>12, <1>13,
           SelectBelieved, SyncBelieved, LandBelieved, EmbedBelieved, SwitchBelieved, LoadBelieved
        DEF Next, Work

LEMMA CountedIs == TypeInv /\ BelievedInv => Counted
<1> SUFFICES ASSUME TypeInv, BelievedInv, NEW s \in Slots,
                    native[s] # None, \A e \in Blame(s) : count[e] = 0
             PROVE  residents[Key(native[s])] = native[s]
  BY DEF Counted
<1>1. native[s] \in Models /\ Slot(native[s]) = s  BY DEF TypeInv, MapOK
<1>2. CASE s \in TextSlots
  <2>1. Key(native[s]) = "text"  BY <1>1, <1>2, KeyOf DEF TextSlots
  <2>2. Blame(s) = {"late", "select"}  BY <1>2 DEF Blame, TextSlots
  <2> QED BY <1>2, <2>1, <2>2 DEF BelievedInv, TextBelieved
<1>3. CASE s \notin TextSlots
  <2>1. Key(native[s]) = s  BY <1>1, <1>3, KeyOf DEF TextSlots
  <2>2. CASE s = "image"
    BY <2>1, <2>2 DEF Blame, BelievedInv, ImageBelieved
  <2>3. CASE s = "whisper"
    BY <2>1, <2>3 DEF BelievedInv, WhisperBelieved
  <2>4. CASE s = "embedding"
    BY <2>1, <2>4 DEF Blame, BelievedInv, EmbeddingBelieved
  <2> QED BY <1>3, <2>2, <2>3, <2>4, KeysAre
<1> QED BY <1>2, <1>3

\* For every set of models, engines and footprints: what an engine holds is in the map,
\* unless a mishap of its own kind happened.  Evictions, switches, failures, ejections and
\* a sync lose no model, and what befalls one modality loses none of another.
THEOREM NothingUncounted == Spec => []Counted
<1>1. Spec => []BelievedInv
  BY BelievedInit, BelievedInductive, TypesHold, PTL DEF Spec
<1> QED BY <1>1, TypesHold, CountedIs, PTL

-----------------------------------------------------------------------------
(* A sidecar displaces no generation model.                                *)

Yields ==
  /\ \A s \in {"llama", "litert", "image"} : native[s] # None => native'[s] # None
  /\ \A k \in {"text", "image"} : Resident(k) => residents'[k] = residents[k]

LEMMA SidecarStep ==
  ASSUME TypeInv, TypeInv', [Next]_vars, turn.op = "load", Sidecar(turn.model)
  PROVE  Yields
<1> DEFINE m == turn.model
<1>1. /\ m \in {"whisper", "embedding"} /\ Slot(m) = m /\ Key(m) = m /\ m \in Models
      /\ turn.at \in {"decide", "evict", "load"} /\ turn # Idle
  <2>1. turn.at \in {"decide", "evict", "load"}  BY DEF TypeInv, LockOK
  <2> QED BY <2>1, LoadingModel, KeyOf, IdleTypes DEF TypeInv, Sidecar
<1>2. \A s \in {"llama", "litert", "image"} : s \in Slots /\ s \notin {"whisper", "embedding"}
  BY KeysAre DEF TextSlots
<1>3. \A k \in {"text", "image"} : k \in Keys /\ k \notin {"whisper", "embedding"}
  BY KeysAre
<1>4. CASE UNCHANGED <<native, residents>>
  BY <1>4 DEF Yields
<1>5. CASE DeleteWhisper
  BY <1>2, <1>5 DEF DeleteWhisper, js, TypeInv, MapOK, Yields
<1>6. CASE EmbedUnloaded
  <2>1. "embedding" \in Keys  BY KeysAre
  <2>2. \A k \in {"text", "image"} : residents'[k] = residents[k]
    BY <1>3, <1>6, <2>1, WithoutTypes DEF EmbedUnloaded, TypeInv
  <2>3. \A s \in {"llama", "litert", "image"} : native'[s] = native[s]
    BY <1>2, <1>6 DEF EmbedUnloaded, TypeInv, MapOK
  <2> QED BY <2>2, <2>3 DEF Yields
<1>7. ASSUME NEW l \in late, Land(l) PROVE Yields
  <2>1. l \in Models /\ l # None  BY KeyOf DEF TypeInv, PolicyOK, Generation, Models
  <2>2. \A s \in Slots : native'[s] = native[s] \/ native'[s] = l
    BY <1>7 DEF Land, TypeInv, MapOK
  <2>3. residents' = residents  BY <1>7 DEF Land, js
  <2> QED BY <1>2, <2>1, <2>2, <2>3 DEF Yields
<1>8. ASSUME NEW k \in Keys, Evict(k) PROVE Yields
  <2>1. k \in turn.evict  BY <1>8, EvictTypes
  <2>2. k \in {"whisper", "embedding"}  BY <2>1 DEF TypeInv, LockOK
  <2>3. \/ Unload(k) /\ residents' = Without(k)
        \/ UNCHANGED <<native, residents>>
    BY <1>8 DEF Evict
  <2>4. CASE Unload(k) /\ residents' = Without(k)
    <3>1. \A j \in {"text", "image"} : residents'[j] = residents[j]
      BY <1>3, <2>2, <2>4, WithoutTypes DEF TypeInv
    <3>2. \A s \in TextSlots : native'[s] = native[s]
      BY <2>2, <2>4, UnloadFrees
    <3>3. native'["image"] = native["image"]
      <4>1. "image" \in Slots \ (TextSlots \union {k})  BY <2>2, KeysAre DEF TextSlots
      <4> QED BY <2>4, <4>1, UnloadFrees
    <3> QED BY <3>1, <3>2, <3>3 DEF Yields, TextSlots
  <2> QED BY <1>4, <2>3, <2>4
<1>9. CASE Switch
  <2>1. UNCHANGED <<native, residents>>  BY <1>1, <1>9, SwitchUnloads
  <2> QED BY <1>4, <2>1
<1>10. CASE Load
  <2>1. native' = [native EXCEPT ![m] = m] /\ residents' = [residents EXCEPT ![m] = m]
    BY <1>1, <1>10 DEF Load, Registered
  <2>2. \A s \in {"llama", "litert", "image"} : native'[s] = native[s]
    BY <1>1, <1>2, <2>1 DEF TypeInv, MapOK
  <2>3. \A k \in {"text", "image"} : residents'[k] = residents[k]
    BY <1>1, <1>3, <2>1 DEF TypeInv, MapOK
  <2> QED BY <2>2, <2>3 DEF Yields
<1>11. CASE GiveUp
  <2>1. native' = [native EXCEPT ![m] = None] /\ residents' = residents
    BY <1>1, <1>11 DEF GiveUp
  <2>2. \A s \in {"llama", "litert", "image"} : native'[s] = native[s]
    BY <1>1, <1>2, <2>1 DEF TypeInv, MapOK
  <2> QED BY <2>1, <2>2 DEF Yields
<1>12. CASE MakeRoom
  BY <1>4, <1>12, MakeRoomTypes
<1>13. \/ UNCHANGED <<native, residents>> \/ MakeRoom
       \/ DeleteWhisper \/ EmbedUnloaded \/ (\E l \in late : Land(l))
       \/ (\E k \in Keys : Evict(k)) \/ Switch \/ Load \/ GiveUp
       \/ TakeLock \/ UnloadByUser \/ Ejected \/ (\E k \in Keys : Eject(k))
  BY DEF Next, Work, Ask, Select, SetLoadPolicy, SyncWithNativeState, EmbedFails, AlreadyLoaded,
         LoadFails, LoadTimesOut, js, vars
<1>14. ~ TakeLock /\ ~ UnloadByUser /\ ~ Ejected /\ ~ (\E k \in Keys : Eject(k))
  BY <1>1 DEF TakeLock, UnloadByUser, Ejected, Eject
<1> QED BY <1>4, <1>5, <1>6, <1>7, <1>8, <1>9, <1>10, <1>11, <1>12, <1>13, <1>14

\* For every set of models and budget: while a speech or embedding load holds the lock, no
\* generation model is taken out of RAM or out of the map, by it or by anything else.
THEOREM GenerationKept == Spec => SidecarsYield
<1>1. TypeInv /\ TypeInv' /\ [Next]_vars => [turn.op = "load" /\ Sidecar(turn.model) => Yields]_vars
  BY SidecarStep
<1>2. Spec => [][turn.op = "load" /\ Sidecar(turn.model) => Yields]_vars
  BY <1>1, TypesHold, PTL DEF Spec
<1> QED BY <1>2 DEF SidecarsYield, Yields
=============================================================================
