----------------------- MODULE DownloadFinalizeProofs -----------------------
(***************************************************************************)
(* DownloadFinalize, for every value of its constants: the variables stay  *)
(* in their ranges, what the registry lists is on disk, a vision model is  *)
(* not registered as text while its projector can still be had, and no     *)
(* finalization takes back what another registered.                        *)
(*                                                                         *)
(* The projector has one owner: of all contexts only the one of the start  *)
(* waits for it (FirstOK), its file is moved once (ProjectorOK), and until *)
(* it is decided that context stays in the map and nothing is finalized    *)
(* (MapOK).  This holds while nobody cancels and no scan registers a row   *)
(* before its start has returned (Calm); what a finalization finds on disk *)
(* needs the first of these only (DiskOK).                                 *)
(***************************************************************************)
EXTENDS DownloadFinalize, TLAPS

-----------------------------------------------------------------------------
(* Types                                                                   *)

\* Every watcher and every task is of this life of the process, and who listens for the
\* projector is to clean that listener up.
RefsOK ==
  /\ \A w \in 1 .. watchers : ctxOf[w] \in 1 .. watchers
  /\ \A t \in tasks : t.w \in 1 .. watchers
  /\ listener["side"] # 0 => owns[listener["side"]]

\* TypeOK, by parts: the watchers, and all else.
WatchingOK ==
  /\ watchers \in 0 .. MaxWatches /\ map \in 0 .. watchers
  /\ listener \in [Files -> 0 .. watchers]
  /\ ctxs \in [Watchers -> Ctx] /\ ctxOf \in [Watchers -> 0 .. watchers]
  /\ owns \in [Watchers -> BOOLEAN]
  /\ tasks \subseteq Task
  /\ RefsOK
StepsOK ==
  /\ start \in {"idle", "side", "main", "attach", "done"}
  /\ retry \in {"idle", "main", "both", "side"}
  /\ cancel \in [at : {"idle", "side", "main"}, ctx : 0 .. MaxWatches]
  /\ scan \in {"idle", "launch"} \cup Statuses
FilesOK ==
  /\ vision \in Vision
  /\ native \in [Files -> Statuses] /\ disk \subseteq Files
  /\ list \in {"absent", "text", "vision", "found"}
  /\ events \subseteq Files \X {"completed", "failed"}
ShownOK ==
  /\ row \in {"none", "active", "failed"} /\ sideRow \in {"none", "active", "failed"}
  /\ told \in {"", "registered", "failed"}
  /\ faults \subseteq {"cancelled", "deaf", "orphan", "sideless", "refusedMove", "early", "crash"}
  /\ turns \in 0 .. MaxTurns

LEMMA TypeParts == TypeOK /\ RefsOK <=> WatchingOK /\ StepsOK /\ FilesOK /\ ShownOK
BY DEF TypeOK, WatchingOK, StepsOK, FilesOK, ShownOK

\* The watchers stay as they are.
LEMMA WatchingSame ==
  ASSUME WatchingOK, UNCHANGED watching
  PROVE  WatchingOK'
BY DEF WatchingOK, RefsOK, watching

\* A context, and a task, with other fields.
LEMMA CtxEdits ==
  ASSUME NEW c \in Ctx, NEW b \in BOOLEAN
  PROVE  /\ [c EXCEPT !.main = b] \in Ctx /\ [c EXCEPT !.mainHandled = b] \in Ctx
         /\ [c EXCEPT !.side = b] \in Ctx /\ [c EXCEPT !.sideHandled = b] \in Ctx
         /\ [c EXCEPT !.path = b] \in Ctx /\ [c EXCEPT !.hasSide = b] \in Ctx
         /\ [c EXCEPT !.finalizing = b] \in Ctx
BY DEF Ctx

LEMMA TaskEdits ==
  ASSUME NEW t \in Task, NEW b \in BOOLEAN,
         NEW at \in {"catchUp", "sideMove", "sideMoved", "sideLost", "move", "check",
                     "resolve", "save"}
  PROVE  /\ [t EXCEPT !.at = at] \in Task /\ [t EXCEPT !.at = at].w = t.w
         /\ [t EXCEPT !.at = at, !.moved = b] \in Task
         /\ [t EXCEPT !.at = at, !.moved = b].w = t.w
         /\ [t EXCEPT !.at = at, !.sees = b] \in Task
         /\ [t EXCEPT !.at = at, !.sees = b].w = t.w
BY DEF Task

LEMMA AtIsTask ==
  ASSUME NEW w \in Watchers,
         NEW at \in {"catchUp", "sideMove", "sideMoved", "sideLost", "move", "check",
                     "resolve", "save"}
  PROVE  At(w, at) \in Task /\ At(w, at).w = w /\ At(w, at).at = at
BY DEF At, Task

LEMMA Known ==
  ASSUME WatchingOK, NEW w \in 1 .. watchers
  PROVE  /\ w \in Watchers /\ ctxOf[w] \in 1 .. watchers /\ ctxOf[w] \in Watchers
         /\ ctxs[ctxOf[w]] \in Ctx /\ watchers \in Nat
<1>1. watchers \in Nat /\ watchers <= MaxWatches /\ MaxWatches \in Nat
  BY FinalizeAssumption DEF WatchingOK
<1>2. w \in Watchers /\ ctxOf[w] \in 1 .. watchers  BY <1>1 DEF WatchingOK, RefsOK, Watchers
<1>3. ctxOf[w] \in Watchers  BY <1>1, <1>2 DEF Watchers
<1> QED BY <1>1, <1>2, <1>3 DEF WatchingOK

\* The fields that decide about the projector.
Alike(c, d) ==
  c.hasSide = d.hasSide /\ c.side = d.side /\ c.path = d.path /\ c.sideHandled = d.sideHandled

\* What a handler of watcher w does to its context, the listeners, the map and the tasks: the
\* context becomes like c, the tasks ts, or these and a finalization.
Handles(w, c, ts) ==
  /\ \A k \in Watchers : k # ctxOf[w] => ctxs'[k] = ctxs[k]
  /\ Alike(ctxs'[ctxOf[w]], c)
  /\ listener'["side"] \in {listener["side"], 0}
  /\ \/ map' = map /\ tasks' = ts
     \/ map' = 0 /\ tasks' = ts \cup {At(w, "move")} /\ c.side

LEMMA TryHandles ==
  ASSUME WatchingOK, NEW w \in 1 .. watchers, NEW c \in Ctx, NEW ts \in SUBSET Task,
         \A t \in ts : t.w \in 1 .. watchers,
         NEW l \in [Files -> 0 .. watchers], l["side"] \in {listener["side"], 0},
         UNCHANGED <<ctxOf, owns, watchers>>,
         TryFinalize(w, c, ts, l)
  PROVE  WatchingOK' /\ Handles(w, c, ts)
<1>0. w \in Watchers /\ ctxOf[w] \in Watchers /\ watchers \in Nat
  BY Known
<1>1. CASE ~ Ready(c)
  <2>1. ctxs' = [ctxs EXCEPT ![ctxOf[w]] = c] /\ tasks' = ts /\ listener' = l /\ map' = map
    BY <1>1 DEF TryFinalize
  <2>2. ctxs' \in [Watchers -> Ctx]  BY <1>0, <2>1 DEF WatchingOK
  <2>3. WatchingOK'  BY <2>1, <2>2 DEF WatchingOK, RefsOK
  <2>4. Handles(w, c, ts)  BY <1>0, <2>1 DEF Handles, Alike, WatchingOK
  <2> QED BY <2>3, <2>4
<1>2. CASE Ready(c)
  <2>1. /\ ctxs' = [ctxs EXCEPT ![ctxOf[w]] = [c EXCEPT !.finalizing = TRUE]]
        /\ listener' = Cleaned(w) /\ map' = 0 /\ tasks' = ts \cup {At(w, "move")}
    BY <1>2 DEF TryFinalize
  <2>2. [c EXCEPT !.finalizing = TRUE] \in Ctx /\ Alike([c EXCEPT !.finalizing = TRUE], c)
    BY DEF Alike, Ctx
  <2>3. ctxs' \in [Watchers -> Ctx]  BY <1>0, <2>1, <2>2 DEF WatchingOK
  <2>4. At(w, "move") \in Task /\ At(w, "move").w = w  BY <1>0, AtIsTask
  <2>5. Cleaned(w) \in [Files -> 0 .. watchers] /\ Cleaned(w)["side"] \in {listener["side"], 0}
    BY <1>0 DEF Cleaned, WatchingOK, Files
  <2>6. WatchingOK'  BY <1>0, <2>1, <2>3, <2>4, <2>5 DEF WatchingOK, RefsOK
  <2>7. Handles(w, c, ts)
    BY <1>0, <1>2, <2>1, <2>2, <2>5 DEF Handles, Ready, WatchingOK
  <2> QED BY <2>6, <2>7
<1> QED BY <1>1, <1>2

\* The handlers of the events.
LEMMA MainCompleteHandles ==
  ASSUME WatchingOK, NEW w \in 1 .. watchers, NEW ts \in SUBSET Task,
         \A t \in ts : t.w \in 1 .. watchers, UNCHANGED <<ctxOf, owns, watchers>>,
         MainComplete(w, ctxs[ctxOf[w]], ts)
  PROVE  WatchingOK' /\ Handles(w, ctxs[ctxOf[w]], ts)
<1> DEFINE c == ctxs[ctxOf[w]]
           d == IF c.mainHandled THEN c ELSE [c EXCEPT !.mainHandled = TRUE, !.main = TRUE]
<1>1. c \in Ctx  BY Known
<1>2. d \in Ctx /\ Alike(d, c)  BY <1>1 DEF Ctx, Alike
<1>3. listener \in [Files -> 0 .. watchers]  BY DEF WatchingOK
<1>4. TryFinalize(w, d, ts, listener)  BY DEF MainComplete
<1> HIDE DEF c, d
<1>5. WatchingOK' /\ Handles(w, d, ts)  BY <1>2, <1>3, <1>4, TryHandles
<1>6. Handles(w, c, ts)  BY <1>2, <1>5 DEF Handles, Alike
<1> QED BY <1>5, <1>6 DEF c

LEMMA MainErrorHandles ==
  ASSUME WatchingOK, NEW w \in 1 .. watchers, UNCHANGED <<ctxOf, owns, watchers>>, MainError(w)
  PROVE  WatchingOK' /\ Handles(w, ctxs[ctxOf[w]], tasks)
<1> DEFINE c == ctxs[ctxOf[w]]
           d == [c EXCEPT !.main = FALSE, !.mainHandled = FALSE, !.finalizing = FALSE]
<1>1. c \in Ctx /\ ctxOf[w] \in Watchers /\ w \in Watchers
  BY Known
<1>2. d \in Ctx /\ Alike(d, c)  BY <1>1 DEF Ctx, Alike
<1>3. ctxs' = [ctxs EXCEPT ![ctxOf[w]] = d] /\ listener' = Cleaned(w) /\ UNCHANGED <<map, tasks>>
  BY <1>1 DEF MainError, WatchingOK
<1> HIDE DEF c, d
<1>4. Cleaned(w) \in [Files -> 0 .. watchers] /\ Cleaned(w)["side"] \in {listener["side"], 0}
  BY <1>1 DEF Cleaned, WatchingOK, Files
<1>5. WatchingOK'  BY <1>1, <1>2, <1>3, <1>4 DEF WatchingOK, RefsOK
<1>6. Handles(w, c, tasks)  BY <1>1, <1>2, <1>3, <1>4 DEF Handles, WatchingOK
<1> QED BY <1>5, <1>6 DEF c

\* The projector's outcome is taken once.
LEMMA SideCompleteHandles ==
  ASSUME WatchingOK, NEW w \in 1 .. watchers, NEW ts \in SUBSET Task,
         \A t \in ts : t.w \in 1 .. watchers, UNCHANGED <<ctxOf, owns, watchers>>,
         SideComplete(w, ctxs[ctxOf[w]], ts)
  PROVE  /\ WatchingOK'
         /\ Handles(w, [ctxs[ctxOf[w]] EXCEPT !.sideHandled = TRUE],
                    IF ctxs[ctxOf[w]].sideHandled THEN ts ELSE ts \cup {At(w, "sideMove")})
         /\ UNCHANGED <<listener, map>>
<1> DEFINE c == ctxs[ctxOf[w]]
           d == [c EXCEPT !.sideHandled = TRUE]
           us == IF c.sideHandled THEN ts ELSE ts \cup {At(w, "sideMove")}
<1>1. c \in Ctx /\ ctxOf[w] \in Watchers /\ w \in Watchers
  BY Known
<1>2. d \in Ctx  BY <1>1 DEF Ctx
<1>3. ctxs' = [ctxs EXCEPT ![ctxOf[w]] = d] /\ tasks' = us /\ UNCHANGED <<listener, map>>
  BY <1>1 DEF SideComplete, WatchingOK
<1>4. us \subseteq Task /\ \A t \in us : t.w \in 1 .. watchers  BY <1>1, AtIsTask
<1> HIDE DEF c, d, us
<1>5. WatchingOK'  BY <1>1, <1>2, <1>3, <1>4 DEF WatchingOK, RefsOK
<1>6. Handles(w, d, us)  BY <1>1, <1>2, <1>3 DEF Handles, Alike, WatchingOK
<1> QED BY <1>3, <1>5, <1>6 DEF c, d, us

LEMMA SideErrorHandles ==
  ASSUME WatchingOK, NEW w \in 1 .. watchers, listener["side"] = w,
         UNCHANGED <<ctxOf, owns, watchers>>, SideError(w)
  PROVE  /\ WatchingOK' /\ listener'["side"] = 0
         /\ Handles(w, [ctxs[ctxOf[w]] EXCEPT !.path = FALSE, !.side = TRUE], tasks)
<1> DEFINE d == [ctxs[ctxOf[w]] EXCEPT !.path = FALSE, !.side = TRUE]
           l == [listener EXCEPT !["side"] = 0]
<1>1. d \in Ctx
  <2>1. ctxs[ctxOf[w]] \in Ctx  BY Known
  <2> QED BY <2>1 DEF Ctx
<1>2. l \in [Files -> 0 .. watchers] /\ l["side"] = 0  BY DEF WatchingOK, Files
<1>3. TryFinalize(w, d, tasks, l)  BY DEF SideError
<1>4. tasks \in SUBSET Task /\ \A t \in tasks : t.w \in 1 .. watchers  BY DEF WatchingOK, RefsOK
<1>5. listener'["side"] = 0
  <2>1. listener' = l \/ listener' = Cleaned(w)  BY <1>3 DEF TryFinalize
  <2>2. owns[w] /\ w # 0  BY Known DEF WatchingOK, RefsOK, Watchers
  <2> QED BY <1>2, <2>1, <2>2 DEF Cleaned, WatchingOK, Files
<1> HIDE DEF d, l
<1>6. WatchingOK' /\ Handles(w, d, tasks)  BY <1>1, <1>2, <1>3, <1>4, TryHandles
<1> QED BY <1>5, <1>6 DEF d

\* What a call of watchBackgroundDownload does: a new watcher of context k, which becomes
\* like c.
Watches(k, c) ==
  /\ watchers' = watchers + 1 /\ watchers' \in Watchers
  /\ ctxOf' = [ctxOf EXCEPT ![watchers'] = k]
  /\ \A j \in Watchers : j # k => ctxs'[j] = ctxs[j]
  /\ Alike(ctxs'[k], c)
  /\ listener'["side"] = IF c.hasSide /\ ~ c.side THEN watchers' ELSE listener["side"]
  /\ \/ map' = k /\ tasks' = tasks \cup {At(watchers', "catchUp")}
     \/ map' = 0 /\ tasks' = tasks \cup {At(watchers', "catchUp"), At(watchers', "move")}
        /\ c.side

LEMMA WatchWatches ==
  ASSUME WatchingOK, NEW k \in 1 .. watchers + 1, NEW c \in Ctx, Watch(k, c)
  PROVE  WatchingOK' /\ Watches(k, c)
<1> DEFINE w == watchers + 1
           hears == c.hasSide /\ ~ c.side
<1>1. /\ watchers \in Nat /\ watchers < MaxWatches /\ MaxWatches \in Nat
      /\ w \in Watchers /\ k \in Watchers /\ 0 .. watchers \subseteq 0 .. w
      /\ w \in 1 .. w /\ \A v \in 1 .. w : v \in 1 .. watchers \/ v = w
  BY FinalizeAssumption DEF WatchingOK, Watch, Watchers
<1>2. /\ watchers' = w /\ ctxOf' = [ctxOf EXCEPT ![w] = k] /\ owns' = [owns EXCEPT ![w] = hears]
  BY DEF Watch
<1>3. /\ ctxOf' \in [Watchers -> 0 .. w] /\ owns' \in [Watchers -> BOOLEAN]
      /\ ctxOf'[w] = k /\ owns'[w] = hears
      /\ \A v \in 1 .. watchers : ctxOf'[v] = ctxOf[v] /\ owns'[v] = owns[v]
  <2>1. c.hasSide \in BOOLEAN /\ c.side \in BOOLEAN  BY DEF Ctx
  <2> QED BY <1>1, <1>2, <2>1 DEF WatchingOK, Watchers
<1>4. At(w, "catchUp") \in Task /\ At(w, "catchUp").w = w /\ At(w, "move") \in Task
      /\ At(w, "move").w = w
  BY <1>1, AtIsTask
<1>5. [c EXCEPT !.finalizing = TRUE] \in Ctx /\ Alike([c EXCEPT !.finalizing = TRUE], c)
  BY DEF Alike, Ctx
<1>6. Ready(c) => ~ hears  BY DEF Ready
<1>7. \A v \in 1 .. w : ctxOf'[v] \in 1 .. w  BY <1>1, <1>3 DEF WatchingOK, RefsOK
<1>8. /\ listener' \in [Files -> 0 .. w]
      /\ listener'["side"] = IF hears THEN w ELSE listener["side"]
  <2>1. CASE Ready(c)
    <3>1. listener' = [listener EXCEPT !["main"] = 0, !["side"] = IF hears THEN 0 ELSE @]
      BY <2>1 DEF Watch
    <3> QED BY <1>1, <1>6, <2>1, <3>1 DEF WatchingOK, Files
  <2>2. CASE ~ Ready(c)
    <3>1. listener' = [listener EXCEPT !["main"] = w, !["side"] = IF hears THEN w ELSE @]
      BY <2>2 DEF Watch
    <3> QED BY <1>1, <2>2, <3>1 DEF WatchingOK, Files
  <2> QED BY <2>1, <2>2
<1>9. listener["side"] \in 0 .. watchers  BY DEF WatchingOK, Files
<1>10. listener'["side"] # 0 => owns'[listener'["side"]]
  BY <1>1, <1>3, <1>8, <1>9 DEF WatchingOK, RefsOK
<1>11. CASE Ready(c)
  <2>1. /\ ctxs' = [ctxs EXCEPT ![k] = [c EXCEPT !.finalizing = TRUE]] /\ map' = 0
        /\ tasks' = tasks \cup {At(w, "catchUp"), At(w, "move")} /\ c.side
    BY <1>11 DEF Watch, Ready
  <2>2. ctxs' \in [Watchers -> Ctx]  BY <1>1, <1>5, <2>1 DEF WatchingOK
  <2>3. tasks' \subseteq Task /\ \A t \in tasks' : t.w \in 1 .. w
    BY <1>1, <1>4, <2>1 DEF WatchingOK, RefsOK
  <2> HIDE DEF w, hears
  <2>4. 0 \in 0 .. w /\ w \in 0 .. MaxWatches  BY <1>1 DEF w
  <2>5. WatchingOK'
    BY <1>2, <1>3, <1>7, <1>8, <1>10, <2>1, <2>2, <2>3, <2>4 DEF WatchingOK, RefsOK
  <2>6. Watches(k, c)
    <3>1. Alike(ctxs'[k], c) /\ \A j \in Watchers : j # k => ctxs'[j] = ctxs[j]
      BY <1>1, <1>5, <2>1 DEF WatchingOK
    <3> QED BY <1>1, <1>2, <1>8, <2>1, <3>1 DEF Watches, w, hears
  <2> QED BY <2>5, <2>6
<1>12. CASE ~ Ready(c)
  <2>1. /\ ctxs' = [ctxs EXCEPT ![k] = c] /\ map' = k
        /\ tasks' = tasks \cup {At(w, "catchUp")}
    BY <1>12 DEF Watch
  <2>2. ctxs' \in [Watchers -> Ctx]  BY <1>1, <2>1 DEF WatchingOK
  <2>3. tasks' \subseteq Task /\ \A t \in tasks' : t.w \in 1 .. w
    BY <1>1, <1>4, <2>1 DEF WatchingOK, RefsOK
  <2> HIDE DEF w, hears
  <2>4. k \in 0 .. w /\ w \in 0 .. MaxWatches  BY <1>1 DEF w
  <2>5. WatchingOK'
    BY <1>2, <1>3, <1>7, <1>8, <1>10, <2>1, <2>2, <2>3, <2>4 DEF WatchingOK, RefsOK
  <2>6. Watches(k, c)
    <3>1. Alike(ctxs'[k], c) /\ \A j \in Watchers : j # k => ctxs'[j] = ctxs[j]
      BY <1>1, <2>1 DEF WatchingOK, Alike
    <3> QED BY <1>1, <1>2, <1>8, <2>1, <3>1 DEF Watches, w, hears
  <2> QED BY <2>5, <2>6
<1> QED BY <1>11, <1>12

\* The tasks change, and nothing else of the watchers.
LEMMA TasksHandled ==
  ASSUME WatchingOK, tasks' \subseteq Task, \A t \in tasks' : t.w \in 1 .. watchers,
         UNCHANGED <<listener, ctxs, ctxOf, owns, watchers, map>>
  PROVE  WatchingOK'
BY DEF WatchingOK, RefsOK

\* A task goes on.
LEMMA TaskGoesOn ==
  ASSUME WatchingOK, NEW t \in tasks, NEW u \in Task, u.w = t.w,
         tasks' = (tasks \ {t}) \cup {u} \/ tasks' = tasks \ {t},
         UNCHANGED <<listener, ctxs, ctxOf, owns, watchers, map>>
  PROVE  WatchingOK'
<1>1. t \in Task /\ t.w \in 1 .. watchers  BY DEF WatchingOK, RefsOK
<1>2. tasks' \subseteq Task /\ \A v \in tasks' : v.w \in 1 .. watchers
  BY <1>1 DEF WatchingOK, RefsOK
<1> QED BY <1>2, TasksHandled

\* A context's finalization is given up.
LEMMA GivenUpHandled ==
  ASSUME WatchingOK, NEW t \in tasks, tasks' = tasks \ {t},
         ctxs' = [ctxs EXCEPT ![ctxOf[t.w]].finalizing = FALSE],
         UNCHANGED <<listener, ctxOf, owns, watchers, map>>
  PROVE  WatchingOK' /\ \A j \in Watchers : Alike(ctxs'[j], ctxs[j])
<1>1. t.w \in 1 .. watchers  BY DEF WatchingOK, RefsOK
<1>2. ctxOf[t.w] \in Watchers /\ ctxs[ctxOf[t.w]] \in Ctx  BY <1>1, Known
<1> DEFINE d == [ctxs[ctxOf[t.w]] EXCEPT !.finalizing = FALSE]
<1>3. d \in Ctx /\ Alike(d, ctxs[ctxOf[t.w]])  BY <1>2 DEF Ctx, Alike
<1>4. ctxs' = [ctxs EXCEPT ![ctxOf[t.w]] = d]  BY <1>2 DEF WatchingOK
<1> HIDE DEF d
<1>5. ctxs' \in [Watchers -> Ctx]  BY <1>2, <1>3, <1>4 DEF WatchingOK
<1>6. \A j \in Watchers : Alike(ctxs'[j], ctxs[j])
  BY <1>2, <1>3, <1>4 DEF WatchingOK, Alike
<1> QED BY <1>5, <1>6 DEF WatchingOK, RefsOK

-----------------------------------------------------------------------------
(* The steps, and types                                                    *)

\* What a watcher does with an event or an answer, beside the tasks ts.
Stays == UNCHANGED <<ctxOf, owns, watchers>>
Quiet(w, ts) == Stays /\ Handles(w, ctxs[ctxOf[w]], ts)
TakesSide(w, ts) ==
  /\ Stays
  /\ Handles(w, [ctxs[ctxOf[w]] EXCEPT !.sideHandled = TRUE],
             IF ctxs[ctxOf[w]].sideHandled THEN ts ELSE ts \cup {At(w, "sideMove")})
  /\ UNCHANGED <<listener, map>>
GivesUpSide(w) ==
  /\ Stays
  /\ Handles(w, [ctxs[ctxOf[w]] EXCEPT !.path = FALSE, !.side = TRUE], tasks)
  /\ listener'["side"] = 0

LEMMA ListenerKnown ==
  ASSUME WatchingOK, NEW f \in Files, listener[f] # 0
  PROVE  listener[f] \in 1 .. watchers
BY DEF WatchingOK

LEMMA DeliverHandled ==
  ASSUME WatchingOK, NEW f \in Files, NEW how \in {"completed", "failed"}, Deliver(f, how)
  PROVE  /\ WatchingOK'
         /\ \/ listener[f] = 0 /\ UNCHANGED watching
            \/ listener[f] # 0 /\ f = "main" /\ Quiet(listener[f], tasks)
            \/ listener[f] # 0 /\ f = "side" /\ how = "completed" /\ TakesSide(listener[f], tasks)
            \/ listener[f] # 0 /\ f = "side" /\ how = "failed" /\ GivesUpSide(listener[f])
<1>1. Stays  BY DEF Deliver, Stays
<1>2. CASE listener[f] = 0
  <2>1. UNCHANGED watching  BY <1>1, <1>2 DEF Deliver, NobodyHears, Stays, watching
  <2> QED BY <1>2, <2>1, WatchingSame
<1>3. CASE listener[f] # 0
  <2> DEFINE w == listener[f]
  <2>1. w \in 1 .. watchers  BY <1>3, ListenerKnown
  <2>2. Heard(f, how, w)  BY <1>3 DEF Deliver
  <2>3. tasks \in SUBSET Task /\ \A t \in tasks : t.w \in 1 .. watchers
    BY DEF WatchingOK, RefsOK
  <2>4. UNCHANGED <<ctxOf, owns, watchers>>  BY <1>1 DEF Stays
  <2>5. f = "side" => listener["side"] = w  OBVIOUS
  <2> HIDE DEF w
  <2>6. CASE f = "main" /\ how = "completed"
    <3>1. MainComplete(w, ctxs[ctxOf[w]], tasks)  BY <2>2, <2>6 DEF Heard
    <3> QED BY <1>1, <1>3, <2>1, <2>3, <2>4, <2>6, <3>1, MainCompleteHandles DEF Quiet, w
  <2>7. CASE f = "main" /\ how = "failed"
    <3>1. MainError(w)  BY <2>2, <2>7 DEF Heard
    <3> QED BY <1>1, <1>3, <2>1, <2>4, <2>7, <3>1, MainErrorHandles DEF Quiet, w
  <2>8. CASE f = "side" /\ how = "completed"
    <3>1. SideComplete(w, ctxs[ctxOf[w]], tasks)  BY <2>2, <2>8 DEF Heard
    <3> QED BY <1>1, <1>3, <2>1, <2>3, <2>4, <2>8, <3>1, SideCompleteHandles DEF TakesSide, w
  <2>9. CASE f = "side" /\ how = "failed"
    <3>1. SideError(w)  BY <2>2, <2>9 DEF Heard
    <3>2. listener["side"] = w  BY <2>5, <2>9
    <3> QED BY <1>1, <1>3, <2>1, <2>4, <2>9, <3>1, <3>2, SideErrorHandles DEF GivesUpSide, w
  <2> QED BY <2>6, <2>7, <2>8, <2>9 DEF Files
<1> QED BY <1>2, <1>3

LEMMA CatchUpHandled ==
  ASSUME WatchingOK, NEW t \in tasks, CatchUp(t)
  PROVE  LET c == ctxs[ctxOf[t.w]] IN
         /\ WatchingOK' /\ t.w \in 1 .. watchers
         /\ \/ Quiet(t.w, tasks \ {t})
            \/ c.hasSide /\ ~ c.side /\ native["side"] = "completed" /\ TakesSide(t.w, tasks \ {t})
<1> DEFINE w == t.w
           c == ctxs[ctxOf[t.w]]
           rest == tasks \ {t}
           side == c.hasSide /\ ~ c.side /\ native["side"] = "completed" /\ ~ c.sideHandled
           both == [c EXCEPT !.main = TRUE, !.mainHandled = TRUE, !.sideHandled = TRUE]
<1>1. w \in 1 .. watchers /\ rest \in SUBSET Task /\ \A u \in rest : u.w \in 1 .. watchers
  BY DEF WatchingOK, RefsOK
<1>2. ctxOf[w] \in Watchers /\ c \in Ctx /\ w \in Watchers  BY <1>1, Known
<1>3. UNCHANGED <<ctxOf, owns, watchers>> /\ Stays  BY DEF CatchUp, Stays
<1>4. \/ /\ MainMissed(c) /\ side
         /\ ctxs' = [ctxs EXCEPT ![ctxOf[w]] = both]
         /\ tasks' = rest \cup {At(w, "sideMove")}
         /\ UNCHANGED <<listener, map>>
      \/ MainComplete(w, c, rest)
      \/ side /\ SideComplete(w, c, rest)
      \/ tasks' = rest /\ UNCHANGED <<listener, ctxs, map>>
  BY DEF CatchUp
<1>5. CASE /\ MainMissed(c) /\ side
           /\ ctxs' = [ctxs EXCEPT ![ctxOf[w]] = both]
           /\ tasks' = rest \cup {At(w, "sideMove")}
           /\ UNCHANGED <<listener, map>>
  <2>1. both \in Ctx /\ Alike(both, [c EXCEPT !.sideHandled = TRUE])  BY <1>2 DEF Ctx, Alike
  <2>2. At(w, "sideMove") \in Task /\ At(w, "sideMove").w = w  BY <1>2, AtIsTask
  <2>3. c.hasSide /\ ~ c.side /\ native["side"] = "completed" /\ ~ c.sideHandled  BY <1>5
  <2> HIDE DEF w, c, rest, both, side
  <2>4. ctxs' \in [Watchers -> Ctx]  BY <1>2, <1>5, <2>1 DEF WatchingOK
  <2>5. tasks' \subseteq Task /\ \A u \in tasks' : u.w \in 1 .. watchers
    BY <1>1, <1>5, <2>2
  <2>6. WatchingOK'  BY <1>3, <1>5, <2>4, <2>5 DEF WatchingOK, RefsOK
  <2>7. Handles(w, [c EXCEPT !.sideHandled = TRUE], rest \cup {At(w, "sideMove")})
    BY <1>2, <1>5, <2>1 DEF Handles, WatchingOK, Alike
  <2>8. TakesSide(w, rest)  BY <1>3, <1>5, <2>3, <2>7 DEF TakesSide, c, w
  <2> QED BY <1>1, <2>3, <2>6, <2>8 DEF c, w, rest
<1>6. CASE MainComplete(w, c, rest)
  <2> HIDE DEF rest
  <2>1. WatchingOK' /\ Handles(w, c, rest)  BY <1>1, <1>3, <1>6, MainCompleteHandles
  <2> QED BY <1>1, <1>3, <2>1 DEF Quiet, rest
<1>7. CASE side /\ SideComplete(w, c, rest)
  <2>1. c.hasSide /\ ~ c.side /\ native["side"] = "completed"  BY <1>7
  <2> HIDE DEF rest, side
  <2>2. WatchingOK' /\ TakesSide(w, rest)
    BY <1>1, <1>3, <1>7, SideCompleteHandles DEF TakesSide
  <2> QED BY <1>1, <2>1, <2>2 DEF rest
<1>8. CASE tasks' = rest /\ UNCHANGED <<listener, ctxs, map>>
  <2>1. Handles(w, c, rest)  BY <1>8 DEF Handles, Alike
  <2>2. WatchingOK'  BY <1>1, <1>3, <1>8, TasksHandled
  <2> QED BY <1>1, <1>3, <2>1, <2>2 DEF Quiet
<1> QED BY <1>4, <1>5, <1>6, <1>7, <1>8

LEMMA SideDoneHandled ==
  ASSUME WatchingOK, NEW t \in tasks, SideDone(t)
  PROVE  LET c == ctxs[ctxOf[t.w]]
             p == c.path /\ (t.at = "sideMoved" \/ "side" \in disk)
         IN  /\ WatchingOK' /\ t.w \in 1 .. watchers /\ Stays
             /\ Handles(t.w, [c EXCEPT !.path = p, !.side = TRUE], tasks \ {t})
<1> DEFINE c == ctxs[ctxOf[t.w]]
           p == c.path /\ (t.at = "sideMoved" \/ "side" \in disk)
           d == [c EXCEPT !.path = p, !.side = TRUE]
<1>1. t.w \in 1 .. watchers /\ tasks \ {t} \in SUBSET Task
      /\ \A u \in tasks \ {t} : u.w \in 1 .. watchers
  BY DEF WatchingOK, RefsOK
<1>2. c \in Ctx /\ listener \in [Files -> 0 .. watchers]  BY <1>1, Known DEF WatchingOK
<1>3. d \in Ctx  BY <1>2 DEF Ctx
<1>4. UNCHANGED <<ctxOf, owns, watchers>> /\ TryFinalize(t.w, d, tasks \ {t}, listener)
  BY DEF SideDone
<1> HIDE DEF d
<1>5. WatchingOK' /\ Handles(t.w, d, tasks \ {t})  BY <1>1, <1>2, <1>3, <1>4, TryHandles
<1> QED BY <1>1, <1>4, <1>5 DEF Stays, d

LEMMA OthersSame ==
  /\ StepsOK /\ UNCHANGED ops => StepsOK'
  /\ FilesOK /\ UNCHANGED <<vision, durable, events>> => FilesOK'
  /\ ShownOK /\ UNCHANGED <<store, history>> => ShownOK'
<1>1. StepsOK /\ UNCHANGED ops => StepsOK'  BY DEF ops, StepsOK
<1>2. FilesOK /\ UNCHANGED <<vision, durable, events>> => FilesOK'  BY DEF durable, FilesOK
<1>3. ShownOK /\ UNCHANGED <<store, history>> => ShownOK'  BY DEF store, history, ShownOK
<1> QED BY <1>1, <1>2, <1>3

LEMMA TurnCounts ==
  ASSUME ShownOK, Turn \/ UNCHANGED turns
  PROVE  turns' \in 0 .. MaxTurns
<1>1. MaxTurns \in Nat /\ turns \in 0 .. MaxTurns  BY FinalizeAssumption DEF ShownOK
<1> QED BY <1>1 DEF Turn

LEMMA NativeTypes ==
  ASSUME FilesOK, ShownOK, NEW f \in Files, Moves(f) \/ Refuses(f), UNCHANGED told,
         UNCHANGED <<vision, list, events, row, sideRow>>
  PROVE  FilesOK' /\ ShownOK'
<1>1. CASE Moves(f)
  BY <1>1 DEF Moves, FilesOK, ShownOK, Statuses, Files
<1>2. CASE Refuses(f)
  <2>1. turns' \in 0 .. MaxTurns
    BY <1>2, TurnCounts DEF Refuses
  <2>2. faults' \subseteq faults \cup {"refusedMove"}  BY <1>2 DEF Refuses, Blame
  <2> QED BY <1>2, <2>1, <2>2 DEF Refuses, FilesOK, ShownOK
<1> QED BY <1>1, <1>2

\* The awaits of a watcher.
LEMMA AwaitTypes ==
  ASSUME WatchingOK, StepsOK, FilesOK, ShownOK, NEW t \in tasks, Awaits(t)
  PROVE  WatchingOK' /\ StepsOK' /\ FilesOK' /\ ShownOK'
<1>0. t \in Task /\ t.w \in 1 .. watchers  BY DEF WatchingOK, RefsOK
<1>1. CASE CatchUp(t)
  <2>1. WatchingOK'  BY <1>1, CatchUpHandled
  <2> QED BY <1>1, <2>1, OthersSame DEF CatchUp
<1>2. CASE SideMove(t)
  <2>1. \E at \in {"sideMoved", "sideLost"} : Becomes(t, at)  BY <1>2 DEF SideMove
  <2>2. PICK at \in {"sideMoved", "sideLost"} : Becomes(t, at)  BY <2>1
  <2>3. [t EXCEPT !.at = at] \in Task /\ [t EXCEPT !.at = at].w = t.w
    BY <1>0, TaskEdits
  <2>4. UNCHANGED <<listener, ctxs, ctxOf, owns, watchers, map>>  BY <1>2 DEF SideMove
  <2>5. WatchingOK'  BY <2>2, <2>3, <2>4, TaskGoesOn DEF Becomes
  <2>6. "side" \in Files  BY DEF Files
  <2>7. FilesOK' /\ ShownOK'
    BY <1>2, <2>6, NativeTypes DEF SideMove, store
  <2> QED BY <1>2, <2>5, <2>7 DEF SideMove, ops, StepsOK
<1>3. CASE SideDone(t)
  <2>1. WatchingOK'  BY <1>3, SideDoneHandled
  <2> QED BY <1>3, <2>1, OthersSame DEF SideDone
<1>4. CASE Move(t)
  <2>1. \E at \in {"resolve", "check"} : Becomes(t, at)  BY <1>4 DEF Move
  <2>2. PICK at \in {"resolve", "check"} : Becomes(t, at)  BY <2>1
  <2>3. [t EXCEPT !.at = at] \in Task /\ [t EXCEPT !.at = at].w = t.w
    BY <1>0, TaskEdits
  <2>4. UNCHANGED <<listener, ctxs, ctxOf, owns, watchers, map>>  BY <1>4 DEF Move
  <2>5. WatchingOK'  BY <2>2, <2>3, <2>4, TaskGoesOn DEF Becomes
  <2>6. "main" \in Files  BY DEF Files
  <2>7. FilesOK' /\ ShownOK'
    BY <1>4, <2>6, NativeTypes DEF Move, store
  <2> QED BY <1>4, <2>5, <2>7 DEF Move, ops, StepsOK
<1>5. CASE Check(t)
  <2>0. StepsOK' /\ FilesOK'  BY <1>5, OthersSame DEF Check
  <2>1. StepsOK' /\ FilesOK' /\ ShownOK'  BY <1>5, <2>0 DEF Check, ShownOK
  <2>2. CASE OnDisk("main")
    <3> DEFINE u == [t EXCEPT !.at = "resolve", !.moved = FALSE]
    <3>1. u \in Task /\ u.w = t.w  BY <1>0, TaskEdits
    <3>2. tasks' = (tasks \ {t}) \cup {u}
          /\ UNCHANGED <<listener, ctxs, ctxOf, owns, watchers, map>>
      BY <1>5, <2>2 DEF Check
    <3> HIDE DEF u
    <3>3. WatchingOK'  BY <3>1, <3>2, TaskGoesOn
    <3> QED BY <2>1, <3>3
  <2>3. CASE ~ OnDisk("main")
    <3>1. WatchingOK'  BY <1>5, <2>3, GivenUpHandled DEF Check
    <3> QED BY <2>1, <3>1
  <2> QED BY <2>2, <2>3
<1>6. CASE Resolve(t)
  <2> DEFINE b == Sees(ctxs[ctxOf[t.w]])
             u == [t EXCEPT !.at = "save", !.sees = b]
  <2>1. b \in BOOLEAN  BY <1>0, Known DEF Sees, OnDisk, Ctx
  <2>2. u \in Task /\ u.w = t.w
    <3> HIDE DEF b
    <3> QED BY <1>0, <2>1, TaskEdits
  <2>3. tasks' = (tasks \ {t}) \cup {u}
        /\ UNCHANGED <<listener, ctxs, ctxOf, owns, watchers, map>>
    BY <1>6 DEF Resolve
  <2> HIDE DEF u
  <2>4. WatchingOK'  BY <2>2, <2>3, TaskGoesOn
  <2> QED BY <1>6, <2>4, OthersSame DEF Resolve
<1>7. CASE Save(t)
  <2>1. WatchingOK'  BY <1>0, <1>7, TaskGoesOn DEF Save
  <2>2. FilesOK' /\ ShownOK'
    BY <1>7 DEF Save, FilesOK, ShownOK, Statuses, Files
  <2> QED BY <1>7, <2>1, <2>2 DEF Save, ops, StepsOK
<1> QED BY <1>1, <1>2, <1>3, <1>4, <1>5, <1>6, <1>7 DEF Awaits

\* Events, and steps that leave the watchers alone.
LEMMA DeviceTypes ==
  ASSUME WatchingOK, StepsOK, FilesOK, ShownOK,
         NEW f \in Files, NEW how \in {"completed", "failed"}, Ends(f, how) \/ Deliver(f, how)
  PROVE  WatchingOK' /\ StepsOK' /\ FilesOK' /\ ShownOK'
<1>1. CASE Ends(f, how)
  <2>1. WatchingOK'  BY <1>1, WatchingSame DEF Ends
  <2>2. StepsOK' /\ ShownOK'  BY <1>1 DEF Ends, store, ops, history, StepsOK, ShownOK
  <2>3. FilesOK'  BY <1>1 DEF Ends, FilesOK, Statuses
  <2> QED BY <2>1, <2>2, <2>3
<1>2. CASE Deliver(f, how)
  <2>1. WatchingOK'  BY <1>2, DeliverHandled
  <2>2. StepsOK' /\ FilesOK'  BY <1>2 DEF Deliver, durable, ops, StepsOK, FilesOK
  <2>3. faults' \subseteq faults \cup {"deaf"}  BY <1>2 DEF Deliver, Blame
  <2>4. ShownOK'  BY <1>2, <2>3 DEF Deliver, Shows, ShownOK
  <2> QED BY <2>1, <2>2, <2>4
<1> QED BY <1>1, <1>2

LEMMA CalmStepTypes ==
  ASSUME WatchingOK, StepsOK, FilesOK, ShownOK,
         \/ Start \/ StartSide \/ StartMain \/ Retry \/ Cancel
         \/ Foreground \/ Launch \/ Discover
  PROVE  WatchingOK' /\ StepsOK' /\ FilesOK' /\ ShownOK'
<1>1. WatchingOK'
  BY WatchingSame DEF Start, StartSide, StartMain, Retry, Cancel, Foreground, Launch, Discover
<1>2. CASE Start \/ StartSide \/ StartMain
  <2>1. StepsOK'  BY <1>2 DEF Start, StartSide, StartMain, StepsOK
  <2>2. FilesOK'
    <3>1. CASE Start  BY <3>1, OthersSame DEF Start
    <3>2. CASE StartSide \/ StartMain
      BY <3>2 DEF StartSide, StartMain, FilesOK, Files, Statuses
    <3> QED BY <1>2, <3>1, <3>2
  <2>3. ShownOK'
    <3>1. CASE Start  BY <3>1 DEF Start, history, ShownOK
    <3>2. CASE StartSide \/ StartMain  BY <3>2, OthersSame DEF StartSide, StartMain
    <3> QED BY <1>2, <3>1, <3>2
  <2> QED BY <1>1, <2>1, <2>2, <2>3
<1>3. CASE Retry \/ Cancel
  <2>1. turns' \in 0 .. MaxTurns  BY <1>3, TurnCounts DEF Retry, Cancel
  <2>2. faults' \subseteq faults \cup {"cancelled"}  BY <1>3 DEF Retry, Cancel, Blame
  <2>3. map \in 0 .. MaxWatches  BY FinalizeAssumption DEF WatchingOK
  <2>4. FilesOK'  BY <1>3, OthersSame DEF Retry, Cancel
  <2>5. StepsOK'
    <3>1. CASE Retry  BY <3>1 DEF Retry, StepsOK
    <3>2. CASE Cancel
      <4>1. PICK at \in {"side", "main"} : cancel' = [at |-> at, ctx |-> map]
        BY <3>2 DEF Cancel
      <4>2. UNCHANGED <<start, retry, scan>>  BY <3>2 DEF Cancel
      <4> QED BY <2>3, <4>1, <4>2 DEF StepsOK
    <3> QED BY <1>3, <3>1, <3>2
  <2>6. ShownOK'  BY <1>3, <2>1, <2>2 DEF Retry, Cancel, store, ShownOK
  <2> QED BY <1>1, <2>4, <2>5, <2>6
<1>4. CASE Foreground \/ Launch
  <2>1. turns' \in 0 .. MaxTurns
    BY <1>4, TurnCounts DEF Foreground, Launch, history
  <2>2. row' \in {"none", "active", "failed"} /\ sideRow' \in {"none", "active", "failed"}
    BY <1>4 DEF Foreground, Launch, Recover, Hydrate, Live, ShownOK
  <2>3. scan' \in Statuses
    BY <1>4 DEF Foreground, Launch, Recover, FilesOK, Files
  <2> QED BY <1>1, <1>4, <2>1, <2>2, <2>3
          DEF Foreground, Launch, durable, history, StepsOK, FilesOK, ShownOK
<1>5. CASE Discover
  <2>1. list' \in {"vision", "found", list} /\ UNCHANGED <<vision, native, disk, events>>
    BY <1>5 DEF Discover
  <2>2. FilesOK'  BY <2>1 DEF FilesOK
  <2> QED BY <1>1, <1>5, <2>2, OthersSame DEF Discover
<1> QED BY <1>2, <1>3, <1>4, <1>5

\* The context of a start, and one adopted from a row.
StartCtx == [NoCtx EXCEPT !.side = ~ vision, !.path = vision, !.hasSide = vision]
LEMMA NewCtxs ==
  ASSUME FilesOK
  PROVE  /\ vision \in BOOLEAN /\ StartCtx \in Ctx /\ Adopted \in Ctx /\ NoCtx \in Ctx
         /\ Alike(StartCtx, [hasSide |-> vision, side |-> ~ vision, path |-> vision,
                             sideHandled |-> FALSE])
         /\ Alike(Adopted, [hasSide |-> FALSE, side |-> TRUE, path |-> vision,
                            sideHandled |-> FALSE])
BY FinalizeAssumption DEF FilesOK, StartCtx, Adopted, NoCtx, Ctx, Alike

LEMMA ResetCtx ==
  ASSUME FilesOK, NEW c \in Ctx
  PROVE  /\ Reset(c) \in Ctx /\ Reset(c).hasSide = c.hasSide
         /\ c.hasSide => ~ Reset(c).side /\ ~ Reset(c).sideHandled /\ Reset(c).path = vision
         /\ ~ c.hasSide => Reset(c) = c
BY NewCtxs DEF Reset, Ctx

\* Who watches anew: a start, a retry and a scan.
LEMMA AttachHandled ==
  ASSUME WatchingOK, FilesOK, Attach
  PROVE  WatchingOK' /\ Watches(watchers + 1, StartCtx)
<1>1. Watch(watchers + 1, StartCtx)  BY DEF Attach, StartCtx
<1>2. watchers + 1 \in 1 .. watchers + 1  BY DEF WatchingOK
<1> QED BY <1>1, <1>2, NewCtxs, WatchWatches

LEMMA ReattachHandled ==
  ASSUME WatchingOK, NEW c, map # 0 => c \in Ctx, Reattach(c)
  PROVE  /\ WatchingOK'
         /\ map = 0 => UNCHANGED watching
         /\ map # 0 => Watches(map, c)
<1>1. CASE map = 0
  <2>1. UNCHANGED watching  BY <1>1 DEF Reattach
  <2> QED BY <1>1, <2>1, WatchingSame
<1>2. CASE map # 0
  <2>1. Watch(map, c)  BY <1>2 DEF Reattach
  <2>2. map \in 1 .. watchers + 1  BY <1>2 DEF WatchingOK
  <2> QED BY <1>2, <2>1, <2>2, WatchWatches
<1> QED BY <1>1, <1>2

LEMMA MapKnown ==
  ASSUME WatchingOK, map # 0
  PROVE  map \in 1 .. watchers /\ map \in Watchers /\ ctxs[map] \in Ctx
BY FinalizeAssumption DEF WatchingOK, Watchers

LEMMA RestoreHandled ==
  ASSUME WatchingOK, FilesOK, Restore
  PROVE  /\ WatchingOK'
         /\ \/ UNCHANGED watching
            \/ scan \in {"running", "completed"} /\ map = 0 /\ Watches(watchers + 1, Adopted)
<1>1. CASE scan \in {"running", "completed"} /\ map = 0
  <2>1. Watch(watchers + 1, Adopted)  BY <1>1 DEF Restore
  <2>2. watchers + 1 \in 1 .. watchers + 1  BY DEF WatchingOK
  <2> QED BY <1>1, <2>1, <2>2, NewCtxs, WatchWatches
<1>2. CASE ~ (scan \in {"running", "completed"} /\ map = 0)
  <2>1. UNCHANGED watching  BY <1>2 DEF Restore
  <2> QED BY <2>1, WatchingSame
<1> QED BY <1>1, <1>2

LEMMA WatchTypes ==
  ASSUME WatchingOK, StepsOK, FilesOK, ShownOK, Attach \/ RetryMain \/ RetrySide \/ Restore
  PROVE  WatchingOK' /\ StepsOK' /\ FilesOK' /\ ShownOK'
<1>1. CASE Attach
  <2>1. WatchingOK'  BY <1>1, AttachHandled
  <2>2. StepsOK' /\ FilesOK'  BY <1>1 DEF Attach, durable, StepsOK, FilesOK
  <2>3. ShownOK'  BY <1>1 DEF Attach, history, ShownOK
  <2> QED BY <2>1, <2>2, <2>3
<1>2. CASE RetryMain
  <2>1. WatchingOK'
    <3>1. UNCHANGED watching \/ Reattach(ctxs[map])  BY <1>2 DEF RetryMain
    <3> QED BY <3>1, ReattachHandled, MapKnown, WatchingSame
  <2>2. StepsOK' /\ FilesOK'
    BY <1>2 DEF RetryMain, StepsOK, FilesOK, Files, Statuses
  <2>3. faults' \subseteq faults \cup {"orphan"}  BY <1>2 DEF RetryMain, Orphaned, Blame
  <2>4. ShownOK'  BY <1>2, <2>3 DEF RetryMain, ShownOK
  <2> QED BY <2>1, <2>2, <2>4
<1>3. CASE RetrySide
  <2>1. WatchingOK'
    <3>1. Reattach(Reset(ctxs[map]))  BY <1>3 DEF RetrySide
    <3>2. map # 0 => Reset(ctxs[map]) \in Ctx  BY MapKnown, ResetCtx
    <3> QED BY <3>1, <3>2, ReattachHandled
  <2>2. StepsOK' /\ FilesOK'
    BY <1>3 DEF RetrySide, StepsOK, FilesOK, Files, Statuses
  <2>3. faults' \subseteq faults \cup {"orphan", "sideless"}  BY <1>3 DEF RetrySide, Blame
  <2>4. ShownOK'  BY <1>3, <2>3 DEF RetrySide, store, ShownOK
  <2> QED BY <2>1, <2>2, <2>4
<1>4. CASE Restore
  <2>1. WatchingOK'  BY <1>4, RestoreHandled
  <2>2. StepsOK' /\ FilesOK'  BY <1>4 DEF Restore, durable, StepsOK, FilesOK
  <2>3. faults' \subseteq faults \cup {"early"}  BY <1>4 DEF Restore, Blame
  <2>4. ShownOK'  BY <1>4, <2>3 DEF Restore, store, ShownOK
  <2> QED BY <2>1, <2>2, <2>4
<1> QED BY <1>1, <1>2, <1>3, <1>4

LEMMA EndTypes ==
  ASSUME WatchingOK, StepsOK, FilesOK, ShownOK, CancelSide \/ CancelMain \/ Crash
  PROVE  WatchingOK' /\ StepsOK' /\ FilesOK' /\ ShownOK'
<1>1. CASE CancelSide
  <2>1. WatchingOK'
    <3>1. CASE listener["side"] = 0
      BY <1>1, <3>1, WatchingSame DEF CancelSide, NobodyHears, watching
    <3>2. CASE listener["side"] # 0
      <4>1. listener["side"] \in 1 .. watchers  BY <3>2, ListenerKnown DEF Files
      <4> QED BY <1>1, <3>2, <4>1, SideErrorHandles DEF CancelSide
    <3> QED BY <3>1, <3>2
  <2>2. StepsOK' /\ FilesOK'
    BY <1>1 DEF CancelSide, Cancelled, StepsOK, FilesOK, Files, Statuses
  <2>3. ShownOK'  BY <1>1 DEF CancelSide, Shows, history, ShownOK
  <2> QED BY <2>1, <2>2, <2>3
<1>2. CASE CancelMain
  <2>1. WatchingOK'
    <3>1. CASE listener["main"] = 0
      BY <1>2, <3>1, WatchingSame DEF CancelMain, NobodyHears, watching
    <3>2. CASE listener["main"] # 0
      <4>1. listener["main"] \in 1 .. watchers  BY <3>2, ListenerKnown DEF Files
      <4> QED BY <1>2, <3>2, <4>1, MainErrorHandles DEF CancelMain
    <3> QED BY <3>1, <3>2
  <2>2. cancel' = NoCancel /\ UNCHANGED <<vision, list, events, start, retry, scan, history>>
        /\ row' = "none" /\ sideRow' = "none"
        /\ native' \in [Files -> Statuses] /\ disk' \subseteq disk
    BY <1>2 DEF CancelMain, FilesOK, Files, Statuses
  <2>3. StepsOK'
    <3>1. NoCancel \in [at : {"idle", "side", "main"}, ctx : 0 .. MaxWatches]
      BY FinalizeAssumption DEF NoCancel
    <3> QED BY <2>2, <3>1 DEF StepsOK
  <2>4. FilesOK'  BY <2>2 DEF FilesOK
  <2>5. ShownOK'  BY <2>2 DEF history, ShownOK
  <2> QED BY <2>1, <2>3, <2>4, <2>5
<1>3. CASE Crash
  <2>1. watchers' = 0 /\ map' = 0 /\ tasks' = {} /\ listener' = Nobody /\ ctxs' = NoCtxs
        /\ ctxOf' = NoWatcher /\ owns' = Owning
    BY <1>3 DEF Crash
  <2>2. WatchingOK'
    <3>1. NoCtxs \in [Watchers -> Ctx]  BY DEF NoCtxs, NoCtx, Ctx
    <3>2. /\ Nobody \in [Files -> 0 .. 0] /\ Nobody["side"] = 0
          /\ NoWatcher \in [Watchers -> 0 .. 0] /\ Owning \in [Watchers -> BOOLEAN]
          /\ 0 \in 0 .. MaxWatches
      BY FinalizeAssumption DEF Nobody, Files, NoWatcher, Owning
    <3> QED BY <2>1, <3>1, <3>2 DEF WatchingOK, RefsOK
  <2>3. StepsOK'
    <3>1. NoCancel \in [at : {"idle", "side", "main"}, ctx : 0 .. MaxWatches]
      BY FinalizeAssumption DEF NoCancel
    <3> QED BY <1>3, <3>1 DEF Crash, StepsOK
  <2>4. FilesOK'  BY <1>3 DEF Crash, durable, FilesOK
  <2>5. faults' \subseteq faults \cup {"crash"} /\ turns' \in 0 .. MaxTurns
    BY <1>3, TurnCounts DEF Crash, Blame
  <2>6. ShownOK'  BY <1>3, <2>5 DEF Crash, store, ShownOK
  <2> QED BY <2>2, <2>3, <2>4, <2>6
<1> QED BY <1>1, <1>2, <1>3

LEMMA TypeInit == Init => WatchingOK /\ StepsOK /\ FilesOK /\ ShownOK
<1> SUFFICES ASSUME Init PROVE WatchingOK /\ StepsOK /\ FilesOK /\ ShownOK
  OBVIOUS
<1>1. NoCtxs \in [Watchers -> Ctx]  BY DEF NoCtxs, NoCtx, Ctx
<1>2. /\ Nobody \in [Files -> 0 .. 0] /\ Nobody["side"] = 0
      /\ NoWatcher \in [Watchers -> 0 .. 0] /\ Owning \in [Watchers -> BOOLEAN]
      /\ 0 \in 0 .. MaxWatches /\ 0 \in 0 .. MaxTurns
      /\ NoCancel \in [at : {"idle", "side", "main"}, ctx : 0 .. MaxWatches]
  BY FinalizeAssumption DEF Nobody, Files, NoWatcher, Owning, NoCancel
<1>3. WatchingOK
  <2>1. watchers = 0 /\ map = 0 /\ tasks = {} /\ listener = Nobody /\ ctxs = NoCtxs
        /\ ctxOf = NoWatcher /\ owns = Owning
    BY DEF Init
  <2> QED BY <1>1, <1>2, <2>1 DEF WatchingOK, RefsOK
<1>4. StepsOK /\ FilesOK /\ ShownOK
  BY <1>2 DEF Init, StepsOK, FilesOK, ShownOK, Statuses, Files
<1> QED BY <1>3, <1>4

LEMMA TypeInductive ==
  ASSUME WatchingOK, StepsOK, FilesOK, ShownOK, [Next]_vars
  PROVE  WatchingOK' /\ StepsOK' /\ FilesOK' /\ ShownOK'
<1>1. CASE \E t \in tasks : Awaits(t)  BY <1>1, AwaitTypes
<1>2. CASE Device  BY <1>2, DeviceTypes DEF Device
<1>3. CASE \/ Start \/ StartSide \/ StartMain \/ Retry \/ Cancel \/ Foreground \/ Launch
           \/ Discover
  BY <1>3, CalmStepTypes
<1>4. CASE Attach \/ RetryMain \/ RetrySide \/ Restore  BY <1>4, WatchTypes
<1>5. CASE CancelSide \/ CancelMain \/ Crash  BY <1>5, EndTypes
<1>6. CASE UNCHANGED vars
  <2>1. WatchingOK'  BY <1>6, WatchingSame DEF vars
  <2> QED BY <1>6, <2>1, OthersSame DEF vars
<1> QED BY <1>1, <1>2, <1>3, <1>4, <1>5, <1>6 DEF Next, App, User

\* All variables stay in their ranges, and every watcher is of the life of the process in
\* which it is used, whatever scans, retries, cancels and deaths come in between.
THEOREM TypeCorrect == Spec => []TypeOK
<1> DEFINE Inv == WatchingOK /\ StepsOK /\ FilesOK /\ ShownOK
<1>1. Init => Inv  BY TypeInit
<1>2. Inv /\ [Next]_vars => Inv'  BY TypeInductive
<1>3. Inv => TypeOK  BY TypeParts
<1> HIDE DEF Inv
<1> QED BY <1>1, <1>2, <1>3, PTL DEF Spec

-----------------------------------------------------------------------------
(* What is listed is on disk                                               *)

TypeInv == WatchingOK /\ StepsOK /\ FilesOK /\ ShownOK

Given(what) == faults \cap what # {}

\* Without a cancel, what a finalization has moved stays where it is.
CancelOK == ~ Given({"cancelled"}) => cancel.at = "idle"
DiskOK == ~ Given({"cancelled"}) =>
  /\ \A t \in tasks : t.at \in {"resolve", "save"} => "main" \in disk
  /\ \A t \in tasks : t.at = "save" /\ t.sees => "side" \in disk
  /\ list # "absent" => "main" \in disk
  /\ list = "vision" => "side" \in disk

\* A fault stays on record.
LEMMA FaultsGrow ==
  ASSUME [Next]_vars
  PROVE  faults \subseteq faults'
<1> USE DEF Blame
<1>1. ASSUME NEW t \in tasks, Awaits(t) PROVE faults \subseteq faults'
  BY <1>1 DEF Awaits, CatchUp, SideMove, SideDone, Move, Check, Resolve, Save, Moves, Refuses,
              history
<1>2. CASE Device  BY <1>2 DEF Device, Ends, Deliver, history
<1>3. CASE StartSide \/ StartMain \/ Attach \/ RetryMain \/ RetrySide
  BY <1>3 DEF StartSide, StartMain, Attach, RetryMain, RetrySide, Orphaned, history
<1>4. CASE CancelSide \/ CancelMain \/ Launch \/ Restore
  BY <1>4 DEF CancelSide, CancelMain, Launch, Restore, history
<1>5. CASE User \/ Discover \/ Crash
  BY <1>5 DEF User, Start, Retry, Cancel, Foreground, Discover, Crash, history
<1>6. CASE UNCHANGED vars  BY <1>6 DEF vars, history
<1> QED BY <1>1, <1>2, <1>3, <1>4, <1>5, <1>6 DEF Next, App

\* Without a cancel now, there was none.
LEMMA GivenStays ==
  ASSUME [Next]_vars
  PROVE  \A what : Given(what) => Given(what)'
BY FaultsGrow DEF Given

LEMMA CancelInductive ==
  ASSUME StepsOK, CancelOK, [Next]_vars
  PROVE  CancelOK'
<1> SUFFICES ASSUME ~ Given({"cancelled"})' PROVE cancel'.at = "idle"
  BY DEF CancelOK
<1>1. cancel.at = "idle"  BY GivenStays DEF CancelOK
<1>2. ASSUME NEW t \in tasks, Awaits(t) PROVE UNCHANGED cancel
  BY <1>2 DEF Awaits, CatchUp, SideMove, SideDone, Move, Check, Resolve, Save, ops
<1>3. CASE Device  BY <1>1, <1>3 DEF Device, Ends, Deliver, ops
<1>4. CASE StartSide \/ StartMain \/ Attach \/ RetryMain \/ RetrySide
  BY <1>1, <1>4 DEF StartSide, StartMain, Attach, RetryMain, RetrySide
<1>5. CASE CancelSide \/ CancelMain  BY <1>1, <1>5 DEF CancelSide, CancelMain
<1>6. CASE Launch \/ Restore \/ Crash
  <2>1. cancel' = cancel \/ cancel' = NoCancel  BY <1>6 DEF Launch, Restore, Crash
  <2>2. NoCancel.at = "idle"  BY DEF NoCancel
  <2> QED BY <1>1, <2>1, <2>2
<1>7. CASE Start \/ Retry \/ Foreground \/ Discover
  BY <1>1, <1>7 DEF Start, Retry, Foreground, Discover, ops
<1>8. CASE Cancel
  <2>1. "cancelled" \in faults'  BY <1>8 DEF Cancel, Blame
  <2> QED BY <2>1 DEF Given
<1>9. CASE UNCHANGED vars  BY <1>1, <1>9 DEF vars, ops
<1> QED BY <1>1, <1>2, <1>3, <1>4, <1>5, <1>6, <1>7, <1>8, <1>9 DEF Next, App, User

\* Which tasks are new: in most steps none that has moved a file.
Fresh(t) == t.at \in {"catchUp", "sideMove", "move"}

LEMMA HandlesTasks ==
  ASSUME NEW w \in Watchers, NEW c, NEW ts, Handles(w, c, ts)
  PROVE  \A t \in tasks' : t \in ts \/ t.at = "move"
BY AtIsTask DEF Handles

LEMMA WatchesTasks ==
  ASSUME NEW k, NEW c, Watches(k, c)
  PROVE  \A t \in tasks' : t \in tasks \/ Fresh(t)
<1>1. \A at \in {"catchUp", "move"} : At(watchers', at).at = at  BY AtIsTask DEF Watches
<1> QED BY <1>1 DEF Watches, Fresh

LEMMA DeliverTasks ==
  ASSUME WatchingOK, NEW f \in Files, NEW how \in {"completed", "failed"}, Deliver(f, how)
  PROVE  \A t \in tasks' : t \in tasks \/ Fresh(t)
<1> DEFINE w == listener[f]
<1>1. listener[f] # 0 => w \in Watchers  BY ListenerKnown, Known
<1>2. CASE UNCHANGED watching  BY <1>2 DEF watching
<1> HIDE DEF w
<1>3. CASE w \in Watchers /\ Quiet(w, tasks)
  BY <1>3, HandlesTasks DEF Quiet, Fresh
<1>4. CASE w \in Watchers /\ TakesSide(w, tasks)
  BY <1>4, HandlesTasks, AtIsTask DEF TakesSide, Fresh
<1>5. CASE w \in Watchers /\ GivesUpSide(w)
  BY <1>5, HandlesTasks DEF GivesUpSide, Fresh
<1> QED BY <1>1, <1>2, <1>3, <1>4, <1>5, DeliverHandled DEF w

LEMMA CatchUpTasks ==
  ASSUME WatchingOK, NEW t \in tasks, CatchUp(t)
  PROVE  \A u \in tasks' : u \in tasks \/ Fresh(u)
<1>1. t.w \in Watchers  BY Known DEF WatchingOK, RefsOK
<1>2. CASE Quiet(t.w, tasks \ {t})
  BY <1>1, <1>2, HandlesTasks DEF Quiet, Fresh
<1>3. CASE TakesSide(t.w, tasks \ {t})
  BY <1>1, <1>3, HandlesTasks, AtIsTask DEF TakesSide, Fresh
<1> QED BY <1>2, <1>3, CatchUpHandled

LEMMA SideDoneTasks ==
  ASSUME WatchingOK, NEW t \in tasks, SideDone(t)
  PROVE  \A u \in tasks' : u \in tasks \ {t} \/ u.at = "move"
<1>1. t.w \in Watchers  BY Known DEF WatchingOK, RefsOK
<1> QED BY <1>1, SideDoneHandled, HandlesTasks

\* The retries and the scan watch anew.
LEMMA RewatchTasks ==
  ASSUME TypeInv, Attach \/ RetryMain \/ RetrySide \/ Restore
  PROVE  \A u \in tasks' : u \in tasks \/ Fresh(u)
<1> USE DEF TypeInv
<1>1. CASE Attach  BY <1>1, AttachHandled, WatchesTasks
<1>2. CASE RetryMain
  <2>1. UNCHANGED watching \/ Reattach(ctxs[map])  BY <1>2 DEF RetryMain
  <2> QED BY <2>1, ReattachHandled, MapKnown, WatchesTasks DEF watching
<1>3. CASE RetrySide
  <2>1. Reattach(Reset(ctxs[map]))  BY <1>3 DEF RetrySide
  <2>2. map # 0 => Reset(ctxs[map]) \in Ctx  BY MapKnown, ResetCtx
  <2> QED BY <2>1, <2>2, ReattachHandled, WatchesTasks DEF watching
<1>4. CASE Restore  BY <1>4, RestoreHandled, WatchesTasks DEF watching
<1> QED BY <1>1, <1>2, <1>3, <1>4

\* The steps that move no file and write no entry.
DiskSame == UNCHANGED <<disk, list>> /\ \A t \in tasks' : t \in tasks \/ Fresh(t)

LEMMA DiskSteps ==
  ASSUME TypeInv, [Next]_vars,
         \/ \E t \in tasks : CatchUp(t) \/ SideDone(t)
         \/ Device
         \/ StartSide \/ StartMain \/ Attach \/ RetryMain \/ RetrySide \/ Launch \/ Restore
         \/ Start \/ Retry \/ Foreground \/ Crash \/ UNCHANGED vars
  PROVE  DiskSame
<1> USE DEF TypeInv
<1>1. ASSUME NEW t \in tasks, CatchUp(t) PROVE DiskSame
  BY <1>1, CatchUpTasks DEF CatchUp, durable, DiskSame
<1>2. ASSUME NEW t \in tasks, SideDone(t) PROVE DiskSame
  BY <1>2, SideDoneTasks DEF SideDone, durable, DiskSame, Fresh
<1>3. ASSUME NEW f \in Files, NEW how \in {"completed", "failed"}, Ends(f, how) \/ Deliver(f, how)
      PROVE  DiskSame
  <2>1. CASE Ends(f, how)  BY <2>1 DEF Ends, watching, DiskSame
  <2>2. CASE Deliver(f, how)  BY <2>2, DeliverTasks DEF Deliver, durable, DiskSame
  <2> QED BY <1>3, <2>1, <2>2
<1>4. CASE Attach \/ RetryMain \/ RetrySide \/ Restore
  <2>1. UNCHANGED <<disk, list>>  BY <1>4 DEF Attach, RetryMain, RetrySide, Restore, durable
  <2> QED BY <1>4, <2>1, RewatchTasks DEF DiskSame
<1>5. CASE StartSide \/ StartMain \/ Launch \/ Start \/ Retry \/ Foreground
  BY <1>5 DEF StartSide, StartMain, Launch, Start, Retry, Foreground, durable, watching, DiskSame
<1>6. CASE Crash  BY <1>6 DEF Crash, durable, DiskSame
<1>7. CASE UNCHANGED vars  BY <1>7 DEF vars, durable, watching, DiskSame
<1> QED BY <1>1, <1>2, <1>3, <1>4, <1>5, <1>6, <1>7 DEF Device

LEMMA DiskInductive ==
  ASSUME TypeInv, CancelOK, DiskOK, [Next]_vars
  PROVE  DiskOK'
<1> SUFFICES ASSUME ~ Given({"cancelled"})' PROVE DiskOK'
  BY DEF DiskOK
<1>1. /\ cancel.at = "idle"
      /\ \A t \in tasks : t.at \in {"resolve", "save"} => "main" \in disk
      /\ \A t \in tasks : t.at = "save" /\ t.sees => "side" \in disk
      /\ list # "absent" => "main" \in disk
      /\ list = "vision" => "side" \in disk
  BY GivenStays DEF CancelOK, DiskOK
<1>2. CASE DiskSame  BY <1>1, <1>2 DEF DiskSame, DiskOK, Fresh
<1>3. ASSUME NEW t \in tasks, SideMove(t) PROVE DiskOK'
  <2>1. disk \subseteq disk' /\ list' = list  BY <1>3 DEF SideMove, Moves, Refuses
  <2>2. t \in Task  BY DEF TypeInv, WatchingOK
  <2>3. \A u \in tasks' : u \in tasks \/ u.at \in {"sideMoved", "sideLost"}
    BY <1>3, <2>2 DEF SideMove, Becomes, Task
  <2> QED BY <1>1, <2>1, <2>3 DEF DiskOK
<1>4. ASSUME NEW t \in tasks, Move(t) PROVE DiskOK'
  <2>1. list' = list /\ t \in Task  BY <1>4 DEF Move, TypeInv, WatchingOK
  <2>2. CASE Moves("main") /\ Becomes(t, "resolve")
    <3>1. disk \subseteq disk' /\ "main" \in disk'  BY <2>2 DEF Moves
    <3>2. \A u \in tasks' : u \in tasks \/ u.at = "resolve"  BY <2>1, <2>2 DEF Becomes, Task
    <3> QED BY <1>1, <2>1, <3>1, <3>2 DEF DiskOK
  <2>3. CASE Refuses("main") /\ Becomes(t, "check")
    <3>1. disk' = disk  BY <2>3 DEF Refuses
    <3>2. \A u \in tasks' : u \in tasks \/ u.at = "check"  BY <2>1, <2>3 DEF Becomes, Task
    <3> QED BY <1>1, <2>1, <3>1, <3>2 DEF DiskOK
  <2> QED BY <1>4, <2>2, <2>3 DEF Move
<1>5. ASSUME NEW t \in tasks, Check(t) PROVE DiskOK'
  <2>1. t \in Task /\ UNCHANGED <<disk, list>>  BY <1>5 DEF Check, durable, TypeInv, WatchingOK
  <2>2. CASE OnDisk("main")
    <3> DEFINE v == [t EXCEPT !.at = "resolve", !.moved = FALSE]
    <3>0. tasks' = (tasks \ {t}) \cup {v} /\ v.at = "resolve"
      BY <1>5, <2>1, <2>2 DEF Check, Task
    <3>1. \A u \in tasks' : u \in tasks \/ u.at = "resolve"  BY <3>0
    <3> QED BY <1>1, <2>1, <2>2, <3>1 DEF DiskOK, OnDisk
  <2>3. CASE ~ OnDisk("main")
    <3>1. tasks' \subseteq tasks  BY <1>5, <2>3 DEF Check
    <3> QED BY <1>1, <2>1, <3>1 DEF DiskOK
  <2> QED BY <2>2, <2>3
<1>6. ASSUME NEW t \in tasks, Resolve(t) PROVE DiskOK'
  <2>1. t \in Task /\ UNCHANGED <<disk, list>>  BY <1>6 DEF Resolve, durable, TypeInv, WatchingOK
  <2>2. t.at = "resolve"  BY <1>6 DEF Resolve
  <2>3. \A u \in tasks' : u \in tasks \/ (u.at = "save" /\ u.sees = Sees(ctxs[ctxOf[t.w]]))
    BY <1>6, <2>1 DEF Resolve, Task
  <2> QED BY <1>1, <2>1, <2>2, <2>3 DEF DiskOK, Sees, OnDisk
<1>7. ASSUME NEW t \in tasks, Save(t) PROVE DiskOK'
  <2>1. disk' = disk /\ tasks' \subseteq tasks /\ t.at = "save"
        /\ list' = IF t.sees THEN "vision" ELSE "text"
    BY <1>7 DEF Save
  <2> QED BY <1>1, <2>1 DEF DiskOK
<1>8. CASE Discover
  <2>1. disk' = disk /\ tasks' = tasks /\ "main" \in disk
        /\ list' = IF "side" \in disk THEN "vision" ELSE IF list = "absent" THEN "found" ELSE list
    BY <1>8 DEF Discover, watching, OnDisk
  <2> QED BY <1>1, <2>1 DEF DiskOK
<1>9. ~ Cancel /\ ~ CancelSide /\ ~ CancelMain
  <2>1. ~ CancelSide /\ ~ CancelMain  BY <1>1 DEF CancelSide, CancelMain
  <2>2. Cancel => "cancelled" \in faults'  BY DEF Cancel, Blame
  <2> QED BY <2>1, <2>2 DEF Given
<1> QED BY <1>2, <1>3, <1>4, <1>5, <1>6, <1>7, <1>8, <1>9, DiskSteps DEF Next, App, User, Awaits

\* What the registry lists is on disk, with the projector it promises: for every number of
\* watchers, scans, retries and process deaths, unless the user cancelled.
THEOREM ListedIsThere == Spec => []ListedIsOnDisk
<1> DEFINE Inv == TypeInv /\ CancelOK /\ DiskOK
<1>1. Init => Inv
  <2> SUFFICES ASSUME Init PROVE Inv
    OBVIOUS
  <2>1. TypeInv  BY TypeInit DEF TypeInv
  <2>2. CancelOK  BY DEF Init, NoCancel, CancelOK
  <2>3. DiskOK  BY DEF Init, DiskOK
  <2> QED BY <2>1, <2>2, <2>3
<1>2. Inv /\ [Next]_vars => Inv'
  <2> SUFFICES ASSUME Inv, [Next]_vars PROVE Inv'
    OBVIOUS
  <2>1. TypeInv'  BY TypeInductive DEF TypeInv
  <2>2. CancelOK'  BY CancelInductive DEF TypeInv
  <2>3. DiskOK'  BY DiskInductive
  <2> QED BY <2>1, <2>2, <2>3
<1>3. Inv => ListedIsOnDisk  BY DEF DiskOK, ListedIsOnDisk, Given, OnDisk
<1> HIDE DEF Inv
<1> QED BY <1>1, <1>2, <1>3, PTL DEF Spec

-----------------------------------------------------------------------------
(* The projector                                                           *)

\* Nothing was cancelled, and no row was registered from a scan before its start returned.
Calm == ~ Given({"cancelled", "early"})

SideAt == {"sideMove", "sideMoved", "sideLost"}
FinalAt == {"move", "check", "resolve", "save"}

\* The transfer of the projector is complete.
SideOver ==
  vision /\ start \notin {"idle", "side"} /\ native["side"] \notin {"running", "failed"}

\* Before it starts there is no row of it.
BeforeOK ==
  /\ start \in {"idle", "side"} \/ ~ vision =>
       native["side"] = "none" /\ \A how \in {"completed", "failed"} : <<"side", how>> \notin events
  /\ start = "side" => vision

\* What is known of the transfer is so.
SideOK ==
  /\ <<"side", "completed">> \in events => SideOver
  /\ <<"side", "failed">> \in events => native["side"] = "failed"
  /\ \A t \in tasks : t.at \in SideAt => SideOver
  /\ "side" \in disk => SideOver
  /\ SideOver => native["side"] = "completed" \/ "side" \in disk
  /\ \A t \in tasks : t.at = "sideMoved" => "side" \in disk
  /\ \A t \in tasks : t.at = "sideLost" => "side" \in disk \/ Given({"refusedMove"})
  /\ sideRow = "failed" \/ retry \in {"both", "side"} =>
       native["side"] = "failed" /\ <<"side", "failed">> \notin events
  /\ retry = "side" => sideRow # "failed"

\* The context of the start is the only one that has a projector to wait for: the others
\* find it on disk or not.
Sided == watchers > 0 /\ ctxs[1].hasSide
Settled(c) == c.side /\ c.path = vision
FirstOK ==
  /\ start # "done" => /\ watchers = 0 /\ retry = "idle" /\ list = "absent"
                       /\ ~ Given({"crash"})
  /\ start = "done" /\ vision /\ ~ Given({"crash"}) => Sided
  /\ \A w \in Watchers : ctxs[w].hasSide =>
       w = 1 /\ watchers > 0 /\ vision /\ ~ Given({"crash"})
  /\ \A w \in 1 .. watchers : ctxs[ctxOf[w]].hasSide \/ Settled(ctxs[ctxOf[w]])
  /\ map # 0 => ctxs[map].hasSide \/ Settled(ctxs[map])
  /\ watchers > 0 => ctxOf[1] = 1
  /\ listener["side"] # 0 => Sided /\ ctxOf[listener["side"]] = 1
  /\ \A t \in tasks : t.at \in SideAt => Sided /\ ctxOf[t.w] = 1

\* Its projector is moved once, or given up for a reason.
GivenUp == {"refusedMove", "orphan", "sideless"}
ProjectorOK == Sided =>
  /\ \A t, u \in tasks : t.at \in SideAt /\ u.at \in SideAt => t = u
  /\ \A t \in tasks : t.at \in SideAt => ctxs[1].sideHandled /\ ~ ctxs[1].side
  /\ ~ ctxs[1].side => ctxs[1].path
  /\ ctxs[1].side => ctxs[1].sideHandled \/ listener["side"] = 0
  /\ ctxs[1].side /\ ctxs[1].path => "side" \in disk
  /\ ctxs[1].side /\ ~ ctxs[1].path =>
       /\ "side" \notin disk
       /\ Given(GivenUp) \/ native["side"] = "failed"

\* Until then the context stays where a retry finds it, and nothing is finalized.
MapOK == Sided =>
  /\ map = 1 => /\ \A t \in tasks : t.at \notin FinalAt
                /\ list = "absent"
                /\ \A w \in 1 .. watchers : ctxOf[w] = 1
  /\ map # 1 => ctxs[1].side

\* What is registered without vision has no projector on disk.
TextOK ==
  /\ \A t \in tasks : t.at = "save" /\ ~ t.sees => "side" \notin disk
  /\ list = "text" => "side" \notin disk

CalmOK == FirstOK /\ SideOK /\ ProjectorOK /\ MapOK /\ TextOK

LEMMA BeforeInductive ==
  ASSUME TypeInv, BeforeOK, [Next]_vars
  PROVE  BeforeOK'
<1> USE DEF TypeInv, BeforeOK
<1>1. ASSUME NEW t \in tasks, Awaits(t) PROVE BeforeOK'
  <2>1. UNCHANGED <<vision, start, events>>
    BY <1>1 DEF Awaits, CatchUp, SideMove, SideDone, Move, Check, Resolve, Save, ops
  <2>2. native'["side"] \in {native["side"], "none"}
    BY <1>1 DEF Awaits, CatchUp, SideMove, SideDone, Move, Check, Resolve, Save, durable, Moves,
                Refuses, FilesOK, Files
  <2> QED BY <2>1, <2>2
<1>2. ASSUME NEW f \in Files, NEW how \in {"completed", "failed"}, Ends(f, how) \/ Deliver(f, how)
      PROVE  BeforeOK'
  <2>1. CASE Ends(f, how)
    <3>1. UNCHANGED <<vision, start>> /\ native[f] = "running"
          /\ native' = [native EXCEPT ![f] = how] /\ events' = events \cup {<<f, how>>}
      BY <2>1 DEF Ends, ops
    <3> QED BY <3>1 DEF FilesOK, Files
  <2>2. CASE Deliver(f, how)
    <3>1. UNCHANGED <<vision, start, native>> /\ events' \subseteq events
      BY <2>2 DEF Deliver, ops, durable
    <3> QED BY <3>1
  <2> QED BY <1>2, <2>1, <2>2
<1>3. CASE Start \/ StartSide \/ StartMain \/ Attach
  <2>1. CASE Start  BY <2>1 DEF Start, durable
  <2>2. CASE StartSide  BY <2>2 DEF StartSide
  <2>3. CASE StartMain
    <3>1. native'["side"] = native["side"]  BY <2>3 DEF StartMain, FilesOK, Files
    <3> QED BY <2>3, <3>1 DEF StartMain
  <2>4. CASE Attach  BY <2>4 DEF Attach, durable
  <2> QED BY <1>3, <2>1, <2>2, <2>3, <2>4
<1>4. CASE RetryMain \/ RetrySide
  <2>1. UNCHANGED <<vision, start, events>>  BY <1>4 DEF RetryMain, RetrySide
  <2>2. native'["side"] = native["side"] \/ native["side"] = "failed"
    BY <1>4 DEF RetryMain, RetrySide, FilesOK, Files
  <2> QED BY <2>1, <2>2
<1>5. CASE CancelSide \/ CancelMain
  <2>1. UNCHANGED <<vision, start, events>>  BY <1>5 DEF CancelSide, CancelMain
  <2>2. native["side"] = "none" => native'["side"] = "none"
    BY <1>5 DEF CancelSide, CancelMain, Cancelled, FilesOK, Files
  <2> QED BY <2>1, <2>2
<1>6. CASE \/ Retry \/ Cancel \/ Foreground \/ Launch \/ Restore \/ Discover \/ Crash
           \/ UNCHANGED vars
  <2>1. UNCHANGED <<vision, native, start>> /\ events' \subseteq events
    BY <1>6 DEF Retry, Cancel, Foreground, Launch, Restore, Discover, Crash, vars, durable, ops
  <2> QED BY <2>1
<1> QED BY <1>1, <1>2, <1>3, <1>4, <1>5, <1>6 DEF Next, App, Device, User

-----------------------------------------------------------------------------
(* Effects on the contexts                                                 *)

\* The watchers go on: a context may learn that its projector is decided, a finalization
\* may begin.
Proceeds ==
  /\ Stays
  /\ \A j \in Watchers :
       /\ ctxs'[j].hasSide = ctxs[j].hasSide
       /\ ctxs[j].side => ctxs'[j].side
       /\ ~ ctxs[j].hasSide => ctxs'[j].side = ctxs[j].side /\ ctxs'[j].path = ctxs[j].path
  /\ listener'["side"] \in {listener["side"], 0}
  /\ \A u \in tasks' : u.at \in SideAt =>
       ctxs[ctxOf[u.w]].hasSide \/ \E t \in tasks : t.at \in SideAt /\ t.w = u.w
  /\ \A u \in tasks' : u.at \in FinalAt => map' = 0 \/ \E t \in tasks : t.at \in FinalAt
  /\ map' = map \/ (map' = 0 /\ \E w \in 1 .. watchers : ctxs'[ctxOf[w]].side)

\* The life of the download, but for its registration.
SameLife ==
  /\ UNCHANGED <<vision, start>> /\ (Given({"crash"})' <=> Given({"crash"}))
  /\ start # "done" => retry' = retry
  /\ list' # list => Given({"crash"}) \/ \E t \in tasks : t.at \in FinalAt

LEMMA ProceedsFirst ==
  ASSUME TypeInv, TypeInv', FirstOK, SameLife, Proceeds
  PROVE  FirstOK'
<1>1. /\ UNCHANGED <<ctxOf, owns, watchers, vision, start>>
      /\ (Given({"crash"})' <=> Given({"crash"}))
  BY DEF SameLife, Proceeds, Stays
<1>2. Sided' <=> Sided
  <2>1. watchers > 0 => 1 \in Watchers  BY Known DEF TypeInv, WatchingOK
  <2> QED BY <1>1, <2>1 DEF Sided, Proceeds
<1>3. start # "done" => watchers = 0 /\ retry' = "idle" /\ list' = "absent" /\ ~ Given({"crash"})
  <2> SUFFICES ASSUME start # "done"
               PROVE  watchers = 0 /\ retry' = "idle" /\ list' = "absent" /\ ~ Given({"crash"})
    OBVIOUS
  <2>1. watchers = 0 /\ retry = "idle" /\ list = "absent" /\ ~ Given({"crash"})
    BY DEF FirstOK
  <2>2. tasks = {}  BY <2>1 DEF TypeInv, WatchingOK, RefsOK
  <2> QED BY <2>1, <2>2 DEF SameLife
<1>4. \A w \in Watchers : ctxs'[w].hasSide =>
         w = 1 /\ watchers > 0 /\ vision /\ ~ Given({"crash"})
  BY DEF Proceeds, FirstOK
<1>5. \A j \in Watchers : ctxs[j].hasSide \/ Settled(ctxs[j]) =>
         ctxs'[j].hasSide \/ (ctxs'[j].side /\ ctxs'[j].path = vision)
  BY DEF Proceeds, Settled
<1>6. \A w \in 1 .. watchers : ctxs'[ctxOf[w]].hasSide
                               \/ (ctxs'[ctxOf[w]].side /\ ctxs'[ctxOf[w]].path = vision)
  <2>1. \A w \in 1 .. watchers : ctxOf[w] \in Watchers  BY Known DEF TypeInv
  <2> QED BY <1>5, <2>1 DEF FirstOK
<1>7. map' # 0 => ctxs'[map'].hasSide \/ (ctxs'[map'].side /\ ctxs'[map'].path = vision)
  <2>1. map' # 0 => map' = map  BY DEF Proceeds
  <2>2. map # 0 => map \in Watchers  BY MapKnown DEF TypeInv
  <2> QED BY <1>5, <2>1, <2>2 DEF FirstOK
<1>8. \A u \in tasks' : u.at \in SideAt => Sided /\ ctxOf[u.w] = 1
  <2> SUFFICES ASSUME NEW u \in tasks', u.at \in SideAt PROVE Sided /\ ctxOf[u.w] = 1
    OBVIOUS
  <2>1. u.w \in 1 .. watchers  BY <1>1 DEF TypeInv, WatchingOK, RefsOK
  <2>2. CASE ctxs[ctxOf[u.w]].hasSide
    <3>1. ctxOf[u.w] \in Watchers  BY <2>1, Known DEF TypeInv
    <3> QED BY <2>2, <3>1 DEF FirstOK, Sided
  <2>3. CASE \E t \in tasks : t.at \in SideAt /\ t.w = u.w  BY <2>3 DEF FirstOK
  <2> QED BY <2>2, <2>3 DEF Proceeds
<1>9. listener'["side"] # 0 => Sided /\ ctxOf[listener'["side"]] = 1
  BY DEF Proceeds, FirstOK
<1>10. (start = "done" /\ vision /\ ~ Given({"crash"}) => Sided)
       /\ (watchers > 0 => ctxOf[1] = 1)
  BY DEF FirstOK
<1> HIDE DEF TypeInv
<1> QED BY <1>1, <1>2, <1>3, <1>4, <1>6, <1>7, <1>8, <1>9, <1>10 DEF FirstOK, Settled

LEMMA ProceedsMap ==
  ASSUME TypeInv, FirstOK, MapOK, SameLife, Proceeds
  PROVE  MapOK'
<1> SUFFICES ASSUME Sided' PROVE MapOK'
  BY DEF MapOK
<1>1. UNCHANGED <<ctxOf, watchers>>  BY DEF Proceeds, Stays
<1>2. watchers > 0 /\ 1 \in Watchers /\ Sided
  <2>1. watchers > 0  BY <1>1 DEF Sided
  <2>2. 1 \in Watchers  BY <2>1, Known DEF TypeInv, WatchingOK
  <2> QED BY <2>1, <2>2 DEF Sided, Proceeds
<1>3. ~ Given({"crash"})  BY <1>2 DEF FirstOK, Sided
<1>4. CASE map' = 1
  <2>1. map = 1  BY <1>4 DEF Proceeds
  <2>2. /\ \A t \in tasks : t.at \notin FinalAt
        /\ list = "absent" /\ \A w \in 1 .. watchers : ctxOf[w] = 1
    BY <1>2, <2>1 DEF MapOK
  <2>3. \A u \in tasks' : u.at \notin FinalAt  BY <1>4, <2>2 DEF Proceeds
  <2>4. list' = "absent"  BY <1>3, <2>2 DEF SameLife
  <2> QED BY <1>1, <1>4, <2>2, <2>3, <2>4 DEF MapOK
<1>5. CASE map' # 1
  <2>1. CASE map = 1
    <3>1. PICK w \in 1 .. watchers : ctxs'[ctxOf[w]].side  BY <1>5, <2>1 DEF Proceeds
    <3>2. ctxOf[w] = 1  BY <1>2, <2>1 DEF MapOK
    <3> QED BY <1>5, <3>1, <3>2 DEF MapOK
  <2>2. CASE map # 1
    <3>1. ctxs[1].side  BY <1>2, <2>2 DEF MapOK
    <3> QED BY <1>2, <1>5, <3>1 DEF Proceeds, MapOK
  <2> QED BY <2>1, <2>2
<1> QED BY <1>4, <1>5

\* What Handles does is such a step.
LEMMA HandlesProceeds ==
  ASSUME TypeInv, NEW w \in 1 .. watchers, NEW c, NEW ts, Stays, Handles(w, c, ts),
         c.hasSide = ctxs[ctxOf[w]].hasSide,
         ctxs[ctxOf[w]].side => c.side,
         ~ c.hasSide => c.side = ctxs[ctxOf[w]].side /\ c.path = ctxs[ctxOf[w]].path,
         \A u \in ts : \/ u \in tasks
                       \/ u.at \notin SideAt \cup FinalAt
                       \/ u.at \in SideAt /\ ctxs[ctxOf[u.w]].hasSide
  PROVE  Proceeds
<1>1. w \in Watchers /\ ctxOf[w] \in Watchers  BY Known DEF TypeInv
<1>2. Alike(ctxs'[ctxOf[w]], c)  BY DEF Handles
<1>3. \A j \in Watchers :
       /\ ctxs'[j].hasSide = ctxs[j].hasSide
       /\ ctxs[j].side => ctxs'[j].side
       /\ ~ ctxs[j].hasSide => ctxs'[j].side = ctxs[j].side /\ ctxs'[j].path = ctxs[j].path
  BY <1>2 DEF Handles, Alike
<1>4. \A u \in tasks' : u \in ts \/ (u.at = "move" /\ map' = 0)
  BY <1>1, AtIsTask DEF Handles
<1>5. \A u \in tasks' : u.at \in SideAt =>
       ctxs[ctxOf[u.w]].hasSide \/ \E t \in tasks : t.at \in SideAt /\ t.w = u.w
  BY <1>4 DEF SideAt, FinalAt
<1>6. \A u \in tasks' : u.at \in FinalAt => map' = 0 \/ \E t \in tasks : t.at \in FinalAt
  BY <1>4 DEF SideAt, FinalAt
<1>7. map' = map \/ (map' = 0 /\ \E v \in 1 .. watchers : ctxs'[ctxOf[v]].side)
  BY <1>2 DEF Handles, Alike
<1>8. listener'["side"] \in {listener["side"], 0}  BY DEF Handles
<1> QED BY <1>3, <1>5, <1>6, <1>7, <1>8 DEF Proceeds

\* A new watcher: of the start, of the context a retry finds, or of a new one without a
\* projector to wait for.
LEMMA WatchesFirst ==
  ASSUME TypeInv, TypeInv', FirstOK, NEW k \in 1 .. watchers + 1, NEW c, Watches(k, c),
         start' = "done", vision' = vision, Given({"crash"})' <=> Given({"crash"}),
         c.hasSide \/ Settled(c),
         c.hasSide => k = 1 /\ vision /\ ~ Given({"crash"}),
         k <= watchers => c.hasSide = ctxs[k].hasSide,
         vision /\ ~ Given({"crash"}) => Sided \/ (k = 1 /\ c.hasSide)
  PROVE  FirstOK'
<1> DEFINE w == watchers'
<1>0. /\ watchers \in Nat /\ w = watchers + 1 /\ w \in Watchers /\ 1 \in Watchers /\ k \in Watchers
      /\ \A v \in 1 .. w : v \in 1 .. watchers \/ v = w
      /\ \A v \in 1 .. watchers : v # w /\ v \in Watchers
      /\ k \in 1 .. watchers \/ k = w
  BY FinalizeAssumption DEF TypeInv, WatchingOK, Watches, Watchers
<1>1. /\ ctxOf'[w] = k /\ \A v \in 1 .. watchers : ctxOf'[v] = ctxOf[v]
  BY <1>0 DEF Watches, TypeInv, WatchingOK
<1>2. /\ ctxs'[k].hasSide = c.hasSide /\ ctxs'[k].side = c.side /\ ctxs'[k].path = c.path
      /\ \A j \in Watchers : j # k => ctxs'[j] = ctxs[j]
  BY DEF Watches, Alike
<1>3. \A j \in Watchers : ctxs'[j].hasSide => j = 1 /\ vision /\ ~ Given({"crash"})
  BY <1>2 DEF FirstOK
<1>4. Sided => ctxs'[1].hasSide
  <2> SUFFICES ASSUME Sided PROVE ctxs'[1].hasSide
    OBVIOUS
  <2>1. CASE k = 1  BY <1>0, <1>2, <2>1 DEF Sided
  <2>2. CASE k # 1  BY <1>0, <1>2, <2>2 DEF Sided
  <2> QED BY <2>1, <2>2
<1>5. Sided' <=> ctxs'[1].hasSide  BY <1>0 DEF Sided
<1>6. vision /\ ~ Given({"crash"}) => Sided'  BY <1>2, <1>4, <1>5
<1>7. \A j \in Watchers : j = k \/ ctxs[j].hasSide \/ Settled(ctxs[j]) =>
        ctxs'[j].hasSide \/ (ctxs'[j].side /\ ctxs'[j].path = vision)
  BY <1>2 DEF Settled
<1>8. \A v \in 1 .. w : ctxs'[ctxOf'[v]].hasSide
                        \/ (ctxs'[ctxOf'[v]].side /\ ctxs'[ctxOf'[v]].path = vision)
  <2> SUFFICES ASSUME NEW v \in 1 .. w
               PROVE  ctxs'[ctxOf'[v]].hasSide
                      \/ (ctxs'[ctxOf'[v]].side /\ ctxs'[ctxOf'[v]].path = vision)
    OBVIOUS
  <2>1. CASE v = w  BY <1>0, <1>1, <1>7, <2>1
  <2>2. CASE v \in 1 .. watchers
    <3>1. ctxOf[v] \in Watchers  BY <2>2, Known DEF TypeInv
    <3> QED BY <1>1, <1>7, <2>2, <3>1 DEF FirstOK
  <2> QED BY <1>0, <2>1, <2>2
<1>9. map' # 0 => ctxs'[map'].hasSide \/ (ctxs'[map'].side /\ ctxs'[map'].path = vision)
  BY <1>0, <1>7 DEF Watches
<1>10. ctxOf'[1] = 1
  <2>1. CASE watchers = 0
    <3>1. w = 1 /\ k = 1  BY <1>0, <2>1
    <3> QED BY <1>1, <3>1
  <2>2. CASE watchers # 0
    <3>1. 1 \in 1 .. watchers /\ watchers > 0  BY <1>0, <2>2
    <3> QED BY <1>1, <3>1 DEF FirstOK
  <2> QED BY <2>1, <2>2
<1>11. listener'["side"] # 0 => Sided' /\ ctxOf'[listener'["side"]] = 1
  <2>1. CASE c.hasSide /\ ~ c.side
    <3>1. listener'["side"] = w /\ k = 1  BY <2>1 DEF Watches
    <3> QED BY <1>1, <1>2, <1>5, <2>1, <3>1
  <2>2. CASE ~ (c.hasSide /\ ~ c.side)
    <3>1. listener'["side"] = listener["side"]  BY <2>2 DEF Watches
    <3>2. listener["side"] # 0 => listener["side"] \in 1 .. watchers
      BY ListenerKnown DEF TypeInv, Files
    <3> QED BY <1>1, <1>4, <1>5, <3>1, <3>2 DEF FirstOK
  <2> QED BY <2>1, <2>2
<1>12. \A t \in tasks' : t.at \in SideAt => Sided' /\ ctxOf'[t.w] = 1
  <2>1. \A t \in tasks' : t \in tasks \/ t.at \in {"catchUp", "move"}
    BY WatchesTasks, AtIsTask DEF Watches
  <2>2. \A t \in tasks : t.w \in 1 .. watchers  BY DEF TypeInv, WatchingOK, RefsOK
  <2> QED BY <1>1, <1>4, <1>5, <2>1, <2>2 DEF SideAt, FirstOK
<1>13. w > 0  BY <1>0
<1> HIDE DEF TypeInv
<1> QED BY <1>3, <1>6, <1>8, <1>9, <1>10, <1>11, <1>12, <1>13 DEF FirstOK, Settled

LEMMA WatchesMap ==
  ASSUME TypeInv, FirstOK, FirstOK', MapOK, NEW k \in 1 .. watchers + 1, NEW c, Watches(k, c),
         list' = list,
         \/ k = map /\ (c.hasSide => ctxs[k].hasSide)
         \/ map = 0 /\ k = watchers + 1 /\ (c.hasSide => list = "absent")
  PROVE  MapOK'
<1> SUFFICES ASSUME Sided' PROVE MapOK'
  BY DEF MapOK
<1> DEFINE w == watchers'
<1>0. /\ watchers \in Nat /\ w = watchers + 1 /\ w \in Watchers /\ 1 \in Watchers /\ k \in Watchers
      /\ \A v \in 1 .. w : v \in 1 .. watchers \/ v = w
      /\ \A v \in 1 .. watchers : v # w /\ v \in Watchers
  BY FinalizeAssumption DEF TypeInv, WatchingOK, Watches, Watchers
<1>1. /\ ctxOf'[w] = k /\ \A v \in 1 .. watchers : ctxOf'[v] = ctxOf[v]
  BY <1>0 DEF Watches, TypeInv, WatchingOK
<1>2. /\ ctxs'[k].hasSide = c.hasSide /\ ctxs'[k].side = c.side
      /\ \A j \in Watchers : j # k => ctxs'[j] = ctxs[j]
  BY DEF Watches, Alike
<1>3. \/ map' = k /\ tasks' = tasks \cup {At(w, "catchUp")}
      \/ map' = 0 /\ c.side
  BY DEF Watches
<1>4. CASE k = 1
  <2>1. c.hasSide  BY <1>2, <1>4 DEF Sided
  <2>2. /\ \A t \in tasks : t.at \notin FinalAt
        /\ list = "absent" /\ \A v \in 1 .. watchers : ctxOf[v] = 1
    <3>1. CASE k = map
      <4>1. Sided
        <5>1. watchers # 0  BY <1>0, <1>4, <3>1 DEF TypeInv, WatchingOK
        <5> QED BY <1>0, <1>4, <2>1, <3>1, <5>1 DEF Sided
      <4> QED BY <1>4, <3>1, <4>1 DEF MapOK
    <3>2. CASE map = 0 /\ k = watchers + 1 /\ (c.hasSide => list = "absent")
      <4>1. watchers = 0  BY <1>0, <1>4, <3>2
      <4>2. tasks = {}  BY <4>1 DEF TypeInv, WatchingOK, RefsOK
      <4> QED BY <2>1, <3>2, <4>1, <4>2
    <3> QED BY <3>1, <3>2
  <2>3. At(w, "catchUp").at \notin FinalAt  BY <1>0, AtIsTask DEF FinalAt
  <2>4. CASE map' = k /\ tasks' = tasks \cup {At(w, "catchUp")}
    BY <1>0, <1>1, <1>4, <2>2, <2>3, <2>4 DEF MapOK
  <2>5. CASE map' = 0 /\ c.side
    <3>1. map' # 1  BY <2>5
    <3>2. ctxs'[1].side
      <4>1. ctxs'[k].side = c.side /\ c.side /\ k = 1  BY ONLY <1>2, <1>4, <2>5
      <4> QED BY ONLY <4>1, Zenon
    <3> QED BY <3>1, <3>2 DEF MapOK
  <2> QED BY <1>3, <2>4, <2>5
<1>5. CASE k # 1
  <2>1. ctxs'[1] = ctxs[1] /\ map' # 1  BY <1>0, <1>2, <1>3, <1>5
  <2>2. Sided
    <3>1. ctxs[1].hasSide  BY <2>1 DEF Sided
    <3> QED BY <1>0, <3>1 DEF FirstOK
  <2>3. map # 1  BY <1>0, <1>5
  <2> QED BY <2>1, <2>2, <2>3 DEF MapOK
<1> QED BY <1>4, <1>5

\* The projector's context and its move are left alone, and the file stays.
LEMMA ProjectorKept ==
  ASSUME ProjectorOK,
         Sided' => Sided /\ Alike(ctxs'[1], ctxs[1]),
         \A u \in tasks' : u.at \in SideAt => u \in tasks,
         listener'["side"] \in {listener["side"], 0} \/ ~ ctxs[1].side,
         "side" \in disk' <=> "side" \in disk,
         Given(GivenUp) => Given(GivenUp)',
         native["side"] = "failed" => \/ native'["side"] = "failed"
                                      \/ Given(GivenUp)'
  PROVE  ProjectorOK'
BY DEF ProjectorOK, Alike

\* The projector's transfer is left alone.
LEMMA SideKept ==
  ASSUME SideOK, SideOver' <=> SideOver, native'["side"] = native["side"],
         "side" \in disk' <=> "side" \in disk,
         \A how \in {"completed", "failed"} : <<"side", how>> \in events' => <<"side", how>> \in events,
         \A u \in tasks' : u.at \in SideAt => u \in tasks,
         Given({"refusedMove"}) => Given({"refusedMove"})',
         sideRow' = "failed" => sideRow = "failed",
         retry' = "both" => retry = "both" \/ sideRow = "failed",
         retry' = "side" => retry = "side"
  PROVE  SideOK'
BY DEF SideOK, SideAt

LEMMA TextKept ==
  ASSUME TextOK, \A u \in tasks' : u.at = "save" => u \in tasks,
         list' = "text" => list = "text", "side" \in disk' => "side" \in disk
  PROVE  TextOK'
BY DEF TextOK

LEMMA DiskSameText == ASSUME TextOK, DiskSame PROVE TextOK'
BY TextKept DEF DiskSame, Fresh

LEMMA GivenGrows ==
  ASSUME [Next]_vars
  PROVE  /\ Given({"refusedMove"}) => Given({"refusedMove"})'
         /\ Given(GivenUp) => Given(GivenUp)'
BY GivenStays

-----------------------------------------------------------------------------
(* The steps that leave the projector alone                                *)

\* Nothing of the projector's context, of its transfer and of its file changes.
SideUntouched ==
  /\ \A j \in Watchers : Alike(ctxs'[j], ctxs[j])
  /\ \A u \in tasks' : u.at \in SideAt \cup {"save"} => u \in tasks
  /\ ("side" \in disk' <=> "side" \in disk) /\ native'["side"] = native["side"]
  /\ \A how \in {"completed", "failed"} : <<"side", how>> \in events' => <<"side", how>> \in events
  /\ sideRow' = "failed" => sideRow = "failed"
  /\ retry' = "both" => retry = "both" \/ sideRow = "failed"
  /\ retry' = "side" => retry = "side"
  /\ list' = "text" => list = "text"

LEMMA Going ==
  ASSUME TypeInv, TypeInv', CalmOK, [Next]_vars, SameLife, Proceeds, SideUntouched
  PROVE  CalmOK'
<1> USE DEF CalmOK
<1>1. FirstOK' /\ MapOK'  BY ProceedsFirst, ProceedsMap
<1>2. (SideOver' <=> SideOver) /\ \A u \in tasks' : u.at \in SideAt => u \in tasks
  BY DEF SideOver, SameLife, SideUntouched
<1>3. SideOK'  BY <1>2, SideKept, GivenGrows DEF SideUntouched
<1>4. TextOK'  BY TextKept DEF SideUntouched
<1>5. Sided' => Sided /\ Alike(ctxs'[1], ctxs[1])
  <2> SUFFICES ASSUME Sided' PROVE Sided /\ Alike(ctxs'[1], ctxs[1])
    OBVIOUS
  <2>1. watchers > 0  BY DEF Sided, Proceeds, Stays
  <2>2. 1 \in Watchers  BY <2>1, Known DEF TypeInv, WatchingOK
  <2> QED BY <2>1, <2>2 DEF Sided, SideUntouched, Alike
<1>6. ProjectorOK'
  BY <1>2, <1>5, ProjectorKept, GivenGrows DEF SideUntouched, Proceeds
<1> QED BY <1>1, <1>3, <1>4, <1>6

\* The watchers stay as they are.
LEMMA WatchingProceeds ==
  ASSUME UNCHANGED watching
  PROVE  /\ Proceeds /\ \A j \in Watchers : Alike(ctxs'[j], ctxs[j])
         /\ tasks' = tasks
BY DEF watching, Proceeds, Stays, Alike

\* A watcher learns that its main file is there, or that it failed.
LEMMA QuietProceeds ==
  ASSUME TypeInv, NEW w \in 1 .. watchers, NEW ts \in SUBSET tasks, Quiet(w, ts)
  PROVE  /\ Proceeds /\ \A j \in Watchers : Alike(ctxs'[j], ctxs[j])
         /\ \A u \in tasks' : u \in tasks \/ u.at = "move"
<1>1. w \in Watchers /\ ctxOf[w] \in Watchers  BY Known DEF TypeInv
<1>2. Stays /\ Handles(w, ctxs[ctxOf[w]], ts)  BY DEF Quiet
<1>3. Proceeds  BY <1>2, HandlesProceeds
<1>4. \A j \in Watchers : Alike(ctxs'[j], ctxs[j])  BY <1>2 DEF Handles, Alike
<1>5. \A u \in tasks' : u \in tasks \/ u.at = "move"  BY <1>1, <1>2, HandlesTasks
<1> QED BY <1>3, <1>4, <1>5

\* A task goes on beside its context.
LEMMA TaskProceeds ==
  ASSUME TypeInv, NEW t \in tasks, UNCHANGED <<ctxOf, owns, watchers, listener, map>>,
         \A j \in Watchers : Alike(ctxs'[j], ctxs[j]),
         \A u \in tasks' : \/ u \in tasks
                           \/ u.at \in SideAt /\ t.at \in SideAt /\ u.w = t.w
                           \/ u.at \in FinalAt /\ t.at \in FinalAt
  PROVE  Proceeds
<1>1. \A j \in Watchers :
       /\ ctxs'[j].hasSide = ctxs[j].hasSide
       /\ ctxs[j].side => ctxs'[j].side
       /\ ~ ctxs[j].hasSide => ctxs'[j].side = ctxs[j].side /\ ctxs'[j].path = ctxs[j].path
  BY DEF Alike
<1>2. SideAt \cap FinalAt = {}  BY DEF SideAt, FinalAt
<1>3. \A u \in tasks' : u.at \in SideAt =>
       ctxs[ctxOf[u.w]].hasSide \/ \E v \in tasks : v.at \in SideAt /\ v.w = u.w
  BY <1>2
<1>4. \A u \in tasks' : u.at \in FinalAt => map' = 0 \/ \E v \in tasks : v.at \in FinalAt
  BY <1>2
<1> QED BY <1>1, <1>3, <1>4 DEF Proceeds, Stays

\* No start is under way.
LEMMA IdleSteps ==
  ASSUME TypeInv, TypeInv', CalmOK, [Next]_vars,
         Retry \/ Foreground \/ Launch \/ Discover \/ UNCHANGED vars
  PROVE  CalmOK'
<1>1. UNCHANGED watching  BY DEF Retry, Foreground, Launch, Discover, vars
<1>2. UNCHANGED <<vision, native, disk, events, start>>
  BY DEF Retry, Foreground, Launch, Discover, vars, durable, ops
<1>3. (Given({"crash"})' <=> Given({"crash"}))
  <2>1. UNCHANGED faults  BY DEF Retry, Foreground, Launch, Discover, vars, history
  <2> QED BY <2>1 DEF Given
<1>4. SameLife
  <2>1. list' # list => Given({"crash"})
    BY DEF Retry, Foreground, Launch, Discover, vars, durable, Given
  <2>2. start # "done" => retry' = retry
    BY DEF Retry, Foreground, Launch, Discover, vars, ops
  <2> QED BY <1>2, <1>3, <2>1, <2>2 DEF SameLife
<1>5. /\ sideRow' = "failed" => sideRow = "failed"
      /\ retry' = "both" => retry = "both" \/ sideRow = "failed"
      /\ retry' = "side" => retry = "side"
      /\ list' = "text" => list = "text"
  <2>1. CASE Retry  BY <2>1 DEF Retry, durable
  <2>2. CASE Foreground \/ Launch
    BY <2>2 DEF Foreground, Launch, Recover, Hydrate, durable
  <2>3. CASE Discover  BY <2>3 DEF Discover, store, ops
  <2>4. CASE UNCHANGED vars  BY <2>4 DEF vars, durable, store, ops
  <2> QED BY <2>1, <2>2, <2>3, <2>4
<1>6. Proceeds /\ SideUntouched  BY <1>1, <1>2, <1>5, WatchingProceeds DEF SideUntouched
<1> QED BY <1>4, <1>6, Going

\* Before the start has returned there is no watcher.
LEMMA StartSteps ==
  ASSUME TypeInv, BeforeOK, CalmOK, Start \/ StartSide \/ StartMain
  PROVE  CalmOK'
<1> USE DEF CalmOK
<1>1. start # "done" /\ start' # "done"  BY DEF Start, StartSide, StartMain
<1>2. UNCHANGED watching /\ UNCHANGED <<vision, disk, list, events, retry, faults, sideRow>>
  BY DEF Start, StartSide, StartMain, durable, history, store
<1>3. watchers = 0 /\ retry = "idle" /\ list = "absent" /\ ~ Given({"crash"})
  BY <1>1 DEF FirstOK
<1>4. tasks = {} /\ map = 0 /\ listener["side"] = 0
  BY <1>3 DEF TypeInv, WatchingOK, RefsOK, Files
<1>5. ~ Sided /\ ~ Sided'  BY <1>2, <1>3 DEF Sided, watching
<1>6. FirstOK'
  BY <1>1, <1>2, <1>3, <1>4 DEF FirstOK, Given, watching, Sided
<1>7. ProjectorOK' /\ MapOK'  BY <1>5 DEF ProjectorOK, MapOK
<1>8. TextOK'  BY <1>2, <1>3, <1>4 DEF TextOK, watching
<1>9. SideOK'
  <2>1. tasks' = {} /\ sideRow' = sideRow /\ retry' = "idle"
    BY <1>2, <1>3, <1>4 DEF watching
  <2>2. CASE Start
    <3>1. ~ SideOver /\ ~ SideOver' /\ UNCHANGED native  BY <2>2 DEF Start, SideOver, durable
    <3> QED BY <1>2, <1>3, <1>4, <2>1, <3>1 DEF SideOK
  <2>3. CASE StartSide
    <3>1. native["side"] = "none" /\ native'["side"] = "running" /\ ~ SideOver
      BY <2>3 DEF StartSide, BeforeOK, SideOver, TypeInv, FilesOK, Files
    <3>2. sideRow # "failed" /\ \A how \in {"completed", "failed"} : <<"side", how>> \notin events
      BY <2>3, <3>1 DEF StartSide, BeforeOK, SideOK
    <3>3. "side" \notin disk /\ ~ SideOver'  BY <3>1 DEF SideOK, SideOver
    <3> QED BY <1>2, <2>1, <3>1, <3>2, <3>3 DEF SideOK
  <2>4. CASE StartMain
    <3>1. native'["side"] = native["side"] /\ (SideOver' <=> SideOver)
      BY <1>2, <2>4 DEF StartMain, SideOver, TypeInv, FilesOK, Files
    <3> QED BY <1>2, <1>3, <1>4, <2>1, <3>1 DEF SideOK
  <2> QED BY <2>2, <2>3, <2>4
<1> QED BY <1>6, <1>7, <1>8, <1>9

-----------------------------------------------------------------------------
(* Events                                                                  *)

LEMMA EndsCalm ==
  ASSUME TypeInv, TypeInv', BeforeOK, CalmOK, [Next]_vars,
         NEW f \in Files, NEW how \in {"completed", "failed"}, Ends(f, how)
  PROVE  CalmOK'
<1>1. UNCHANGED watching /\ UNCHANGED <<vision, disk, list, sideRow, retry, start, faults>>
  BY DEF Ends, store, ops, history
<1>2. SameLife  BY <1>1 DEF SameLife, Given
<1>3. native[f] = "running" /\ native' = [native EXCEPT ![f] = how]
      /\ events' = events \cup {<<f, how>>}
  BY DEF Ends
<1>4. CASE f = "main"
  <2>1. native'["side"] = native["side"]
        /\ \A how2 \in {"completed", "failed"} : <<"side", how2>> \in events' => <<"side", how2>> \in events
    BY <1>3, <1>4 DEF TypeInv, FilesOK, Files
  <2>2. Proceeds /\ SideUntouched  BY <1>1, <2>1, WatchingProceeds DEF SideUntouched
  <2> QED BY <1>2, <2>2, Going
<1>5. CASE f = "side"
  <2> USE DEF CalmOK
  <2>1. native["side"] = "running" /\ native'["side"] = how
    BY <1>3, <1>5 DEF TypeInv, FilesOK, Files
  <2>2. /\ \A h \in {"completed", "failed"} : <<"side", h>> \notin events
        /\ "side" \notin disk /\ \A t \in tasks : t.at \notin SideAt
        /\ sideRow # "failed" /\ retry \notin {"both", "side"}
    BY <2>1 DEF SideOK, SideOver
  <2>3. vision /\ start \notin {"idle", "side"}  BY <2>1 DEF BeforeOK
  <2>4. \A h \in {"completed", "failed"} : <<"side", h>> \in events' => h = how
    BY <1>3, <1>5, <2>2
  <2>5. SideOver' <=> how = "completed"  BY <1>1, <2>1, <2>3 DEF SideOver
  <2>6. tasks' = tasks /\ "side" \notin disk'  BY <1>1, <2>2 DEF watching
  <2>7. SideOK'
    <3>1. \A t \in tasks' : t.at \notin SideAt /\ t.at \notin {"sideMoved", "sideLost"}
      BY <2>2, <2>6 DEF SideAt
    <3>2. sideRow' # "failed" /\ retry' \notin {"both", "side"}  BY <1>1, <2>2
    <3> QED BY <2>1, <2>4, <2>5, <2>6, <3>1, <3>2 DEF SideOK
  <2>8. Proceeds  BY <1>1, WatchingProceeds
  <2>9. FirstOK' /\ MapOK'  BY <1>2, <2>8, ProceedsFirst, ProceedsMap
  <2>10. TextOK'  BY <1>1, <2>6, TextKept
  <2>11. ProjectorOK'
    <3>1. listener' = listener /\ (Sided' => Sided /\ Alike(ctxs'[1], ctxs[1]))
      BY <1>1 DEF watching, Sided, Alike
    <3>2. (Given(GivenUp) => Given(GivenUp)')
          /\ native["side"] # "failed" /\ ("side" \in disk' <=> "side" \in disk)
      BY <1>1, <2>1, GivenGrows
    <3> QED BY <2>6, <3>1, <3>2, ProjectorKept
  <2> QED BY <2>7, <2>9, <2>10, <2>11
<1> QED BY <1>4, <1>5 DEF Files

\* The projector is complete, and a watcher of its context hears of it for the first time.
LEMMA TakesSideCalm ==
  ASSUME TypeInv, TypeInv', CalmOK, [Next]_vars, SameLife,
         NEW w \in 1 .. watchers, NEW ts \in SUBSET tasks, TakesSide(w, ts),
         Sided, ctxOf[w] = 1, SideOver,
         ~ ctxs[1].sideHandled => ~ ctxs[1].side,
         UNCHANGED <<disk, list, native, faults, retry>>, events' \subseteq events,
         sideRow' = "failed" => sideRow = "failed"
  PROVE  CalmOK'
<1> DEFINE c == ctxs[1]
           d == [c EXCEPT !.sideHandled = TRUE]
           us == IF c.sideHandled THEN ts ELSE ts \cup {At(w, "sideMove")}
<1> USE DEF CalmOK
<1>1. c \in Ctx /\ 1 \in Watchers /\ w \in Watchers  BY Known DEF TypeInv
<1>2. d.hasSide = c.hasSide /\ d.side = c.side /\ d.path = c.path /\ d.sideHandled /\ c.hasSide
  BY <1>1 DEF Ctx, Sided
<1>3. Stays /\ Handles(w, d, us) /\ UNCHANGED <<listener, map>>  BY DEF TakesSide
<1>4. At(w, "sideMove").at = "sideMove" /\ At(w, "sideMove").w = w  BY <1>1, AtIsTask
<1>5. \A u \in us : u \in tasks \/ (u = At(w, "sideMove") /\ ~ c.sideHandled)
  OBVIOUS
<1> HIDE DEF c, d, us
<1>6. \A u \in us : \/ u \in tasks
                    \/ u.at \notin SideAt \cup FinalAt
                    \/ u.at \in SideAt /\ ctxs[ctxOf[u.w]].hasSide
  BY <1>2, <1>4, <1>5 DEF SideAt, c
<1>7. Proceeds
  <2>1. c = ctxs[ctxOf[w]]  BY DEF c
  <2> QED BY <1>2, <1>3, <1>6, <2>1, HandlesProceeds
<1>8. FirstOK' /\ MapOK'  BY <1>7, ProceedsFirst, ProceedsMap
<1>9. \A u \in tasks' : u \in tasks \/ u.at = "move" \/ (u = At(w, "sideMove") /\ ~ c.sideHandled)
  BY <1>1, <1>3, <1>5, HandlesTasks
<1>10. (SideOver' <=> SideOver) /\ UNCHANGED <<vision, start>>
  BY DEF SideOver, SameLife
<1>11. SideOK'
  <2>1. \A u \in tasks' : u.at \in SideAt => u \in tasks \/ u.at = "sideMove"
    BY <1>4, <1>9 DEF SideAt
  <2>2. Given({"refusedMove"})' <=> Given({"refusedMove"})  BY DEF Given
  <2> QED BY <1>10, <2>1, <2>2 DEF SideOK, SideAt
<1>12. TextOK'  BY <1>4, <1>9, TextKept
<1>13. Alike(ctxs'[1], d)  BY <1>3 DEF Handles
<1>14. ProjectorOK'
  <2>1. CASE c.sideHandled
    <3>1. Alike(ctxs'[1], ctxs[1])
      <4>1. d.sideHandled = c.sideHandled  BY <1>1, <2>1 DEF d, Ctx
      <4> QED BY <1>2, <1>13, <4>1 DEF Alike, c
    <3>2. \A u \in tasks' : u.at \in SideAt => u \in tasks  BY <1>9, <2>1 DEF SideAt
    <3> QED BY <1>3, <3>1, <3>2, ProjectorKept, GivenGrows
  <2>2. CASE ~ c.sideHandled
    <3>1. ~ c.side /\ c.path  BY <2>2 DEF c, ProjectorOK
    <3>2. \A t \in tasks : t.at \notin SideAt  BY <2>2 DEF c, ProjectorOK
    <3>3. \A u \in tasks' : u.at \in SideAt => u = At(w, "sideMove")  BY <1>9, <3>2 DEF SideAt
    <3>4. ~ ctxs'[1].side /\ ctxs'[1].path /\ ctxs'[1].sideHandled
      BY <1>2, <1>13, <3>1 DEF Alike
    <3> QED BY <3>3, <3>4 DEF ProjectorOK
  <2> QED BY <2>1, <2>2
<1> QED BY <1>8, <1>11, <1>12, <1>14

\* The projector failed, and the watcher goes on without it.
LEMMA GivesUpCalm ==
  ASSUME TypeInv, TypeInv', CalmOK, [Next]_vars, SameLife,
         NEW w \in 1 .. watchers, GivesUpSide(w), Sided, ctxOf[w] = 1,
         native["side"] = "failed",
         UNCHANGED <<disk, list, native, retry>>,
         events' = events \ {<<"side", "failed">>},
         retry # "side" \/ sideRow' = sideRow
  PROVE  CalmOK'
<1> DEFINE c == ctxs[1]
           d == [c EXCEPT !.path = FALSE, !.side = TRUE]
<1> USE DEF CalmOK
<1>1. c \in Ctx /\ 1 \in Watchers /\ w \in Watchers  BY Known DEF TypeInv
<1>2. d.hasSide = c.hasSide /\ d.side /\ ~ d.path /\ d.sideHandled = c.sideHandled /\ c.hasSide
  BY <1>1 DEF Ctx, Sided
<1>3. Stays /\ Handles(w, d, tasks) /\ listener'["side"] = 0  BY DEF GivesUpSide
<1> HIDE DEF c, d
<1>4. Proceeds
  <2>1. c = ctxs[ctxOf[w]]  BY DEF c
  <2> QED BY <1>2, <1>3, <2>1, HandlesProceeds
<1>5. FirstOK' /\ MapOK'  BY <1>4, ProceedsFirst, ProceedsMap
<1>6. \A u \in tasks' : u \in tasks \/ u.at = "move"  BY <1>1, <1>3, HandlesTasks
<1>7. ~ SideOver /\ ~ SideOver'  BY DEF SideOver
<1>8. "side" \notin disk /\ \A t \in tasks : t.at \notin SideAt  BY <1>7 DEF SideOK
<1>9. \A u \in tasks' : u.at \notin SideAt  BY <1>6, <1>8 DEF SideAt
<1>10. SideOK'
  <2>1. \A u \in tasks' : u.at \notin {"sideMoved", "sideLost"}  BY <1>9 DEF SideAt
  <2>2. <<"side", "completed">> \notin events'  BY <1>7 DEF SideOK
  <2> QED BY <1>7, <1>8, <1>9, <2>1, <2>2 DEF SideOK
<1>11. TextOK'  BY <1>6, TextKept
<1>12. ctxs'[1].side /\ ~ ctxs'[1].path  BY <1>2, <1>3 DEF Handles, Alike
<1>13. ProjectorOK'  BY <1>3, <1>8, <1>9, <1>12 DEF ProjectorOK
<1> QED BY <1>5, <1>10, <1>11, <1>13

LEMMA DeliverCalm ==
  ASSUME TypeInv, TypeInv', BeforeOK, CalmOK, [Next]_vars,
         NEW f \in Files, NEW how \in {"completed", "failed"}, Deliver(f, how)
  PROVE  CalmOK'
<1>1. /\ UNCHANGED <<vision, native, disk, list, start, retry>>
      /\ <<f, how>> \in events /\ events' = events \ {<<f, how>>}
      /\ faults' \subseteq faults \cup {"deaf"} /\ faults \subseteq faults'
  BY DEF Deliver, durable, ops, Blame
<1>2. SameLife  BY <1>1 DEF SameLife, Given
<1>3. f # "side" \/ how # "failed" => (sideRow' = "failed" => sideRow = "failed")
  <2>1. Shows(f, how)  BY DEF Deliver
  <2>2. f = "main" => sideRow' = sideRow  BY <2>1 DEF Shows
  <2>3. f = "side" /\ how = "completed" => sideRow' \in {sideRow, "active"}
    BY <2>1 DEF Shows
  <2> QED BY <2>2, <2>3 DEF Files
<1> DEFINE w == listener[f]
<1>4. w # 0 => w \in 1 .. watchers  BY ListenerKnown DEF TypeInv
<1>5. f = "side" /\ w # 0 => Sided /\ ctxOf[w] = 1  BY DEF CalmOK, FirstOK
<1>6. f = "side" /\ how = "failed" => native["side"] = "failed" /\ retry # "side"
  BY <1>1 DEF CalmOK, SideOK
<1>7. f = "side" /\ how = "completed" => SideOver  BY <1>1 DEF CalmOK, SideOK
<1>8. CASE w = 0 /\ UNCHANGED watching
  <2>1. CASE f # "side" \/ how # "failed"
    <3>1. Proceeds /\ SideUntouched
      BY <1>1, <1>3, <1>8, <2>1, WatchingProceeds DEF SideUntouched
    <3> QED BY <1>2, <3>1, Going
  <2>2. CASE f = "side" /\ how = "failed"
    <3> USE DEF CalmOK
    <3>1. Proceeds /\ tasks' = tasks  BY <1>8, WatchingProceeds
    <3>2. FirstOK' /\ MapOK'  BY <1>2, <3>1, ProceedsFirst, ProceedsMap
    <3>3. TextOK'  BY <1>1, <3>1, TextKept
    <3>4. ProjectorOK'
      BY <1>1, <1>8, ProjectorKept, GivenGrows DEF watching, Sided, Alike
    <3>5. SideOK'
      <4>1. ~ SideOver /\ ~ SideOver'  BY <1>1, <1>6, <2>2 DEF SideOver
      <4>2. \A t \in tasks' : t.at \notin SideAt /\ t.at \notin {"sideMoved", "sideLost"}
        BY <3>1, <4>1 DEF SideOK, SideAt
      <4>3. "side" \notin disk' /\ <<"side", "completed">> \notin events'
        BY <1>1, <4>1 DEF SideOK
      <4> QED BY <1>1, <1>6, <2>2, <4>1, <4>2, <4>3 DEF SideOK
    <3> QED BY <3>2, <3>3, <3>4, <3>5
  <2> QED BY <2>1, <2>2
<1>9. CASE w # 0 /\ f = "main" /\ Quiet(w, tasks)
  <2>1. f # "side" \/ how # "failed"  BY <1>9
  <2>2. /\ Proceeds /\ \A j \in Watchers : Alike(ctxs'[j], ctxs[j])
        /\ \A u \in tasks' : u \in tasks \/ u.at = "move"
    BY <1>4, <1>9, QuietProceeds
  <2>3. SideUntouched  BY <1>1, <1>3, <2>1, <2>2 DEF SideUntouched, SideAt
  <2> QED BY <1>2, <2>2, <2>3, Going
<1>10. CASE w # 0 /\ f = "side" /\ how = "completed" /\ TakesSide(w, tasks)
  <2>1. ~ ctxs[1].sideHandled => ~ ctxs[1].side
    BY <1>5, <1>10 DEF CalmOK, ProjectorOK
  <2>2. faults' = faults  BY <1>10 DEF Deliver, Blame
  <2>3. (sideRow' = "failed" => sideRow = "failed") /\ events' \subseteq events
    BY <1>1, <1>3, <1>10
  <2>4. w \in 1 .. watchers /\ Sided /\ ctxOf[w] = 1 /\ SideOver
    BY <1>4, <1>5, <1>7, <1>10
  <2> HIDE DEF w
  <2> QED BY <1>1, <1>2, <1>10, <2>1, <2>2, <2>3, <2>4, TakesSideCalm
<1>11. CASE w # 0 /\ f = "side" /\ how = "failed" /\ GivesUpSide(w)
  <2>1. w \in 1 .. watchers /\ Sided /\ ctxOf[w] = 1  BY <1>4, <1>5, <1>11
  <2> HIDE DEF w
  <2> QED BY <1>1, <1>2, <1>6, <1>11, <2>1, GivesUpCalm
<1> QED BY <1>8, <1>9, <1>10, <1>11, DeliverHandled DEF TypeInv

-----------------------------------------------------------------------------
(* Awaits                                                                  *)

LEMMA CatchUpCalm ==
  ASSUME TypeInv, TypeInv', CalmOK, [Next]_vars, NEW t \in tasks, CatchUp(t)
  PROVE  CalmOK'
<1>1. UNCHANGED <<vision, native, disk, list, events, start, retry, sideRow, faults>>
  BY DEF CatchUp, durable, store, ops, history
<1>2. SameLife  BY <1>1 DEF SameLife, Given
<1> DEFINE c == ctxs[ctxOf[t.w]]
           w == t.w
           ts == tasks \ {t}
<1>3. w \in 1 .. watchers /\ ts \in SUBSET tasks
  BY CatchUpHandled DEF TypeInv
<1>4. \/ Quiet(w, ts)
      \/ c.hasSide /\ ~ c.side /\ native["side"] = "completed" /\ TakesSide(w, ts)
  BY CatchUpHandled DEF TypeInv
<1>5. CASE Quiet(w, ts)
  <2> HIDE DEF w, ts
  <2>1. /\ Proceeds /\ \A j \in Watchers : Alike(ctxs'[j], ctxs[j])
        /\ \A u \in tasks' : u \in tasks \/ u.at = "move"
    BY <1>3, <1>5, QuietProceeds
  <2>2. SideUntouched  BY <1>1, <2>1 DEF SideUntouched, SideAt
  <2> QED BY <1>2, <2>1, <2>2, Going
<1>6. CASE c.hasSide /\ ~ c.side /\ native["side"] = "completed" /\ TakesSide(w, ts)
  <2>1. ctxOf[w] \in Watchers  BY <1>3, Known DEF TypeInv
  <2>2. ctxOf[w] = 1 /\ Sided /\ vision
    BY <1>6, <2>1 DEF CalmOK, FirstOK, Sided
  <2>3. start = "done"
    <3>1. watchers # 0  BY <1>3 DEF TypeInv, WatchingOK
    <3> QED BY <3>1 DEF CalmOK, FirstOK
  <2>4. SideOver  BY <1>6, <2>2, <2>3 DEF SideOver
  <2>5. ~ ctxs[1].side  BY <1>6, <2>2
  <2>6. TakesSide(w, ts)  BY <1>6
  <2> HIDE DEF w, ts, c
  <2> QED BY <1>1, <1>2, <1>3, <2>2, <2>4, <2>5, <2>6, TakesSideCalm
<1> QED BY <1>4, <1>5, <1>6

\* While its projector is on its way, nothing of the download is finalized.
LEMMA OnItsWay ==
  ASSUME CalmOK, NEW t \in tasks, t.at \in SideAt
  PROVE  /\ Sided /\ ctxOf[t.w] = 1 /\ SideOver
         /\ ctxs[1].sideHandled /\ ~ ctxs[1].side /\ ctxs[1].path
         /\ \A u \in tasks : u.at \in SideAt => u = t
         /\ \A u \in tasks : u.at \notin FinalAt
         /\ list = "absent" /\ map = 1
BY DEF CalmOK, FirstOK, SideOK, ProjectorOK, MapOK

LEMMA SideMoveCalm ==
  ASSUME TypeInv, TypeInv', CalmOK, [Next]_vars, NEW t \in tasks, SideMove(t)
  PROVE  CalmOK'
<1> USE DEF CalmOK
<1>1. /\ UNCHANGED <<vision, list, events, listener, ctxs, ctxOf, owns, watchers, map, sideRow,
                     retry, start>>
      /\ t.at = "sideMove" /\ t \in Task
  BY DEF SideMove, store, ops, TypeInv, WatchingOK
<1>2. t.at \in SideAt  BY <1>1 DEF SideAt
<1>3. /\ Sided /\ SideOver
      /\ ctxs[1].sideHandled /\ ~ ctxs[1].side /\ ctxs[1].path
      /\ \A u \in tasks : u.at \in SideAt => u = t
      /\ \A u \in tasks : u.at \notin FinalAt
      /\ list = "absent"
  BY <1>2, OnItsWay
<1>4. faults' \subseteq faults \cup {"refusedMove"} /\ faults \subseteq faults'
  BY DEF SideMove, Moves, Refuses, Blame
<1>5. SameLife  BY <1>1, <1>4 DEF SameLife, Given
<1>6. PICK u \in Task :
        /\ tasks' = (tasks \ {t}) \cup {u} /\ u.w = t.w
        /\ \/ Moves("side") /\ u.at = "sideMoved"
           \/ Refuses("side") /\ u.at = "sideLost"
  <2>1. \A at \in {"sideMoved", "sideLost"} :
          [t EXCEPT !.at = at] \in Task /\ [t EXCEPT !.at = at].w = t.w
          /\ [t EXCEPT !.at = at].at = at
    BY <1>1 DEF Task
  <2> QED BY <2>1 DEF SideMove, Becomes
<1>7. u.at \in SideAt /\ u.at \notin FinalAt  BY <1>6 DEF SideAt, FinalAt
<1>8. Proceeds
  <2>1. \A j \in Watchers : Alike(ctxs'[j], ctxs[j])  BY <1>1 DEF Alike
  <2>2. \A v \in tasks' : v \in tasks \/ (v.at \in SideAt /\ t.at \in SideAt /\ v.w = t.w)
    BY <1>2, <1>6, <1>7
  <2> QED BY <1>1, <2>1, <2>2, TaskProceeds
<1>9. FirstOK' /\ MapOK'  BY <1>5, <1>8, ProceedsFirst, ProceedsMap
<1>10. \A v \in tasks' : v.at \in SideAt => v = u  BY <1>3, <1>6
<1>11. TextOK'
  <2>1. \A v \in tasks' : v.at \notin FinalAt  BY <1>3, <1>6, <1>7
  <2> QED BY <1>1, <1>3, <2>1 DEF TextOK, FinalAt
<1>12. ProjectorOK'
  <2>1. ctxs'[1].sideHandled /\ ~ ctxs'[1].side /\ ctxs'[1].path  BY <1>1, <1>3
  <2> QED BY <1>10, <2>1 DEF ProjectorOK
<1>13. SideOK'
  <2>1. /\ <<"side", "failed">> \notin events /\ sideRow # "failed"
        /\ retry \notin {"both", "side"}
    BY <1>3 DEF SideOK, SideOver
  <2>2. vision /\ start \notin {"idle", "side"}  BY <1>3 DEF SideOver
  <2>3. CASE Moves("side") /\ u.at = "sideMoved"
    <3>1. native'["side"] = "none" /\ "side" \in disk'
      BY <2>3 DEF Moves, TypeInv, FilesOK, Files
    <3>2. SideOver'  BY <1>1, <2>2, <3>1 DEF SideOver
    <3> QED BY <1>1, <2>1, <3>1, <3>2 DEF SideOK
  <2>4. CASE Refuses("side") /\ u.at = "sideLost"
    <3>1. UNCHANGED <<native, disk>>  BY <2>4 DEF Refuses
    <3>2. SideOver'  BY <1>1, <1>3, <3>1 DEF SideOver
    <3>3. native["side"] = "completed" \/ "side" \in disk  BY <1>3 DEF SideOK
    <3>4. native["side"] = "completed" => "refusedMove" \in faults'
      BY <2>4 DEF Refuses, Blame
    <3>5. "side" \in disk' \/ Given({"refusedMove"})'  BY <3>1, <3>3, <3>4 DEF Given
    <3>6. \A v \in tasks' : v.at # "sideMoved"
      <4>1. u.at # "sideMoved"  BY <2>4
      <4> QED BY <1>10, <4>1 DEF SideAt
    <3> QED BY <1>1, <2>1, <3>1, <3>2, <3>3, <3>5, <3>6 DEF SideOK
  <2> QED BY <1>6, <2>3, <2>4
<1> QED BY <1>9, <1>11, <1>12, <1>13

LEMMA SideDoneCalm ==
  ASSUME TypeInv, TypeInv', CalmOK, [Next]_vars, NEW t \in tasks, SideDone(t)
  PROVE  CalmOK'
<1> USE DEF CalmOK
<1>1. /\ UNCHANGED <<vision, native, disk, list, events, start, retry, sideRow, faults>>
      /\ t.at \in {"sideMoved", "sideLost"}
  BY DEF SideDone, durable, store, ops, history
<1>2. SameLife  BY <1>1 DEF SameLife, Given
<1>3. /\ Sided /\ ctxOf[t.w] = 1 /\ ctxs[1].sideHandled /\ ctxs[1].path /\ ~ ctxs[1].side
      /\ \A u \in tasks : u.at \in SideAt => u = t
  BY <1>1, OnItsWay DEF SideAt
<1> DEFINE c == ctxs[1]
           p == c.path /\ (t.at = "sideMoved" \/ "side" \in disk)
           d == [c EXCEPT !.path = p, !.side = TRUE]
           w == t.w
           ts == tasks \ {t}
<1>4. w \in 1 .. watchers /\ Stays /\ Handles(w, d, ts)
  BY <1>3, SideDoneHandled DEF TypeInv
<1>5. w \in Watchers /\ c \in Ctx
  BY <1>3, <1>4, Known DEF TypeInv
<1>6. /\ d.hasSide = c.hasSide /\ d.side /\ d.path = p /\ d.sideHandled = c.sideHandled
      /\ c.hasSide
  BY <1>3, <1>5 DEF Ctx, Sided
<1>7. c = ctxs[ctxOf[w]]  BY <1>3
<1>8. \A u \in ts : u \in tasks /\ u.at \notin SideAt  BY <1>3
<1>9. ~ p => t.at = "sideLost" /\ "side" \notin disk  BY <1>1, <1>3
<1>10. p => "side" \in disk  BY DEF SideOK
<1>11. ctxs[1].sideHandled = c.sideHandled  OBVIOUS
<1> HIDE DEF c, p, d, w, ts
<1>12. Proceeds  BY <1>4, <1>6, <1>7, <1>8, HandlesProceeds
<1>13. FirstOK' /\ MapOK'  BY <1>2, <1>12, ProceedsFirst, ProceedsMap
<1>14. \A u \in tasks' : u \in ts \/ u.at = "move"  BY <1>4, <1>5, HandlesTasks
<1>15. \A u \in tasks' : u.at \notin SideAt  BY <1>8, <1>14 DEF SideAt
<1>16. TextOK'
  <2>1. \A u \in tasks' : u.at = "save" => u \in tasks  BY <1>8, <1>14
  <2> QED BY <1>1, <2>1, TextKept
<1>17. SideOK'
  <2>1. SideOver' <=> SideOver  BY <1>1 DEF SideOver
  <2> QED BY <1>1, <1>15, <2>1, SideKept, GivenGrows
<1>18. ProjectorOK'
  <2>1. Alike(ctxs'[1], d)  BY <1>3, <1>4 DEF Handles, w
  <2>2. ctxs'[1].side /\ ctxs'[1].sideHandled /\ ctxs'[1].path = p
    BY <1>3, <1>6, <1>11, <2>1 DEF Alike
  <2>3. ~ p => "side" \notin disk' /\ Given(GivenUp)'
    <3>1. ~ p => Given({"refusedMove"})  BY <1>9 DEF SideOK
    <3> QED BY <1>1, <1>9, <3>1 DEF Given, GivenUp
  <2> QED BY <1>1, <1>10, <1>15, <2>2, <2>3 DEF ProjectorOK
<1> QED BY <1>13, <1>16, <1>17, <1>18

LEMMA MoveCalm ==
  ASSUME TypeInv, TypeInv', CalmOK, [Next]_vars, NEW t \in tasks, Move(t)
  PROVE  CalmOK'
<1>1. /\ UNCHANGED <<vision, list, events, listener, ctxs, ctxOf, owns, watchers, map, sideRow,
                     retry, start>>
      /\ t.at = "move" /\ t \in Task
  BY DEF Move, store, ops, TypeInv, WatchingOK
<1>2. faults' \subseteq faults \cup {"refusedMove"} /\ faults \subseteq faults'
  BY DEF Move, Moves, Refuses, Blame
<1>3. SameLife  BY <1>1, <1>2 DEF SameLife, Given
<1>4. PICK u \in Task : tasks' = (tasks \ {t}) \cup {u} /\ u.at \in {"resolve", "check"}
  <2>1. \A at \in {"resolve", "check"} :
          [t EXCEPT !.at = at] \in Task /\ [t EXCEPT !.at = at].at = at
    BY <1>1 DEF Task
  <2> QED BY <2>1 DEF Move, Becomes
<1>5. u.at \in FinalAt /\ t.at \in FinalAt /\ u.at \notin SideAt \cup {"save"}
  BY <1>1, <1>4 DEF FinalAt, SideAt
<1>6. \A j \in Watchers : Alike(ctxs'[j], ctxs[j])  BY <1>1 DEF Alike
<1>7. \A v \in tasks' : v \in tasks \/ v = u  BY <1>4
<1>8. Proceeds  BY <1>1, <1>5, <1>6, <1>7, TaskProceeds
<1>9. native'["side"] = native["side"] /\ ("side" \in disk' <=> "side" \in disk)
  BY DEF Move, Moves, Refuses, TypeInv, FilesOK, Files
<1>10. SideUntouched  BY <1>1, <1>5, <1>6, <1>7, <1>9 DEF SideUntouched
<1> QED BY <1>3, <1>8, <1>10, Going

LEMMA CheckCalm ==
  ASSUME TypeInv, TypeInv', CalmOK, [Next]_vars, NEW t \in tasks, Check(t)
  PROVE  CalmOK'
<1>1. /\ UNCHANGED <<vision, native, disk, list, events, listener, ctxOf, owns, watchers, map,
                     sideRow, retry, start, faults>>
      /\ t.at = "check" /\ t \in Task
  BY DEF Check, durable, ops, TypeInv, WatchingOK
<1>2. SameLife  BY <1>1 DEF SameLife, Given
<1>3. \A j \in Watchers : Alike(ctxs'[j], ctxs[j])
  <2>1. CASE OnDisk("main")  BY <2>1 DEF Check, Alike
  <2>2. CASE ~ OnDisk("main")  BY <2>2, GivenUpHandled DEF Check, TypeInv
  <2> QED BY <2>1, <2>2
<1>4. \A v \in tasks' : v \in tasks \/ v.at = "resolve"
  <2>1. CASE OnDisk("main")
    <3> DEFINE u == [t EXCEPT !.at = "resolve", !.moved = FALSE]
    <3>1. u.at = "resolve"  BY <1>1 DEF Task
    <3>2. tasks' = (tasks \ {t}) \cup {u}  BY <2>1 DEF Check
    <3> HIDE DEF u
    <3> QED BY <3>1, <3>2
  <2>2. CASE ~ OnDisk("main")  BY <2>2 DEF Check
  <2> QED BY <2>1, <2>2
<1>5. "resolve" \in FinalAt /\ t.at \in FinalAt /\ "resolve" \notin SideAt \cup {"save"}
  BY <1>1 DEF FinalAt, SideAt
<1>6. Proceeds  BY <1>1, <1>3, <1>4, <1>5, TaskProceeds
<1>7. SideUntouched  BY <1>1, <1>3, <1>4, <1>5 DEF SideUntouched
<1> QED BY <1>2, <1>6, <1>7, Going

\* What is registered is what is there: by then the projector is decided.
LEMMA ResolveCalm ==
  ASSUME TypeInv, TypeInv', CalmOK, [Next]_vars, NEW t \in tasks, Resolve(t)
  PROVE  CalmOK'
<1> USE DEF CalmOK
<1>1. /\ UNCHANGED <<vision, native, disk, list, events, listener, ctxs, ctxOf, owns, watchers,
                     map, sideRow, retry, start, faults>>
      /\ t.at = "resolve" /\ t \in Task
  BY DEF Resolve, durable, store, ops, history, TypeInv, WatchingOK
<1>2. SameLife  BY <1>1 DEF SameLife, Given
<1> DEFINE c == ctxs[ctxOf[t.w]]
<1>3. \A v \in tasks' : v \in tasks \/ (v.at = "save" /\ v.sees = Sees(c))
  BY <1>1 DEF Resolve, Task
<1>4. "save" \in FinalAt /\ t.at \in FinalAt /\ "save" \notin SideAt
  BY <1>1 DEF FinalAt, SideAt
<1>5. Proceeds
  <2>1. \A j \in Watchers : Alike(ctxs'[j], ctxs[j])  BY <1>1 DEF Alike
  <2> HIDE DEF c
  <2> QED BY <1>1, <1>3, <1>4, <2>1, TaskProceeds
<1>6. FirstOK' /\ MapOK'  BY <1>2, <1>5, ProceedsFirst, ProceedsMap
<1>7. \A v \in tasks' : v.at \in SideAt => v \in tasks
  <2> HIDE DEF c
  <2> QED BY <1>3, <1>4
<1>8. SideOK'
  <2>1. SideOver' <=> SideOver  BY <1>1 DEF SideOver
  <2> QED BY <1>1, <1>7, <2>1, SideKept, GivenGrows
<1>9. ProjectorOK'
  <2>1. Sided' => Sided /\ Alike(ctxs'[1], ctxs[1])  BY <1>1 DEF Sided, Alike
  <2> QED BY <1>1, <1>7, <2>1, ProjectorKept, GivenGrows
<1>10. ~ Sees(c) => "side" \notin disk
  <2> SUFFICES ASSUME "side" \in disk PROVE c.path
    BY DEF Sees, OnDisk
  <2>1. t.w \in 1 .. watchers  BY DEF TypeInv, WatchingOK, RefsOK
  <2>2. ctxOf[t.w] \in Watchers  BY <2>1, Known DEF TypeInv
  <2>3. CASE c.hasSide
    <3>1. Sided /\ ctxOf[t.w] = 1  BY <2>2, <2>3 DEF FirstOK, Sided
    <3>2. map # 1  BY <1>4, <3>1 DEF MapOK
    <3>3. ctxs[1].side  BY <3>1, <3>2 DEF MapOK
    <3> QED BY <3>1, <3>3 DEF ProjectorOK
  <2>4. CASE Settled(c)
    <3>1. vision  BY DEF SideOK, SideOver
    <3> QED BY <2>4, <3>1 DEF Settled
  <2> QED BY <2>1, <2>3, <2>4 DEF FirstOK
<1>11. TextOK'
  <2> HIDE DEF c
  <2> QED BY <1>1, <1>3, <1>10 DEF TextOK
<1> QED BY <1>6, <1>8, <1>9, <1>11

LEMMA SaveCalm ==
  ASSUME TypeInv, TypeInv', CalmOK, [Next]_vars, NEW t \in tasks, Save(t)
  PROVE  CalmOK'
<1> USE DEF CalmOK
<1>1. /\ UNCHANGED <<vision, disk, events, listener, ctxs, ctxOf, owns, watchers,
                     map, retry, start, faults>>
      /\ t.at = "save" /\ tasks' = tasks \ {t} /\ sideRow' = "none"
      /\ list' = IF t.sees THEN "vision" ELSE "text"
  BY DEF Save, ops
<1>2. t.at \in FinalAt  BY <1>1 DEF FinalAt
<1>3. SameLife  BY <1>1, <1>2 DEF SameLife, Given
<1>4. Proceeds
  <2>1. \A j \in Watchers : Alike(ctxs'[j], ctxs[j])  BY <1>1 DEF Alike
  <2> QED BY <1>1, <2>1, TaskProceeds
<1>5. FirstOK' /\ MapOK'  BY <1>3, <1>4, ProceedsFirst, ProceedsMap
<1>6. native'["side"] = native["side"]  BY DEF Save, TypeInv, FilesOK, Files
<1>7. SideOK'
  <2>1. SideOver' <=> SideOver  BY <1>1, <1>6 DEF SideOver
  <2> QED BY <1>1, <1>6, <2>1, SideKept, GivenGrows
<1>8. ProjectorOK'
  <2>1. Sided' => Sided /\ Alike(ctxs'[1], ctxs[1])  BY <1>1 DEF Sided, Alike
  <2> QED BY <1>1, <1>6, <2>1, ProjectorKept, GivenGrows
<1>9. TextOK'  BY <1>1 DEF TextOK
<1> QED BY <1>5, <1>7, <1>8, <1>9

-----------------------------------------------------------------------------
(* Who watches anew, and what ends                                         *)

LEMMA AttachCalm ==
  ASSUME TypeInv, TypeInv', CalmOK, [Next]_vars, Attach
  PROVE  CalmOK'
<1> USE DEF CalmOK
<1>1. UNCHANGED <<vision, native, disk, list, events, retry, faults>> /\ start = "attach"
      /\ start' = "done" /\ sideRow' # "failed"
  BY DEF Attach, durable, history
<1>2. watchers = 0 /\ list = "absent" /\ ~ Given({"crash"})
  BY <1>1 DEF FirstOK
<1>3. tasks = {} /\ map = 0 /\ 1 \in 1 .. watchers + 1 /\ ~ (1 <= watchers)
  BY <1>2 DEF TypeInv, WatchingOK, RefsOK
<1>4. Watches(1, StartCtx)  BY <1>2, AttachHandled DEF TypeInv
<1>5. /\ StartCtx.hasSide = vision /\ StartCtx.side = (~ vision) /\ StartCtx.path = vision
      /\ vision \in BOOLEAN
  BY NewCtxs DEF Alike, TypeInv
<1>6. Given({"crash"})' <=> Given({"crash"})  BY <1>1 DEF Given
<1> DEFINE c == StartCtx
<1> HIDE DEF c
<1>7. FirstOK'
  <2>1. c.hasSide \/ Settled(c)  BY <1>5 DEF c, Settled
  <2>2. /\ c.hasSide => vision /\ ~ Given({"crash"})
        /\ vision /\ ~ Given({"crash"}) => c.hasSide
    BY <1>2, <1>5 DEF c
  <2>3. Watches(1, c)  BY <1>4 DEF c
  <2> QED BY <1>1, <1>3, <1>6, <2>1, <2>2, <2>3, WatchesFirst
<1>8. MapOK'
  <2>1. Watches(1, c)  BY <1>4 DEF c
  <2>2. 1 = watchers + 1  BY <1>2
  <2> QED BY <1>1, <1>2, <1>3, <1>7, <2>1, <2>2, WatchesMap
<1>9. DiskSame  BY DiskSteps
<1>10. TextOK'  BY <1>9, DiskSameText
<1>11. \A u \in tasks' : u.at \notin SideAt
  BY <1>3, <1>4, AtIsTask DEF Watches, SideAt
<1>12. SideOK'
  <2>1. SideOver' <=> SideOver  BY <1>1 DEF SideOver
  <2> QED BY <1>1, <1>11, <2>1, SideKept, GivenGrows
<1>13. ProjectorOK'
  <2> SUFFICES ASSUME Sided' PROVE ProjectorOK'
    BY DEF ProjectorOK
  <2>1. Alike(ctxs'[1], c)  BY <1>4 DEF Watches, c
  <2>2. ctxs'[1].hasSide  BY DEF Sided
  <2>3. ~ ctxs'[1].side /\ ctxs'[1].path  BY <1>5, <2>1, <2>2 DEF Alike, c
  <2> QED BY <1>11, <2>3 DEF ProjectorOK
<1> QED BY <1>7, <1>8, <1>10, <1>12, <1>13

\* A new watcher of the context in the map, which is as it was: the projector's too.
LEMMA RewatchedKept ==
  ASSUME TypeInv, FirstOK, NEW k \in 1 .. watchers + 1, NEW c, Watches(k, c),
         k = 1 => Sided /\ Alike(c, ctxs[1]),
         c.hasSide => k = 1,
         Sided'
  PROVE  /\ Sided /\ Alike(ctxs'[1], ctxs[1])
         /\ listener'["side"] = listener["side"] \/ ~ ctxs[1].side
<1>1. 1 \in Watchers
  BY FinalizeAssumption DEF TypeInv, WatchingOK, Watches, Watchers
<1>2. CASE k = 1
  <2>1. Sided /\ Alike(c, ctxs[1]) /\ Alike(ctxs'[k], c)  BY <1>2 DEF Watches
  <2>2. Alike(ctxs'[1], ctxs[1])  BY <1>2, <2>1 DEF Alike
  <2>3. listener'["side"] = listener["side"] \/ ~ ctxs[1].side
    BY <2>1 DEF Watches, Alike
  <2> QED BY <2>1, <2>2, <2>3
<1>3. CASE k # 1
  <2>1. ctxs'[1] = ctxs[1]  BY <1>1, <1>3 DEF Watches
  <2>2. ctxs[1].hasSide  BY <2>1 DEF Sided
  <2>3. Sided  BY <1>1, <2>2 DEF FirstOK, Sided
  <2>4. listener'["side"] = listener["side"]  BY <1>3 DEF Watches
  <2> QED BY <2>1, <2>3, <2>4 DEF Alike
<1> QED BY <1>2, <1>3

LEMMA RewatchedTasks ==
  ASSUME NEW k, NEW c, Watches(k, c)
  PROVE  \A u \in tasks' : u.at \in SideAt => u \in tasks
BY AtIsTask DEF Watches, SideAt

\* There is a watcher once there is a context in the map.
LEMMA MapContext ==
  ASSUME TypeInv, FirstOK, map # 0
  PROVE  /\ map \in 1 .. watchers + 1 /\ map <= watchers /\ map \in Watchers
         /\ ctxs[map] \in Ctx /\ start = "done"
         /\ ctxs[map].hasSide \/ Settled(ctxs[map])
         /\ ctxs[map].hasSide => map = 1 /\ vision /\ ~ Given({"crash"}) /\ Sided
         /\ vision /\ ~ Given({"crash"}) => Sided
<1>1. map \in 1 .. watchers /\ map \in Watchers /\ ctxs[map] \in Ctx
  BY MapKnown DEF TypeInv
<1>2. map \in 1 .. watchers + 1 /\ map <= watchers /\ watchers # 0
  BY <1>1 DEF TypeInv, WatchingOK
<1>3. start = "done"  BY <1>2 DEF FirstOK
<1> QED BY <1>1, <1>2, <1>3 DEF FirstOK, Sided

LEMMA SidedKnown ==
  ASSUME TypeInv', FirstOK', Sided'
  PROVE  vision' /\ ~ Given({"crash"})'
<1>1. 1 \in Watchers
  BY FinalizeAssumption DEF TypeInv, WatchingOK, Sided, Watchers
<1> QED BY <1>1 DEF FirstOK, Sided

LEMMA RetryMainCalm ==
  ASSUME TypeInv, TypeInv', CalmOK, [Next]_vars, RetryMain
  PROVE  CalmOK'
<1>1. /\ UNCHANGED <<vision, disk, list, events, start>>
      /\ retry # "idle" /\ native'["side"] = native["side"]
      /\ faults' \subseteq faults \cup {"orphan"} /\ faults \subseteq faults'
  BY DEF RetryMain, Orphaned, Blame, TypeInv, FilesOK, Files
<1>2. start = "done"  BY <1>1 DEF CalmOK, FirstOK
<1>3. SameLife  BY <1>1, <1>2 DEF SameLife, Given
<1>4. CASE UNCHANGED watching /\ retry' = "idle" /\ sideRow' = sideRow
  <2>1. Proceeds /\ (\A j \in Watchers : Alike(ctxs'[j], ctxs[j])) /\ tasks' = tasks
    BY <1>4, WatchingProceeds
  <2>2. SideUntouched  BY <1>1, <1>4, <2>1 DEF SideUntouched
  <2> QED BY <1>3, <2>1, <2>2, Going
<1>5. CASE retry = "both" /\ retry' = "side" /\ sideRow' = "active" /\ UNCHANGED watching
  <2> USE DEF CalmOK
  <2>1. Proceeds /\ tasks' = tasks  BY <1>5, WatchingProceeds
  <2>2. FirstOK' /\ MapOK'  BY <1>3, <2>1, ProceedsFirst, ProceedsMap
  <2>3. TextOK'  BY <1>1, <2>1, TextKept
  <2>4. ProjectorOK'
    <3>1. (Sided' => Sided /\ Alike(ctxs'[1], ctxs[1])) /\ listener' = listener
      BY <1>5 DEF watching, Sided, Alike
    <3> QED BY <1>1, <2>1, <3>1, ProjectorKept, GivenGrows
  <2>5. SideOK'
    <3>1. SideOver' <=> SideOver  BY <1>1 DEF SideOver
    <3> QED BY <1>1, <1>5, <2>1, <3>1, GivenGrows DEF SideOK
  <2> QED BY <2>2, <2>3, <2>4, <2>5
<1>6. CASE retry' = "idle" /\ map # 0 /\ Reattach(ctxs[map]) /\ sideRow' = sideRow
  <2> USE DEF CalmOK
  <2> DEFINE c == ctxs[map]
  <2>1. /\ map \in 1 .. watchers + 1 /\ map <= watchers /\ map \in Watchers
        /\ c \in Ctx
        /\ c.hasSide \/ Settled(c)
        /\ c.hasSide => map = 1 /\ vision /\ ~ Given({"crash"}) /\ Sided
        /\ vision /\ ~ Given({"crash"}) => Sided
    BY <1>6, MapContext
  <2>3. map = 1 => Alike(c, ctxs[1])  BY DEF Alike
  <2>4. c = ctxs[map]  OBVIOUS
  <2> HIDE DEF c
  <2>2. Watches(map, c)
    <3>1. Reattach(c)  BY <1>6, <2>4
    <3> QED BY <1>6, <2>1, <3>1, ReattachHandled DEF TypeInv
  <2>5. Given({"crash"})' <=> Given({"crash"})  BY <1>3 DEF SameLife
  <2>6. FirstOK'  BY <1>1, <1>2, <2>1, <2>2, <2>4, <2>5, WatchesFirst
  <2>7. MapOK'  BY <1>1, <2>1, <2>2, <2>4, <2>6, WatchesMap
  <2>8. \A u \in tasks' : u.at \in SideAt => u \in tasks  BY <2>2, RewatchedTasks
  <2>9. TextOK'
    <3>1. DiskSame  BY DiskSteps
    <3> QED BY <3>1, DiskSameText
  <2>10. SideOK'
    <3>1. SideOver' <=> SideOver  BY <1>1 DEF SideOver
    <3> QED BY <1>1, <1>6, <2>8, <3>1, SideKept, GivenGrows
  <2>11. ProjectorOK'
    <3> SUFFICES ASSUME Sided' PROVE ProjectorOK'
      BY DEF ProjectorOK
    <3>1. map = 1 => Sided
      <4>1. vision /\ ~ Given({"crash"})  BY <1>1, <2>5, <2>6, SidedKnown
      <4> QED BY <2>1, <4>1
    <3>2. Sided /\ Alike(ctxs'[1], ctxs[1])
          /\ (listener'["side"] = listener["side"] \/ ~ ctxs[1].side)
      BY <2>1, <2>2, <2>3, <3>1, RewatchedKept
    <3> QED BY <1>1, <2>8, <3>2, ProjectorKept, GivenGrows
  <2> QED BY <2>6, <2>7, <2>9, <2>10, <2>11
<1> QED
  <2>1. \/ UNCHANGED watching /\ retry' = "idle" /\ sideRow' = sideRow
        \/ retry = "both" /\ retry' = "side" /\ sideRow' = "active" /\ UNCHANGED watching
        \/ retry' = "idle" /\ Reattach(ctxs[map]) /\ sideRow' = sideRow
    BY DEF RetryMain
  <2>2. map = 0 /\ Reattach(ctxs[map]) => UNCHANGED watching  BY DEF Reattach
  <2> QED BY <1>4, <1>5, <1>6, <2>1, <2>2

LEMMA RetrySideCalm ==
  ASSUME TypeInv, TypeInv', CalmOK, [Next]_vars, RetrySide
  PROVE  CalmOK'
<1> USE DEF CalmOK
<1>1. /\ UNCHANGED <<vision, disk, list, events, start, sideRow>>
      /\ retry = "side" /\ retry' = "idle"
      /\ faults' \subseteq faults \cup {"orphan", "sideless"} /\ faults \subseteq faults'
      /\ map = 0 \/ ~ ctxs[map].hasSide => Given({"orphan", "sideless"})'
      /\ Reattach(Reset(ctxs[map]))
  BY DEF RetrySide, Blame, store, Given
<1>2. start = "done"  BY <1>1 DEF FirstOK
<1>3. SameLife  BY <1>1, <1>2 DEF SameLife, Given
<1>4. /\ native["side"] = "failed" /\ <<"side", "failed">> \notin events /\ sideRow # "failed"
      /\ ~ SideOver
  BY <1>1 DEF SideOK, SideOver
<1>5. /\ <<"side", "completed">> \notin events /\ "side" \notin disk
      /\ \A t \in tasks : t.at \notin SideAt
  BY <1>4 DEF SideOK
<1>6. native'["side"] = "running"  BY <1>4 DEF RetrySide, TypeInv, FilesOK, Files
<1>7. TextOK'
  <2>1. DiskSame  BY DiskSteps
  <2> QED BY <2>1, DiskSameText
<1> DEFINE c == Reset(ctxs[map])
<1>8. /\ map = 0 => UNCHANGED watching
      /\ map # 0 => Watches(map, c)
  <2>1. map # 0 => c \in Ctx  BY MapKnown, ResetCtx DEF TypeInv
  <2> HIDE DEF c
  <2>2. Reattach(c)  BY <1>1 DEF c
  <2> QED BY <2>1, <2>2, ReattachHandled DEF TypeInv
<1>9. map # 0 => /\ map \in 1 .. watchers + 1 /\ map <= watchers /\ map \in Watchers
                 /\ c.hasSide = ctxs[map].hasSide
                 /\ c.hasSide \/ Settled(c)
                 /\ c.hasSide => map = 1 /\ vision /\ ~ Given({"crash"}) /\ Sided
                 /\ vision /\ ~ Given({"crash"}) => Sided
                 /\ c.hasSide => ~ c.side /\ c.path = vision
                 /\ ~ c.hasSide => c = ctxs[map]
  <2> SUFFICES ASSUME map # 0
      PROVE  /\ map \in 1 .. watchers + 1 /\ map <= watchers /\ map \in Watchers
             /\ c.hasSide = ctxs[map].hasSide
             /\ c.hasSide \/ Settled(c)
             /\ c.hasSide => map = 1 /\ vision /\ ~ Given({"crash"}) /\ Sided
             /\ vision /\ ~ Given({"crash"}) => Sided
             /\ c.hasSide => ~ c.side /\ c.path = vision
             /\ ~ c.hasSide => c = ctxs[map]
    OBVIOUS
  <2> DEFINE b == ctxs[map]
  <2>1. b \in Ctx  BY MapContext
  <2>2. /\ c.hasSide = b.hasSide
        /\ b.hasSide => ~ c.side /\ c.path = vision
        /\ ~ b.hasSide => c = b
    <3> HIDE DEF b
    <3>1. c = Reset(b)  BY DEF b
    <3> HIDE DEF c
    <3> QED BY <2>1, <3>1, ResetCtx DEF TypeInv
  <2>3. /\ map \in 1 .. watchers + 1 /\ map <= watchers /\ map \in Watchers
        /\ b.hasSide \/ Settled(b)
        /\ b.hasSide => map = 1 /\ vision /\ ~ Given({"crash"}) /\ Sided
        /\ vision /\ ~ Given({"crash"}) => Sided
    BY MapContext
  <2> HIDE DEF c
  <2> QED BY <2>2, <2>3
<1> HIDE DEF c
<1>10. \A u \in tasks' : u.at \notin SideAt
  <2>1. map = 0 => tasks' = tasks  BY <1>8 DEF watching
  <2> QED BY <1>5, <1>8, <2>1, RewatchedTasks
<1>11. SideOK'
  <2>1. ~ SideOver'  BY <1>6 DEF SideOver
  <2>2. \A u \in tasks' : u.at \notin {"sideMoved", "sideLost"}  BY <1>10 DEF SideAt
  <2> QED BY <1>1, <1>4, <1>5, <1>10, <2>1, <2>2 DEF SideOK
<1>12. CASE map = 0
  <2>1. Proceeds  BY <1>8, <1>12, WatchingProceeds
  <2>2. FirstOK' /\ MapOK'  BY <1>3, <2>1, ProceedsFirst, ProceedsMap
  <2>3. ProjectorOK'
    <3>1. (Sided' => Sided /\ Alike(ctxs'[1], ctxs[1])) /\ listener' = listener
      BY <1>8, <1>12 DEF watching, Sided, Alike
    <3>2. Given(GivenUp)'  BY <1>1, <1>12 DEF Given, GivenUp
    <3> QED BY <1>1, <1>10, <3>1, <3>2, ProjectorKept
  <2> QED BY <1>7, <1>11, <2>2, <2>3
<1>13. CASE map # 0
  <2>1. Given({"crash"})' <=> Given({"crash"})  BY <1>3 DEF SameLife
  <2>2. FirstOK'  BY <1>1, <1>2, <1>8, <1>9, <1>13, <2>1, WatchesFirst
  <2>3. MapOK'  BY <1>1, <1>8, <1>9, <1>13, <2>2, WatchesMap
  <2>4. CASE c.hasSide
    <3>1. Alike(ctxs'[1], c) /\ vision /\ ~ c.side /\ c.path = vision
      BY <1>8, <1>9, <1>13, <2>4 DEF Watches
    <3>2. ~ ctxs'[1].side /\ ctxs'[1].path  BY <3>1 DEF Alike
    <3>3. ProjectorOK'  BY <1>10, <3>2 DEF ProjectorOK
    <3> QED BY <1>7, <1>11, <2>2, <2>3, <3>3
  <2>5. CASE ~ c.hasSide
    <3> SUFFICES ASSUME Sided' PROVE ProjectorOK'
      BY <1>7, <1>11, <2>2, <2>3 DEF ProjectorOK
    <3>1. c = ctxs[map]  BY <1>9, <1>13, <2>5
    <3>2. Sided
      <4>1. vision /\ ~ Given({"crash"})  BY <1>1, <2>1, <2>2, SidedKnown
      <4> QED BY <1>9, <1>13, <4>1
    <3>3. map # 1  BY <2>5, <3>1, <3>2 DEF Sided
    <3>4. Alike(ctxs'[1], ctxs[1])
          /\ (listener'["side"] = listener["side"] \/ ~ ctxs[1].side)
      BY <1>8, <1>9, <1>13, <2>5, <3>3, RewatchedKept
    <3>5. Given(GivenUp)'  BY <1>1, <2>5, <3>1 DEF Given, GivenUp
    <3> QED BY <1>1, <1>10, <3>2, <3>4, <3>5, ProjectorKept
  <2> QED BY <2>4, <2>5
<1> QED BY <1>12, <1>13

\* A scan whose start has returned makes a context that waits for no projector.
LEMMA RestoreCalm ==
  ASSUME TypeInv, TypeInv', CalmOK, [Next]_vars, ~ Given({"early"})', Restore
  PROVE  CalmOK'
<1>1. /\ UNCHANGED <<vision, native, disk, list, events, start, retry, sideRow>>
      /\ faults' \subseteq faults \cup {"early"} /\ faults \subseteq faults'
  BY DEF Restore, durable, store, Blame
<1>2. SameLife  BY <1>1 DEF SameLife, Given
<1>3. CASE UNCHANGED watching
  <2>1. Proceeds /\ (\A j \in Watchers : Alike(ctxs'[j], ctxs[j])) /\ tasks' = tasks
    BY <1>3, WatchingProceeds
  <2>2. SideUntouched  BY <1>1, <2>1 DEF SideUntouched
  <2> QED BY <1>2, <2>1, <2>2, Going
<1>4. CASE scan \in {"running", "completed"} /\ map = 0 /\ Watches(watchers + 1, Adopted)
  <2> USE DEF CalmOK
  <2>1. start = "done"  BY <1>4 DEF Restore, Blame, Given
  <2> DEFINE c == Adopted
             k == watchers + 1
  <2>2. k \in 1 .. watchers + 1 /\ ~ (k <= watchers) /\ (k = 1 => watchers = 0)
    BY DEF TypeInv, WatchingOK
  <2>3. ~ c.hasSide /\ c.side /\ c.path = vision  BY NewCtxs DEF Alike, TypeInv
  <2>4. Watches(k, c) /\ k = watchers + 1  BY <1>4
  <2> HIDE DEF c, k
  <2>5. Settled(c)  BY <2>3 DEF Settled
  <2>6. Given({"crash"})' <=> Given({"crash"})  BY <1>2 DEF SameLife
  <2>7. vision /\ ~ Given({"crash"}) => Sided  BY <2>1 DEF FirstOK
  <2>8. FirstOK'  BY <1>1, <2>1, <2>2, <2>3, <2>4, <2>5, <2>6, <2>7, WatchesFirst
  <2>9. MapOK'  BY <1>1, <1>4, <2>2, <2>3, <2>4, <2>8, WatchesMap
  <2>10. \A u \in tasks' : u.at \in SideAt => u \in tasks  BY <2>4, RewatchedTasks
  <2>11. TextOK'
    <3>1. DiskSame  BY DiskSteps
    <3> QED BY <3>1, DiskSameText
  <2>12. SideOK'
    <3>1. SideOver' <=> SideOver  BY <1>1 DEF SideOver
    <3> QED BY <1>1, <2>10, <3>1, SideKept, GivenGrows
  <2>13. ProjectorOK'
    <3> SUFFICES ASSUME Sided' PROVE ProjectorOK'
      BY DEF ProjectorOK
    <3>1. Sided
      <4>1. vision /\ ~ Given({"crash"})  BY <1>1, <2>6, <2>8, SidedKnown
      <4> QED BY <2>7, <4>1
    <3>2. k # 1  BY <2>2, <3>1 DEF Sided
    <3>3. Alike(ctxs'[1], ctxs[1])
          /\ (listener'["side"] = listener["side"] \/ ~ ctxs[1].side)
      BY <2>2, <2>3, <2>4, <3>2, RewatchedKept
    <3> QED BY <1>1, <2>10, <3>1, <3>3, ProjectorKept, GivenGrows
  <2> QED BY <2>8, <2>9, <2>11, <2>12, <2>13
<1> QED BY <1>3, <1>4, RestoreHandled DEF TypeInv

\* A restart loses the contexts, and with them who waits for the projector.
LEMMA CrashCalm ==
  ASSUME TypeInv, CalmOK, Crash
  PROVE  CalmOK'
<1> USE DEF CalmOK
<1>1. /\ UNCHANGED <<vision, native, disk, list, sideRow, start>> /\ start = "done"
      /\ events' = {} /\ tasks' = {} /\ retry' = "idle" /\ watchers' = 0 /\ map' = 0
      /\ ctxs' = NoCtxs /\ listener' = Nobody /\ "crash" \in faults'
  BY DEF Crash, durable, store, Blame
<1>2. listener'["side"] = 0  BY <1>1 DEF Nobody, Files
<1>3. \A w \in Watchers : ~ ctxs'[w].hasSide  BY <1>1 DEF NoCtxs, NoCtx
<1>4. ~ Sided'  BY <1>1 DEF Sided
<1>5. FirstOK'  BY <1>1, <1>2, <1>3 DEF FirstOK, Given
<1>6. ProjectorOK' /\ MapOK'  BY <1>4 DEF ProjectorOK, MapOK
<1>7. TextOK'  BY <1>1 DEF TextOK
<1>8. SideOK'
  <2>1. SideOver' <=> SideOver  BY <1>1 DEF SideOver
  <2> QED BY <1>1, <2>1 DEF SideOK
<1> QED BY <1>5, <1>6, <1>7, <1>8

LEMMA CalmInductive ==
  ASSUME TypeInv, TypeInv', CancelOK, BeforeOK, CalmOK, [Next]_vars, Calm'
  PROVE  CalmOK'
<1>1. ~ Given({"cancelled"})' /\ ~ Given({"early"})' /\ ~ Given({"cancelled"})
  BY GivenStays DEF Calm, Given
<1>2. ASSUME NEW t \in tasks, Awaits(t) PROVE CalmOK'
  BY <1>2, CatchUpCalm, SideMoveCalm, SideDoneCalm, MoveCalm, CheckCalm, ResolveCalm, SaveCalm
     DEF Awaits
<1>3. CASE Device  BY <1>3, EndsCalm, DeliverCalm DEF Device
<1>4. CASE Start \/ StartSide \/ StartMain  BY <1>4, StartSteps
<1>5. CASE Attach \/ RetryMain \/ RetrySide  BY <1>5, AttachCalm, RetryMainCalm, RetrySideCalm
<1>6. CASE Restore \/ Crash  BY <1>1, <1>6, RestoreCalm, CrashCalm
<1>7. CASE Retry \/ Foreground \/ Launch \/ Discover \/ UNCHANGED vars  BY <1>7, IdleSteps
<1>8. ~ Cancel /\ ~ CancelSide /\ ~ CancelMain
  <2>1. ~ CancelSide /\ ~ CancelMain  BY <1>1 DEF CancelOK, CancelSide, CancelMain
  <2>2. Cancel => "cancelled" \in faults'  BY DEF Cancel, Blame
  <2> QED BY <1>1, <2>1, <2>2 DEF Given
<1> QED BY <1>2, <1>3, <1>4, <1>5, <1>6, <1>7, <1>8 DEF Next, App, User

-----------------------------------------------------------------------------
(* The projector is kept                                                   *)

IInv == TypeInv /\ CancelOK /\ DiskOK /\ BeforeOK /\ (Calm => CalmOK)

LEMMA CalmInit == Init => IInv
<1> SUFFICES ASSUME Init PROVE IInv
  OBVIOUS
<1>1. TypeInv  BY TypeInit DEF TypeInv
<1>2. CancelOK /\ DiskOK  BY DEF Init, NoCancel, CancelOK, DiskOK
<1>3. native["side"] = "none" /\ listener["side"] = 0  BY DEF Init, Nobody, Files
<1>4. BeforeOK  BY <1>3 DEF Init, BeforeOK
<1>5. FirstOK
  <2>1. \A w \in Watchers : ~ ctxs[w].hasSide  BY DEF Init, NoCtxs, NoCtx
  <2>2. /\ watchers = 0 /\ map = 0 /\ tasks = {} /\ start = "idle" /\ retry = "idle"
        /\ list = "absent" /\ faults = {}
    BY DEF Init
  <2>3. 1 .. watchers = {} /\ ~ (watchers > 0)  BY <2>2
  <2> QED BY <1>3, <2>1, <2>2, <2>3 DEF FirstOK, Given
<1>6. SideOK  BY DEF Init, SideOK, SideOver
<1>7. ProjectorOK /\ MapOK /\ TextOK
  <2>1. watchers = 0 /\ tasks = {} /\ list = "absent"  BY DEF Init
  <2>2. ~ Sided  BY <2>1 DEF Sided
  <2> QED BY <2>1, <2>2 DEF ProjectorOK, MapOK, TextOK
<1> QED BY <1>1, <1>2, <1>4, <1>5, <1>6, <1>7 DEF IInv, CalmOK

LEMMA IInvInductive ==
  ASSUME IInv, [Next]_vars
  PROVE  IInv'
<1> USE DEF IInv
<1>1. TypeInv'  BY TypeInductive DEF TypeInv
<1>2. CancelOK'  BY CancelInductive DEF TypeInv
<1>3. DiskOK'  BY DiskInductive
<1>4. BeforeOK'  BY BeforeInductive
<1>5. Calm' => CalmOK'
  <2>1. Calm' => Calm  BY GivenStays DEF Calm
  <2> QED BY <1>1, <2>1, CalmInductive
<1> QED BY <1>1, <1>2, <1>3, <1>4, <1>5

\* A vision model is registered as text only once its projector is past saving: for every
\* number of watchers, scans and retries, with the projector's outcome, the main file's and
\* the scans in any order, a model is not finalized before its projector is moved or given up.
THEOREM VisionIsKept == Spec => []VisionKept
<1>1. ASSUME IInv PROVE VisionKept
  <2> SUFFICES ASSUME list = "text",
                      faults \cap {"cancelled", "refusedMove", "early", "orphan", "sideless", "crash"} = {}
               PROVE  "side" \notin disk /\ native["side"] \notin {"running", "completed"}
    BY DEF VisionKept
  <2>1. /\ Calm /\ ~ Given({"crash"}) /\ ~ Given(GivenUp)
        /\ ~ Given({"cancelled"})
    BY DEF Calm, Given, GivenUp
  <2>2. CalmOK /\ BeforeOK  BY <1>1, <2>1 DEF IInv
  <2>3. start = "done"  BY <2>2 DEF CalmOK, FirstOK
  <2>4. "side" \notin disk  BY <2>2 DEF CalmOK, TextOK
  <2>5. CASE ~ vision  BY <2>2, <2>4, <2>5 DEF BeforeOK
  <2>6. CASE vision
    <3>1. Sided  BY <2>1, <2>2, <2>3, <2>6 DEF CalmOK, FirstOK
    <3>2. ctxs[1].side  BY <2>2, <3>1 DEF CalmOK, MapOK
    <3>3. ~ ctxs[1].path  BY <2>2, <2>4, <3>1, <3>2 DEF CalmOK, ProjectorOK
    <3>4. native["side"] = "failed"
      BY <2>1, <2>2, <3>1, <3>2, <3>3 DEF CalmOK, ProjectorOK
    <3> QED BY <2>4, <3>4
  <2> QED BY <2>5, <2>6
<1> QED BY <1>1, CalmInit, IInvInductive, PTL DEF Spec

\* However many finalizations overlap, none takes back what another registered: one that sees
\* no projector finds none on disk, and what is registered with vision has it there.
THEOREM NeverTakenBack == Spec => NeverDowngraded
<1>1. ASSUME IInv, [Next]_vars
      PROVE  [list = "vision" => list' = "vision" \/ faults \cap {"cancelled", "early"} # {}]_list
  <2> SUFFICES ASSUME list = "vision", list' # list, Calm PROVE FALSE
    BY DEF Calm, Given
  <2>1. "side" \in disk /\ CalmOK  BY <1>1 DEF IInv, DiskOK, Calm, Given
  <2>2. ~ DiskSame  BY DEF DiskSame
  <2>3. ASSUME NEW t \in tasks, SideMove(t) \/ Move(t) \/ Check(t) \/ Resolve(t) PROVE FALSE
    BY <2>3 DEF SideMove, Move, Check, Resolve, durable
  <2>4. ASSUME NEW t \in tasks, Save(t) PROVE FALSE
    <3>1. t.at = "save" /\ list' = IF t.sees THEN "vision" ELSE "text"  BY <2>4 DEF Save
    <3>2. t.sees  BY <2>1, <3>1 DEF CalmOK, TextOK
    <3> QED BY <3>1, <3>2
  <2>5. ~ Discover
    BY <2>1 DEF Discover, OnDisk
  <2>6. ~ Cancel /\ ~ CancelSide /\ ~ CancelMain
    BY DEF Cancel, CancelSide, CancelMain, durable
  <2> QED BY <1>1, <2>2, <2>3, <2>4, <2>5, <2>6, DiskSteps DEF IInv, Next, App, User, Awaits
<1> QED BY <1>1, CalmInit, IInvInductive, PTL DEF Spec, NeverDowngraded
=============================================================================
