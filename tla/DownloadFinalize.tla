-------------------------- MODULE DownloadFinalize --------------------------
(***************************************************************************)
(* From the bytes on disk to a registered model: one text model, with or   *)
(* without a vision projector, through modelManager/download.ts and        *)
(* restore.ts, the retry and cancel of the text provider, and the recovery *)
(* of App.tsx after a launch and on every return to the foreground.        *)
(*                                                                         *)
(* An attempt has a context, shared by the watchers made for it; a watcher *)
(* is one call of watchBackgroundDownload with its closures. A native row  *)
(* has one listener at most: registering replaces the listener, and a      *)
(* watcher that cleans up removes whichever listener the row has by then.  *)
(* Transfers, the queue and Android's worker are DownloadAdmission's and   *)
(* DownloadWorker's: here a transfer just ends.                            *)
(***************************************************************************)
EXTENDS Naturals, FiniteSets

CONSTANTS
    Vision,         \* is there a projector? the answers to consider
    MaxWatches,     \* watchers of one life of the process (bound)
    MaxTurns        \* retries, cancels, returns to the foreground, deaths of the process
                    \* and moves the device refuses for want of space, in all (bound)

ASSUME FinalizeAssumption ==
    /\ Vision \subseteq BOOLEAN
    /\ MaxWatches \in Nat /\ MaxTurns \in Nat

VARIABLES
    vision,
    \* survive the process
    native,         \* status of the main file's row and of the projector's
    disk,           \* the files at their final path
    list,           \* the model in the persisted registry
    \* the process
    events,         \* terminal events on their way over the bridge
    listener,       \* the watcher that listens for the events of a row, or 0
    ctxs,           \* the contexts, named after their first watcher
    ctxOf, owns,    \* the watchers: their context; do they listen for the projector
    watchers,
    map,            \* backgroundDownloadContext of the main download, or 0
    tasks,          \* the awaits of watchers
    row, sideRow,   \* status and mmProjStatus in the download store: failed or not
    start, retry, cancel, scan,     \* where these operations are
    \* history
    told,           \* the outcome reported for the run of the transfer
    faults,         \* what has gone wrong, or been cancelled, so far
    turns           \* how often it has taken one of the turns bounded above

Files == {"main", "side"}
Watchers == 1 .. MaxWatches
Statuses == {"none", "running", "failed", "completed", "cancelled"}

Ctx == [main : BOOLEAN, mainHandled : BOOLEAN, side : BOOLEAN, sideHandled : BOOLEAN,
        path : BOOLEAN, hasSide : BOOLEAN, finalizing : BOOLEAN]
NoCtx == [main |-> FALSE, mainHandled |-> FALSE, side |-> TRUE, sideHandled |-> FALSE,
          path |-> FALSE, hasSide |-> FALSE, finalizing |-> FALSE]

\* an await of watcher w: the catch-up query, the move of the projector and its
\* outcome, the move of the main file, what follows it, the write of the registry
Task == [w : Watchers, at : {"catchUp", "sideMove", "sideMoved", "sideLost",
                             "move", "check", "resolve", "save"},
         moved : BOOLEAN, sees : BOOLEAN]
At(w, at) == [w |-> w, at |-> at, moved |-> TRUE, sees |-> FALSE]

durable == <<native, disk, list>>
watching == <<listener, ctxs, ctxOf, owns, watchers, map, tasks>>
store == <<row, sideRow>>
ops == <<start, retry, cancel, scan>>
history == <<told, faults, turns>>
vars == <<vision, durable, events, watching, store, ops, history>>

TypeOK ==
    /\ vision \in Vision
    /\ native \in [Files -> Statuses] /\ disk \subseteq Files
    /\ list \in {"absent", "text", "vision", "found"}
    /\ events \subseteq Files \X {"completed", "failed"}
    /\ listener \in [Files -> 0 .. watchers] /\ map \in 0 .. watchers
    /\ ctxs \in [Watchers -> Ctx] /\ ctxOf \in [Watchers -> 0 .. watchers]
    /\ owns \in [Watchers -> BOOLEAN] /\ watchers \in 0 .. MaxWatches
    /\ tasks \subseteq Task
    /\ row \in {"none", "active", "failed"}
    /\ sideRow \in {"none", "active", "failed"}
    /\ start \in {"idle", "side", "main", "attach", "done"}
    /\ retry \in {"idle", "main", "both", "side"}
    /\ cancel \in [at : {"idle", "side", "main"}, ctx : 0 .. MaxWatches]
    /\ scan \in {"idle", "launch"} \cup Statuses
    /\ told \in {"", "registered", "failed"}
    /\ faults \subseteq {"cancelled", "deaf", "orphan", "sideless", "refusedMove", "early", "crash"}
    /\ turns \in 0 .. MaxTurns

NoCancel == [at |-> "idle", ctx |-> 0]
Nobody == [f \in Files |-> 0]
NoCtxs == [w \in Watchers |-> NoCtx]
NoWatcher == [w \in Watchers |-> 0]
Owning == [w \in Watchers |-> FALSE]

Init ==
    /\ vision \in Vision
    /\ native = [f \in Files |-> "none"] /\ disk = {} /\ list = "absent"
    /\ events = {} /\ listener = Nobody /\ ctxs = NoCtxs /\ ctxOf = NoWatcher
    /\ owns = Owning /\ watchers = 0 /\ map = 0 /\ tasks = {}
    /\ retry = "idle" /\ cancel = NoCancel /\ told = ""
    /\ row = "none" /\ sideRow = "none" /\ start = "idle" /\ scan = "idle"
    /\ faults = {}
    /\ turns = 0
-----------------------------------------------------------------------------
(* Watchers.                                                               *)

\* cleanupListeners of watcher w
Cleaned(w) == [listener EXCEPT !["main"] = 0, !["side"] = IF owns[w] THEN 0 ELSE @]

\* tryFinalize of watcher w, whose context is c by now, beside awaits ts and
\* with listeners l
ReadyWithMain(c) == c.main /\ ~c.finalizing
Ready(c) == c.main /\ c.side /\ ~c.finalizing

TryFinalize(w, c, ts, l) ==
    IF Ready(c)
    THEN /\ ctxs' = [ctxs EXCEPT ![ctxOf[w]] = [c EXCEPT !.finalizing = TRUE]]
         /\ listener' = Cleaned(w)
         /\ map' = 0
         /\ tasks' = ts \cup {At(w, "move")}
    ELSE /\ ctxs' = [ctxs EXCEPT ![ctxOf[w]] = c]
         /\ tasks' = ts /\ listener' = l
         /\ UNCHANGED map

\* a call of watchBackgroundDownload for context c, number k
Watch(k, c) ==
    LET w == watchers + 1
        hears == c.hasSide /\ ~c.side
    IN  /\ watchers < MaxWatches
        /\ watchers' = w
        /\ ctxOf' = [ctxOf EXCEPT ![w] = k]
        /\ owns' = [owns EXCEPT ![w] = hears]
        /\ IF Ready(c)
           THEN /\ ctxs' = [ctxs EXCEPT ![k] = [c EXCEPT !.finalizing = TRUE]]
                /\ listener' = [listener EXCEPT !["main"] = 0,
                                                !["side"] = IF hears THEN 0 ELSE @]
                /\ map' = 0
                /\ tasks' = tasks \cup {At(w, "catchUp"), At(w, "move")}
           ELSE /\ ctxs' = [ctxs EXCEPT ![k] = c]
                /\ listener' = [listener EXCEPT !["main"] = w,
                                                !["side"] = IF hears THEN w ELSE @]
                /\ map' = k
                /\ tasks' = tasks \cup {At(w, "catchUp")}

\* handleMainComplete
MainComplete(w, c, ts) ==
    TryFinalize(w, IF c.mainHandled THEN c ELSE [c EXCEPT !.mainHandled = TRUE, !.main = TRUE],
                ts, listener)

\* handleMmProjComplete, as far as its first await
SideComplete(w, c, ts) ==
    /\ ctxs' = [ctxs EXCEPT ![ctxOf[w]].sideHandled = TRUE]
    /\ tasks' = IF c.sideHandled THEN ts ELSE ts \cup {At(w, "sideMove")}
    /\ UNCHANGED <<listener, map>>

\* the projector's error listener: go on without vision
SideError(w) ==
    TryFinalize(w, [ctxs[ctxOf[w]] EXCEPT !.path = FALSE, !.side = TRUE], tasks,
                [listener EXCEPT !["side"] = 0])

\* handleError: the context stays for a retry
MainError(w) ==
    /\ ctxs' = [ctxs EXCEPT ![ctxOf[w]].main = FALSE, ![ctxOf[w]].mainHandled = FALSE,
                            ![ctxOf[w]].finalizing = FALSE]
    /\ listener' = Cleaned(w)
    /\ UNCHANGED <<map, tasks>>

\* history, and its bound
Turn == turns < MaxTurns /\ turns' = turns + 1
Blame(what, when) == faults' = IF when THEN faults \cup {what} ELSE faults

NobodyHears == UNCHANGED <<listener, ctxs, map, tasks>>
-----------------------------------------------------------------------------
(* The native side.                                                        *)

\* the worker of a row ends
Ends(f, how) ==
    /\ native[f] = "running"
    /\ native' = [native EXCEPT ![f] = how]
    /\ events' = events \cup {<<f, how>>}
    /\ UNCHANGED <<vision, disk, list, watching, store, ops, history>>

\* the effect of the app's own listener on the store
Shows(f, how) ==
    LET now(was) == IF was = "none" THEN was ELSE IF how = "failed" THEN how ELSE "active"
    IN  IF f = "main" THEN row' = now(row) /\ UNCHANGED sideRow
        ELSE sideRow' = now(sideRow) /\ UNCHANGED row

Heard(f, how, w) ==
    LET c == ctxs[ctxOf[w]]
    IN  CASE f = "main" /\ how = "completed" -> MainComplete(w, c, tasks)
          [] f = "main" /\ how = "failed" -> MainError(w)
          [] f = "side" /\ how = "completed" -> SideComplete(w, c, tasks)
          [] f = "side" /\ how = "failed" -> SideError(w)

Deliver(f, how) ==
    /\ <<f, how>> \in events
    /\ events' = events \ {<<f, how>>}
    /\ Shows(f, how)
    /\ IF listener[f] = 0 THEN NobodyHears ELSE Heard(f, how, listener[f])
    /\ told' = IF <<f, how>> = <<"main", "failed">> /\ listener[f] # 0 THEN "failed" ELSE told
    /\ Blame("deaf", <<f, how>> = <<"side", "failed">> /\ listener[f] = 0)
    /\ UNCHANGED <<vision, durable, ctxOf, owns, watchers, ops, turns>>

\* moveCompletedDownload: the file is moved and the row deleted; a row that is
\* gone, or one whose file is in neither place, is refused
Moves(f) ==
    /\ native[f] = "completed" \/ (native[f] # "none" /\ f \in disk)
    /\ native' = [native EXCEPT ![f] = "none"]
    /\ disk' = disk \cup {f}
    /\ UNCHANGED <<turns, faults>>
Refuses(f) ==
    LET spurious == native[f] = "completed"
    IN  /\ native[f] # "none" /\ f \in disk => spurious
        /\ IF spurious THEN Turn ELSE UNCHANGED turns
        /\ Blame("refusedMove", spurious)
        /\ UNCHANGED <<native, disk>>
-----------------------------------------------------------------------------
(* The awaits of a watcher.                                                *)

Becomes(t, at) == tasks' = (tasks \ {t}) \cup {[t EXCEPT !.at = at]}

\* the reconcile: what was completed before anybody listened
MainMissedNever(c) == FALSE
MainMissed(c) == native["main"] = "completed" /\ ~c.mainHandled

CatchUp(t) ==
    LET c == ctxs[ctxOf[t.w]]
        rest == tasks \ {t}
        main == MainMissed(c)
        side == c.hasSide /\ ~c.side /\ native["side"] = "completed" /\ ~c.sideHandled
        both == [c EXCEPT !.main = TRUE, !.mainHandled = TRUE, !.sideHandled = TRUE]
    IN  /\ t.at = "catchUp"
        /\ CASE main /\ side ->
                    /\ ctxs' = [ctxs EXCEPT ![ctxOf[t.w]] = both]
                    /\ tasks' = rest \cup {At(t.w, "sideMove")}
                    /\ UNCHANGED <<listener, map>>
             [] main /\ ~side -> MainComplete(t.w, c, rest)
             [] ~main /\ side -> SideComplete(t.w, c, rest)
             [] OTHER -> tasks' = rest /\ UNCHANGED <<listener, ctxs, map>>
        /\ UNCHANGED <<vision, durable, events, ctxOf, owns, watchers, store, ops, history>>

\* native part of the projector's move
SideMove(t) ==
    /\ t.at = "sideMove"
    /\ \/ Moves("side") /\ Becomes(t, "sideMoved")
       \/ Refuses("side") /\ Becomes(t, "sideLost")
    /\ UNCHANGED <<vision, list, events, listener, ctxs, ctxOf, owns, watchers, map, store,
                   ops, told>>

\* a refused move costs the model its projector, unless the file is there
SideDone(t) ==
    LET c == ctxs[ctxOf[t.w]]
        path == c.path /\ (t.at = "sideMoved" \/ "side" \in disk)
    IN  /\ t.at \in {"sideMoved", "sideLost"}
        /\ TryFinalize(t.w, [c EXCEPT !.path = path, !.side = TRUE], tasks \ {t}, listener)
        /\ UNCHANGED <<vision, durable, events, ctxOf, owns, watchers, store, ops, history>>

Move(t) ==
    /\ t.at = "move"
    /\ \/ Moves("main") /\ Becomes(t, "resolve")
       \/ Refuses("main") /\ Becomes(t, "check")
    /\ UNCHANGED <<vision, list, events, listener, ctxs, ctxOf, owns, watchers, map, store,
                   ops, told>>

OnDisk(f) == f \in disk

\* a refused move is no failure when an earlier one left the file there
Check(t) ==
    /\ t.at = "check"
    /\ IF OnDisk("main")
       THEN /\ tasks' = (tasks \ {t}) \cup {[t EXCEPT !.at = "resolve", !.moved = FALSE]}
            /\ UNCHANGED <<ctxs, row, told>>
       ELSE /\ tasks' = tasks \ {t}
            /\ ctxs' = [ctxs EXCEPT ![ctxOf[t.w]].finalizing = FALSE]
            /\ row' = IF row = "none" THEN row ELSE "failed"
            /\ told' = "failed"
    /\ UNCHANGED <<vision, durable, events, listener, ctxOf, owns, watchers, map, sideRow, ops,
                   faults, turns>>

\* is the projector there? from this the entry is built
SeesByName(c) == c.path
Sees(c) == c.path /\ OnDisk("side")

Resolve(t) ==
    /\ t.at = "resolve"
    /\ tasks' = (tasks \ {t}) \cup
                    {[t EXCEPT !.at = "save", !.sees = Sees(ctxs[ctxOf[t.w]])]}
    /\ UNCHANGED <<vision, durable, events, listener, ctxs, ctxOf, owns, watchers, map, store,
                   ops, history>>

\* persistDownloadedModel and onComplete: the entry leaves the download store;
\* a row whose file was there already is purged
Save(t) ==
    /\ t.at = "save"
    /\ list' = IF t.sees THEN "vision" ELSE "text"
    /\ native' = [native EXCEPT !["main"] =
                     IF ~t.moved /\ @ # "none" THEN "cancelled" ELSE @]
    /\ tasks' = tasks \ {t}
    /\ row' = "none" /\ sideRow' = "none" /\ told' = "registered"
    /\ UNCHANGED <<vision, disk, events, listener, ctxs, ctxOf, owns, watchers, map, ops,
                   faults, turns>>
-----------------------------------------------------------------------------
(* Start, retry and cancel.                                                *)

\* startModelDownload: a placeholder is shown, the projector goes first
Start ==
    /\ start = "idle" /\ native["main"] = "none"
    /\ start' = IF vision THEN "side" ELSE "main"
    /\ row' = "active"
    /\ UNCHANGED <<vision, durable, events, watching, sideRow, retry, cancel, scan, history>>

StartSide ==
    /\ start = "side" /\ start' = "main"
    /\ native' = [native EXCEPT !["side"] = "running"]
    /\ UNCHANGED <<vision, disk, list, events, watching, store, retry, cancel, scan, history>>

\* the main file may have waited long for a slot
StartMain ==
    /\ start = "main" /\ start' = "attach"
    /\ native' = [native EXCEPT !["main"] = "running"]
    /\ UNCHANGED <<vision, disk, list, events, watching, store, retry, cancel, scan, history>>

Attach ==
    /\ start = "attach" /\ start' = "done"
    /\ Watch(watchers + 1, [NoCtx EXCEPT !.side = ~vision, !.path = vision, !.hasSide = vision])
    /\ row' = "active" /\ sideRow' = IF vision THEN "active" ELSE "none"
    /\ UNCHANGED <<vision, durable, events, retry, cancel, scan, history>>

\* textProvider.retry, with the entry as it was when the user asked. A query of
\* the rows may still wait for its answer (recovery is not awaited at launch).
Retry ==
    /\ row = "failed" /\ start = "done" /\ scan # "launch" /\ retry = "idle" /\ cancel.at = "idle"
    /\ retry' = IF sideRow = "failed" THEN "both" ELSE "main"
    /\ row' = "active"
    /\ Turn
    /\ UNCHANGED <<vision, durable, events, watching, sideRow, start, cancel, scan, told,
                   faults>>

\* reattach: there is nothing to watch without a context
Reattach(c) == IF map = 0 THEN UNCHANGED watching ELSE Watch(map, c)
Orphaned == Blame("orphan", map = 0)

\* only a failed row can be retried; else the retry is refused
RetryMain ==
    /\ retry \in {"main", "both"}
    /\ IF native["main"] # "failed"
       THEN retry' = "idle" /\ UNCHANGED <<native, watching, sideRow, told, faults>>
       ELSE /\ native' = [native EXCEPT !["main"] = "running"]
            /\ told' = ""
            /\ IF retry = "both"
               THEN retry' = "side" /\ sideRow' = "active" /\ UNCHANGED <<watching, faults>>
               ELSE /\ retry' = "idle" /\ Orphaned
                    /\ Reattach(ctxs[map]) /\ UNCHANGED sideRow
    /\ UNCHANGED <<vision, disk, list, events, row, start, cancel, scan, turns>>

\* resetMmProjForRetry
Reset(c) == IF c.hasSide THEN [c EXCEPT !.side = FALSE, !.sideHandled = FALSE, !.path = vision]
            ELSE c

\* the context that is there may be one that a scan made and that waits for no projector
RetrySide ==
    /\ retry = "side" /\ retry' = "idle"
    /\ native' = [native EXCEPT !["side"] = IF @ = "failed" THEN "running" ELSE @]
    /\ Reattach(Reset(ctxs[map]))
    /\ Blame(IF map = 0 THEN "orphan" ELSE "sideless", map = 0 \/ ~ctxs[map].hasSide)
    /\ UNCHANGED <<vision, disk, list, events, store, start, cancel, scan, told, turns>>

\* a native cancel keeps the row, as cancelled, and deletes the file
Cancelled(f) == native' = [native EXCEPT ![f] = IF @ = "none" THEN @ ELSE "cancelled"]

Cancel ==
    /\ row # "none" /\ start = "done" /\ scan # "launch" /\ cancel.at = "idle" /\ retry = "idle"
    /\ cancel' = [at |-> IF map # 0 /\ ctxs[map].hasSide THEN "side" ELSE "main", ctx |-> map]
    /\ Turn /\ Blame("cancelled", TRUE)
    /\ UNCHANGED <<vision, durable, events, watching, store, start, retry, scan, told>>

\* the service reports each of its cancels as an error to the listeners
CancelSide ==
    /\ cancel.at = "side" /\ cancel' = [cancel EXCEPT !.at = "main"]
    /\ Cancelled("side")
    /\ Shows("side", "failed")
    /\ IF listener["side"] = 0 THEN NobodyHears ELSE SideError(listener["side"])
    /\ UNCHANGED <<vision, disk, list, events, ctxOf, owns, watchers, start, retry, scan, history>>

\* the files of the context are removed, then the entry
CancelMain ==
    LET c == ctxs[cancel.ctx]
        artifacts == IF cancel.ctx = 0 THEN {} ELSE IF c.path THEN Files ELSE {"main"}
    IN  /\ cancel.at = "main" /\ cancel' = NoCancel
        /\ native' = [f \in Files |-> IF native[f] = "none" \/ (f = "side" /\ sideRow = "none")
                                      THEN native[f] ELSE "cancelled"]
        /\ IF listener["main"] = 0 THEN NobodyHears ELSE MainError(listener["main"])
        /\ disk' = disk \ artifacts
        /\ row' = "none" /\ sideRow' = "none"
        /\ UNCHANGED <<vision, list, events, ctxOf, owns, watchers, start, retry, scan,
                       history>>
-----------------------------------------------------------------------------
(* Launch and foreground.                                                  *)

\* hydrateDownloadStore: what was in flight and has no unfinished row is shown
\* as failed, be it that its files are being registered. The row takes the place
\* of an entry that is not there, as at a cold start, or that is behind it in
\* bytes; and a row does not name its projector.
Live == native["main"] \in {"running", "failed"}
HydrateRaw(behind) == row' = native["main"] /\ UNCHANGED sideRow
Hydrate(behind) ==
    /\ row' = CASE Live /\ row # "none" /\ ~behind -> row
                [] Live -> IF native["main"] = "failed" THEN "failed" ELSE "active"
                [] OTHER -> IF row = "active" THEN "failed" ELSE "none"
    /\ sideRow' = IF row' = "none" \/ (Live /\ behind) THEN "none" ELSE sideRow

\* then restoreInProgressDownloads reads the rows...
Recover(behind) == Hydrate(behind) /\ scan' = native["main"]

Foreground ==
    /\ scan = "idle" /\ Turn
    /\ \E behind \in BOOLEAN : Recover(behind)
    /\ UNCHANGED <<vision, durable, events, watching, start, retry, cancel, told, faults>>

Launch ==
    /\ scan = "launch"
    /\ Recover(TRUE)
    /\ UNCHANGED <<vision, durable, events, watching, start, retry, cancel, history>>

\* ... and adopts the main one that has no context. The row names no projector
\* to wait for, only its file.
AdoptedBlind == [NoCtx EXCEPT !.main = scan = "completed"]
Adopted == [NoCtx EXCEPT !.main = scan = "completed", !.path = vision]

Restore ==
    /\ scan \in Statuses /\ scan' = "idle"
    /\ IF scan \in {"running", "completed"} /\ map = 0
       THEN Watch(watchers + 1, Adopted)
       ELSE UNCHANGED watching
    /\ Blame("early", scan \in {"running", "completed"} /\ start # "done")
    /\ UNCHANGED <<vision, durable, events, store, start, retry, cancel, told, turns>>

\* refreshModelLists, after a launch: a model file nobody registered is adopted,
\* and a registered model is given a projector that is there
Discover ==
    /\ scan = "idle" /\ OnDisk("main") /\ "crash" \in faults
    /\ list' = IF OnDisk("side") THEN "vision" ELSE IF list = "absent" THEN "found" ELSE list
    /\ list' # list
    /\ UNCHANGED <<vision, native, disk, events, watching, store, ops, history>>

\* the process dies: workers, rows, files and the registry stay
Crash ==
    /\ start = "done"
    /\ Turn /\ Blame("crash", TRUE)
    /\ events' = {} /\ listener' = Nobody /\ ctxs' = NoCtxs /\ ctxOf' = NoWatcher
    /\ owns' = Owning /\ watchers' = 0 /\ map' = 0 /\ tasks' = {}
    /\ retry' = "idle" /\ cancel' = NoCancel /\ told' = ""
    /\ scan' = "launch"
    /\ UNCHANGED <<vision, durable, store, start>>

Awaits(t) ==
    \/ CatchUp(t) \/ SideMove(t) \/ SideDone(t) \/ Move(t) \/ Check(t) \/ Resolve(t) \/ Save(t)

App ==
    \/ \E t \in tasks : Awaits(t)
    \/ StartSide \/ StartMain \/ Attach \/ RetryMain \/ RetrySide \/ CancelSide \/ CancelMain
    \/ Launch \/ Restore
Device == \E f \in Files, how \in {"completed", "failed"} : Ends(f, how) \/ Deliver(f, how)
User == Start \/ Retry \/ Cancel \/ Foreground

Next == App \/ Device \/ User \/ Discover \/ Crash

Spec == Init /\ [][Next]_vars

\* transfers end and events arrive; every await of the app settles; nobody has
\* to return to the foreground, to retry or to launch the app again
FairSpec == Spec /\ WF_vars(App) /\ WF_vars(Device) /\ WF_vars(Discover)
-----------------------------------------------------------------------------
(* Properties.                                                             *)

\* What the registry lists is on disk, with the projector it promises, unless
\* the user cancelled while it was being put there.
ListedIsOnDisk ==
    "cancelled" \notin faults =>
        /\ list # "absent" => OnDisk("main")
        /\ list = "vision" => OnDisk("side")

\* A vision model is registered as text only once its projector is past saving:
\* neither on disk nor on its way. A restart loses sight of the projector, and a
\* retry can find no context that waits for it; a move the device refused and a
\* cancel give it up.
VisionKept ==
    list = "text" =>
        \/ "side" \notin disk /\ native["side"] \notin {"running", "completed"}
        \/ faults \cap {"cancelled", "refusedMove", "early", "orphan", "sideless", "crash"} # {}

\* However many finalizations overlap, none takes back what another registered.
NeverDowngraded ==
    [][list = "vision" => list' = "vision" \/ faults \cap {"cancelled", "early"} # {}]_list

\* A transfer that is complete is registered or reported, unless the
\* user cancels it, its projector failed with nobody listening, or it was
\* retried without a context.
Settles == (native["main"] = "completed" /\ start = "done") ~>
               (list # "absent" \/ told # "" \/ faults \cap {"cancelled", "deaf", "orphan"} # {})

\* Said by the projector's error listener: "mmproj failure must NOT fail the
\* parent download", so that finalization "can proceed when the main GGUF
\* finishes". Expected to be violated: a projector that fails while its main file
\* waits for a slot has no listener yet, and the catch-up looks for completion.
FailedProjectorDoesNotHold ==
    (native["main"] = "completed" /\ start = "done") ~> (list # "absent" \/ told # "")
=============================================================================
