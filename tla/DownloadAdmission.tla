-------------------------- MODULE DownloadAdmission --------------------------
(***************************************************************************)
(* Admission control for model downloads: the JavaScript service           *)
(* backgroundDownloadService (slots, FIFO start queue, native promises and *)
(* events), the restore path that adopts transfers the native layer        *)
(* resumed by itself, and the native layer as the service sees it.         *)
(*                                                                         *)
(* A download is named by the number of the start that created it: the     *)
(* code's set activeIds holds a token `reserve:n' until the native start   *)
(* resolves and the native id afterwards; here `reserved' has the tokens   *)
(* and `activeIds' the native ids, and a start keeps its number in both.   *)
(*                                                                         *)
(* The JavaScript thread takes one message of `inbox' at a time (promise   *)
(* results and events, in the order the native main thread posted them)    *)
(* and runs its handler to the next await: one action of this module.      *)
(***************************************************************************)
EXTENDS Naturals, Sequences, FiniteSets

CONSTANTS
  ModelKey,       \* what keyFor() returns: one key per logical model
  MaxConcurrent,  \* MAX_CONCURRENT_DOWNLOADS
  MaxStarts,      \* bound: native starts in a behaviour
  MaxSidecars,    \* bound: how many of them are sidecars
  MaxControls,    \* bound: pauses, resumes and cancels in a behaviour
  MaxRetries,     \* bound: retries in a behaviour
  MaxReconciles,  \* bound: reconcile polls in a behaviour
  MaxRestores,    \* bound: returns to the foreground in a behaviour
  MaxKills,       \* bound: process deaths in a behaviour
  MaxCleanups,    \* bound: cleanup() calls in a behaviour
  MaxBacklog      \* bound: messages the JavaScript thread is behind

ASSUME BoundsAssumption ==
  /\ MaxConcurrent \in Nat \ {0}
  /\ MaxStarts \in Nat /\ MaxSidecars \in Nat /\ MaxControls \in Nat /\ MaxRetries \in Nat
  /\ MaxReconciles \in Nat /\ MaxRestores \in Nat /\ MaxKills \in Nat
  /\ MaxCleanups \in Nat /\ MaxBacklog \in Nat

Id == 1 .. MaxStarts

VARIABLES
  (* the service's memory, lost when the process dies *)
  reserved,    \* starts that hold a slot as a token, the native start pending
  activeIds,   \* native ids that hold a slot
  startQueue,  \* keys waiting for a slot, in FIFO order
  shutDown,    \* cleanup() has run
  entry,       \* download-store status of a started download
  watched,     \* starts with a backgroundDownloadContext
  calls,       \* native calls the JavaScript side awaits
  again,       \* those of which a second one awaits its turn
  inbox,       \* messages for the JavaScript thread
  poll,        \* getActiveDownloads() in progress, one per reader
  (* the native layer, which survives the process *)
  row,         \* status of the native record
  echo,        \* failures whose second DownloadError is still to be posted
  observed,    \* downloads with a WorkInfo observer (lost with the process)
  (* bookkeeping of the model *)
  startSeq,    \* starts so far
  sidecar,     \* starts made with isSidecar
  uncapped,    \* slots taken without comparing with the cap (retry, adopt)
  doubled,     \* downloads with a control asked again before it was answered
  used         \* how often each bounded step has happened

slots      == <<reserved, activeIds, startQueue, startSeq, uncapped>>
store      == <<entry, watched>>
nativeVars == <<row, echo, observed>>
repeats    == <<again, doubled>>
vars == <<slots, shutDown, store, calls, inbox, poll, nativeVars, sidecar, used, repeats>>

RowStatus   == {"none", "inserted", "live", "paused", "completed", "failed", "cancelled", "moved"}
EntryStatus == {"none", "active", "paused", "failed", "gone"}
CallOp      == {"start", "enqueue", "pause", "resume", "retry", "cancel", "move", "purge", "discard"}
Call        == [op : CallOp, id : Id]
Repeatable  == [op : {"pause", "resume", "retry", "cancel"}, id : Id]
Outcome     == {"started", "startFailed", "paused", "pauseFailed", "resumed", "resumeFailed",
                "retried", "retryFailed", "cancelled", "moveFailed", "purged",
                "complete", "error"}
Reader      == {"reconcile", "restore"}
Rows        == [Id -> RowStatus]
Message     == [what : Outcome, id : Id] \cup [what : Reader, seen : Rows]
Stage       == {"idle", "asked", "read", "posted", "scanned", "adopted"}
PollState   == [stage : Stage, seen : Rows]

NoRows == [i \in Id |-> "none"]
Idle   == [stage |-> "idle", seen |-> NoRows]

\* What a getActiveDownloads() result lists, and what restore makes of it.
Known(seen)    == {i \in Id : seen[i] \notin {"none", "cancelled", "moved"}}
InFlight(seen) == {i \in Id : seen[i] \in {"inserted", "live"}}
Restorable(seen) == {i \in Id : seen[i] \in {"inserted", "live", "paused", "completed"}}

Init ==
  /\ reserved = {} /\ activeIds = {} /\ startQueue = <<>> /\ startSeq = 0 /\ uncapped = {}
  /\ shutDown = FALSE
  /\ entry = [i \in Id |-> "none"] /\ watched = {}
  /\ calls = {} /\ inbox = <<>>
  /\ poll = [r \in Reader |-> Idle]
  /\ row = NoRows /\ echo = {} /\ observed = {}
  /\ sidecar = {} /\ again = {} /\ doubled = {}
  /\ used = [controls |-> 0, retries |-> 0, reconciles |-> 0, restores |-> 0,
             kills |-> 0, cleanups |-> 0]

-----------------------------------------------------------------------------
(* Slots and queue *)

\* activeIds.size: tokens and native ids count alike.
Taken(tokens, ids) == Cardinality(tokens) + Cardinality(ids)

Queued(k) == \E i \in 1 .. Len(startQueue) : startQueue[i] = k

\* How many queued starts the pump's loop admits when `taken' slots are taken.
Admissible(taken) ==
  LET free == IF taken < MaxConcurrent THEN MaxConcurrent - taken ELSE 0
  IN IF free < Len(startQueue) THEN free ELSE Len(startQueue)

\* Mutant of Pump: starts are taken from the tail of the queue.
PumpNewestFirst(tokens, ids, more) ==
  LET n   == Admissible(Taken(tokens, ids))
      new == (startSeq + 1) .. (startSeq + n)
  IN /\ reserved' = tokens \cup new
     /\ activeIds' = ids
     /\ startQueue' = SubSeq(startQueue, 1, Len(startQueue) - n)
     /\ startSeq' = startSeq + n
     /\ calls' = calls \cup more \cup [op : {"start"}, id : new]

\* pump(): with `tokens' and `ids' holding slots, admit from the head while one is free.
\* `more' are the native calls the same handler makes besides.
Pump(tokens, ids, more) ==
  LET n   == Admissible(Taken(tokens, ids))
      new == (startSeq + 1) .. (startSeq + n)
  IN /\ reserved' = tokens \cup new
     /\ activeIds' = ids
     /\ startQueue' = SubSeq(startQueue, n + 1, Len(startQueue))
     /\ startSeq' = startSeq + n
     /\ calls' = calls \cup more \cup [op : {"start"}, id : new]

\* Mutant of Release: the slot is freed, the pump forgotten.
ReleaseOnly(id, more) ==
  /\ activeIds' = activeIds \ {id} /\ uncapped' = uncapped \ {id}
  /\ calls' = calls \cup more
  /\ UNCHANGED <<reserved, startQueue, startSeq>>

\* release(): only an id that is in the set frees a slot and pumps.
Release(id, more) ==
  \/ /\ id \in activeIds
     /\ Pump(reserved, activeIds \ {id}, more)
     /\ uncapped' = uncapped \ {id}
  \/ /\ id \notin activeIds
     /\ calls' = calls \cup more
     /\ UNCHANGED slots

\* setStatus(): no effect on a download the store has no entry for.
SetStatus(id, s) ==
  entry' = [entry EXCEPT ![id] = IF @ \in {"none", "gone"} THEN @ ELSE s]

-----------------------------------------------------------------------------
(* Requests *)

Fresh == startSeq + Len(startQueue) < MaxStarts   \* bound: an id is left

\* Mutant of StartNow: starts whose native call is pending are not counted.
StartNowUnreserved ==
  /\ Fresh
  /\ Cardinality(activeIds) < MaxConcurrent
  /\ startSeq' = startSeq + 1
  /\ reserved' = reserved \cup {startSeq + 1}
  /\ calls' = calls \cup {[op |-> "start", id |-> startSeq + 1]}
  /\ UNCHANGED <<activeIds, startQueue, uncapped, shutDown, store, inbox, poll, nativeVars,
                 sidecar, used, repeats>>

\* beginDownload(): a start that reserves its slot before the first await.
StartNow ==
  /\ Fresh
  /\ Taken(reserved, activeIds) < MaxConcurrent
  /\ startSeq' = startSeq + 1
  /\ reserved' = reserved \cup {startSeq + 1}
  /\ calls' = calls \cup {[op |-> "start", id |-> startSeq + 1]}
  /\ UNCHANGED <<activeIds, startQueue, uncapped, shutDown, store, inbox, poll, nativeVars,
                 sidecar, used, repeats>>

\* startDownload() at the cap: queue the key, unless it is queued already (coalesced).
Enqueue(k) ==
  /\ Fresh
  /\ Taken(reserved, activeIds) >= MaxConcurrent
  /\ ~ Queued(k)
  /\ startQueue' = Append(startQueue, k)
  /\ UNCHANGED <<reserved, activeIds, startSeq, uncapped, shutDown, store, calls, inbox, poll,
                 nativeVars, sidecar, used, repeats>>

\* startDownload() of a sidecar: started at once, never counted.
StartSidecar ==
  /\ Fresh
  /\ Cardinality(sidecar) < MaxSidecars
  /\ startSeq' = startSeq + 1
  /\ sidecar' = sidecar \cup {startSeq + 1}
  /\ calls' = calls \cup {[op |-> "start", id |-> startSeq + 1]}
  /\ UNCHANGED <<reserved, activeIds, startQueue, uncapped, shutDown, store, inbox, poll,
                 nativeVars, used, repeats>>

\* cancelQueued(): the start leaves the queue and its promise is rejected.
CancelQueued(k) ==
  /\ \E i \in 1 .. Len(startQueue) :
       /\ startQueue[i] = k
       /\ startQueue' = SubSeq(startQueue, 1, i - 1)
                         \o SubSeq(startQueue, i + 1, Len(startQueue))
  /\ UNCHANGED <<reserved, activeIds, startSeq, uncapped, shutDown, store, calls, inbox, poll,
                 nativeVars, sidecar, used, repeats>>

InInbox(what, id) ==
  \E i \in 1 .. Len(inbox) : inbox[i].what \in what /\ inbox[i].id = id

\* A control operation offered for an entry in state `shown': nothing keeps a user from
\* asking again before the answer to the last one of its kind has arrived.
Ask(op, id, shown, answers) ==
  LET call == [op |-> op, id |-> id] IN
  /\ entry[id] \in shown
  /\ call \notin again   \* bound: a control is pending at most twice
  /\ calls' = calls \cup {call}
  /\ again' = IF call \in calls THEN again \cup {call} ELSE again
  /\ doubled' = IF call \in calls \/ InInbox(answers, id) THEN doubled \cup {id} ELSE doubled

Control(op, id, shown, answers) ==
  /\ used.controls < MaxControls
  /\ used' = [used EXCEPT !.controls = @ + 1]
  /\ Ask(op, id, shown, answers)

PauseDownload(id) ==
  /\ Control("pause", id, {"active"}, {"paused", "pauseFailed"})
  /\ UNCHANGED <<slots, shutDown, store, inbox, poll, nativeVars, sidecar>>

\* resumeDownload(): refused at the cap; the slot is taken before the native call.
ResumeDownload(id) ==
  /\ Control("resume", id, {"paused"}, {"resumed", "resumeFailed"})
  /\ id \in activeIds \/ Taken(reserved, activeIds) < MaxConcurrent
  /\ activeIds' = activeIds \cup {id}
  /\ UNCHANGED <<reserved, startQueue, startSeq, uncapped, shutDown, store, inbox, poll,
                 nativeVars, sidecar>>

\* retryDownload(): the provider marks the entry pending, then awaits the native retry.
RetryDownload(id) ==
  /\ used.retries < MaxRetries
  /\ Ask("retry", id, {"failed"}, {"retried", "retryFailed"})
  /\ entry' = [entry EXCEPT ![id] = "active"]
  /\ used' = [used EXCEPT !.retries = @ + 1]
  /\ UNCHANGED <<slots, shutDown, watched, inbox, poll, nativeVars, sidecar>>

CancelDownload(id) ==
  /\ Control("cancel", id, {"active", "paused", "failed"}, {"cancelled"})
  /\ UNCHANGED <<slots, shutDown, store, inbox, poll, nativeVars, sidecar>>

\* reconcileActiveIds(): nothing to do, hence no read, when no slot is taken.
StartReconcile ==
  /\ used.reconciles < MaxReconciles
  /\ Taken(reserved, activeIds) > 0
  /\ poll["reconcile"].stage = "idle"
  /\ poll' = [poll EXCEPT !["reconcile"].stage = "asked"]
  /\ used' = [used EXCEPT !.reconciles = @ + 1]
  /\ UNCHANGED <<slots, shutDown, store, calls, inbox, nativeVars, sidecar, repeats>>

\* The app returns to the foreground: hydrate the store and restore again.
StartRestore ==
  /\ used.restores < MaxRestores
  /\ poll["restore"].stage = "idle"
  /\ poll' = [poll EXCEPT !["restore"].stage = "asked"]
  /\ used' = [used EXCEPT !.restores = @ + 1]
  /\ UNCHANGED <<slots, shutDown, store, calls, inbox, nativeVars, sidecar, repeats>>

\* cleanup(): listeners, queue and slots are dropped for good.
Cleanup ==
  /\ used.cleanups < MaxCleanups
  /\ used' = [used EXCEPT !.cleanups = @ + 1]
  /\ shutDown' = TRUE
  /\ reserved' = {} /\ activeIds' = {} /\ startQueue' = <<>> /\ uncapped' = {}
  /\ UNCHANGED <<startSeq, store, calls, inbox, poll, nativeVars, sidecar, repeats>>

-----------------------------------------------------------------------------
(* Native layer: the calls the service awaits *)

Serve(op, id) ==
  /\ [op |-> op, id |-> id] \in calls
  /\ calls' = calls \ {[op |-> op, id |-> id]}
  /\ UNCHANGED again

\* A control: the second one of its kind stays.
ServeControl(op, id) ==
  LET call == [op |-> op, id |-> id] IN
  /\ call \in calls
  /\ calls' = IF call \in again THEN calls ELSE calls \ {call}
  /\ again' = again \ {call}

Post(what, id) ==
  /\ Len(inbox) < MaxBacklog
  /\ inbox' = Append(inbox, [what |-> what, id |-> id])

SetRow(id, s) == row' = [row EXCEPT ![id] = s]

serviceVars == <<slots, shutDown, store, poll, sidecar, used, doubled>>   \* native steps leave these

\* startDownload: the row is inserted first ...
NativeInsert(id) ==
  /\ [op |-> "start", id |-> id] \in calls
  /\ calls' = (calls \ {[op |-> "start", id |-> id]}) \cup {[op |-> "enqueue", id |-> id]}
  /\ SetRow(id, "inserted")
  /\ UNCHANGED <<serviceVars, again, inbox, echo, observed>>

\* ... then observer and work are registered and the promise resolves.
NativeEnqueue(id) ==
  /\ Serve("enqueue", id)
  /\ SetRow(id, "live")
  /\ observed' = observed \cup {id}
  /\ Post("started", id)
  /\ UNCHANGED <<serviceVars, echo>>

\* Rejected before the insert (bad host, bad arguments) or by an exception after it.
NativeStartFails(id) ==
  /\ Serve("start", id) \/ Serve("enqueue", id)
  /\ Post("startFailed", id)
  /\ UNCHANGED <<serviceVars, nativeVars>>

\* Pause and resume are rejected if the row's status does not fit, or by an exception.
NativePause(id) ==
  /\ ServeControl("pause", id)
  /\ \/ /\ row[id] \in {"inserted", "live"}
        /\ SetRow(id, "paused") /\ observed' = observed \ {id} /\ Post("paused", id)
     \/ UNCHANGED <<row, observed>> /\ Post("pauseFailed", id)
  /\ UNCHANGED <<serviceVars, echo>>

NativeResume(id) ==
  /\ ServeControl("resume", id)
  /\ \/ /\ row[id] = "paused"
        /\ SetRow(id, "live") /\ observed' = observed \cup {id} /\ Post("resumed", id)
     \/ UNCHANGED <<row, observed>> /\ Post("resumeFailed", id)
  /\ UNCHANGED <<serviceVars, echo>>

NativeRetry(id) ==
  /\ ServeControl("retry", id)
  /\ row[id] = "failed"
  /\ SetRow(id, "live") /\ observed' = observed \cup {id}
  /\ Post("retried", id)
  /\ UNCHANGED <<serviceVars, echo>>

\* No network, or the row is not in a failed state.
NativeRetryFails(id) ==
  /\ ServeControl("retry", id)
  /\ Post("retryFailed", id)
  /\ UNCHANGED <<serviceVars, nativeVars>>

\* cancelDownload, for a user's cancel, a purge, or a start that outlived cleanup().
NativeCancel(id) ==
  /\ \/ ServeControl("cancel", id) /\ Post("cancelled", id)
     \/ Serve("purge", id) /\ Post("purged", id)
     \/ Serve("discard", id) /\ UNCHANGED inbox
  /\ SetRow(id, IF row[id] \in {"none", "moved"} THEN row[id] ELSE "cancelled")
  /\ observed' = observed \ {id}
  /\ UNCHANGED <<serviceVars, echo>>

\* moveCompletedDownload: the row is deleted once the file is in place.
NativeMove(id) ==
  /\ Serve("move", id)
  /\ \/ row[id] = "completed" /\ SetRow(id, "moved") /\ UNCHANGED inbox
     \/ UNCHANGED row /\ Post("moveFailed", id)
  /\ UNCHANGED <<serviceVars, echo, observed>>

-----------------------------------------------------------------------------
(* Native layer: transfers, events, reads *)

\* The worker finishes; only an observer turns that into a DownloadComplete.
TransferComplete(id) ==
  /\ row[id] = "live"
  /\ SetRow(id, "completed")
  /\ observed' = observed \ {id}
  /\ IF id \in observed THEN Post("complete", id) ELSE UNCHANGED inbox
  /\ UNCHANGED <<serviceVars, calls, again, echo>>

\* The worker fails and posts its DownloadError; the observer still has to.
TransferFail(id) ==
  /\ row[id] = "live"
  /\ SetRow(id, "failed")
  /\ Post("error", id)
  /\ echo' = IF id \in observed THEN echo \cup {id} ELSE echo
  /\ UNCHANGED <<serviceVars, calls, again, observed>>

\* The observer's own DownloadError, after a suspended read; then it removes
\* whatever observer the download has by now.
EchoError(id) ==
  /\ id \in echo
  /\ echo' = echo \ {id}
  /\ observed' = observed \ {id}
  /\ Post("error", id)
  /\ UNCHANGED <<serviceVars, calls, again, row>>

PollVars == <<slots, shutDown, store, sidecar, used, calls, nativeVars, repeats>>

\* getActiveDownloads: the rows are read on a worker thread ...
ReadRows(r) ==
  /\ poll[r].stage = "asked"
  /\ poll' = [poll EXCEPT ![r] = [stage |-> "read", seen |-> row]]
  /\ UNCHANGED <<PollVars, inbox>>

\* ... and the promise resolves when the coroutine is back on the main thread.
PostRows(r) ==
  /\ poll[r].stage = "read"
  /\ poll' = [poll EXCEPT ![r] = [Idle EXCEPT !.stage = "posted"]]
  /\ Len(inbox) < MaxBacklog
  /\ inbox' = Append(inbox, [what |-> r, seen |-> poll[r].seen])
  /\ UNCHANGED PollVars

\* startProgressPolling: observe the transfers nobody observes.
NativeObserve ==
  /\ poll["restore"].stage = "adopted"
  /\ poll' = [poll EXCEPT !["restore"] = Idle]
  /\ observed' = observed \cup InFlight(row)
  /\ UNCHANGED <<slots, shutDown, store, calls, inbox, row, echo, sidecar, used, repeats>>

-----------------------------------------------------------------------------
(* JavaScript: promise results and events, one message at a time *)

Take(what, id) ==
  /\ inbox # <<>>
  /\ Head(inbox).what = what
  /\ Head(inbox).id = id
  /\ inbox' = Tail(inbox)

TakeRows(r) == inbox # <<>> /\ Head(inbox).what = r /\ inbox' = Tail(inbox)

otherVars == <<poll, nativeVars, sidecar, used, repeats>>   \* most handlers leave these

\* Mutant of OnStarted: the id is added and the token kept.
OnStartedTwice(id) ==
  /\ Take("started", id)
  /\ activeIds' = IF id \in sidecar THEN activeIds ELSE activeIds \cup {id}
  /\ entry' = [entry EXCEPT ![id] = "active"]
  /\ watched' = IF id \in sidecar THEN watched ELSE watched \cup {id}
  /\ UNCHANGED <<reserved, calls, startQueue, startSeq, uncapped, shutDown, otherVars>>

\* Mutant of OnStarted: the token goes and the id is not added.
OnStartedUncounted(id) ==
  /\ Take("started", id)
  /\ reserved' = reserved \ {id}
  /\ entry' = [entry EXCEPT ![id] = "active"]
  /\ watched' = IF id \in sidecar THEN watched ELSE watched \cup {id}
  /\ UNCHANGED <<activeIds, calls, startQueue, startSeq, uncapped, shutDown, otherVars>>

\* beginDownload() resumes: the token becomes the id, unless cleanup() ran meanwhile.
\* A sidecar's start has no token and is not recorded.
OnStarted(id) ==
  /\ Take("started", id)
  /\ reserved' = reserved \ {id}
  /\ IF shutDown /\ id \notin sidecar
     THEN /\ calls' = calls \cup {[op |-> "discard", id |-> id]}
          /\ UNCHANGED <<activeIds, store>>
     ELSE /\ activeIds' = IF id \in sidecar THEN activeIds ELSE activeIds \cup {id}
          /\ entry' = [entry EXCEPT ![id] = "active"]
          /\ watched' = IF id \in sidecar THEN watched ELSE watched \cup {id}
          /\ UNCHANGED calls
  /\ UNCHANGED <<startQueue, startSeq, uncapped, shutDown, otherVars>>

\* The native start was rejected: a counted start frees its token and pumps.
OnStartFailed(id) ==
  /\ Take("startFailed", id)
  /\ IF id \in sidecar
     THEN UNCHANGED <<reserved, activeIds, startQueue, startSeq, calls>>
     ELSE Pump(reserved \ {id}, activeIds, {})
  /\ UNCHANGED <<uncapped, shutDown, store, otherVars>>

\* DownloadComplete: free the slot; the finalizer of a watched download moves the file.
OnComplete(id) ==
  /\ Take("complete", id)
  /\ IF shutDown
     THEN UNCHANGED <<slots, calls, store>>
     ELSE /\ Release(id, IF id \in watched \cup sidecar
                         THEN {[op |-> "move", id |-> id]} ELSE {})
          /\ SetStatus(id, "gone")
          /\ watched' = watched \ {id}
  /\ UNCHANGED <<shutDown, otherVars>>

\* DownloadError: free the slot, mark the download failed.
OnError(id) ==
  /\ Take("error", id)
  /\ IF shutDown
     THEN UNCHANGED <<slots, calls, entry>>
     ELSE Release(id, {}) /\ SetStatus(id, "failed")
  /\ UNCHANGED <<shutDown, watched, otherVars>>

OnPaused(id) ==
  /\ Take("paused", id)
  /\ Release(id, {})
  /\ SetStatus(id, "paused")
  /\ UNCHANGED <<shutDown, watched, otherVars>>

OnResumed(id) ==
  /\ Take("resumed", id)
  /\ SetStatus(id, "active")
  /\ UNCHANGED <<slots, calls, shutDown, watched, otherVars>>

\* Mutant of OnResumeFailed: the slot taken before the native call is kept.
OnResumeFailedKept(id) ==
  /\ Take("resumeFailed", id)
  /\ UNCHANGED <<slots, calls, shutDown, store, otherVars>>

\* The native resume was rejected: the slot is given back.
OnResumeFailed(id) ==
  /\ Take("resumeFailed", id)
  /\ Release(id, {})
  /\ UNCHANGED <<shutDown, store, otherVars>>

\* retryDownload() resumes: the slot is taken again, without looking at the cap.
OnRetried(id) ==
  /\ Take("retried", id)
  /\ activeIds' = activeIds \cup {id}
  /\ uncapped' = uncapped \cup ({id} \ activeIds)
  /\ UNCHANGED <<reserved, startQueue, startSeq, calls, shutDown, store, otherVars>>

OnRetryFailed(id) ==
  /\ Take("retryFailed", id)
  /\ SetStatus(id, "failed")
  /\ UNCHANGED <<slots, calls, shutDown, watched, otherVars>>

OnPauseFailed(id) ==
  /\ Take("pauseFailed", id)
  /\ UNCHANGED <<slots, calls, shutDown, store, otherVars>>

\* cancelDownload() resumes: free the slot, dispatch a synthetic error, drop the entry.
OnCancelled(id) ==
  /\ Take("cancelled", id)
  /\ Release(id, {})
  /\ SetStatus(id, "gone")
  /\ UNCHANGED <<shutDown, watched, otherVars>>

OnPurged(id) ==
  /\ Take("purged", id)
  /\ Release(id, {})
  /\ UNCHANGED <<shutDown, store, otherVars>>

\* The move was rejected: if the file is on disk already the record is purged.
OnMoveFailed(id) ==
  /\ Take("moveFailed", id)
  /\ \/ calls' = calls \cup {[op |-> "purge", id |-> id]}
     \/ UNCHANGED calls
  /\ UNCHANGED <<slots, shutDown, store, otherVars>>

\* Mutant of OnReconcile: dead ids are dropped and the queue is not pumped.
OnReconcileNoPump ==
  /\ TakeRows("reconcile")
  /\ activeIds' = activeIds \cap Known(Head(inbox).seen)
  /\ uncapped' = uncapped \cap Known(Head(inbox).seen)
  /\ poll' = [poll EXCEPT !["reconcile"] = Idle]
  /\ UNCHANGED <<reserved, startQueue, startSeq, calls, shutDown, store, nativeVars, sidecar, used,
                 repeats>>

\* reconcileActiveIds() resumes: ids the read does not list lose their slots.
OnReconcile ==
  /\ TakeRows("reconcile")
  /\ LET kept == activeIds \cap Known(Head(inbox).seen) IN
     \/ /\ kept # activeIds
        /\ Pump(reserved, kept, {})
        /\ uncapped' = uncapped \cap kept
     \/ /\ kept = activeIds
        /\ UNCHANGED <<slots, calls>>
  /\ poll' = [poll EXCEPT !["reconcile"] = Idle]
  /\ UNCHANGED <<shutDown, store, nativeVars, sidecar, used, repeats>>

\* What hydrateDownloadStore() makes of an entry: the row's status, or failed if
\* the entry was active and its row is gone.
Hydrated(shown, seen) ==
  CASE seen \in {"inserted", "live"} -> "active"
    [] seen \in {"paused", "failed"} -> seen
    [] OTHER -> IF shown = "active" THEN "failed"
                ELSE IF shown = "none" THEN "none" ELSE "gone"

\* The restore scan: downloads without a context get one, finished ones are
\* finalized.  (hydrateDownloadStore() reads the rows just before; here both use
\* one read.)
OnRestore ==
  /\ TakeRows("restore")
  /\ LET seen == Head(inbox).seen
         found == Restorable(seen) \ (sidecar \cup watched)
         done == {i \in found : seen[i] = "completed"}
     IN /\ entry' = [i \in Id |-> Hydrated(entry[i], seen[i])]
        /\ watched' = watched \cup (found \ done)
        /\ calls' = calls \cup [op : {"move"}, id : done]
        /\ poll' = [poll EXCEPT !["restore"] =
                      [stage |-> "scanned",
                       seen |-> [i \in Id |-> IF i \in found THEN seen[i] ELSE "none"]]]
  /\ UNCHANGED <<slots, shutDown, nativeVars, sidecar, used, repeats>>

\* adoptActive(), after the awaits of the scan; then event polling is started.
AdoptActive ==
  /\ poll["restore"].stage = "scanned"
  /\ LET ids == InFlight(poll["restore"].seen) IN
     /\ activeIds' = activeIds \cup ids
     /\ uncapped' = uncapped \cup (ids \ activeIds)
  /\ poll' = [poll EXCEPT !["restore"] = [Idle EXCEPT !.stage = "adopted"]]
  /\ UNCHANGED <<reserved, startQueue, startSeq, shutDown, store, calls, inbox, nativeVars,
                 sidecar, used, repeats>>

-----------------------------------------------------------------------------
\* The process dies and is launched again: the native records and the worker
\* survive, everything else is gone; the launch begins with a restore.
Kill ==
  /\ used.kills < MaxKills
  /\ used' = [used EXCEPT !.kills = @ + 1]
  /\ reserved' = {} /\ activeIds' = {} /\ startQueue' = <<>> /\ uncapped' = {}
  /\ shutDown' = FALSE
  /\ entry' = [i \in Id |-> "none"] /\ watched' = {}
  /\ calls' = {} /\ inbox' = <<>> /\ again' = {} /\ doubled' = {}
  /\ poll' = [poll EXCEPT !["reconcile"] = Idle, !["restore"] = [Idle EXCEPT !.stage = "asked"]]
  /\ echo' = {} /\ observed' = {}
  /\ UNCHANGED <<row, startSeq, sidecar>>

User ==
  \/ \E k \in ModelKey : Enqueue(k) \/ CancelQueued(k)
  \/ StartNow \/ StartSidecar
  \/ \E id \in Id : PauseDownload(id) \/ ResumeDownload(id) \/ RetryDownload(id)
                    \/ CancelDownload(id)
  \/ StartReconcile \/ StartRestore

\* The native main thread working on `id'.
Native(id) ==
  \/ NativeInsert(id) \/ NativeEnqueue(id) \/ NativeStartFails(id)
  \/ NativePause(id) \/ NativeResume(id)
  \/ NativeRetry(id) \/ NativeRetryFails(id)
  \/ NativeCancel(id) \/ NativeMove(id)

Transfer(id) == TransferComplete(id) \/ TransferFail(id)

Reads == (\E r \in Reader : ReadRows(r) \/ PostRows(r)) \/ NativeObserve

JavaScript ==
  \/ \E id \in Id :
       \/ OnStarted(id) \/ OnStartFailed(id) \/ OnComplete(id) \/ OnError(id)
       \/ OnPaused(id) \/ OnPauseFailed(id) \/ OnResumed(id) \/ OnResumeFailed(id)
       \/ OnRetried(id) \/ OnRetryFailed(id)
       \/ OnCancelled(id) \/ OnPurged(id) \/ OnMoveFailed(id)
  \/ OnReconcile \/ OnRestore

Next ==
  \/ User \/ Cleanup
  \/ \E id \in Id : Native(id) \/ Transfer(id) \/ EchoError(id)
  \/ Reads \/ JavaScript \/ AdoptActive
  \/ Kill

Spec == Init /\ [][Next]_vars

\* Both threads run, transfers end and suspended reads resume; a user need not act.
Fairness ==
  /\ WF_vars(JavaScript) /\ WF_vars(AdoptActive) /\ WF_vars(Reads)
  /\ \A id \in Id : WF_vars(Native(id)) /\ WF_vars(Transfer(id)) /\ WF_vars(EchoError(id))

FairSpec == Spec /\ Fairness

-----------------------------------------------------------------------------
(* Properties *)

\* Slots belong to starts that were made, and a queued key is queued once.
SlotsOK ==
  /\ reserved \subseteq Id /\ activeIds \subseteq Id /\ uncapped \subseteq activeIds
  /\ startQueue \in Seq(ModelKey)
  /\ \A i, j \in 1 .. Len(startQueue) : startQueue[i] = startQueue[j] => i = j
  /\ startSeq \in Nat /\ startSeq + Len(startQueue) <= MaxStarts

StoreOK ==
  /\ shutDown \in BOOLEAN
  /\ entry \in [Id -> EntryStatus] /\ watched \subseteq Id /\ sidecar \subseteq Id
  /\ row \in Rows /\ echo \subseteq Id /\ observed \subseteq Id
  /\ used \in [controls : Nat, retries : Nat, reconciles : Nat, restores : Nat,
                kills : Nat, cleanups : Nat]

BridgeOK ==
  /\ calls \subseteq Call
  /\ inbox \in Seq(Message)
  /\ poll \in [Reader -> PollState]

RepeatsOK == again \subseteq Repeatable /\ doubled \subseteq Id

\* Every variable stays in its range; a queued key is there once, as
\* startDownload() promises by coalescing a double tap.
TypeOK == SlotsOK /\ StoreOK /\ BridgeOK /\ RepeatsOK

\* No start waits while a slot is free: every path that frees a slot pumps
\* (release, a failed start, reconcile).  The answer to a start that a restore has
\* adopted meanwhile frees one and does not: this is checked without restores.
WorkConserving ==
  startQueue # <<>> /\ ~ shutDown => Taken(reserved, activeIds) >= MaxConcurrent

\* Slots taken by comparing with the cap never exceed it: the slot is reserved
\* before the first await, so no burst of requests or of pumped starts and no
\* resume racing them over-admits.  (A retry and a restore do not compare.)
CapOnAdmission ==
  Taken(reserved, activeIds \ uncapped) <= MaxConcurrent

CallFor(ops, id) == \E op \in ops : [op |-> op, id |-> id] \in calls

\* A slot is never lost: whoever holds one is running under an observer that will
\* report its end, or an answer that releases it is on the way.
NoLeakedSlot ==
  ~ shutDown =>
    /\ \A id \in reserved :
         CallFor({"start", "enqueue"}, id) \/ InInbox({"started", "startFailed"}, id)
    /\ \A id \in activeIds :
         \/ row[id] = "live" /\ id \in observed
         \/ CallFor({"enqueue", "resume", "cancel", "purge"}, id)
         \/ InInbox({"complete", "error", "paused", "resumeFailed", "cancelled", "purged"}, id)

Mains == Id \ sidecar

\* A main transfer the native layer runs, with nothing about it in flight, holds a
\* slot: it counts against the cap and its end admits the next start.  Excused are the
\* downloads of which a control was asked again before it was answered: the second
\* resume of a double tap is rejected and gives the running transfer's slot away.
EveryTransferCounted ==
  ~ shutDown =>
    \A id \in Mains \ doubled :
      row[id] = "live" /\ ~ CallFor(CallOp, id) /\ ~ InInbox(Outcome, id) => id \in activeIds

\* The native layer never runs more main transfers at once than the cap, those with a
\* control asked twice not counted.
NativeLoadWithinCap ==
  ~ shutDown => Cardinality({id \in Mains \ doubled : row[id] = "live"}) <= MaxConcurrent

\* What the comment on the cap says, "the native store never holds more than this",
\* whatever was tapped twice: the native layer never runs more main transfers.
NeverHoldsMore ==
  ~ shutDown => Cardinality({id \in Mains : row[id] = "live"}) <= MaxConcurrent

\* A sidecar never occupies a concurrency slot.
SidecarRidesFree == activeIds \cap sidecar = {}

\* A start that waits is admitted, cancelled or dropped by cleanup: the queue is
\* never stuck behind slots nobody gives back.
QueueDrains == \A k \in ModelKey : Queued(k) ~> ~ Queued(k)

\* What the queue promises to its callers.
Semaphore == INSTANCE FifoSemaphore WITH
  Waiter <- ModelKey, Permits <- MaxConcurrent,
  waiting <- startQueue, held <- Taken(reserved, activeIds),
  granted <- startSeq - Cardinality(sidecar), open <- ~ shutDown

FirstComeFirstServed == Semaphore!Spec

=============================================================================
