---------------------------- MODULE DownloadWorker ----------------------------
(***************************************************************************)
(* One download in the Android native layer: its Room row, its partial     *)
(* file, its unique work in WorkManager, the coroutines that carry out the *)
(* user's controls, the worker's runs, and the WorkInfo observer.          *)
(*                                                                         *)
(* Controls run on the main thread and suspend for every access to the     *)
(* row; the worker runs on threads of its own; WorkManager applies the     *)
(* requests it was given one after the other on its own thread; and the    *)
(* row has no lock.  A run that was stopped goes on until it notices, so   *)
(* the next run may start before it has ended.                             *)
(*                                                                         *)
(* The file is a sequence of blocks; block b is right at position b.       *)
(***************************************************************************)
EXTENDS Naturals, Sequences

CONSTANTS
  Total,       \* blocks of the whole file
  MaxAttempts, \* MAX_TRANSIENT_RETRIES
  MaxRuns,     \* bound: runs of the worker
  MaxDisturbances \* bound: pauses, retries, cancels, stops by the system, process deaths

ASSUME WorkerBounds ==
  /\ Total \in Nat \ {0} /\ MaxRuns \in Nat \ {0} /\ MaxAttempts \in Nat
  /\ MaxDisturbances \in Nat

Run == 1 .. MaxRuns

VARIABLES
  row,      \* status in the downloads table, "none" if there is no row
  file,     \* the file: its identity and its blocks
  work,     \* WorkManager's record: state, current run, runs it has begun (its
            \* runAttemptCount is one less while a run is under way)
  requests, \* enqueue and cancel requests WorkManager has not applied yet
  worker,   \* the runs of the worker
  begun,    \* runs so far
  ctl,      \* how far the coroutine of each control has come
  obs,      \* the WorkInfo observer: the state it last saw, what it must wait for
  reports,  \* coroutines the observer launched, by the state they will report
  polling,  \* startProgressPolling() is under way
  shown,    \* the status JavaScript shows
  told,     \* whether a DownloadError was posted since the user last retried, or a
            \* stop cancelled a run between its failed row and the event
  overlap,  \* some run began before an earlier one had ended
  used      \* how often each bounded step has happened

native == <<row, file, work, requests, worker, begun>>
bridge == <<ctl, obs, reports, polling, shown, told>>
vars   == <<native, bridge, overlap, used>>

Control == {"start", "pause", "resume", "retry", "cancel"}
NoRun == [at |-> "none", stopped |-> FALSE, next |-> 1, count |-> 0, held |-> <<>>,
          append |-> FALSE, handle |-> 0, result |-> "none"]
Ended == [NoRun EXCEPT !.at = "ended"]
NoReports == [s \in {"enqueued", "running", "succeeded", "failed", "cancelled"} |-> 0]
NoObserver == [on |-> FALSE, seen |-> "unset", after |-> 0]

Init ==
  /\ row = "none" /\ file = [no |-> 1, blocks |-> <<>>]
  /\ work = [state |-> "none", run |-> 0, attempt |-> 0] /\ requests = <<>>
  /\ worker = [r \in Run |-> NoRun] /\ begun = 0
  /\ ctl = [c \in Control |-> IF c = "start" THEN "asked" ELSE "idle"]
  /\ obs = NoObserver /\ reports = NoReports
  /\ polling = FALSE /\ shown = "none" /\ told = "no"
  /\ overlap = FALSE
  /\ used = [pause |-> 0, retry |-> 0, cancel |-> 0, stop |-> 0, kill |-> 0]

\* One more disturbance; a resume is not one, it needs a pause before it.
Disturb(kind) ==
  /\ used.pause + used.retry + used.cancel + used.stop + used.kill < MaxDisturbances
  /\ used' = [used EXCEPT ![kind] = @ + 1]

-----------------------------------------------------------------------------
(* The row, the file, the observer *)

\* An UPDATE changes nothing if the row is gone.
Update(s) == row' = IF row = "none" THEN "none" ELSE s

\* A stream that is open on a deleted file writes to nothing anyone sees.
Deleted ==
  [no |-> IF \E r \in Run : worker[r].handle = file.no THEN file.no + 1 ELSE file.no,
   blocks |-> <<>>]

\* What `new' makes of the blocks: appended, or written at the stream's own position.
Written(blocks, w, new) ==
  LET pos == w.count - Len(w.held)
      end == pos + Len(new)
  IN IF w.append THEN blocks \o new
     ELSE [i \in 1 .. (IF end > Len(blocks) THEN end ELSE Len(blocks)) |->
             IF i > pos /\ i <= end THEN new[i - pos]
             ELSE IF i <= Len(blocks) THEN blocks[i] ELSE 0]

\* The stream writes what it holds and `new'; nobody sees it if the file was deleted.
Flush(w, new) ==
  file' = IF w.handle = file.no THEN [file EXCEPT !.blocks = Written(@, w, w.held \o new)]
          ELSE file

\* registerObserver(): the first state it is shown is read after the requests before it.
Registered(before) == [on |-> TRUE, seen |-> "unset", after |-> before]

\* What JavaScript shows when an event arrives: nothing for a download it removed.
Show(s) == shown' = IF shown = "gone" THEN shown ELSE s

-----------------------------------------------------------------------------
(* Controls *)

OfferedFor == [pause |-> {"active"}, resume |-> {"paused"}, retry |-> {"failed"},
               cancel |-> {"active", "paused", "failed"}]

\* The user asks for a control the shown status offers.
Ask(c) ==
  /\ IF c = "resume" THEN UNCHANGED used ELSE Disturb(c)
  /\ ctl[c] = "idle" /\ shown \in OfferedFor[c]
  /\ ctl' = [ctl EXCEPT ![c] = "asked"]
  /\ shown' = IF c = "retry" THEN "active" ELSE shown
  /\ UNCHANGED <<native, obs, reports, polling, told, overlap>>

Allowed == [pause |-> {"running", "queued"}, resume |-> {"paused"}, retry |-> {"failed"}]

\* The row is read on another thread; a control that does not fit it is rejected.
Read(c) ==
  /\ ctl[c] = "asked"
  /\ \/ row \in Allowed[c] /\ ctl' = [ctl EXCEPT ![c] = "read"] /\ UNCHANGED shown
     \/ /\ row \notin Allowed[c]
        /\ ctl' = [ctl EXCEPT ![c] = "idle"]
        /\ IF c = "retry" THEN Show("failed") ELSE UNCHANGED shown
  /\ UNCHANGED <<native, obs, reports, polling, told, overlap, used>>

\* startDownload: insertDownload().
InsertRow ==
  /\ ctl["start"] = "asked"
  /\ row' = "queued" /\ ctl' = [ctl EXCEPT !["start"] = "written"]
  /\ UNCHANGED <<file, work, requests, worker, begun, obs, reports, polling, shown, told,
                 overlap, used>>

\* updateStatus() of a control, on the strength of the row read before.
WriteRow(c) ==
  /\ ctl[c] = "read"
  /\ Update(IF c = "pause" THEN "paused" ELSE "queued")
  /\ told' = IF c = "retry" THEN "no" ELSE told
  /\ ctl' = [ctl EXCEPT ![c] = "written"]
  /\ UNCHANGED <<file, work, requests, worker, begun, obs, reports, polling, shown,
                 overlap, used>>

\* cancelDownload: status and file in one block, whatever the row says.
WriteCancel ==
  /\ ctl["cancel"] = "asked"
  /\ Update("cancelled") /\ file' = IF row = "none" THEN file ELSE Deleted
  /\ ctl' = [ctl EXCEPT !["cancel"] = "written"]
  /\ UNCHANGED <<work, requests, worker, begun, obs, reports, polling, shown, told,
                 overlap, used>>

Resolve(c, s) ==
  /\ ctl[c] = "written"
  /\ ctl' = [ctl EXCEPT ![c] = "idle"]
  /\ shown' = s
  /\ UNCHANGED <<row, file, work, worker, begun, reports, polling, told, overlap, used>>

\* Mutant: nobody observes the work.
FinishStartUnobserved ==
  /\ Resolve("start", "active")
  /\ UNCHANGED obs
  /\ requests' = Append(requests, "enqueue")

\* startDownload: the observer, then the work.
FinishStart ==
  /\ Resolve("start", "active")
  /\ obs' = Registered(Len(requests))
  /\ requests' = Append(requests, "enqueue")

\* resumeDownload and retryDownload: the work, then the observer, so that what it is
\* shown first is not the state of the previous run.
FinishResume(c) ==
  /\ c \in {"resume", "retry"} /\ Resolve(c, IF shown = "gone" THEN "gone" ELSE "active")
  /\ requests' = Append(requests, "enqueue")
  /\ obs' = Registered(Len(requests) + 1)

\* pauseDownload: the observer goes before the work is cancelled.
FinishPause ==
  /\ Resolve("pause", IF shown = "gone" THEN "gone" ELSE "paused")
  /\ obs' = NoObserver
  /\ requests' = Append(requests, "cancel")

FinishCancel ==
  /\ Resolve("cancel", "gone")
  /\ obs' = NoObserver
  /\ requests' = Append(requests, "prune")

\* moveCompletedDownload, once JavaScript was told: the row is deleted.
MoveCompleted ==
  /\ shown = "done" /\ row # "none"
  /\ row' = "none" /\ shown' = "gone"
  /\ UNCHANGED <<file, work, requests, worker, begun, ctl, obs, reports, polling, told,
                 overlap, used>>

-----------------------------------------------------------------------------
(* WorkManager *)

Stopped(r) == IF r = 0 THEN worker ELSE [worker EXCEPT ![r].stopped = TRUE]

\* Requests are applied in order; each ends the current run.
ApplyRequest ==
  /\ requests # <<>>
  /\ requests' = Tail(requests)
  /\ worker' = Stopped(work.run)
  /\ work' = CASE Head(requests) = "enqueue" -> [state |-> "enqueued", run |-> 0, attempt |-> 0]
             [] Head(requests) = "cancel" /\ work.state \in {"enqueued", "running"} ->
                  [work EXCEPT !.state = "cancelled", !.run = 0]
             [] Head(requests) = "prune" -> [work EXCEPT !.state = "none", !.run = 0]
             [] OTHER -> work
  /\ obs' = IF obs.after > 0 THEN [obs EXCEPT !.after = @ - 1] ELSE obs
  /\ UNCHANGED <<row, file, begun, ctl, reports, polling, shown, told, overlap, used>>

Alive(r) == worker[r].at \notin {"none", "ended"}

\* A run of the enqueued work begins, even if a stopped one has not ended.
Begin ==
  /\ work.state = "enqueued" /\ begun < MaxRuns
  /\ begun' = begun + 1
  /\ work' = [state |-> "running", run |-> begun + 1, attempt |-> work.attempt + 1]
  /\ worker' = [worker EXCEPT ![begun + 1].at = "begun"]
  /\ overlap' = (overlap \/ \E r \in Run : Alive(r))
  /\ UNCHANGED <<row, file, requests, bridge, used>>

\* The system stops the run (no network, no quota) and will run the work again.
SystemStop ==
  /\ Disturb("stop") /\ work.state = "running"
  /\ worker' = Stopped(work.run)
  /\ work' = [work EXCEPT !.state = "enqueued", !.run = 0]
  /\ UNCHANGED <<row, file, requests, begun, bridge, overlap>>

\* The result of a run counts unless the run was stopped or replaced.
Record(r) ==
  /\ worker[r].at = "returned"
  /\ worker' = [worker EXCEPT ![r] = Ended]
  /\ work' = IF work.run # r THEN work
             ELSE CASE worker[r].result = "success" -> [work EXCEPT !.state = "succeeded", !.run = 0]
                    [] worker[r].result = "failure" -> [work EXCEPT !.state = "failed", !.run = 0]
                    [] worker[r].result = "retry" -> [work EXCEPT !.state = "enqueued", !.run = 0]
  /\ UNCHANGED <<row, file, requests, begun, bridge, overlap, used>>

-----------------------------------------------------------------------------
(* A run of the worker *)

\* Run r goes on to stage `s', where nothing it knew of the stream matters any more;
\* workVars are left alone by every step of a run.
Goto(r, s) == worker' = [worker EXCEPT ![r] = [NoRun EXCEPT !.at = s, !.stopped = worker[r].stopped]]
Return(r, result) ==
  worker' = [worker EXCEPT ![r] = [NoRun EXCEPT !.at = "returned", !.result = result]]
workVars == <<work, requests, begun, ctl, obs, reports, polling, overlap, used>>

\* doWork() up to the request: the length of the file is where it will resume.
Prepare(r) ==
  /\ worker[r].at = "begun"
  /\ \/ row = "none" /\ Return(r, "failure") /\ UNCHANGED row
     \/ row # "none" /\ worker[r].stopped /\ Goto(r, "stopping") /\ UNCHANGED row
     \/ row # "none" /\ ~ worker[r].stopped /\ Goto(r, "failing") /\ UNCHANGED row  \* disk full
     \/ /\ row # "none" /\ ~ worker[r].stopped
        /\ worker' = [worker EXCEPT ![r].at = "asking", ![r].next = Len(file.blocks) + 1]
        /\ Update("running")
  /\ UNCHANGED <<file, shown, told, workVars>>

\* The rest of the file arrives (206): the length is read again and counted from.
RespondPartial(r) ==
  /\ worker[r].at = "asking" /\ worker[r].next \in 2 .. Total
  /\ worker' = [worker EXCEPT ![r].at = "streaming", ![r].count = Len(file.blocks),
                              ![r].append = TRUE, ![r].handle = file.no]
  /\ Update("running")
  /\ UNCHANGED <<file, shown, told, workVars>>

\* Mutant: the whole file is appended to the part that is there.
RespondWholeAppended(r) ==
  /\ worker[r].at = "asking" /\ worker[r].next <= Total
  /\ worker' = [worker EXCEPT ![r].at = "streaming", ![r].next = 1, ![r].count = 0,
                              ![r].append = TRUE, ![r].handle = file.no]
  /\ Update("running")
  /\ UNCHANGED <<file, shown, told, workVars>>

\* The whole file arrives (200): a partial file is deleted, an empty one written over.
RespondWhole(r) ==
  /\ worker[r].at = "asking" /\ worker[r].next <= Total
  /\ file' = IF worker[r].next > 1 THEN Deleted ELSE [file EXCEPT !.blocks = <<>>]
  /\ worker' = [worker EXCEPT ![r].at = "streaming", ![r].next = 1, ![r].count = 0,
                              ![r].append = FALSE, ![r].handle = file'.no]
  /\ Update("running")
  /\ UNCHANGED <<shown, told, workVars>>

\* Nothing is left to send (416), which deletes the file; or another error code.
RespondError(r) ==
  /\ worker[r].at = "asking"
  /\ Goto(r, "failing")
  /\ file' = IF worker[r].next > Total THEN Deleted ELSE file
  /\ UNCHANGED <<row, shown, told, workVars>>

\* Mutant: what is read is never handed on to the file.
FetchHoards(r) ==
  LET w == worker[r] IN
  /\ w.at = "streaming" /\ w.next <= Total /\ ~ w.stopped
  /\ worker' = [worker EXCEPT ![r].next = @ + 1, ![r].count = @ + 1,
                              ![r].held = Append(@, w.next)]
  /\ UNCHANGED <<file, row, shown, told, workVars>>

\* One block is read; it stays in the stream's buffer or goes to the file with what
\* was there.  A stopped run leaves the loop instead.
Fetch(r) ==
  LET w == worker[r] IN
  /\ w.at = "streaming" /\ w.next <= Total
  /\ \/ w.stopped /\ UNCHANGED file          \* with the stream still open
        /\ worker' = [worker EXCEPT ![r].at = "stopping"]
     \/ /\ ~ w.stopped /\ w.held = <<>>
        /\ worker' = [worker EXCEPT ![r].next = @ + 1, ![r].count = @ + 1, ![r].held = <<w.next>>]
        /\ UNCHANGED file
     \/ /\ ~ w.stopped
        /\ worker' = [worker EXCEPT ![r].next = @ + 1, ![r].count = @ + 1, ![r].held = <<>>]
        /\ Flush(w, <<w.next>>)
  /\ UNCHANGED <<row, shown, told, workVars>>

\* emitProgressUpdate(): the status is written with the bytes.
Progress(r) ==
  /\ worker[r].at = "streaming" /\ ~ worker[r].stopped /\ worker[r].count > 0
  /\ row \notin {"none", "running"} /\ row' = "running"
  /\ UNCHANGED <<file, worker, shown, told, workVars>>

\* End of the stream: closing it writes what it holds.
EndOfFile(r) ==
  /\ worker[r].at = "streaming" /\ worker[r].next > Total
  /\ Flush(worker[r], <<>>)
  /\ worker' = [worker EXCEPT ![r].at = "verifying", ![r].held = <<>>, ![r].next = 1,
                              ![r].append = FALSE, ![r].handle = 0]
  /\ UNCHANGED <<row, shown, told, workVars>>

\* The bytes counted are compared with the bytes announced: the same, unless the
\* server announced none and the caller's estimate is off, which deletes the file.
Verify(r) ==
  /\ worker[r].at = "verifying"
  /\ \/ Update("completed") /\ Return(r, "success") /\ UNCHANGED file
     \/ Goto(r, "failing") /\ file' = Deleted /\ UNCHANGED row
  /\ UNCHANGED <<shown, told, workVars>>

\* Mutant: the run gives up although the row is queued again.
ThrowGivesUp(r) ==
  /\ worker[r].at \in {"asking", "streaming"} /\ ~ worker[r].stopped
  /\ IF worker[r].at = "streaming" THEN Flush(worker[r], <<>>) ELSE UNCHANGED file
  /\ Update("queued") /\ Return(r, "failure")
  /\ UNCHANGED <<shown, told, workVars>>

\* An exception while connecting or streaming; the stream is closed on the way out.
Throw(r) ==
  LET w == worker[r] IN
  /\ w.at \in {"asking", "streaming"}
  /\ IF w.at = "streaming" THEN Flush(w, <<>>) ELSE UNCHANGED file
  /\ \/ w.stopped /\ Goto(r, "stopping") /\ UNCHANGED row
     \/ ~ w.stopped /\ work.attempt <= MaxAttempts /\ Update("queued") /\ Return(r, "retry")
     \/ ~ w.stopped /\ Goto(r, "failing") /\ UNCHANGED row  \* not retryable, or none left
  /\ UNCHANGED <<shown, told, workVars>>

\* Mutant: the row is written and the event left to the observer.
FailQuietly(r) ==
  /\ worker[r].at = "failing"
  /\ Update("failed") /\ Return(r, "failure")
  /\ UNCHANGED <<file, shown, told, workVars>>

\* failDownload(): the row is written, for which the run suspends.
Fail(r) ==
  /\ worker[r].at = "failing"
  /\ Update("failed") /\ Goto(r, "telling")
  /\ UNCHANGED <<file, shown, told, workVars>>

\* failDownload(): the event is posted, if no stop cancelled the run meanwhile.
Tell(r) ==
  /\ worker[r].at = "telling"
  /\ told' = "yes" /\ Show("failed")
  /\ Return(r, "failure")
  /\ UNCHANGED <<row, file, workVars>>

\* handleStoppedState(): the row says who stopped the run.
HandleStopped(r) ==
  /\ worker[r].at = "stopping"
  /\ \/ row = "paused" /\ UNCHANGED <<row, file>>
        /\ worker' = [worker EXCEPT ![r].at = "closing", ![r].result = "failure"]
     \/ row = "cancelled" /\ file' = Deleted /\ UNCHANGED row
        /\ worker' = [worker EXCEPT ![r].at = "closing", ![r].result = "failure"]
     \/ row \notin {"paused", "cancelled"} /\ Update("queued") /\ UNCHANGED file
        /\ worker' = [worker EXCEPT ![r].at = "closing", ![r].result = "retry"]
  /\ UNCHANGED <<shown, told, workVars>>

\* The stream is closed only after handleStoppedState() has answered.
Close(r) ==
  /\ worker[r].at = "closing"
  /\ Flush(worker[r], <<>>)
  /\ Return(r, worker[r].result)
  /\ UNCHANGED <<row, shown, told, workVars>>

\* A run whose successor has begun cannot reach the row any more, but deletes the file
\* before it tries: on 200 or 416 after asking for the rest, or when the sizes differ.
Stray(r) ==
  /\ \/ worker[r].at = "asking" /\ worker[r].next > 1
     \/ worker[r].at = "verifying"
  /\ worker' = [worker EXCEPT ![r] = Ended]
  /\ file' = Deleted
  /\ UNCHANGED <<row, shown, told, workVars>>

\* A stopped run is cancelled at a suspension: it closes the stream and is gone.
Cancelled(r) ==
  /\ worker[r].stopped /\ Alive(r)
  /\ Flush(worker[r], <<>>)
  /\ worker' = [worker EXCEPT ![r] = Ended]
  /\ told' = IF worker[r].at = "telling" /\ told = "no" THEN "stopped" ELSE told
  /\ UNCHANGED <<row, shown, workVars>>

-----------------------------------------------------------------------------
(* The observer and its reports *)

\* The observer sees the state of the work and launches a coroutine that will report it.
Observe ==
  /\ obs.on /\ obs.after = 0 /\ work.state \notin {obs.seen, "none"}
  /\ obs' = [obs EXCEPT !.seen = work.state]
  /\ reports' = [reports EXCEPT ![work.state] = @ + 1]
  /\ UNCHANGED <<native, ctl, polling, shown, told, overlap, used>>

\* setProgress() brings the running work before the observer again.  JavaScript shows a
\* download as active on every progress event, whatever it showed before.
ObserveProgress ==
  /\ obs.on /\ obs.seen = "running" /\ work.state = "running"
  /\ shown \in {"paused", "failed"} /\ shown' = "active"
  /\ UNCHANGED <<native, ctl, obs, reports, polling, told, overlap, used>>

\* After reading the row the coroutine posts its event.  At the end of the work it also
\* removes the observer, the one the download has by then.
Report(s) ==
  /\ reports[s] > 0
  /\ reports' = [reports EXCEPT ![s] = @ - 1]
  /\ obs' = IF s \in {"enqueued", "running"} THEN obs ELSE NoObserver
  /\ told' = IF s = "failed" THEN "yes" ELSE told
  /\ CASE s = "failed" -> Show("failed")
     [] s = "succeeded" /\ row # "none" -> Show("done")
     [] s \in {"enqueued", "running"} /\ row # "none" /\ shown # "done" ->
          Show(IF s = "enqueued" /\ row = "paused" THEN "paused" ELSE "active")
     [] OTHER -> UNCHANGED shown
  /\ UNCHANGED <<native, ctl, polling, overlap, used>>

\* startProgressPolling(): a download nobody observes gets an observer.
Poll ==
  /\ polling /\ polling' = FALSE
  /\ obs' = IF row \in {"queued", "running"} /\ ~ obs.on THEN Registered(Len(requests)) ELSE obs
  /\ UNCHANGED <<native, ctl, reports, shown, told, overlap, used>>

\* The process dies, with the worker in it: streams lose what they hold, requests not
\* applied are lost, and WorkManager runs interrupted work again.  The next launch shows
\* what the row says and polls.
Kill ==
  /\ Disturb("kill")
  /\ worker' = [r \in Run |-> IF Alive(r) THEN Ended ELSE worker[r]]
  /\ work' = IF work.state = "running" THEN [work EXCEPT !.state = "enqueued", !.run = 0] ELSE work
  /\ requests' = <<>> /\ ctl' = [c \in Control |-> "idle"]
  /\ obs' = NoObserver /\ reports' = NoReports
  /\ polling' = TRUE
  /\ shown' = CASE row \in {"queued", "running"} -> "active"
              [] row \in {"paused", "failed"} -> row
              [] row = "completed" -> "done"
              [] OTHER -> "gone"
  /\ UNCHANGED <<row, file, begun, told, overlap>>

User == \E c \in Control \ {"start"} : Ask(c)

Coroutines ==
  \/ \E c \in {"pause", "resume", "retry"} : Read(c) \/ WriteRow(c)
  \/ InsertRow \/ WriteCancel
  \/ FinishStart \/ FinishPause \/ FinishCancel
  \/ \E c \in {"resume", "retry"} : FinishResume(c)
  \/ MoveCompleted
  \/ Observe \/ Poll \/ \E s \in DOMAIN reports : Report(s)

\* Before the next run begins the stopped one's coroutine has been cancelled: what it
\* still does is to work on the file, until it suspends for the row, or to post an event.
Step(r) ==
  \/ /\ r = begun
     /\ \/ Prepare(r) \/ RespondPartial(r) \/ RespondWhole(r) \/ RespondError(r)
        \/ Fetch(r) \/ Progress(r) \/ Verify(r) \/ Throw(r) \/ Fail(r)
        \/ HandleStopped(r) \/ Close(r)
  \/ r < begun /\ Stray(r)
  \/ EndOfFile(r) \/ Tell(r) \/ Cancelled(r)

Manager == ApplyRequest \/ Begin \/ \E r \in Run : Record(r)

Next ==
  \/ User \/ Coroutines \/ Manager
  \/ \E r \in Run : Step(r)
  \/ ObserveProgress \/ SystemStop \/ Kill

Spec == Init /\ [][Next]_vars

\* Coroutines resume, WorkManager works off its requests and runs what is enqueued, a
\* run goes on; Progress does not count as going on, and only writes a status that
\* another writer changed.
Fairness ==
  /\ WF_vars(Coroutines) /\ WF_vars(Manager)
  /\ \A r \in Run : WF_vars(Step(r) /\ ~ Progress(r))

FairSpec == Spec /\ Fairness

-----------------------------------------------------------------------------
(* Properties *)

\* Every variable stays in its range; a run's counters stay within the file.
TypeOK ==
  /\ row \in {"none", "queued", "running", "paused", "completed", "failed", "cancelled"}
  /\ file.no \in Nat /\ file.blocks \in Seq(0 .. Total)
  /\ work.state \in {"none", "enqueued", "running", "succeeded", "failed", "cancelled"}
  /\ work.run \in 0 .. begun /\ work.attempt \in 0 .. begun
  /\ \A r \in Run : worker[r].next \in 1 .. MaxRuns * Total + 1 /\ Len(worker[r].held) <= 1
  /\ ctl \in [Control -> {"idle", "asked", "read", "written"}]
  /\ obs.on \in BOOLEAN /\ obs.after \in 0 .. Len(requests)
  /\ shown \in {"none", "active", "paused", "failed", "done", "gone"}
  /\ told \in {"no", "stopped", "yes"}

\* Whatever interrupts a download - exceptions, process deaths that lose a stream's
\* buffer, pauses, retries, a server that ignores Range - a completed row has the whole
\* file, every block in place, as long as no run began before the last one had ended and
\* nobody cancelled (a cancel deletes the file under a run that then completes the row).
SequentialRunsKeepTheFile ==
  row = "completed" /\ ~ overlap /\ used.cancel = 0
    => file.blocks = [b \in 1 .. Total |-> b]

Quiet ==
  /\ \A c \in Control : ctl[c] = "idle"
  /\ requests = <<>> /\ \A r \in Run : ~ Alive(r)
  /\ obs.on => obs.seen = work.state
  /\ reports = NoReports

Interfered == used.pause + used.retry + used.cancel + used.kill > 0

\* A row that says a transfer is under way has work that drives it, once nothing is in
\* flight: a worker that gives up a run writes the row and asks for another run, or
\* neither.  (Pauses, retries, cancels and process deaths break this.)
LiveRowHasWork ==
  Quiet /\ ~ Interfered /\ ~ overlap /\ row \in {"queued", "running"} => work.state = "enqueued"

\* A failure is announced: once nothing is in flight, JavaScript was sent a DownloadError
\* for a failed row.  Only a stop that cancels the run between the row and the event keeps
\* it from that, and then WorkManager will run the work again, unless the stop was the
\* user's pause or cancel.  (After a process death the next launch reads the row.)
FailureIsTold ==
  Quiet /\ row = "failed" /\ used.kill = 0 =>
    \/ told = "yes"
    \/ told = "stopped" /\ (work.state = "enqueued" \/ used.pause + used.cancel > 0)

\* The same without the stop.  Expected to be violated: the row is written in a step of its
\* own, and who is stopped after it posts nothing.
EveryFailureIsTold == Quiet /\ row = "failed" /\ used.kill = 0 => told = "yes"

\* "'failed' // terminal error, stays visible in UI": with nothing in flight a failed row
\* is not shown as an active download.
FailureStaysVisible ==
  Quiet /\ row = "failed" => shown # "active"

\* A download whose user leaves it alone ends, and JavaScript is told of it, however
\* often the system stops the run.
Ends == [](~ Interfered) => <>(shown \in {"done", "gone"} \/ told = "yes")

\* The size that is compared with the announced one, `actualBytes', is the size of the
\* file a run completes ("A meaningful final size mismatch is corruption"), even if an
\* earlier run of an uncancelled download has not ended.
ActualBytes ==
  [][\A r \in Run : Verify(r) /\ row' = "completed" /\ used.cancel = 0 =>
        worker[r].count = Len(file.blocks)]_vars

===============================================================================
