# A TLA+ model of Off Grid AI Mobile (OGAM)

Off Grid AI Mobile is a React Native application that runs language, image and
speech models on the phone. This directory holds TLA+ modules that model the
parts of it whose correctness depends on the order of events, TLC configurations
that check them on small instances, and proofs, checked by TLAPS, of their most
important invariants. Paths below are relative to the repository root; `src/src`
in `PROJECT.json` is the TypeScript code (`src/` here).

Contents: the system and its parts, the modules and how they map to the code,
the runs, the findings, the proofs, what is left out, the plan.

A module `X.tla` models a component, `XProofs.tla` holds its theorems, `MCX.tla` gives a
constant that a configuration cannot write a value, and each `.cfg` is one instance for
TLC: `tlc -config Y.cfg M`, with the module of the table in section 3 or 4.

## 1. The system

One JavaScript thread runs the services and the user interface. It calls native
modules through promises and receives events from them; the answers and events
arrive in the order the native main thread posted them, each as a message the
JavaScript thread handles up to its next `await`. Everything the JavaScript side
keeps in memory is lost when the process dies. On Android the native download
worker and its SQLite records survive and go on without it.

| part | state | operations | interacts with |
|---|---|---|---|
| download admission, `services/backgroundDownloadService.ts` | `activeIds` (slots: reservations `reserve:n` and native ids), `startQueue` (FIFO), `startSeq`, `shutDown`, listeners | start, cancel queued, pause, resume, retry, cancel, move, purge, reconcile, adopt, cleanup; handlers of DownloadComplete and DownloadError | native download module (promises, events), model manager, restore, screens |
| Android download module and worker, `android/.../download` | one Room row per download, WorkManager jobs, a WorkInfo observer per download | insert and enqueue, pause, resume, retry, cancel, list, move; the worker's loop; the observer's events | its two writers share the row without a lock; events to JavaScript |
| finalization of a text model, `services/modelManager/download.ts` | per download a context with `mainCompleted`, `mmProjCompleted`, `mainCompleteHandled`, `isFinalizing` | watch, complete, error, catch-up read, retry, finalize | admission, download store, native move |
| restore and hydration, `services/modelManager/restore.ts`, `services/downloadHydration.ts`, `App.tsx` | the contexts, the download store | hydrate, restore scan, adopt, reattach | runs at launch and at every return to the foreground, beside everything else |
| persistence across launches, `services/queuedDownloadPersistence.ts`, `activeDownloadPersistence.ts`, `restoreQueuedDownloads.ts` | AsyncStorage snapshots of queue and entries | save (not awaited), load, re-issue | admission, launch recovery |
| model residency, `services/modelResidency` | residents (key, type, size, pinned, last use, unload), a FIFO operation chain, load policy, budget override | make room, register, unregister, release, evict, memory warning, reclaim | every loader; native unloads may fail or stall |
| model loading, `services/activeModelService` | loaded text and image model, load in flight, timeout | load, unload, eject, sync with native | residency, engines |
| generation, `services/generationService.ts`, tool loop | `isGenerating`, attempt number, abort flag, token buffer, message queue, drain timer | generate, generate with tools, stop, enqueue, drain, fallback to another model | engines, chat store, model loading |
| text engines, `services/llm.ts`, `litert.ts` | context, completion mutex, KV state | load, complete, stop, unload | native inference |
| image generation, `services/imageGenerationService.ts`, `android/.../localdream` | phase, cancel flag, abort controller, the request the card shows; a native server, its connection and its own cancel flag | generate (enhance, load, draw, store), cancel, progress | text engine, model loading, remote server, chat store |
| tool loop, `services/generationToolLoop.ts` | rounds, calls so far, the prompt of the turn, the streamed segment | run, execute a batch, compact, last answer, retry | the three engines, tools, chat store, abort flag |
| dictation, `useWhisperTranscription.ts`, `services/whisperService.ts`, `audioRecorderService.ts` | nonce and cancel flag of the hook; context, stop handle, start barrier, teardown promise; recorder; audio session mode | start, stop, cancel, reset, unload; the final event | whisper.rn, residency, the voice session, the draft |
| chat store and persisted stores | conversations, streaming message, hydration gate | append, finalize, clear, persist | generation |
| remote servers, sync, tools, RAG, catalogue, authentication, licensing | connections, selections, databases, caches | mostly request and response | network, SQLite, keychain |

### What makes it hard

* **Callbacks between awaits.** Every service method is a sequence of steps with
  other handlers in between. Admission decides before the await and learns the
  native id after it; reconcile and restore act on rows read before theirs.
* **Two owners of one download.** The JavaScript slots and the native rows are
  brought together only by events, and an event may be late, doubled or absent.
* **Sidecars.** A vision model is two downloads, its projector outside the cap.
* **Process death.** The worker survives it and JavaScript state does not.
* **One slot for all replies.** The abort flag, the streaming message, the phase of the
  image card and the native context are each shared by all turns. A stop lets the
  next turn in before the stopped one has noticed.
* **Memory.** Several models share a budget, unloading is asynchronous, may fail,
  and different services ask for room at once.

For each part, what makes it correct:

* admission: no more transfers than slots, no slot lost, no waiting start beside
  a free slot, first come first served, every waiting start eventually started;
* native module and worker: the row tells the truth about the work, a control the
  user was told succeeded is not undone, the end of a transfer reaches JavaScript;
* finalization: a model is registered exactly once and only with files that are
  complete; an error and a retry at any point do not prevent it;
* restore: everything that survived has a context and a slot, nothing has two;
* residency: what is resident fits the budget, pinned models stay, an eviction
  that fails does not lose track of a model, waiting operations run in order;
* generation: one native completion at a time and on the context of its own chat, a
  reply is made of one turn's words and what was shown of it is kept, the queue
  drains, every turn ends;
* tool loop: tools run as often as the limit says, no completion is asked to go on
  from a call without its result, a stop starts nothing, a turn ends with an answer;
* dictation: a start that was stopped at any await ends with the microphones closed, no job
  is stopped twice, the session is handed back to playback, the context outlives its jobs;
* image generation: what was stopped is not stored, the card shows the request that
  works and goes away.

## 2. Modules

### DownloadAdmission

The service, the part of the restore path that takes slots, and the native layer
as the service sees it.

| variable | in the code |
|---|---|
| `reserved`, `activeIds` | the tokens and the native ids of `activeIds`; a download is named by the number of the start that made it, so a token and the id that replaces it have the same name |
| `startQueue` | the keys of `startQueue` |
| `shutDown` | `shutDown` |
| `entry` | the status the download store shows, as far as it decides which control is offered |
| `watched` | the ids of `backgroundDownloadContext` |
| `calls`, `again` | native calls JavaScript awaits; a start is two calls, row inserted and work enqueued; `again` are the controls that were tapped a second time while the first call was unanswered |
| `inbox` | promise results and events on their way to the JavaScript thread |
| `poll` | `getActiveDownloads()` in progress, for reconcile and for restore, with the rows it read |
| `row`, `observed`, `echo` | the native record, its WorkInfo observer, and the observer's own DownloadError still to come |
| `uncapped`, `doubled` | history: the slots taken without comparing with the cap; the downloads with a control that was tapped again before the answer to the first was handled |

Each user request, native call, native event, and each handler from one await to
the next is an action. A handler that frees a slot includes the whole loop of
`pump()`. Nothing in the code keeps a user from tapping Pause, Resume or Cancel again
before the first call is answered, so each may be pending twice. What the model abstracts: a model is a key; bytes and progress are left
out; pause, resume, retry and cancel of the native module are single steps (their
inner suspension is the subject of `DownloadWorker`); hydration and the restore
scan use one read; the finalization of a download is its move (its own module is
`DownloadFinalize`); a finished sidecar is moved on its own.

### FifoSemaphore

What admission promises to its callers, independent of the code: waiters, a number
of permits held, grants from the head of the line only while a permit is free.
`DownloadAdmission` implements it with the queue as the line and the taken slots as
the permits held (property `FirstComeFirstServed`).
`granted` counts the admissions so far: `startSeq` less the sidecars, which are
started without asking. A retry `Seize`s a permit and `cleanup()` closes the semaphore.
A restore may adopt several transfers in one step and a process death empties queue
and slots at once; neither is a step of a semaphore, so the run which checks the
refinement has no restores and no kills.

### DownloadWorker

One download below the bridge: `DownloadManagerModule.kt` and `WorkerDownload.kt`,
WorkManager as they use it, and what JavaScript shows of it.

| variable | in the code |
|---|---|
| `row` | `status` of the entity in the downloads table; an `UPDATE` of a row that is gone changes nothing |
| `file` | the partial file as a sequence of blocks, with an identity, because a stream on a deleted file writes to nothing |
| `work`, `requests` | WorkManager's record of the unique work, and the enqueue and cancel requests not yet applied (external) |
| `worker`, `begun` | the runs of `doWork()`: how far each is, its count of bytes, its buffered stream, whether it was stopped |
| `ctl` | how far the coroutine of each control is: asked, row read, row written |
| `obs`, `reports` | the WorkInfo observer with the state it last saw, and the coroutines it launched that have yet to post |
| `polling` | `startProgressPolling()` under way |
| `shown`, `told` | the status on screen; a DownloadError was posted |
| `overlap`, `used` | history: two runs were alive at once; how often each disturbance happened |

A control is one action per access to the row, because each access suspends its
coroutine; a run is one action per step between two suspensions or I/O calls:
read the length, respond (whole, rest, error), fetch a block, write progress,
close, verify, finish; a failure is two of them, the row (`Fail`) and then the event
(`Tell`). A stopped run may stop at any of them and may do several
more first. A process death loses the coroutines, the stream buffers and the
requests not yet applied, and keeps the row, the flushed file and the work.
Abstractions: a block stands for the bytes between two flushes; the checks of
redirects, of the host and of the disk refuse or fail a run and are the
nondeterministic error of a response; the move of the finished file is left to
`DownloadAdmission`.

### ModelResidency

The models in RAM and what JavaScript believes about them: `modelResidency`,
`activeModelService`, and the services of the five engines as far as they load
and unload.

| variable | in the code |
|---|---|
| `native` | the model each native engine holds: `llm.ts`, `litert.ts`, the image server, `whisperService`, the embedding context |
| `residents`, `newest` | `residents` of the manager: a map with one entry per key; which sidecar was registered last, which is all of `lastUsedAt` that a choice of victims depends on (it is refreshed only by a registration for the models of the app) |
| `loaded`, `active` | `loadedTextModelId`, `loadedImageModelId`; the selection in the store |
| `context`, `freeing` | the embedding service has a context; an unlocked release of it is under way |
| `policy`, `overrides` | the load policy; the models the user chose to load anyway |
| `waiting`, `turn` | the callers of `runExclusive` in the order of their promise chain, and the one whose turn it is with the eviction list and budget it fixed |
| `late` | native loads whose caller gave up when its timer fired |
| `charged`, `limit` | history: residents that were admitted at their full size, and the budget the last was admitted under |

An operation takes the lock, decides (`MakeRoom`: refuse, or fix the victims), evicts
one victim after the other, unloads the model it replaces, loads and registers;
every await between them is a boundary of two actions, so a selection, a deletion,
an embedding error and the landing of a late load can come in between. Memory is
counted in units: `Size` is the estimate, `Budget` is what `computeBudgetMB` returns
for a policy, `Free` are the readings of free memory a decision may see.

What the source says that a reader might look for and not find:

* No native unload rejects in this application. `llm.ts:259`, `litert.ts:510`,
  `whisperService.ts:137` and `embedding.ts:143` catch their errors and drop the
  handle, and `localDreamGenerator.ts:110` resolves `false`. The branch of
  `makeRoomFor` that keeps a victim whose unload failed (`index.ts:370-376`) is
  therefore not reached, and the model has no action for it. What can be seen is
  an image server that was not stopped and is forgotten all the same.
* The least recently used order is only that of registrations: no service of the
  application touches a resident it uses.
* `ensureResident` has no caller; pinning, `canEvict` and `unregister` are used only by
  the voice package, which is not part of the repository.

### DownloadFinalize

One text model, with a vision projector or without, from the tap on Download to the
registry: `download.ts:469-768`, the scan and the watchers of `restore.ts`, retry and
cancel of the text provider, the scan for untracked files, and the recovery of
`App.tsx` after a launch and on every return to the foreground.

| variable | in the code |
|---|---|
| `native`, `disk`, `list` | the rows of the two transfers, the files at their final path, and what the persisted registry says of the model: all survive the process |
| `events`, `listener` | terminal events on their way, and per row the one listener that `onComplete`/`onError` keep |
| `ctxs`, `ctxOf`, `owns`, `watchers` | a context (`mainCompleted`, `mmProjCompleted`, the two `Handled` flags, `isFinalizing`) is shared by the watchers made for it; a watcher is one call of `watchBackgroundDownload()` with its closures |
| `map` | `backgroundDownloadContext`: which context the download has now |
| `tasks` | the awaits of the watchers: catch-up query, moves, check, resolution of the projector, write of the registry |
| `row`, `sideRow` | `status` and `mmProjStatus` in the download store |
| `start`, `retry`, `cancel`, `scan` | how far each of these operations is |
| `told`, `faults`, `turns` | history: the outcome reported, what went wrong or was cancelled, how much of the bound is used |

A transfer here just ends, with a file or an error: the slots are `DownloadAdmission`'s
and the bytes `DownloadWorker`'s. Events may wait any time, and those of different
rows may overtake each other.

### ChatGeneration, ReplySlot

A chat turn from Send to its last token: the chat screen's send, queue and compaction
code (`useChatGenerationActions.ts`), `generationService.ts` and its helpers, the streaming
slot of `chatStore.ts`, `generationSession.ts`, and `llm.ts` with llama.cpp's completions
below it. `pc[t]` names the await turn `t` is at.

| variable | in the code |
|---|---|
| `isGenerating`, `abortRequested`, `generationAttempt`, `tokenBuffer`, `queue`, `timers` | the state of the singleton; `timers` are the 100 ms timers `resetState` leaves |
| `pendingStop`, `pendings` | the stop a new attempt drains before it starts, and those that will clear it |
| `stream`, `history`, `session` | the streaming message, the messages per chat, the chat of the generation session; text is the set of turns whose words it has |
| `busy`, `active`, `native`, `interrupted`, `boundTo`, `stops` | `llmService`: its flag, its completion, what llama.cpp still computes, what was interrupted, the chat whose tokens the context holds, the stops under way |
| `displaced` | history: a completion with tools was refused while another ran, and has taken down the record of it (`llm.ts:349-350`), until nothing runs |
| `drawing`, `mounted` | the turn an image is drawn for; the screen, which registers the queue processor |
| `pc`, `turn`, `stopped` | the locals of each turn; what the user stopped |

A turn whose chat is not that of the native context awaits `clearCache` ("clearing") and
binds the context afterwards (`Cleared`), also if it was stopped meanwhile; a fallback
does so after its load ("rebinding").

`ReplySlot` is what the slot promises, with three actions: one reply forms at a time, it has
the words of one turn, and what was said of it is kept in that turn's chat when it
ends. The property `SlotSpec` is the refinement, with the turn that owns the current attempt
as the owner of the slot, and the streamed and the buffered words as what was said.

### ToolLoop

One turn of `generationToolLoop.ts`: `runToolLoop` with the three engines below
`callLLMWithRetry`. `ChatGeneration` has tool turns too, reduced to what they share with
others; this module has what they do inside.

| variable | in the code |
|---|---|
| `engine`, `pc`, `outcome` | the engine the turn found; its await; what it returned or threw |
| `iteration`, `total`, `compactions`, `left`, `gathered`, `prompt`, `summarized`, `seg` | the locals of `runToolLoop`: rounds, calls made, calls of the batch still to run, the prompt as messages with the calls they make or answer, what the last summary covers, the streamed segment |
| `stage`, `withTools`, `attempt`, `streamed`, `nativeCalls`, `limitReached` | the call of `callLLMWithRetry` in progress, LiteRT's own count of calls |
| `aborted`, `voices` | the abort flag; how many texts the reply shows |
| `pc = "unread"` | a remote answer whose tool arguments cannot be parsed: `onComplete` has thrown, and the promise settles only if the provider reports an error for it; at the end of the stream it is `"lost"` |
| `stopped`, `cleared`, `calls`, `untold` | history: a stop, a reset of the flag by another turn, executions, texts left out with no summary |

### ImageGeneration

Pictures on the local route (`localDreamGenerator.ts` and Android's `LocalDreamModule.kt`)
and on the remote one, several requests at a time.

| variable | in the code |
|---|---|
| `phase`, `shown`, `card`, `progress`, `cancelRequested`, `remoteRequest` | the state of `imageGenerationService`, one for all requests |
| `generating`, `listening` | the busy flag of the local generator and the progress subscriptions |
| `calls`, `replies` | native calls and their answers, each in order |
| `job`, `cut`, `active`, `generationCancelled` | the module's coroutines, the connections a cancel closed, the connection it knows, its flag |
| `pc`, `route`, `aborted`, `messageId` | per request: where it is, its route, whether its controller is aborted, the id its message gets |
| `cancels`, `cancelled`, `alone`, `excused` | history: presses, what they stopped, the requests that started alone, those whose stop came while the file was written or whose flag a later request lowered |

Whether a model loads is left open (the load is `ModelResidency`'s), a progress event is
handled when it is sent, and the text engine that enhances a prompt just answers.

### Dictation

Dictating into the draft in chat mode: the button's session (`Voice.ts`), the hook
(`useWhisperTranscription.ts`), `whisperService.ts` with its start barrier, the recorder
that writes the same utterance to a file, and the owner of the audio session.

| variable | in the code |
|---|---|
| `floor` | who has the floor in the voice session, an external package |
| `here`, `mounted` | the composer on the screen and the hook that belongs to it |
| `isCancelled`, `current`, `isRecording`, `isTranscribing`, `pendingResult`, `timers`, `finalResult` | the refs and the state of the hook; `current` is the start whose nonce is the last one, so that a comparison of nonces is a comparison with it |
| `pc`, `owner` | per start: the await it is at, and its hook |
| `context`, `busy`, `stopFn`, `starting` | `whisperService`: the model's context, `isTranscribing`, whose handle it has, and the start its barrier holds stops for |
| `fully`, `resolved` | `transcriptionFullyStopped`, as the set of the events it waits for, and those that happened |
| `recorder`, `recorded`, `mode` | the recorder's session, the starts that have a file, the mode of the audio session |
| `unclosed`, `stranded` | history: the sessions whose recorder reported an error when it started or stopped, and is kept; a switch of the audio session that failed |
| `native`, `event`, `words` | whisper.rn's job per start, how far its final event is, and whose words it carries |
| `tasks` | calls of `stopTranscription`, `forceReset` and `unloadModel` under way |
| `presses`, `unloads`, `stopCalls`, `cancelled`, `drafted` | bounds used and history |

Continuations of settled promises run before any other step (`Quiet`). The realtime
partial results, the vibration, remote transcription and the voice mode, which records to a
file only, are left out. A change of conversation is the same `clearResult` as a cancel.

## 3. Runs

| run (module) | instance | what it shows |
|---|---|---|
| `Admission_core` (`DownloadAdmission`) | 2 models, 1 slot, 3 starts, 3 pauses, resumes or cancels, backlog 1, with fairness | `NativeLoadWithinCap`, `EveryTransferCounted`, `NoLeakedSlot`, under fairness `QueueDrains`; the service implements `FifoSemaphore` (`FirstComeFirstServed`) |
| `Admission_retry` | 1 model, 1 slot, 2 starts, 1 control, 1 retry, 1 reconcile | `WorkConserving` although a retry takes a slot by force and a reconcile compares with rows of before; for every instance without a relaunch it is a theorem (section 5) |
| `Admission_relaunch` | 1 model, 1 slot, 2 starts, 1 sidecar, 1 restore, 1 kill, 1 `cleanup()` | `CapOnAdmission` across process death and shutdown |
| `Worker_controls` (`DownloadWorker`) | 2 blocks, 1 retry by WorkManager, 3 runs, 1 disturbance of any kind, with fairness | a completed row has the whole file, a live row has work, a failure is announced; a download left alone completes or its failure is told (`Ends`) |
| `Residency_lock` (`MCModelResidency`) | 2 text models (one per engine), 1 image model, whisper, embedding; budget 5, two policies, two readings of free memory; 3 requests, 1 selection, late load, failed unload and embedding error, with fairness | `AdmissionsFit`, `Counted`, `SidecarsYield`, and under fairness `Served` |
| `Finalize` (`DownloadFinalize`) | with a projector and without; 3 watchers per life of the process; 2 retries, cancels, returns to the foreground, deaths or refused moves in all, with fairness | `ListedIsOnDisk`, `VisionKept`, `NeverDowngraded`, under fairness `Settles` |
| `Chat_plain` (`MCChatGeneration`) | 2 plain turns in 2 chats, 2 presses of stop, 1 retry; contexts fill, completions fail, images, the screen may go | the refinement of `ReplySlot` (`SlotSpec`) |
| `Chat_tools` | 1 plain turn and 1 with a round of tools, 1 press, 1 retry, 1 fallback model, with fairness | `OneNativeRun`, `NoStrandedQueue`, under fairness `TurnsEnd`; deadlock is checked |
| `ToolLoop` (`ToolLoop`) | 3 engines, limit 3, batches of 2, 3 attempts, 2 earlier messages, a stop at any await, with fairness | `EveryCallAnswered`, `CallsWithinLimit`, `OneAnswer`, `StopStartsNothing`, under fairness `TurnEnds`; deadlock is checked |
| `Image` (`ImageGeneration`) | 2 requests on either route, 2 presses of stop, with fairness | `StopIsKept`, `AloneIsShown`, under fairness `CardGoes` |
| `Dictation` (`Dictation`) | 1 dictation, 2 visits of the screen, 1 press of stop or cancel, 1 unload, with fairness | `StopsOnce`, `HandedBack`, `CancelledNotTyped`, under fairness `UnwantedCloses`, `StopReaches` |
| `Dictation_ghost` | 2 dictations, 1 press | violated: finding 1 |

The type invariants of `DownloadWorker`, `DownloadFinalize` and `Dictation` are checked in
their runs; they are theorems, as are those of the other modules (section 5). By hand, in a minute
or two, `Dictation_again.cfg` also passes: `StopsOnce` and `HandedBack` for 2 dictations
and 2 presses, the second begun before the first one is over.

### Why these bounds are enough

* **Admission.** One slot is the tightest cap: every start but the first has to wait,
  and a slot freed twice or lost shows at once (the theorem `CapHolds` covers every
  cap). Three starts of two models are the fewest with a holder, a head of the
  line and somebody behind it; three controls are a pause and a resume that is tapped
  twice, or a pause, its resume and a cancel that race. `MaxBacklog` bounds the messages
  that wait for the JavaScript thread: one is handled after native steps that came
  after it. With two, as in the other runs, an event and an answer wait together; the
  proofs have every bound. One retry beside one reconcile is the race the code comments speak of, and
  `NobodyWaitsInVain` has it for any number.
* **Worker.** Two blocks distinguish a block that is missing, doubled or out of
  place. Three runs are a first, its retry, and one after a disturbance, and two of
  them may be alive at the same time. One disturbance of any kind, at any step,
  combined with WorkManager's own retries, is what a unit test with fakes does not
  reach; with more the state space leaves a routine run.
* **Residency.** The budget holds two of the three generation models and one
  sidecar, so that every load of a third evicts. Three requests are a resident, a
  second and the one that replaces or evicts; one mishap of each kind suffices to
  blame each loss on its own kind.
* **Finalize.** Three watchers are those of a start, of a retry or a return to the
  foreground beside it, and one more whose clean-up removes the listener of another.
  Two disturbances give every pair: a failure retried and then killed, a cancel
  during a retry, two returns to the foreground in a row. The safety properties are
  proved for every number of both (section 5).
* **Chat.** Two turns are the fewest that share the slot, the flag and the native
  context, and two presses let a stop land on a turn whose predecessor still unwinds.
  A third turn only matters to how a queue is joined (`Chat_merge`, section 4). One
  round of tools, one retry and one fallback reach every branch; the rounds
  themselves are `ToolLoop`'s.
* **ToolLoop.** With a limit of 3 and batches of 2 the second batch is cut, and there
  is room for a compaction before and after; 3 attempts are a first, a middle and a
  last. `TypeCorrect`, `LimitHolds` and `CallsAnswered` hold for every limit and batch.
* **Image.** Two requests are the one that was stopped and the one that starts in its
  place; the second press stops that one or is the late one.
* **Dictation.** A press, a departure and an unload are the three that end a dictation
  early, and each may fall into any await of it. A second dictation is what an old one can
  meet (`Dictation_again`, `Dictation_ghost`). The second visit has a hook that knows nothing of what
  the first one left behind.

Every action of every module fires in some passing run. `CHECK_DEADLOCK FALSE` is
there because users may stop asking: all bounded requests used up is a
legal end. Nothing in the code is a loop that must not stop.

### Fairness

* `DownloadAdmission`: weak fairness of the JavaScript thread (it handles the message
  at the head of its inbox), of the native calls and reads (the module's coroutines
  run on dispatchers that are never blocked for good), of the observer, and of a
  running transfer, which ends, because the worker has read and connect time-outs
  and gives up after its retries. Nothing makes the user do anything.
* `DownloadWorker`: weak fairness of the coroutines, of WorkManager and of each run,
  but not of progress: the server may fail every response, and the system may stop
  the run as often as its bound allows. `Ends` holds because an error is retried
  `MaxAttempts` times and then is a failure that is told.
* `ModelResidency`: weak fairness of the lock's hand-over, of the steps of its holder,
  of the unlocked release and of late native loads. Text and image loads have a
  timer. The load of the speech model has none, so for it fairness is an
  assumption: `initWhisper` returns. So is that a late llama.cpp load ends; if it
  never did, the next load would wait for its mutex and hold the residency lock.
* `DownloadFinalize`: weak fairness of the app's awaits, of transfers and events, and of
  the scan of a launch; none of a retry, a cancel, a launch or a return to the foreground.
* `ChatGeneration`: weak fairness of every await of every turn, of the engine's answer to a
  stop and of the drain timer. A send, a press, a token, an image request and a
  context that fills are never owed.
* `ToolLoop`: weak fairness of the turn's awaits. Two completions are not waited for
  (`pc = "lost"`), because nothing will settle them: a LiteRT one whose listeners a stop has
  removed, and a remote one whose tool arguments could not be parsed.
* `ImageGeneration`: weak fairness of the service's awaits, of the native module's own steps
  and of the file that is written. None of a picture being drawn: the local stream has
  `readTimeout = 0` (`LocalDreamModule.kt:660`) and the remote request no time-out of its own
  (`remoteMediaRuntime.ts:46-53`), so a server may hang for good, and `CardGoes` says that
  nothing else keeps the card. A connection that a cancel closed does end. That the text
  engine which enhances a prompt answers is `ChatGeneration`'s and an assumption here.
* `Dictation`: weak fairness of the awaits and timers of starts and stops, of the
  recorder and of whisper.rn, which answers a start and ends a job it was told to stop.
  A job need not end by itself, and no press, visit or unload is owed.

### Conditions inside properties

Some properties name the cases they are not about, each because the code does
break them there: `SequentialRunsKeepTheFile` excludes overlapping runs (the subject
of `ActualBytes`) and a cancel, which deletes the file under a run; `LiveRowHasWork`
excludes pauses, retries, cancels and process deaths, after each of which a live
row without work can be left (the hazards list the lines); `Counted` blames each
model that is lost on a mishap of its own kind, and a model is lost after each of
those; `EveryTransferCounted` and `NativeLoadWithinCap` do not count a transfer with a
control that was tapped again before the first call was answered (the rejected one frees
its slot, `Admission_doubletap` in section 4); these two and `NoLeakedSlot` say nothing
after `cleanup()`, and `CapOnAdmission` does not count slots taken by a retry or an
adoption, which do not compare with the cap (a resume does, a sidecar's too).

`ListedIsOnDisk` excludes a cancel, which deletes files while a finalization puts them
there; `VisionKept` the cases in which the code gives the projector up: a cancel, a
move the device refused, a row that was registered from a scan too early, a retry
without a context, or with one that a scan made and that waits for no projector, and a
restart, after which the projector's row has no context;
`NeverDowngraded` a cancel and that early scan; `Settles` a cancel, a retry without a
context and the deaf projector (`Finalize_deaf`, section 4). `StopIsKept` excludes the requests whose
flag was lowered (`Image_revived`, section 4) and a stop that comes while the file is written, which the
code does not look for. `CancelledNotTyped` is checked for one dictation: when a second
one begins before the first is over, `isCancelled` is lowered for both, and words of the
cancelled one may be typed after all (`Dictation_uncancelled`, section 4). `HandedBack` and
`UnwantedCloses` except a recorder that reported an error when it was started or stopped:
`audioRecorderService.ts:189-199` keeps it on purpose, for the next start to stop; and `HandedBack`
a switch of the audio session that failed, which is only logged. `CallsWithinLimit` gives LiteRT the limit once per completion,
which is what the code does (section 4), `TurnEnds` excepts the lost completions, and `StopStartsNothing` excludes a pause between two
attempts and LiteRT's preparation, after which nothing looks at the flag.

`FailureIsTold` excepts a run that was stopped between the row and the event
(`Worker_untold`, section 4): its work is run again, unless the user paused or cancelled.
`OneNativeRun` excepts the time after llama.cpp refused a completion with tools because another
was running (`Chat_double`, section 4), and says what holds of the flag even then. `SlotSpec`
is about turns without tools and fallbacks. `CardGoes` excepts a picture that a server draws.

## 4. Findings

Statements of the source that its code does not keep. One has a run of its own in
`PROJECT.json`:

1. `NoGhost` (`Dictation_ghost`). A session that "would never be stopped" is "a ghost
   recording that holds the mic forever" (`whisperStartSupersededNoGhost.redflow.test.tsx:8`),
   and starts are guarded against it. But the continuation of a final event
   (`whisperService.ts:333-344`) clears `stopFn` without looking whose it is, and a stop
   has freed the service before: a dictation begun in between loses its handle to the old
   one and captures on.

The others are configurations to run by hand; each is expected to end with the
violation named, within a minute:

| configuration (module) | violated | why |
|---|---|---|
| `Admission_retry_cap` (`DownloadAdmission`) | `NativeLoadWithinCap` | "The native store never holds more than this" (`backgroundDownloadService.ts:17`), but `retryDownload()` (line 301) takes a slot without comparing |
| `Admission_doubletap` (`DownloadAdmission`) | `NeverHoldsMore` | the same sentence: Resume is tapped twice, the second native call is rejected because the first was served (`DownloadManagerModule.kt:184`), and its `catch` (line 286) releases the slot of the transfer that runs; the next start is one too many |
| `Admission_late_error` (`DownloadAdmission`) | `EveryTransferCounted` | a failure is reported twice, by the worker and by its observer; the second report is handled after a retry (line 561) and frees the slot of the transfer that runs again |
| `Admission_sidecar` (`DownloadAdmission`) | `SidecarRidesFree` | a sidecar "does not occupy a concurrency slot" (line 66), but `resumeDownload()` (line 282) adds every id, and the provider resumes the projector with its model |
| `Admission_adopted` (`DownloadAdmission`) | `WorkConserving` | a restore adopts a start whose native promise is pending (`restore.ts:289`): it is counted twice, and its answer drops the token without a pump (line 119), so that a start queued meanwhile waits next to a free slot until the next release |
| `Worker_actual_bytes` (`DownloadWorker`) | `ActualBytes` | "A meaningful final size mismatch is corruption" (`WorkerDownload.kt:233`), but the comparison is with the bytes this run counted: a stopped run that flushes late adds a block nobody counted |
| `Worker_stays_failed` (`DownloadWorker`) | `FailureStaysVisible` | a failed download "stays visible" (`docs/DOWNLOAD_ARCHITECTURE_V2.md:68`), but the coroutine that reports RUNNING may post after the error, and the store shows `running` on every progress event |
| `Worker_untold` (`DownloadWorker`) | `EveryFailureIsTold` | a failed download "stays visible" (`docs/DOWNLOAD_ARCHITECTURE_V2.md:68`), but the row and the event are two steps (`WorkerDownload.kt:278-279`) with a suspension between: a run that is stopped there leaves a failed row that nobody was told of |
| `Finalize_deaf` (`DownloadFinalize`) | `FailedProjectorDoesNotHold` | "mmproj failure must NOT fail the parent download" (`download.ts:716`), but the projector's transfer is started before the main one, and its error listener is registered only when the main start is answered; the catch-up beside it looks for completions only. A projector that fails in between is heard by nobody, `mmProjCompleted` stays false, and the main file arrives and is never registered |
| `Image_revived` (`ImageGeneration`) | `NoImageAfterStop` | "No image added to gallery or conversation" (`docs/standards/CODEBASE_GUIDE.md:1525`), but `cancelGeneration()` leaves the phase that keeps other requests out at once, and the next `generateImage()` lowers the flag (`imageGenerationService.ts:340`) the stopped one has not looked at yet |
| `Dictation_release` (`Dictation`) | `ReleaseWaits` | "Do not release or reuse the Whisper context until both have finished" (`whisperService.ts:424`), but `forceReset()` has cleared the flag and the handle when it waits for the native stop, and an `unloadModel()` in that window (line 119) finds nothing to wait for |
| `Dictation_uncancelled` (`Dictation`) | `CancelledNotTyped` | a second dictation lowers `isCancelled` (`useWhisperTranscription.ts:229`) for the cancelled one, too, whose final event is still on its way: its words are typed |
| `Residency_engines` (`MCModelResidency`) | `OneTextEngine` | a switch of engines means "no co-residence" (`loaders.ts:103`), but `activeModelService/index.ts:249` looks up the engine to unload by the selection of now |
| `Residency_switch` (`MCModelResidency`) | `WithinBudget` | "Before loading a model we evict others to fit a RAM budget" (`policy.ts:4`), but line 142 charges nothing for a load whose key is resident, and all text models share one key |
| `Chat_merge` (`MCChatGeneration`) | `OwnChat` | messages queued from two chats are joined, and the whole is sent in the chat of the first (`generationService.ts:483`) |
| `Chat_refused` (`MCChatGeneration`) | `NoneRefused` | a send is queued only once another has claimed the service; two sends in the window of model loading and context checks both go on, and the second is refused by `generateResponse` |
| `Chat_zombie` (`MCChatGeneration`) | `StoppedForGood` | a stop lands while a tool runs, the next turn clears the shared abort flag, and the stopped loop asks for its next completion |
| `Chat_double` (`MCChatGeneration`) | `AlwaysAlone` | `generateResponse` refuses a second completion (`llm.ts:277`), but one with tools that is refused replaces `activeCompletionPromise` and clears it (lines 349-350): the stop before its retry (`generationToolLoop.ts:632`) waits for nothing and clears the flag, and llama.cpp is asked for a second one while the first unwinds |
| `Chat_context` (`MCChatGeneration`) | `NativeContext` | "a new chat never inherits native KV/recurrent state" (`llm.ts:431`), but a turn that is stopped while it clears the cache goes on to bind the context to its own chat (line 437), under the turn of another chat that began in between |
| `ToolLoop_limit` (`ToolLoop`) | `OneLimit` | "One limit means the two engines cannot stop at different counts" (`generationToolLoop.ts`), but LiteRT's handler counts from zero for each completion and beside the loop's count |
| `ToolLoop_forgets` (`ToolLoop`) | `NothingForgotten` | compaction "keeps only the summary plus recent messages" (`contextCompaction.ts`), but the second compaction of a turn reads the summary of the turn's start and drops the first one's |

Also met, without a run: the documents give a transfer two attempts and the code
`MAX_TRANSIENT_RETRIES = 5`; `persistDownloadedModel` reads and writes the model list
without a lock (`storage.ts:317-329`), so that two models finalized at once may lose
one; LiteRT's events carry no generation id; the 20 s timer of a compaction may stop
the completion of the next turn; the `finally` of an old image coroutine forgets the
connection of the new one (in the model: `JobEnds`).

## 5. Proofs

| theorem | statement |
|---|---|
| `DownloadAdmissionProofs!TypeCorrect` | `Spec => []TypeOK` |
| `DownloadAdmissionProofs!CapHolds` | `Spec => []CapOnAdmission` |
| `DownloadAdmissionProofs!NobodyWaitsInVain` | `Spec => []WorkConserving`, if `NoRelaunch` |
| `DownloadAdmissionProofs!ServedInOrder` | `Spec => FirstComeFirstServed`, if `NoRelaunch` |
| `DownloadAdmissionProofs!TransfersCounted` | `Spec => []EveryTransferCounted`, if `NoRetakes` |
| `DownloadAdmissionProofs!SlotsComeBack` | `Spec => []NoLeakedSlot`, if `NoRetakes` |
| `DownloadAdmissionProofs!LoadWithinCap` | `Spec => []NativeLoadWithinCap`, if `NoRetakes` |
| `DownloadWorkerProofs!TypeCorrect` | `Spec => []TypeOK` |
| `DownloadWorkerProofs!CompletedIsWhole` | `Spec => []SequentialRunsKeepTheFile` |
| `DownloadWorkerProofs!LiveRowIsDriven` | `Spec => []LiveRowHasWork` |
| `DownloadWorkerProofs!FailuresAnnounced` | `Spec => []FailureIsTold` |
| `DownloadFinalizeProofs!TypeCorrect` | `Spec => []TypeOK` |
| `DownloadFinalizeProofs!ListedIsThere` | `Spec => []ListedIsOnDisk` |
| `DownloadFinalizeProofs!VisionIsKept` | `Spec => []VisionKept` |
| `DownloadFinalizeProofs!NeverTakenBack` | `Spec => NeverDowngraded` |
| `ToolLoopProofs!TypeCorrect` | `Spec => []TypeOK` |
| `ToolLoopProofs!LimitHolds` | `Spec => []CallsWithinLimit` |
| `ToolLoopProofs!CallsAnswered` | `Spec => []EveryCallAnswered` |
| `ToolLoopProofs!AnswerShown` | `Spec => []OneAnswer` |
| `ToolLoopProofs!StoppedStaysStopped` | `Spec => StopStartsNothing` |
| `ImageGenerationProofs!TypeCorrect` | `Spec => []TypeOK` |
| `ImageGenerationProofs!StopHolds` | `Spec => []StopIsKept` |
| `ImageGenerationProofs!CardIsItsOwn` | `Spec => []AloneIsShown` |
| `DictationProofs!TypeCorrect` | `Spec => []TypeOK` |
| `DictationProofs!StoppedOnce` | `Spec => []StopsOnce` |
| `DictationProofs!AudioHandedBack` | `Spec => []HandedBack` |
| `DictationProofs!CancelledStaysOut` | `Spec => []CancelledNotTyped`, if `MaxSessions = 1` |
| `ChatGenerationProofs!TypeCorrect` | `Spec => []TypeOK` |
| `ChatGenerationProofs!QueueTaken` | `Spec => []NoStrandedQueue`, if `NobodyLeaves` |
| `ChatGenerationProofs!EngineAlone` | `Spec => []OneNativeRun` |
| `ChatGenerationProofs!SlotImplements` | `Spec => SlotSpec`, if `PlainTurns` |
| `ResidencyProofs!TypeCorrect` | `Spec => []TypeOK` |
| `ResidencyProofs!AdmittedFits` | `Spec => []AdmissionsFit` |
| `ResidencyProofs!NothingUncounted` | `Spec => []Counted` |
| `ResidencyProofs!GenerationKept` | `Spec => SidecarsYield` |

They hold for every value of the constants, under `BoundsAssumption` (the cap is a
positive natural number, the bounds are natural numbers), `WorkerBounds` (a file has a
block, WorkManager tries at least once), `FinalizeAssumption` (the bounds are natural
numbers), `LoopAssumption` (engines
of the three kinds, positive limits), `ImageAssumption` (`None` is no request),
`DictationAssumption` (a session and a visit of the screen at least),
`ResidencyConstants` (text and image models are apart and have a footprint, budgets are
natural numbers), and
`TurnsAssumption` (a turn has a chat, the bounds are natural numbers, and `"none"` is
neither a turn nor a chat nor a press).

**Admission.** `TypeOK` is inductive. Its three conjuncts are proved by one lemma each,
`SlotsOK` (slots are made by starts; a queued key is queued once), `StoreOK` and
`BridgeOK`, with a lemma on `Pump` that says what its loop leaves: a suffix of the queue,
and one new token for each key it took.

`CapOnAdmission` is not inductive. `OnStarted` replaces a token by the native id it
stands for and compares nothing, so a state in which a start is answered twice, or
answered after its token is gone, would let the set grow. `StartsInv` excludes them:
each start is made once, its call and its answer are never both there, there is one
answer at most in the inbox, and the token stays until it is handled. The
inductive invariant is `CapInv == TypeOK /\ StartsInv /\ CapOnAdmission`; the proof has
one lemma per group of actions, and arithmetic on cardinalities only where a handler
releases and pumps.

`FirstComeFirstServed` says that `DownloadAdmission` implements `FifoSemaphore`, under the
mapping at the end of that module: the permits held are the tokens and the ids together.
The theorem assumes `NoRelaunch` (no restores and no process deaths), because adopting
what the native layer resumed is outside the semaphore, and is false otherwise
(`Admission_adopted.cfg`). The step that makes an invariant necessary is again
`OnStarted`: it must be a stutter, which holds if the token is there (`StartsInv`) and the
id is not there yet. `ApartInv` says the second: a start whose native half is pending
has no entry, no slot, no retry; its inductive step is the lemma family `Careful`. Two more
of its conjuncts keep tokens and sidecars apart, so that the answer to a sidecar drops no
token. The pump is a `Return` (`PumpReturns`), in whichever handler it runs: it stops at an
empty queue or at the cap, which is what `Return` asks. `WorkConserving` then follows from the
abstract module alone (`NobodyWaits`): no step of the semaphore leaves somebody waiting
next to a free permit.

`EveryTransferCounted`, `NoLeakedSlot` and `NativeLoadWithinCap` relate the service to the
native layer, and each of them speaks only of the moments at which nothing is in flight.
`LifeInv` is what holds in between. It follows one start at a time: `Ops` and `Msgs` are the
calls and messages about it, and `Life` has these parts. `StartLife`: the start, its token and
its answer. `RowLife`: what has ended does not run, and what runs is observed. `SlotLife`: who
has an id is `Due`, that is, a call, a message or the observer will give it back. `TalkLife`: one
pause or resume is being talked about at most, and the entry shows which; it holds of a start
none of whose controls was tapped twice, and so does `RunLife` (what runs has its slot, and no
resume of it is under way), from which the cap follows. `InOrder` says that the answer to a start
comes before any event of it. Each handler is shown to
be one of a few moves of the lives (`StartedLives`, `ResumedLives`, `FreedLives` ...),
the others leaving `Same`. The load is then a subset of the tokens and ids, which `CapInv`
bounds. The premise `NoRetakes` (no retries, reconciles, restores or process deaths) is that
of the run `Admission_core`. A control that is tapped twice leaves `StartLife`, `RowLife` and
`SlotLife`, so `SlotsComeBack` needs no exception for it. The premise is needed: a retry or a reconcile takes or drops a slot on the
word of a record that was read before, and TLC then finds a transfer without a slot, and more
transfers than the cap; after a restore it finds a slot that nobody gives back.

**Worker.** `TypeOK` bounds the block at which a run resumes, and that block is one more than
the length of the partial file: the file must not grow without bound when runs overlap
and append to it at the same time. `BudgetOK` counts it: the file, the blocks held by open
streams and what the run under way has still to read come to at most one file's worth for
each run begun. `SequentialRunsKeepTheFile` needs `InStep`: as long as one run is alive at most,
the block it reads next comes after the blocks of the file and the one its stream holds, and
no stream of an older run is open on that file. `LiveRowHasWork` follows a download
left alone from its row to the request, to WorkManager's record and to the run (`DrivenOK`): the work
ends only with the row that says so. `FailureIsTold` needs that whoever writes `failed` has
sent the event, owes it, or was stopped (`Told`), and that a run which is stopped before it
has told leaves work that WorkManager will run again (`Rerun`). The four invariants are proved together, since a step of a
run is one case of all of them.

**Finalize.** `ListedIsOnDisk` needs only what a finalization knows at each of its awaits
(`DiskOK`): from the move on the main file is there, and an entry about to be written with
vision has its projector there. Nothing but a cancel deletes a file, and `CancelOK` says that
none is under way until the user made one.

`VisionKept` needs to know who waits for the projector. `BeforeOK` and `SideOK` say what the
events, the awaits and the store know of its transfer, and that `SideOver` (the transfer is
complete) is final. `FirstOK`: of all contexts only that of the start waits for the projector,
and it is the first one of its process; every other finds the file on disk or not.
`ProjectorOK`: one await at most has the projector's outcome in hand, the context is not
decided before it, and is then decided by the disk, or gave it up for a reason. `MapOK`: until
then the context stays in the map, so that a retry or a scan finds it and makes no other, and
no await finalizes anything. `TextOK` is what `Sees` reads: what is registered without vision
has no projector on disk, from which `NeverDowngraded` follows too, with `DiskOK`: two
finalizations that overlap see the same disk. All of this holds while nobody cancels and no
scan registers a row before its start has returned (`Calm`). The handlers are shown to be a
few moves of the contexts (`Handles`, `Watches`), and most steps leave the projector alone
(`SideUntouched`, lemma `Going`).

The proof corrected the property. `VisionKept` blamed a retry that finds no context
(`orphan`); the induction failed at a retry that finds one, made by a scan in between, that does
not wait for the projector (`sideless`). It takes four watchers and three disturbances, one
more of each than the run has: the main file fails twice and is retried twice, a scan that read
the row as running goes on after the first finalization took the context out of the map,
and the second half of the retry restarts the projector for the context the scan made. TLC
confirms it at those bounds, and finds no other.

**Tool loop.** `TypeOK` is not inductive: that a round, a call, an attempt or a compaction
is counted beyond its range is excluded by what the loop checked before the await, not by
what it checks after. `Budgets` says so: at each await what was checked there still holds
(a round is left, the calls of the batch fit what is left of the limit, an attempt is left,
a compaction is left).

`CallsWithinLimit` bounds executions by counters that are reset. `CallsInv` counts them in
units of the limit: those of the loop are at most `total` and the one in progress;
LiteRT's are at most the limit for each round and compaction that is over, and its own
count for the completion in progress. The lemma `CallsArithmetic` holds the products.

`EveryCallAnswered` speaks of the moments at which a completion runs, and is kept through
the others by `AnsweredInv`: the result of a call lies behind it in the prompt, or the
call is in the part of the batch that is still to run. That it lies behind is what a
compaction needs: it cuts a prefix, so a call that is kept keeps its result.

`OneAnswer` and `StopStartsNothing` share one invariant, `AnswerInv`. Each round before the
last answer ran a call, so the calls run out before the rounds do, and no turn falls silent
(`RoundsInv`). What the current completion streamed is shown, but while tools run
(`ShownInv`). A stop cuts a remote completion off at once, and takes LiteRT's connection
away, so that a raised flag meets few awaits that have not looked at it (`StopInv`).

**Residency.** `TypeInv` is `TypeOK` with the shape of the operation that holds the lock: a
sidecar's eviction list holds sidecars only, and a list is empty when the load begins.

`AdmissionsFit` compares the map as it is written with a decision taken from the map as it
was read. `FitInv` carries the decision over the awaits: from the decision to the
registration, what the operation keeps and the model together fit the budget it fixed.
Only the holder of the lock registers, so that what the others do in between makes the map
smaller, and a smaller map weighs less (`TotalMono`). The footprint is a sum over the four
keys, so that no induction is needed.

`Counted` needs the beliefs of the services, which say what an eviction unloads:
`BelievedInv` has one part per engine, each under the premise that no mishap of its kind
happened. For text: while no load is late and no selection ran ahead, what an engine holds
is the loaded model, the loaded model is the selected one, and when a load begins the other
engine is empty. `Switch` makes the last of them true, and it is what keeps the
registration from hiding a model of the other engine.

**Images.** Both invariants depend on the bridge to the native side. That a reply is
taken by the await it answers is not in the code: a request awaits a promise, and the
model says so by the name of the request a reply carries. `BridgeInv` says it holds: of a
request one thing at most is under way (a call, the native coroutine, or a reply) and it
is what the request awaits. `TypeOK` needs it, because a reply taken at another await
would write a phase that this await does not have.

`StopIsKept` speaks of requests that are over. `StopInv` carries it through the awaits: a
stopped request that nothing excuses is past its end without a picture, or is at an await
after which it finds `cancelRequested` still up. Each step keeps one of the two: a
request takes the flag down only when it starts, and then excuses all others at work.

`AloneIsShown` needs that a request that started alone is `Sole`: everything under way below the
bridge, and every answer of the server, is its own, and the card shows it. A later request cannot
change that, since the guard turns it away while the phase is in flight; that the phase *is* in
flight at each of its awaits is the part the guard needs (`AloneInv`).

**Dictation.** The invariant has one part for each of the shared things. `BarrierOK`: one start at
a time is past the stop it waits for. `HandleOK`: the handle in `stopFn` is of a capture that
has begun and that nobody has stopped, from which `StopsOnce` follows, because whoever uses the
handle takes it down in the same step. `RecorderOK`: somebody will close the recorder that
runs (a start that fails, or the final event), unless its own stop or start failed, and the
session is raised to recording for a recorder only, unless the switch back failed; `HandedBack` is its case with nothing under way. `CancelledStaysOut` has the premise
`MaxSessions = 1`: with a second dictation it is false (`Dictation_uncancelled`).

**Chat turns.** `TypeInv` is `TypeOK` with the types of the functions it leaves open.
`NoStrandedQueue` needs, beside it, only that the screen is mounted: `QueueStep` shows that
what `resetState` leaves behind is a timer whenever the queue is not empty, and that whoever
takes a message begins something. `NobodyLeaves` (`MayLeave = FALSE`) is the premise because
without the screen there is no queue processor; what happens then is with TLC.

`OneNativeRun` holds for all turns. Its invariant, `AloneInv`, says that `llmService`'s own
record is right as long as no completion with tools was refused (`displaced`): what runs
is `active`, and nothing runs if it is not busy; and that the flag and the promise are down
once nothing runs, which holds even then. The lemmas go through the steps by what they do to the
engine: those that leave it alone, begin, end or stop a completion.

`SlotImplements` assumes `PlainTurns`: no tool turns and no fallback to another model. These
two take the slot without looking, or clear the abort flag between two of their own
completions, so that one argument does not cover them. The argument for plain turns,
`PlainSlotInv`: one turn at most has the current attempt (`Owns`), and only its words are
streamed or buffered. A turn can lose the slot while its completion still runs, as a stop
frees the slot at once; such a completion finds `abortRequested` up and the stop that cut it
off pending. The next owner lowers that flag, but only after it has drained the stop, and
the last conjunct says that this is the stop the completion waits for; so the flag is
lowered when nothing of the former owner is left. Each step is then a step of `ReplySlot` or
leaves the owner, what was said and what is kept unchanged.

Only model-checked: all liveness (`QueueDrains`, `Ends`, `Served`, `Settles`, `TurnsEnd`,
`TurnEnds`, `CardGoes`, `UnwantedCloses`, `StopReaches`), which is out of the prover's reach;
`NoStrandedQueue` when the user leaves.

## 6. What is assumed and what is left out

Assumed of code that is not in the repository:

* React Native delivers promise results and events to JavaScript in the order the
  native main thread posted them.
* WorkManager applies requests one after the other in the order given; a stopped
  coroutine is cancelled at a suspension point, and the next run may begin before it
  ends; after a process death running work is run again and requests not yet
  applied are lost; `runAttemptCount` is the number of runs begun before this one;
  work without constraints other than those given is never BLOCKED, so that the
  write of WAITING_FOR_NETWORK is left out.
* `removeObserver` on the LiveData of the same work removes the observer.
* Native engines hold one model each; a load that replaces a model frees the old.
* whisper.rn sends one final event for each job, works on one thing at a time and refuses
  what comes in between; a release ends what runs on the context.
* A llama.cpp completion that is stopped unwinds and settles its promise; LiteRT calls a
  tool handler and waits for its answer; a read of a connection that was closed ends.

Left out of the modelled components: the plain path of remote and LiteRT models inside
`ChatGeneration` (their tool path is in `ToolLoop`), regenerating or retrying a message, Eject
All and the deletion of a conversation while it generates; two models finalized at once,
pause and resume during finalization, downloads of files that exist already and the
repair of a projector; exceptions inside a cancel; pinning and `ensureResident`, which
nothing in the repository calls; the least recently used order as a matter of its own.

### Not modelled

The application has some 1800 files. Most of it are screens, components, tests,
build files and I/O without an order of events to get wrong, and a definition for each
of its lines would say nothing; what is modelled is where several actors share state.
By component, with the reason (also in `PROJECT.json`):

* **Device sync**: the protocol engine is in a private package; what is here binds it to
  transports. The same holds for voice and for the licensing of the pro features.
* **Remote servers and providers, model catalogue, tools**: requests and answers, tables
  and text; the order in which their answers arrive is in the modules that use them.
* **Authentication lock**: a counter and a clock, sequential and tested.
* **User interface**: the user's actions are requests of the modules, made at any time, but
  only where the screen offers them, and as often as the bounds allow (a control of one
  download is pending twice at most).
* **iOS**: the models follow Android; iOS folds a projector into one task with its model.
* **Image model downloads, download persistence across launches**: next in the plan.

## 7. Plan

In the order of importance:

1. `DownloadRelaunch`: the persisted queue and entries with a kill between any two steps.
   A start that left the queue and has no row yet is in neither snapshot; the
   restore scan does not know `retrying` and `waiting_for_network`.
2. Two models in `DownloadFinalize`, for the unlocked write of the model list.
3. Remote and LiteRT turns without tools in `ChatGeneration`; Eject All and deletion
   against a turn.
4. `ChatStore`: the hydration gate of the persisted stores.
5. Voice mode: recordings to a file, whose stop during the permission question finds no
   recorder yet; a start on a context that is being released.
6. Proofs: the slot with tool turns and fallbacks; the life of a start with
   a retry or a restore, under the weaker promise that holds there.
