------------------------------ MODULE Dictation ------------------------------
(***************************************************************************)
(* Dictating into the composer: the microphone button and its session      *)
(* (Voice.ts, recordingController), the hook that starts and stops a       *)
(* dictation (useWhisperTranscription), whisperService with its barrier    *)
(* for starts, the recorder that writes the same utterance to a file, the  *)
(* owner of the audio session, and whisper.rn below them.                  *)
(*                                                                         *)
(* Every await is a step of its own. A continuation of a promise that has  *)
(* settled runs before anything else happens (Quiet): what is left are the *)
(* orders in which native answers, timers and the user's presses arrive.   *)
(***************************************************************************)
EXTENDS Naturals, FiniteSets

CONSTANTS
    MaxSessions,    \* dictations begun (bound)
    MaxMounts,      \* times the composer is mounted (bound)
    MaxPresses,     \* presses of stop and slides to cancel (bound)
    MaxUnloads      \* calls of unloadModel (bound)

ASSUME DictationAssumption ==
    /\ {MaxSessions, MaxMounts} \subseteq Nat \ {0}
    /\ {MaxPresses, MaxUnloads} \subseteq Nat

Sessions == 1 .. MaxSessions
None == 0
SessionOrNone == Sessions \cup {None}

VARIABLES
    \* the voice session: who has the floor; the composer that is mounted
    floor, here, mounted,
    \* the hook: its refs and the state it renders
    isCancelled, current, isRecording, isTranscribing, pendingResult, timers, finalResult,
    \* each start: where it is, and the composer it belongs to
    pc, owner,
    \* whisperService: the model's context, whether it transcribes, the stop
    \* handle, the start the barrier holds stops for, and the promise that
    \* teardown is over, as the set of what it waits for
    context, busy, stopFn, starting, fully, resolved,
    \* audioRecorderService and audioSessionManager; history: the recorders whose
    \* start or stop failed, and that the last switch back to playback did
    recorder, recorded, mode, unclosed, stranded,
    \* whisper.rn: the realtime job of each session, its final event and the
    \* words that go with it
    native, event, words,
    \* calls of stopTranscription, forceReset and unloadModel under way
    tasks,
    \* history: bounds used; calls of the native stop; what was cancelled; what
    \* was typed into the draft
    presses, unloads, stopCalls, cancelled, drafted

hook == <<isCancelled, current, isRecording, isTranscribing, pendingResult, timers, finalResult>>
service == <<context, busy, stopFn, starting, fully, resolved>>
audio == <<recorder, recorded, mode, unclosed, stranded>>
whisper == <<native, event, words>>
history == <<presses, unloads, stopCalls, cancelled, drafted>>
vars == <<floor, here, mounted, hook, pc, owner, service, audio, whisper, tasks, history>>

StartSteps == {"loading", "draining", "delay", "permission", "recorder", "opening", "resetting"}
Tokens == {"ended", "stopped"} \X Sessions
Task == [for : {"stop", "cancel", "clear", "shown", "start", "unmount", "unload"} \X Nat,
         by : 0 .. MaxMounts,
         pc : {"tail", "stop", "stopping", "reset", "again", "settling", "drained", "releasing"},
         on : SessionOrNone, tokens : SUBSET Tokens]

\* Every variable stays in its range, and only a start that waits for whisper.rn
\* or for what comes before it can be the one the barrier holds stops for.
TypeOK ==
    /\ floor \in {"idle", "listen", "speak"} /\ here \in 1 .. MaxMounts
    /\ {mounted, isCancelled, isRecording, isTranscribing, busy, stranded} \subseteq BOOLEAN
    /\ {current, pendingResult, finalResult, stopFn, starting, recorder} \subseteq SessionOrNone
    /\ {timers, recorded, unclosed, cancelled, drafted} \subseteq SUBSET Sessions
    /\ pc \in [Sessions -> {"new", "done"} \cup StartSteps]
    /\ owner \in [Sessions -> 0 .. MaxMounts]
    /\ context \in {"none", "loaded", "releasing"}
    /\ fully \subseteq Tokens /\ resolved \subseteq Tokens
    /\ mode \in {"record", "playback"}
    /\ native \in [Sessions -> {"none", "opening", "capturing", "stopping", "ended"}]
    /\ event \in [Sessions -> {"none", "sent", "closing", "saving", "file", "text", "done"}]
    /\ words \in [Sessions -> SessionOrNone]
    /\ tasks \subseteq Task
    /\ presses \in 0 .. MaxPresses /\ unloads \in 0 .. MaxUnloads
    /\ stopCalls \in [Sessions -> Nat]
    /\ starting # None => pc[starting] \in {"permission", "recorder", "opening"}

Init ==
    /\ floor = "idle" /\ here = 1 /\ mounted = TRUE
    /\ isCancelled = FALSE /\ current = None /\ isRecording = FALSE /\ isTranscribing = FALSE
    /\ pendingResult = None /\ timers = {} /\ finalResult = None
    /\ pc = [s \in Sessions |-> "new"] /\ owner = [s \in Sessions |-> 0]
    /\ context \in {"none", "loaded"}
    /\ busy = FALSE /\ stopFn = None /\ starting = None /\ fully = {} /\ resolved = {}
    /\ recorder = None /\ recorded = {} /\ mode = "playback" /\ unclosed = {} /\ stranded = FALSE
    /\ native = [s \in Sessions |-> "none"] /\ event = [s \in Sessions |-> "none"]
    /\ words = [s \in Sessions |-> None]
    /\ tasks = {} /\ presses = 0 /\ unloads = 0
    /\ stopCalls = [s \in Sessions |-> 0] /\ cancelled = {} /\ drafted = {}
-----------------------------------------------------------------------------
(* Promises and tasks.                                                     *)

Alive(h) == mounted /\ here = h

Settled(tokens) ==
    \A k \in tokens : k \in resolved \/ (k[1] = "stopped" /\ native[k[2]] = "ended")

\* the promise t waits for has settled
Ready(t) ==
    \/ t.pc \in {"stop", "reset", "again"} /\ (t.on = None \/ starting # t.on)
    \/ t.pc \in {"settling", "drained"} /\ Settled(t.tokens)

Quiet == (\A t \in tasks : ~Ready(t)) /\ (\A s \in Sessions : event[s] # "text")

New(for, step, on) == [for |-> for, by |-> here, pc |-> step, on |-> on, tokens |-> {}]

\* Mutant: a stop does not wait for the start in progress.
StopAtOnce(for) == New(for, "stop", None)

\* stopTranscription has a handle to take at once; without one it waits for the
\* start in progress, as forceReset always does
StopTask(for) == New(for, "stop", IF stopFn # None THEN None ELSE starting)

ResetTask(for) == New(for, "reset", starting)

InFlight == \E s \in Sessions : owner[s] = here /\ pc[s] \in StartSteps

\* restorePlaybackAfterRecording: nothing to do unless the session records. A switch
\* that fails is only logged
Restore ==
    \/ mode' = "playback" /\ stranded' = FALSE
    \/ mode = "record" /\ mode' = "record" /\ stranded' = TRUE

\* the recorder stops, or it is dropped although it reported an error
Drop ==
    /\ recorder' = None
    /\ unclosed' \in {unclosed, unclosed \cup {recorder}}
    /\ Restore

\* the recorder does not stop: it is kept, and so is the session
Keep ==
    /\ unclosed' = unclosed \cup {recorder}
    /\ UNCHANGED <<recorder, mode, stranded>>

\* cancelRecording, if nothing throws: what records is dropped
CancelRecording ==
    \/ recorder # None /\ Drop
    \/ recorder = None /\ UNCHANGED <<recorder, mode, unclosed, stranded>>
-----------------------------------------------------------------------------
(* Starting.                                                               *)

\* the button starts a dictation: nothing happens while one is under way
Tap(s) ==
    /\ floor = "idle" /\ mounted
    /\ pc[s] = "new" /\ \A r \in Sessions : r < s => pc[r] # "new"
    /\ floor' = "listen"
    /\ IF InFlight \/ isRecording \/ busy
       THEN UNCHANGED <<pc, owner, current>>
       ELSE /\ pc' = [pc EXCEPT ![s] = "loading"] /\ owner' = [owner EXCEPT ![s] = here]
            /\ current' = s
    /\ UNCHANGED <<here, mounted, isCancelled, isRecording, isTranscribing, pendingResult,
                   timers, finalResult, service, audio, whisper, tasks, history>>

\* startRealtimeTranscription, once nothing is left to stop: the barrier goes up,
\* unless another start holds it
Begin(s) ==
    IF starting # None
    THEN /\ pc' = [pc EXCEPT ![s] = "resetting"]
         /\ tasks' = tasks \cup {ResetTask(<<"start", s>>)}
         /\ UNCHANGED <<busy, starting, fully>>
    ELSE /\ pc' = [pc EXCEPT ![s] = "permission"]
         /\ starting' = s /\ busy' = TRUE /\ fully' = {<<"ended", s>>}
         /\ UNCHANGED tasks

Superseded(s) == current # s \/ ~Alive(owner[s])

\* a start that was superseded ends here, and one whose model is not ready
NotBegun(s) ==
    /\ pc' = [pc EXCEPT ![s] = "done"]
    /\ isTranscribing' = IF Superseded(s) /\ Alive(owner[s]) THEN FALSE ELSE isTranscribing
    /\ UNCHANGED <<isCancelled, finalResult, busy, starting, fully, tasks>>

\* the model is ready and the dictation is still wanted: what still transcribes
\* is stopped first
BeginRecording(s) ==
    /\ isCancelled' = FALSE /\ finalResult' = None
    /\ IF busy \/ stopFn # None
       THEN /\ pc' = [pc EXCEPT ![s] = "draining"]
            /\ tasks' = tasks \cup {StopTask(<<"start", s>>)}
            /\ UNCHANGED <<busy, starting, fully>>
       ELSE Begin(s)
    /\ UNCHANGED isTranscribing

\* ensureModelReady has answered. A context that is being released still counts as
\* loaded
ModelReady(s) ==
    /\ pc[s] = "loading"
    /\ \/ /\ context' = IF context = "none" THEN "loaded" ELSE context
          /\ IF Superseded(s) THEN NotBegun(s) ELSE BeginRecording(s)
       \/ /\ UNCHANGED context /\ NotBegun(s)
    /\ UNCHANGED <<floor, here, mounted, current, isRecording, pendingResult, timers, owner,
                   stopFn, resolved, audio, whisper, history>>

\* 100 ms after what was there has been stopped
DelayOver(s) ==
    /\ pc[s] = "delay" /\ Begin(s)
    /\ UNCHANGED <<floor, here, mounted, hook, owner, context, stopFn, resolved, audio,
                   whisper, history>>

\* Mutant: the barrier stays up.
FailStartUnsettled(s) ==
    /\ pc' = [pc EXCEPT ![s] = "resetting"]
    /\ busy' = FALSE /\ stopFn' = None /\ UNCHANGED starting
    /\ resolved' = resolved \cup {<<"ended", s>>}
    /\ tasks' = tasks \cup {New(<<"start", s>>, "reset", None)}

\* the start throws: the barrier falls, and once the recording is discarded the
\* service is free; then the hook resets it
FailStart(s) ==
    /\ pc' = [pc EXCEPT ![s] = "resetting"]
    /\ starting' = None /\ busy' = FALSE /\ stopFn' = None
    /\ resolved' = resolved \cup {<<"ended", s>>}
    /\ tasks' = tasks \cup {New(<<"start", s>>, "reset", None)}

\* the same, when discarding the recording throws in its turn: what comes after it
\* is skipped
FailStartTwice(s) ==
    /\ pc' = [pc EXCEPT ![s] = "resetting"]
    /\ starting' = None
    /\ recorder # None /\ Keep
    /\ tasks' = tasks \cup {New(<<"start", s>>, "reset", None)}
    /\ UNCHANGED <<stopFn, resolved>>

\* the microphone is granted, which raises the session to recording, or denied.
\* A recording there still is ends first, or goes on if it cannot be stopped
Permission(s) ==
    /\ pc[s] = "permission"
    /\ \/ /\ pc' = [pc EXCEPT ![s] = "recorder"]
          /\ mode' = "record" /\ stranded' = FALSE
          /\ \/ recorder' = None /\ UNCHANGED unclosed
             \/ recorder # None /\ unclosed' = unclosed \cup {recorder} /\ UNCHANGED recorder
          /\ UNCHANGED <<starting, busy, stopFn, resolved, tasks>>
       \/ FailStart(s) /\ UNCHANGED <<recorder, mode, unclosed, stranded>>
    /\ UNCHANGED <<floor, here, mounted, hook, owner, context, fully, recorded, whisper, history>>

\* whisper.rn is called, if the context is still there
CallWhisper(s) ==
    /\ context # "none"
    /\ pc' = [pc EXCEPT ![s] = "opening"]
    /\ native' = [native EXCEPT ![s] = "opening"]
    /\ UNCHANGED <<starting, busy, stopFn, resolved, tasks>>

ContextGone(s) == context = "none" /\ FailStart(s) /\ UNCHANGED native

\* the file recorder runs; without a context it is discarded at once, or cannot be
RecorderStarts(s) ==
    /\ recorder = None
    /\ recorded' = recorded \cup {s}
    /\ \/ /\ CallWhisper(s)
          /\ recorder' = s /\ mode' = "record" /\ UNCHANGED <<unclosed, stranded>>
       \/ /\ ContextGone(s)
          /\ recorder' = None /\ Restore /\ unclosed' \in {unclosed, unclosed \cup {s}}
       \/ /\ context = "none"
          /\ pc' = [pc EXCEPT ![s] = "resetting"]
          /\ starting' = None /\ busy' = FALSE
          /\ tasks' = tasks \cup {New(<<"start", s>>, "reset", None)}
          /\ recorder' = s /\ mode' = "record" /\ unclosed' = unclosed \cup {s}
          /\ UNCHANGED <<native, stopFn, resolved, stranded>>

\* it was refused, or threw and is kept; an old one that goes on stands in its way
RecorderFails(s) ==
    /\ CallWhisper(s) \/ ContextGone(s)
    /\ \/ recorder = None /\ Restore /\ UNCHANGED <<recorder, unclosed>>
       \/ /\ recorder = None /\ recorder' = s /\ unclosed' = unclosed \cup {s}
          /\ UNCHANGED <<mode, stranded>>
       \/ recorder # None /\ UNCHANGED <<recorder, mode, unclosed, stranded>>
    /\ UNCHANGED recorded

\* the fallback recorder has answered; realtime goes on without it
Recorder(s) ==
    /\ pc[s] = "recorder"
    /\ RecorderStarts(s) \/ RecorderFails(s)
    /\ UNCHANGED <<floor, here, mounted, hook, owner, context, fully, event, words, history>>

\* what whisper.rn works on the context for: it refuses a second of these
Working(s) == native[s] \in {"capturing", "stopping"} \/ event[s] = "file"

\* whisper.rn works on one thing at a time
Open(s) ==
    /\ pc[s] = "opening"
    /\ \/ /\ native[s] = "opening"
          /\ \A r \in Sessions : ~Working(r)
          /\ native' = [native EXCEPT ![s] = "capturing"]
          /\ stopFn' = s /\ starting' = None
          /\ pc' = [pc EXCEPT ![s] = "done"]
          /\ IF Superseded(s) THEN UNCHANGED <<isRecording, isTranscribing>>
             ELSE isRecording' = TRUE /\ isTranscribing' = TRUE
          /\ UNCHANGED <<busy, resolved, tasks, recorder, mode, unclosed, stranded>>
       \/ /\ native' = [native EXCEPT ![s] = "ended"]
          /\ \/ FailStart(s) /\ s \in recorded /\ CancelRecording
             \/ FailStart(s) /\ s \notin recorded
                /\ UNCHANGED <<recorder, mode, unclosed, stranded>>
             \/ FailStartTwice(s) /\ s \in recorded /\ UNCHANGED busy
          /\ UNCHANGED <<isRecording, isTranscribing>>
    /\ UNCHANGED <<floor, here, mounted, isCancelled, current, pendingResult, timers,
                   finalResult, owner, context, fully, recorded, event, words, history>>
-----------------------------------------------------------------------------
(* Stopping.                                                               *)

\* the stop button: words may still follow for 300 ms
Stop ==
    /\ floor = "listen" /\ mounted /\ presses < MaxPresses
    /\ presses' = presses + 1
    /\ floor' = "speak"
    /\ current' = None /\ isRecording' = FALSE /\ isTranscribing' = TRUE
    /\ tasks' = tasks \cup {New(<<"stop", presses>>, "tail", None)}
    /\ UNCHANGED <<here, mounted, isCancelled, pendingResult, timers, finalResult, pc, owner,
                   service, audio, whisper, unloads, stopCalls, cancelled, drafted>>

\* Mutant: the nonce is not bumped.
ClearKeepsNonce ==
    /\ isCancelled' = TRUE /\ isTranscribing' = FALSE
    /\ pendingResult' = None /\ finalResult' = None
    /\ UNCHANGED current

\* clearResult, but for its stop
Clear ==
    /\ isCancelled' = TRUE /\ current' = None /\ isTranscribing' = FALSE
    /\ pendingResult' = None /\ finalResult' = None

\* the slide to cancel stops and clears
Cancel ==
    /\ mounted /\ presses < MaxPresses
    /\ presses' = presses + 1
    /\ floor' = "idle"
    /\ Clear /\ isRecording' = FALSE
    /\ cancelled' = cancelled \cup ({s \in Sessions : owner[s] = here} \ drafted)
    /\ tasks' = tasks \cup {New(<<"cancel", presses>>, "tail", None)}
                \cup IF busy THEN {StopTask(<<"clear", presses>>)} ELSE {}
    /\ UNCHANGED <<here, mounted, timers, pc, owner, service, audio, whisper, unloads,
                   stopCalls, drafted>>

\* the 300 ms are over
TailOver(t) ==
    /\ t.pc = "tail"
    /\ tasks' = (tasks \ {t}) \cup
                {[t EXCEPT !.pc = IF isCancelled \/ ~Alive(t.by) THEN "reset" ELSE "stop",
                           !.on = IF stopFn # None /\ ~isCancelled /\ Alive(t.by)
                                  THEN None ELSE starting]}
    /\ UNCHANGED <<floor, here, mounted, hook, pc, owner, service, audio, whisper, history>>

\* what follows the stop or the reset t
After(t) ==
    /\ pc' = IF t.for[1] # "start" THEN pc
             ELSE [pc EXCEPT ![t.for[2]] = IF @ = "draining" THEN "delay" ELSE "done"]
    /\ IF t.for[1] = "start" /\ pc[t.for[2]] = "resetting" /\ Alive(t.by)
       THEN isRecording' = FALSE /\ isTranscribing' = FALSE
       ELSE UNCHANGED <<isRecording, isTranscribing>>
    /\ floor' \in IF t.for[1] = "stop" THEN {"idle"} \cup ({floor} \cap {"listen"}) ELSE {floor}

\* the reset t threw: the start it was for is over, and what the hook shows stays
Abandon(t) == pc' = IF t.for[1] = "start" THEN [pc EXCEPT ![t.for[2]] = "done"] ELSE pc

\* stopTranscription returns: unloadModel goes on to wait for the teardown
StopDone(t) ==
    /\ busy' = FALSE
    /\ Restore
    /\ IF t.for[1] = "unload"
       THEN /\ tasks' = (tasks \ {t}) \cup {[t EXCEPT !.pc = "drained", !.tokens = fully]}
            /\ UNCHANGED <<pc, isRecording, isTranscribing, floor>>
       ELSE tasks' = tasks \ {t} /\ After(t)

CallStop(s) ==
    /\ stopCalls' = [stopCalls EXCEPT ![s] = @ + 1]
    /\ native' = [native EXCEPT ![s] = IF @ = "capturing" THEN "stopping" ELSE @]

\* Mutant: the handle is given back only when the native stop has returned.
TakeStopLate(t) ==
    /\ t.pc = "stop" /\ Ready(t)
    /\ IF stopFn # None /\ context # "none"
       THEN /\ CallStop(stopFn)
            /\ tasks' = (tasks \ {t}) \cup {[t EXCEPT !.pc = "stopping", !.on = stopFn]}
            /\ UNCHANGED <<busy, mode, stranded, pc, isRecording, isTranscribing, floor, stopFn>>
       ELSE stopFn' = None /\ StopDone(t) /\ UNCHANGED <<native, stopCalls>>
    /\ UNCHANGED <<here, mounted, isCancelled, current, pendingResult, timers, finalResult,
                   owner, context, starting, fully, resolved, recorder, recorded, unclosed,
                   event, words, presses, unloads, cancelled, drafted>>

\* stopTranscription takes the handle, so that nobody else calls it
TakeStop(t) ==
    /\ t.pc = "stop" /\ Ready(t)
    /\ stopFn' = None
    /\ IF stopFn # None /\ context # "none"
       THEN /\ CallStop(stopFn)
            /\ tasks' = (tasks \ {t}) \cup {[t EXCEPT !.pc = "stopping", !.on = stopFn]}
            /\ UNCHANGED <<busy, mode, stranded, pc, isRecording, isTranscribing, floor>>
       ELSE StopDone(t) /\ UNCHANGED <<native, stopCalls>>
    /\ UNCHANGED <<here, mounted, isCancelled, current, pendingResult, timers, finalResult,
                   owner, context, starting, fully, resolved, recorder, recorded, unclosed,
                   event, words, presses, unloads, cancelled, drafted>>

\* the native stop has returned
StopReturns(t) ==
    /\ t.pc = "stopping" /\ native[t.on] = "ended"
    /\ StopDone(t)
    /\ UNCHANGED <<here, mounted, isCancelled, current, pendingResult, timers, finalResult,
                   owner, context, stopFn, starting, fully, resolved, recorder, recorded,
                   unclosed, whisper, history>>

\* forceReset: the handle is taken, the promise of the teardown replaced and the
\* recording discarded. If that throws the rest is skipped, and the hook's stop
\* resets once more
Reset(t) ==
    /\ t.pc \in {"reset", "again"} /\ Ready(t)
    /\ stopFn' = None
    /\ IF stopFn # None /\ context # "none"
       THEN CallStop(stopFn) /\ fully' = fully \cup {<<"stopped", stopFn>>}
       ELSE fully' = {} /\ UNCHANGED <<native, stopCalls>>
    /\ \/ /\ CancelRecording
          /\ busy' = FALSE
          /\ tasks' = (tasks \ {t}) \cup {[t EXCEPT !.pc = "settling", !.tokens = fully']}
          /\ UNCHANGED pc
       \/ /\ recorder # None /\ Keep
          /\ IF t.for[1] \in {"stop", "cancel"} /\ t.pc = "reset"
             THEN tasks' = (tasks \ {t}) \cup {[t EXCEPT !.pc = "again", !.on = starting]}
                  /\ UNCHANGED pc
             ELSE tasks' = tasks \ {t} /\ Abandon(t)
          /\ UNCHANGED busy
    /\ UNCHANGED <<floor, here, mounted, hook, owner, context, starting, resolved,
                   recorded, event, words, presses, unloads, cancelled, drafted>>

\* forceReset returns
ResetDone(t) ==
    /\ t.pc = "settling" /\ Ready(t)
    /\ tasks' = tasks \ {t} /\ After(t)
    /\ UNCHANGED <<here, mounted, isCancelled, current, pendingResult, timers, finalResult,
                   owner, service, audio, whisper, history>>
-----------------------------------------------------------------------------
(* What was said.                                                          *)

\* the realtime job ends: because it was stopped, or by itself
NativeEnds(s) ==
    /\ native[s] \in {"stopping", "capturing"}
    /\ native' = [native EXCEPT ![s] = "ended"]
    /\ event' = [event EXCEPT ![s] = "sent"]
    /\ UNCHANGED <<floor, here, mounted, hook, pc, owner, service, audio, words, tasks, history>>

\* Mutant: the recorder is closed only when its file is needed.
HeardKeepsRecorder(s) ==
    /\ event[s] = "sent"
    /\ IF s \in recorded /\ recorder # None
       THEN \/ /\ event' = [event EXCEPT ![s] = "text"]
               /\ words' = [words EXCEPT ![s] = s]
               /\ UNCHANGED <<recorder, mode, unclosed, stranded>>
            \/ /\ event' = [event EXCEPT ![s] = "saving"]
               /\ words' = [words EXCEPT ![s] = recorder]
               /\ Drop
       ELSE /\ event' = [event EXCEPT ![s] = "text"]
            /\ \E w \in {s, None} : words' = [words EXCEPT ![s] = w]
            /\ UNCHANGED <<recorder, mode, unclosed, stranded>>
    /\ UNCHANGED <<floor, here, mounted, hook, pc, owner, service, recorded, native, tasks,
                   history>>

\* the final event: the recorder, if there is one, is closed, and the file it wrote
\* kept in case whisper.rn heard nothing. A recorder that fails leaves what whisper.rn
\* heard, and is kept if it goes on
FinalEvent(s) ==
    /\ event[s] = "sent"
    /\ \/ /\ s \in recorded /\ recorder # None /\ Drop
          /\ \/ /\ event' = [event EXCEPT ![s] = "closing"]
                /\ \E w \in {s, None} : words' = [words EXCEPT ![s] = w]
             \/ /\ event' = [event EXCEPT ![s] = "saving"]
                /\ words' = [words EXCEPT ![s] = recorder]
       \/ /\ IF s \in recorded /\ recorder # None THEN Keep
             ELSE UNCHANGED <<recorder, mode, unclosed, stranded>>
          /\ event' = [event EXCEPT ![s] = "text"]
          /\ \E w \in {s, None} : words' = [words EXCEPT ![s] = w]
    /\ UNCHANGED <<floor, here, mounted, hook, pc, owner, service, recorded, native, tasks,
                   history>>

\* the recorder is closed; the file is transcribed unless whisper.rn refuses
RecorderClosed(s) ==
    /\ \/ /\ event[s] = "closing" /\ UNCHANGED words
          /\ event' = [event EXCEPT ![s] = "text"]
       \/ /\ event[s] = "saving"
          /\ IF context = "none" \/ \E r \in Sessions : Working(r)
             THEN /\ event' = [event EXCEPT ![s] = "text"]
                  /\ words' = [words EXCEPT ![s] = None]
             ELSE event' = [event EXCEPT ![s] = "file"] /\ UNCHANGED words
    /\ UNCHANGED <<floor, here, mounted, hook, pc, owner, service, audio, native, tasks, history>>

\* transcribeFile has answered, with words or without
FileTranscribed(s) ==
    /\ event[s] = "file"
    /\ event' = [event EXCEPT ![s] = "text"]
    /\ \E w \in {words[s], None} : words' = [words EXCEPT ![s] = w]
    /\ UNCHANGED <<floor, here, mounted, hook, pc, owner, service, audio, native, tasks, history>>

\* the text goes to the hook, which shows it at once or when it has shown that it
\* transcribes for long enough; then the service is free
Finish(s) ==
    /\ event[s] = "text"
    /\ event' = [event EXCEPT ![s] = "done"]
    /\ IF isCancelled \/ ~Alive(owner[s])
       THEN UNCHANGED <<isRecording, isTranscribing, pendingResult, timers, finalResult>>
       ELSE /\ isRecording' = FALSE
            /\ \/ /\ words[s] = None /\ isTranscribing' = FALSE
                  /\ UNCHANGED <<pendingResult, timers, finalResult>>
               \/ /\ words[s] # None /\ finalResult' = words[s]
                  /\ UNCHANGED <<isTranscribing, pendingResult, timers>>
               \/ /\ words[s] # None /\ pendingResult' = words[s] /\ timers' = timers \cup {s}
                  /\ UNCHANGED <<isTranscribing, finalResult>>
    /\ busy' = FALSE /\ stopFn' = None
    /\ resolved' = resolved \cup {<<"ended", s>>}
    /\ UNCHANGED <<floor, here, mounted, isCancelled, current, pc, owner, context, starting,
                   fully, audio, native, words, tasks, history>>

\* the minimum time is over
TimerFires(s) ==
    /\ s \in timers
    /\ timers' = timers \ {s}
    /\ IF ~Alive(owner[s]) THEN UNCHANGED <<isTranscribing, pendingResult, finalResult>>
       ELSE IF ~isCancelled /\ pendingResult # None
       THEN /\ finalResult' = pendingResult /\ pendingResult' = None
            /\ UNCHANGED isTranscribing
       ELSE isTranscribing' = FALSE /\ UNCHANGED <<pendingResult, finalResult>>
    /\ UNCHANGED <<floor, here, mounted, isCancelled, current, isRecording, pc, owner, service,
                   audio, whisper, tasks, history>>

\* the composer takes the text into the draft and clears the hook
TypeIntoDraft ==
    /\ finalResult # None /\ mounted
    /\ drafted' = drafted \cup {finalResult}
    /\ Clear
    /\ tasks' = tasks \cup IF busy THEN {StopTask(<<"shown", finalResult>>)} ELSE {}
    /\ UNCHANGED <<floor, here, mounted, isRecording, timers, pc, owner, service, audio,
                   whisper, presses, unloads, stopCalls, cancelled>>
-----------------------------------------------------------------------------
(* The screen and the model.                                               *)

\* Mutant: the hook has nothing to do when it unmounts.
LeaveOpen ==
    /\ mounted /\ mounted' = FALSE
    /\ UNCHANGED <<floor, here, hook, pc, owner, service, audio, whisper, tasks, history>>

\* the screen is left: what transcribes is reset
Leave ==
    /\ mounted /\ mounted' = FALSE
    /\ tasks' = tasks \cup IF busy THEN {ResetTask(<<"unmount", here>>)} ELSE {}
    /\ UNCHANGED <<floor, here, hook, pc, owner, service, audio, whisper, history>>

\* and opened again, with a hook of its own
Return ==
    /\ ~mounted /\ here < MaxMounts
    /\ mounted' = TRUE /\ here' = here + 1
    /\ isCancelled' = FALSE /\ current' = None /\ isRecording' = FALSE
    /\ isTranscribing' = FALSE /\ pendingResult' = None /\ finalResult' = None
    /\ UNCHANGED <<floor, timers, pc, owner, service, audio, whisper, tasks, history>>

\* unloadModel: for an eviction, or because the model is deleted
Unload ==
    /\ context # "none" /\ unloads < MaxUnloads
    /\ unloads' = unloads + 1
    /\ tasks' = tasks \cup
          IF busy \/ stopFn # None THEN {StopTask(<<"unload", unloads>>)}
          ELSE {New(<<"unload", unloads>>, "drained", None)}
    /\ UNCHANGED <<floor, here, mounted, hook, pc, owner, service, audio, whisper, presses,
                   stopCalls, cancelled, drafted>>

\* nothing is left to wait for: the context is released, once
Release(t) ==
    /\ t.pc = "drained" /\ Ready(t)
    /\ IF context = "loaded"
       THEN /\ context' = "releasing"
            /\ tasks' = (tasks \ {t}) \cup {[t EXCEPT !.pc = "releasing", !.tokens = {}]}
       ELSE tasks' = tasks \ {t} /\ UNCHANGED context
    /\ UNCHANGED <<floor, here, mounted, hook, pc, owner, busy, stopFn, starting, fully,
                   resolved, audio, whisper, history>>

\* the native release joins the threads of the context: what ran on it has ended
Released(t) ==
    /\ t.pc = "releasing"
    /\ context' = "none"
    /\ native' = [s \in Sessions |->
                    IF native[s] \in {"opening", "capturing", "stopping"} THEN "ended"
                    ELSE native[s]]
    /\ event' = [s \in Sessions |->
                    CASE native[s] \in {"capturing", "stopping"} -> "sent"
                      [] event[s] = "file" -> "text"
                      [] OTHER -> event[s]]
    /\ words' = [s \in Sessions |-> IF event[s] = "file" THEN None ELSE words[s]]
    /\ tasks' = tasks \ {t}
    /\ UNCHANGED <<floor, here, mounted, hook, pc, owner, busy, stopFn, starting, fully,
                   resolved, audio, history>>
-----------------------------------------------------------------------------
Continue ==
    \/ \E t \in tasks : TakeStop(t) \/ Reset(t) \/ ResetDone(t) \/ Release(t)
    \/ \E s \in Sessions : Finish(s)

\* the user and the memory manager
Press == Quiet /\ (\/ \E s \in Sessions : Tap(s)
                   \/ Stop \/ Cancel \/ Leave \/ Return \/ Unload)

\* native answers and timers
Answer(s) ==
    Quiet /\ (\/ ModelReady(s) \/ DelayOver(s) \/ Permission(s) \/ Recorder(s) \/ Open(s)
              \/ FinalEvent(s) \/ RecorderClosed(s) \/ FileTranscribed(s) \/ TimerFires(s))

Resume == Quiet /\ \E t \in tasks : TailOver(t) \/ StopReturns(t) \/ Released(t)

Next ==
    \/ Continue \/ Press \/ Resume
    \/ \E s \in Sessions : Answer(s) \/ (Quiet /\ NativeEnds(s))
    \/ Quiet /\ TypeIntoDraft

Spec == Init /\ [][Next]_vars

\* Continuations run, timers fire, the text is rendered, and whisper.rn and the
\* recorder answer what they are asked. Nobody has to press anything, nothing has
\* to be unloaded, and a realtime job need not end by itself.
Fairness ==
    /\ WF_vars(Continue) /\ WF_vars(Resume) /\ WF_vars(Quiet /\ TypeIntoDraft)
    /\ \A s \in Sessions : /\ WF_vars(Answer(s))
                           /\ WF_vars(Quiet /\ native[s] = "stopping" /\ NativeEnds(s))

FairSpec == Spec /\ Fairness
-----------------------------------------------------------------------------
(* Properties.                                                             *)

\* Whoever asks to stop - the button after its 300 ms, the draft that took the
\* text, the screen that is left, an eviction - whisper.rn is told once per job:
\* a second call crashes it.
StopsOnce == \A s \in Sessions : stopCalls[s] <= 1

AtRest ==
    /\ tasks = {}
    /\ \A s \in Sessions : /\ pc[s] \notin StartSteps
                           /\ native[s] \in {"none", "ended"} /\ event[s] \in {"none", "done"}

\* When no dictation is under way, however the last ones ended, the recorder that
\* writes to a file does not run on, unless it failed to stop, and is kept for the
\* next start to stop; and the audio session is for playback again, so that replies
\* are heard, unless that recorder needs it or the switch itself failed.
HandedBack == AtRest =>
    /\ recorder # None => recorder \in unclosed
    /\ mode = "record" => recorder # None \/ stranded

\* What was said before the slide to cancel is not typed into the draft after it.
CancelledNotTyped == cancelled \cap drafted = {}

\* A realtime job that captures is the one the stop handle stops. The code loses
\* the handle when an older dictation finishes late: Finish clears whatever there
\* is.
NoGhost == \A s \in Sessions : native[s] = "capturing" => stopFn = s

\* The release of the context begins when nothing is transcribed on it. The code
\* begins it while a reset still waits for the native stop.
ReleaseWaits ==
    [][context = "loaded" /\ context' = "releasing" => \A s \in Sessions : ~Working(s)]_vars

\* A dictation that was stopped, cancelled or left, whenever in its start that was,
\* ends with whisper.rn's microphone closed, with the recorder off unless it failed to
\* stop, and with the service free unless a recorder that threw kept it from that.
UnwantedCloses == \A s \in Sessions :
    (pc[s] # "new" /\ Superseded(s)) ~>
        /\ native[s] \in {"none", "ended"}
        /\ recorder # s \/ s \in unclosed
        /\ ~busy \/ unclosed # {}

\* A stop or a reset asked while whisper.rn is about to capture is not lost: the
\* capture it was too early for ends.
StopReaches == \A s \in Sessions :
    (starting = s /\ \E t \in tasks : t.pc \in {"stop", "reset"})
        ~> (native[s] \notin {"opening", "capturing"})
=============================================================================
