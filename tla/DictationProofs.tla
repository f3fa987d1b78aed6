--------------------------- MODULE DictationProofs ---------------------------
(***************************************************************************)
(* Dictation, for every number of sessions, mounts, presses and unloads:   *)
(* the variables stay in their ranges, whisper.rn is told to stop at most  *)
(* once per job, the microphone and the audio session are handed back, and *)
(* - with a single dictation - what was cancelled is not typed.            *)
(***************************************************************************)
EXTENDS Dictation, TLAPS

\* TypeOK, by kinds of variables.
FlagsOK ==
    /\ mounted \in BOOLEAN /\ isCancelled \in BOOLEAN /\ isRecording \in BOOLEAN
    /\ isTranscribing \in BOOLEAN /\ busy \in BOOLEAN /\ stranded \in BOOLEAN
SlotsOK ==
    /\ current \in SessionOrNone /\ pendingResult \in SessionOrNone
    /\ finalResult \in SessionOrNone /\ stopFn \in SessionOrNone
    /\ starting \in SessionOrNone /\ recorder \in SessionOrNone
SetsOK ==
    /\ timers \subseteq Sessions /\ recorded \subseteq Sessions /\ unclosed \subseteq Sessions
    /\ cancelled \subseteq Sessions /\ drafted \subseteq Sessions
PlaceOK ==
    /\ floor \in {"idle", "listen", "speak"} /\ here \in 1 .. MaxMounts
    /\ context \in {"none", "loaded", "releasing"} /\ mode \in {"record", "playback"}
    /\ presses \in 0 .. MaxPresses /\ unloads \in 0 .. MaxUnloads
TokensOK == fully \subseteq Tokens /\ resolved \subseteq Tokens
StartsOK ==
    /\ pc \in [Sessions -> {"new", "done"} \cup StartSteps]
    /\ owner \in [Sessions -> 0 .. MaxMounts]
    /\ starting # None => pc[starting] \in {"permission", "recorder", "opening"}
WhisperOK ==
    /\ native \in [Sessions -> {"none", "opening", "capturing", "stopping", "ended"}]
    /\ event \in [Sessions -> {"none", "sent", "closing", "saving", "file", "text", "done"}]
    /\ words \in [Sessions -> SessionOrNone]
    /\ stopCalls \in [Sessions -> Nat]
Typed ==
    /\ FlagsOK /\ SlotsOK /\ SetsOK /\ PlaceOK /\ TokensOK /\ StartsOK /\ WhisperOK
    /\ tasks \subseteq Task

\* A stop that waits for the native one knows which, and a start that waits for a
\* stop or a reset waits for one.
TasksOK ==
    /\ \A t \in tasks :
          /\ t.pc = "stopping" => t.on \in Sessions
          /\ t.for[1] = "start" => /\ t.for[2] \in Sessions
                                   /\ pc[t.for[2]] \in {"draining", "resetting"}
    /\ \A t, u \in tasks : t.for[1] = "start" /\ u.for = t.for => u = t

\* Only one start at a time is past the barrier: the one it holds stops for.
BarrierOK == \A s \in Sessions :
    pc[s] \in {"permission", "recorder", "opening"} => starting = s

\* The handle is of a capture that has begun and that nobody has stopped.
HandleOK == \A s \in Sessions :
    /\ stopCalls[s] <= 1
    /\ stopFn = s => stopCalls[s] = 0 /\ pc[s] = "done"
    /\ stopCalls[s] = 1 => pc[s] = "done"

\* A realtime job is asked for when the recorder has answered, and its final event comes
\* when it has ended.
EventOK == \A s \in Sessions :
    /\ pc[s] \in {"new", "loading", "draining", "delay", "permission", "recorder"}
          => native[s] = "none"
    /\ event[s] # "none" => native[s] = "ended"

\* A recorder that runs on failed to start or to stop, or somebody will close it: the
\* start if it fails, else the final event of the session. The session of the device is
\* raised to recording for a recorder, or for one that is about to start, or the switch
\* back has failed.
RecorderOK ==
    /\ recorder # None =>
          \/ recorder \in unclosed
          \/ /\ recorder \in recorded
             /\ \/ pc[recorder] = "opening"
                \/ native[recorder] \in {"capturing", "stopping"}
                \/ event[recorder] = "sent"
    /\ mode = "record" => \/ recorder # None \/ stranded
                          \/ \E s \in Sessions : pc[s] = "recorder"
    /\ \A s \in Sessions : pc[s] = "recorder" => recorder = None \/ recorder \in unclosed

\* What was cancelled belongs to a composer that is gone, or to one whose hook is
\* cancelled and waits for nothing.
CancelOK ==
    /\ \A s \in cancelled : /\ pc[s] # "new" /\ owner[s] \in 1 .. here
                            /\ owner[s] = here => isCancelled /\ current # s
    /\ finalResult \notin cancelled /\ pendingResult \notin cancelled
    /\ \A s \in Sessions : pc[s] = "new" => owner[s] = 0
    /\ CancelledNotTyped

\* The inductive invariant.
IInv == Typed /\ TasksOK /\ BarrierOK /\ HandleOK /\ EventOK /\ RecorderOK
-----------------------------------------------------------------------------
LEMMA TypeParts == TypeOK <=> Typed
BY DictationAssumption DEF TypeOK, Typed, FlagsOK, SlotsOK, SetsOK, PlaceOK, TokensOK,
   StartsOK, WhisperOK

LEMMA NoneIsNone == None \notin Sessions
BY DictationAssumption DEF None, Sessions

\* The steps of the program, by who takes them.
LEMMA Steps ==
  ASSUME Next
  PROVE  \/ \E t \in tasks : \/ TakeStop(t) \/ Reset(t) \/ ResetDone(t) \/ Release(t)
                             \/ TailOver(t) \/ StopReturns(t) \/ Released(t)
         \/ \E s \in Sessions :
               \/ Tap(s) \/ ModelReady(s) \/ DelayOver(s) \/ Permission(s) \/ Recorder(s)
               \/ Open(s) \/ NativeEnds(s) \/ FinalEvent(s) \/ RecorderClosed(s)
               \/ FileTranscribed(s) \/ Finish(s) \/ TimerFires(s)
         \/ Stop \/ Cancel \/ TypeIntoDraft \/ Leave \/ Return \/ Unload
BY DEF Next, Continue, Press, Resume, Answer

\* Where the start of a dictation goes once its model is there.
LEMMA ModelReadySteps ==
  ASSUME NEW s \in Sessions, ModelReady(s)
  PROVE  /\ pc[s] = "loading"
         /\ \E step \in {"done", "draining", "resetting", "permission"} :
               /\ pc' = [pc EXCEPT ![s] = step]
               /\ IF step = "permission" THEN starting = None /\ starting' = s
                  ELSE starting' = starting
         /\ UNCHANGED <<owner, mounted, here, current, stopFn, recorder, recorded,
                        mode, unclosed, stranded, native, event, words, stopCalls, cancelled, drafted>>
<1> USE DEF ModelReady, audio, whisper, history
<1>1. CASE NotBegun(s)
  BY <1>1 DEF NotBegun
<1>2. CASE BeginRecording(s)
  BY <1>2 DEF BeginRecording, Begin
<1> QED BY <1>1, <1>2


LEMMA ModelReadyTasks ==
  ASSUME NEW s \in Sessions, ModelReady(s)
  PROVE  /\ pc[s] = "loading" /\ resolved' = resolved /\ fully' \in {fully, {<<"ended", s>>}}
         /\ \E step \in {"done", "draining", "resetting", "permission"} :
               /\ pc' = [pc EXCEPT ![s] = step]
               /\ \/ tasks' = tasks
                  \/ /\ step \in {"draining", "resetting"}
                     /\ \E t \in {StopTask(<<"start", s>>), ResetTask(<<"start", s>>)} :
                           tasks' = tasks \cup {t}
<1> USE DEF ModelReady, audio, whisper, history
<1>1. CASE NotBegun(s)
  BY <1>1 DEF NotBegun
<1>2. CASE BeginRecording(s)
  BY <1>2 DEF BeginRecording, Begin
<1> QED BY <1>1, <1>2

-----------------------------------------------------------------------------
(* The variables stay in their ranges.                                     *)

LEMMA FlagsTyped == Typed /\ TasksOK /\ BarrierOK /\ Next => FlagsOK'
<1> SUFFICES ASSUME Typed, TasksOK, BarrierOK, Next PROVE FlagsOK'
  OBVIOUS
<1> USE NoneIsNone, DictationAssumption DEF Typed, hook, service, audio, whisper,
    history, Restore, Drop, Keep, None
<1>1. CASE \E t \in tasks : TakeStop(t) \/ Reset(t) \/ ResetDone(t) \/ Release(t)
  <2>1. CASE \E t \in tasks : TakeStop(t)
    BY <2>1 DEF TakeStop, StopDone, After, CallStop, FlagsOK
  <2>2. CASE \E t \in tasks : Reset(t)
    <3>1. stranded' \in BOOLEAN /\ busy' \in BOOLEAN
      BY <2>2 DEF Reset, CancelRecording, FlagsOK
    <3>2. UNCHANGED <<mounted, isCancelled, isRecording, isTranscribing>>
      BY <2>2 DEF Reset
    <3> QED BY <3>1, <3>2 DEF FlagsOK
  <2>3. CASE \E t \in tasks : ResetDone(t) \/ Release(t)
    BY <2>3 DEF ResetDone, After, Release, FlagsOK
  <2> QED BY <1>1, <2>1, <2>2, <2>3
<1>2. CASE \E t \in tasks : TailOver(t) \/ StopReturns(t) \/ Released(t)
  BY <1>2 DEF TailOver, StopReturns, StopDone, After, Released, FlagsOK
<1>3. CASE \E s \in Sessions : Tap(s) \/ DelayOver(s) \/ Permission(s) \/ Recorder(s)
  BY <1>3 DEF Tap, DelayOver, Begin, ResetTask, New, Permission, FailStart, Recorder,
     RecorderStarts, RecorderFails, CallWhisper, ContextGone,
     FlagsOK
<1>4. CASE \E s \in Sessions : ModelReady(s)
  BY <1>4 DEF ModelReady, NotBegun, BeginRecording, Begin, Superseded, StopTask,
     ResetTask, New, FlagsOK
<1>5. CASE \E s \in Sessions : Open(s) \/ NativeEnds(s) \/ FinalEvent(s) \/
        RecorderClosed(s)
  BY <1>5 DEF Open, FailStart, FailStartTwice, New, CancelRecording, NativeEnds, FinalEvent,
     RecorderClosed, FlagsOK
<1>6. CASE \E s \in Sessions : FileTranscribed(s) \/ Finish(s) \/ TimerFires(s)
  BY <1>6 DEF FileTranscribed, Finish, TimerFires, FlagsOK
<1>7. CASE Stop \/ Cancel \/ Leave \/ Return \/ Unload \/ TypeIntoDraft
  BY <1>7 DEF Stop, New, Cancel, Clear, StopTask, Leave, ResetTask, Return, Unload,
     TypeIntoDraft, FlagsOK
<1> QED BY Steps, <1>1, <1>2, <1>3, <1>4, <1>5, <1>6, <1>7

LEMMA SlotsTyped == Typed /\ TasksOK /\ BarrierOK /\ Next => SlotsOK'
<1> SUFFICES ASSUME Typed, TasksOK, BarrierOK, Next PROVE SlotsOK'
  OBVIOUS
<1> USE NoneIsNone, DictationAssumption DEF Typed, hook, service, audio, whisper,
    history, Restore, Drop, Keep, None
<1>1. CASE \E t \in tasks : TakeStop(t) \/ Reset(t) \/ ResetDone(t) \/ Release(t)
  BY <1>1 DEF TakeStop, StopDone, After, CallStop, Ready, Settled, Reset,
     Abandon, CancelRecording, ResetDone, Release, FlagsOK, SlotsOK, StartsOK, WhisperOK,
     SessionOrNone
<1>2. CASE \E t \in tasks : TailOver(t) \/ StopReturns(t) \/ Released(t)
  BY <1>2 DEF TailOver, StopReturns, StopDone, After, Released, FlagsOK, SlotsOK,
     StartsOK, WhisperOK, SessionOrNone
<1>3. CASE \E s \in Sessions : Tap(s) \/ DelayOver(s) \/ Permission(s) \/ Recorder(s)
  BY <1>3 DEF Tap, DelayOver, Begin, ResetTask, New, Permission, FailStart, Recorder,
     RecorderStarts, RecorderFails, CallWhisper, ContextGone,
     FlagsOK, SlotsOK, StartsOK, WhisperOK, SessionOrNone
<1>4. CASE \E s \in Sessions : ModelReady(s)
  BY <1>4 DEF ModelReady, NotBegun, BeginRecording, Begin, Superseded, StopTask,
     ResetTask, New, FlagsOK, SlotsOK, StartsOK, WhisperOK, SessionOrNone
<1>5. CASE \E s \in Sessions : Open(s) \/ NativeEnds(s) \/ FinalEvent(s) \/
        RecorderClosed(s)
  BY <1>5 DEF Open, FailStart, FailStartTwice, New, CancelRecording, NativeEnds, FinalEvent,
     RecorderClosed, FlagsOK, SlotsOK, StartsOK, WhisperOK, SessionOrNone
<1>6. CASE \E s \in Sessions : FileTranscribed(s) \/ Finish(s) \/ TimerFires(s)
  BY <1>6 DEF FileTranscribed, Finish, TimerFires, FlagsOK, SlotsOK, StartsOK, WhisperOK,
     SessionOrNone
<1>7. CASE Stop \/ Cancel \/ Leave \/ Return \/ Unload \/ TypeIntoDraft
  BY <1>7 DEF Stop, New, Cancel, Clear, StopTask, Leave, ResetTask, Return, Unload,
     TypeIntoDraft, FlagsOK, SlotsOK, StartsOK, WhisperOK, SessionOrNone
<1> QED BY Steps, <1>1, <1>2, <1>3, <1>4, <1>5, <1>6, <1>7

LEMMA SetsTyped == Typed /\ TasksOK /\ BarrierOK /\ Next => SetsOK'
<1> SUFFICES ASSUME Typed, TasksOK, BarrierOK, Next PROVE SetsOK'
  OBVIOUS
<1> USE NoneIsNone, DictationAssumption DEF Typed, hook, service, audio, whisper,
    history, Restore, Drop, Keep, None
<1>1. CASE \E t \in tasks : TakeStop(t) \/ Reset(t) \/ ResetDone(t) \/ Release(t)
  BY <1>1 DEF TakeStop, StopDone, After, CallStop, Ready, Settled, Reset,
     Abandon, CancelRecording, ResetDone, Release, FlagsOK, SetsOK, SlotsOK, SessionOrNone
<1>2. CASE \E t \in tasks : TailOver(t) \/ StopReturns(t) \/ Released(t)
  BY <1>2 DEF TailOver, StopReturns, StopDone, After, Released, FlagsOK, SetsOK, SlotsOK,
     SessionOrNone
<1>3. CASE \E s \in Sessions : Tap(s) \/ DelayOver(s) \/ Permission(s) \/ Recorder(s)
  BY <1>3 DEF Tap, DelayOver, Begin, ResetTask, New, Permission, FailStart, Recorder,
     RecorderStarts, RecorderFails, CallWhisper, ContextGone,
     FlagsOK, SetsOK, SlotsOK, SessionOrNone
<1>4. CASE \E s \in Sessions : ModelReady(s)
  BY <1>4 DEF ModelReady, NotBegun, BeginRecording, Begin, Superseded, StopTask,
     ResetTask, New, FlagsOK, SetsOK, SlotsOK, SessionOrNone
<1>5. CASE \E s \in Sessions : Open(s) \/ NativeEnds(s) \/ FinalEvent(s) \/
        RecorderClosed(s)
  BY <1>5 DEF Open, FailStart, FailStartTwice, New, CancelRecording, NativeEnds, FinalEvent,
     RecorderClosed, FlagsOK, SetsOK, SlotsOK, SessionOrNone
<1>6. CASE \E s \in Sessions : FileTranscribed(s) \/ Finish(s) \/ TimerFires(s)
  BY <1>6 DEF FileTranscribed, Finish, TimerFires, FlagsOK, SetsOK, SlotsOK,
     SessionOrNone
<1>7. CASE Stop \/ Cancel \/ Leave \/ Return \/ Unload \/ TypeIntoDraft
  BY <1>7 DEF Stop, New, Cancel, Clear, StopTask, Leave, ResetTask, Return, Unload,
     TypeIntoDraft, FlagsOK, SetsOK, SlotsOK, SessionOrNone
<1> QED BY Steps, <1>1, <1>2, <1>3, <1>4, <1>5, <1>6, <1>7

LEMMA PlaceTyped == Typed /\ TasksOK /\ BarrierOK /\ Next => PlaceOK'
<1> SUFFICES ASSUME Typed, TasksOK, BarrierOK, Next PROVE PlaceOK'
  OBVIOUS
<1> USE NoneIsNone, DictationAssumption DEF Typed, hook, service, audio, whisper,
    history, Restore, Drop, Keep, None
<1>1. CASE \E t \in tasks : TakeStop(t) \/ Reset(t) \/ ResetDone(t) \/ Release(t)
  BY <1>1 DEF TakeStop, StopDone, After, CallStop, Ready, Settled, Reset,
     Abandon, CancelRecording, ResetDone, Release, PlaceOK
<1>2. CASE \E t \in tasks : TailOver(t) \/ StopReturns(t) \/ Released(t)
  BY <1>2 DEF TailOver, StopReturns, StopDone, After, Released, PlaceOK
<1>3. CASE \E s \in Sessions : Tap(s) \/ DelayOver(s) \/ Permission(s) \/ Recorder(s)
  BY <1>3 DEF Tap, DelayOver, Begin, ResetTask, New, Permission, FailStart, Recorder,
     RecorderStarts, RecorderFails, CallWhisper, ContextGone,
     PlaceOK
<1>4. CASE \E s \in Sessions : ModelReady(s)
  BY <1>4 DEF ModelReady, NotBegun, BeginRecording, Begin, Superseded, StopTask,
     ResetTask, New, PlaceOK
<1>5. CASE \E s \in Sessions : Open(s) \/ NativeEnds(s) \/ FinalEvent(s) \/
        RecorderClosed(s)
  BY <1>5 DEF Open, FailStart, FailStartTwice, New, CancelRecording, NativeEnds, FinalEvent,
     RecorderClosed, PlaceOK
<1>6. CASE \E s \in Sessions : FileTranscribed(s) \/ Finish(s) \/ TimerFires(s)
  BY <1>6 DEF FileTranscribed, Finish, TimerFires, PlaceOK
<1>7. CASE Stop \/ Cancel \/ Leave \/ Return \/ Unload \/ TypeIntoDraft
  BY <1>7 DEF Stop, New, Cancel, Clear, StopTask, Leave, ResetTask, Return, Unload,
     TypeIntoDraft, PlaceOK
<1> QED BY Steps, <1>1, <1>2, <1>3, <1>4, <1>5, <1>6, <1>7

LEMMA TokensTyped == Typed /\ TasksOK /\ BarrierOK /\ Next => TokensOK'
<1> SUFFICES ASSUME Typed, TasksOK, BarrierOK, Next PROVE TokensOK'
  OBVIOUS
<1> USE NoneIsNone, DictationAssumption DEF Typed, hook, service, audio, whisper,
    history, Restore, Drop, Keep, None
<1>1. CASE \E t \in tasks : TakeStop(t) \/ Reset(t) \/ ResetDone(t) \/ Release(t)
  BY <1>1 DEF TakeStop, StopDone, After, CallStop, Ready, Settled, Reset,
     Abandon, CancelRecording, ResetDone, Release, TokensOK, Tokens, SlotsOK, SessionOrNone
<1>2. CASE \E t \in tasks : TailOver(t) \/ StopReturns(t) \/ Released(t)
  BY <1>2 DEF TailOver, StopReturns, StopDone, After, Released, TokensOK, Tokens,
     SlotsOK, SessionOrNone
<1>3. CASE \E s \in Sessions : Tap(s) \/ DelayOver(s) \/ Permission(s) \/ Recorder(s)
  BY <1>3 DEF Tap, DelayOver, Begin, ResetTask, New, Permission, FailStart, Recorder,
     RecorderStarts, RecorderFails, CallWhisper, ContextGone,
     TokensOK, Tokens, SlotsOK, SessionOrNone
<1>4. ASSUME NEW s \in Sessions, ModelReady(s) PROVE TokensOK'
  <2>1. fully' \in {fully, {<<"ended", s>>}} /\ resolved' = resolved
    BY <1>4, ModelReadyTasks
  <2> QED BY <2>1 DEF TokensOK, Tokens
<1>5. CASE \E s \in Sessions : Open(s) \/ NativeEnds(s) \/ FinalEvent(s) \/
        RecorderClosed(s)
  BY <1>5 DEF Open, FailStart, FailStartTwice, New, CancelRecording, NativeEnds, FinalEvent,
     RecorderClosed, TokensOK, Tokens, SlotsOK, SessionOrNone
<1>6. CASE \E s \in Sessions : FileTranscribed(s) \/ Finish(s) \/ TimerFires(s)
  BY <1>6 DEF FileTranscribed, Finish, TimerFires, TokensOK, Tokens, SlotsOK,
     SessionOrNone
<1>7. CASE Stop \/ Cancel \/ Leave \/ Return \/ Unload \/ TypeIntoDraft
  BY <1>7 DEF Stop, New, Cancel, Clear, StopTask, Leave, ResetTask, Return, Unload,
     TypeIntoDraft, TokensOK, Tokens, SlotsOK, SessionOrNone
<1> QED BY Steps, <1>1, <1>2, <1>3, <1>4, <1>5, <1>6, <1>7

LEMMA StartsTyped == Typed /\ TasksOK /\ BarrierOK /\ Next => StartsOK'
<1> SUFFICES ASSUME Typed, TasksOK, BarrierOK, Next PROVE StartsOK'
  OBVIOUS
<1> USE NoneIsNone, DictationAssumption DEF Typed, hook, service, audio, whisper,
    history, Restore, Drop, Keep, None
<1>1. CASE \E t \in tasks : TakeStop(t) \/ Reset(t) \/ ResetDone(t) \/ Release(t)
  BY <1>1 DEF TakeStop, StopDone, After, CallStop, Ready, Settled, Reset,
     Abandon, CancelRecording, ResetDone, Release, StartsOK, SlotsOK, SessionOrNone, TasksOK,
     BarrierOK, StartSteps, PlaceOK
<1>2. CASE \E t \in tasks : TailOver(t) \/ StopReturns(t) \/ Released(t)
  BY <1>2 DEF TailOver, StopReturns, StopDone, After, Released, StartsOK, SlotsOK,
     SessionOrNone, TasksOK, BarrierOK, StartSteps, PlaceOK
<1>3. CASE \E s \in Sessions : Tap(s) \/ DelayOver(s) \/ Permission(s) \/ Recorder(s)
  BY <1>3 DEF Tap, DelayOver, Begin, ResetTask, New, Permission, FailStart, Recorder,
     RecorderStarts, RecorderFails, CallWhisper, ContextGone,
     StartsOK, SlotsOK, SessionOrNone, TasksOK, BarrierOK, StartSteps, PlaceOK
<1>4. ASSUME NEW s \in Sessions, ModelReady(s) PROVE StartsOK'
    BY <1>4, ModelReadySteps DEF StartsOK, SlotsOK, SessionOrNone, TasksOK, BarrierOK,
     StartSteps, PlaceOK
<1>5. CASE \E s \in Sessions : Open(s) \/ NativeEnds(s) \/ FinalEvent(s) \/
        RecorderClosed(s)
  BY <1>5 DEF Open, FailStart, FailStartTwice, New, CancelRecording, NativeEnds, FinalEvent,
     RecorderClosed, StartsOK, SlotsOK, SessionOrNone, TasksOK, BarrierOK, StartSteps,
     PlaceOK
<1>6. CASE \E s \in Sessions : FileTranscribed(s) \/ Finish(s) \/ TimerFires(s)
  BY <1>6 DEF FileTranscribed, Finish, TimerFires, StartsOK, SlotsOK, SessionOrNone,
     TasksOK, BarrierOK, StartSteps, PlaceOK
<1>7. CASE Stop \/ Cancel \/ Leave \/ Return \/ Unload \/ TypeIntoDraft
  BY <1>7 DEF Stop, New, Cancel, Clear, StopTask, Leave, ResetTask, Return, Unload,
     TypeIntoDraft, StartsOK, SlotsOK, SessionOrNone, TasksOK, BarrierOK, StartSteps,
     PlaceOK
<1> QED BY Steps, <1>1, <1>2, <1>3, <1>4, <1>5, <1>6, <1>7

LEMMA WhisperTyped == Typed /\ TasksOK /\ BarrierOK /\ Next => WhisperOK'
<1> SUFFICES ASSUME Typed, TasksOK, BarrierOK, Next PROVE WhisperOK'
  OBVIOUS
<1> USE NoneIsNone, DictationAssumption DEF Typed, hook, service, audio, whisper,
    history, Restore, Drop, Keep, None
<1>1. CASE \E t \in tasks : TakeStop(t) \/ Reset(t) \/ ResetDone(t) \/ Release(t)
  BY <1>1 DEF TakeStop, StopDone, After, CallStop, Ready, Settled, Reset,
     Abandon, CancelRecording, ResetDone, Release, WhisperOK, SlotsOK, SessionOrNone
<1>2. CASE \E t \in tasks : TailOver(t) \/ StopReturns(t) \/ Released(t)
  BY <1>2 DEF TailOver, StopReturns, StopDone, After, Released, WhisperOK, SlotsOK,
     SessionOrNone
<1>3. CASE \E s \in Sessions : Tap(s) \/ DelayOver(s) \/ Permission(s) \/ Recorder(s)
  BY <1>3 DEF Tap, DelayOver, Begin, ResetTask, New, Permission, FailStart, Recorder,
     RecorderStarts, RecorderFails, CallWhisper, ContextGone,
     WhisperOK, SlotsOK, SessionOrNone
<1>4. CASE \E s \in Sessions : ModelReady(s)
  BY <1>4 DEF ModelReady, NotBegun, BeginRecording, Begin, Superseded, StopTask,
     ResetTask, New, WhisperOK, SlotsOK, SessionOrNone
<1>5. CASE \E s \in Sessions : Open(s) \/ NativeEnds(s) \/ FinalEvent(s) \/
        RecorderClosed(s)
  BY <1>5 DEF Open, FailStart, FailStartTwice, New, CancelRecording, NativeEnds, FinalEvent,
     RecorderClosed, WhisperOK, SlotsOK, SessionOrNone
<1>6. CASE \E s \in Sessions : FileTranscribed(s) \/ Finish(s) \/ TimerFires(s)
  BY <1>6 DEF FileTranscribed, Finish, TimerFires, WhisperOK, SlotsOK, SessionOrNone
<1>7. CASE Stop \/ Cancel \/ Leave \/ Return \/ Unload \/ TypeIntoDraft
  BY <1>7 DEF Stop, New, Cancel, Clear, StopTask, Leave, ResetTask, Return, Unload,
     TypeIntoDraft, WhisperOK, SlotsOK, SessionOrNone
<1> QED BY Steps, <1>1, <1>2, <1>3, <1>4, <1>5, <1>6, <1>7

-----------------------------------------------------------------------------
(* Tasks: calls of stopTranscription, forceReset and unloadModel.          *)

LEMMA TaskNew ==
  ASSUME Typed, NEW k \in {"stop", "cancel", "clear", "shown", "start", "unmount", "unload"},
         NEW n \in Nat, NEW on \in SessionOrNone,
         NEW step \in {"tail", "stop", "stopping", "reset", "again", "settling", "drained", "releasing"}
  PROVE  New(<<k, n>>, step, on) \in Task
BY DictationAssumption DEF New, Task, Typed, PlaceOK

LEMMA TaskMoves ==
  ASSUME NEW t \in Task, NEW on \in SessionOrNone, NEW tokens \in SUBSET Tokens,
         NEW step \in {"tail", "stop", "stopping", "reset", "again", "settling", "drained", "releasing"}
  PROVE  /\ [t EXCEPT !.pc = step, !.on = on] \in Task
         /\ [t EXCEPT !.pc = step, !.tokens = tokens] \in Task
BY DEF Task

LEMMA TasksTyped == Typed /\ TasksOK /\ BarrierOK /\ Next => tasks' \subseteq Task
<1> SUFFICES ASSUME Typed, TasksOK, BarrierOK, Next PROVE tasks' \subseteq Task
  OBVIOUS
<1> USE DictationAssumption DEF Typed, hook, service, audio, whisper, history
<1>0. /\ Sessions \subseteq Nat /\ SessionOrNone \subseteq Nat /\ here \in Nat
      /\ Sessions \subseteq SessionOrNone /\ None \in SessionOrNone
      /\ stopFn \in SessionOrNone /\ starting \in SessionOrNone /\ finalResult \in SessionOrNone
      /\ presses \in Nat /\ unloads \in Nat /\ fully' \subseteq Tokens /\ fully \subseteq Tokens
      /\ \A t \in tasks : t \in Task
  BY TokensTyped DEF Sessions, SessionOrNone, None, SlotsOK, PlaceOK, TokensOK
<1>1. ASSUME NEW t \in tasks, TakeStop(t) \/ StopReturns(t) PROVE tasks' \subseteq Task
  <2>1. /\ [t EXCEPT !.pc = "stopping", !.on = stopFn] \in Task
        /\ [t EXCEPT !.pc = "drained", !.tokens = fully] \in Task
    BY <1>0, TaskMoves
  <2> QED BY <1>0, <1>1, <2>1 DEF TakeStop, StopReturns, StopDone
<1>2. ASSUME NEW t \in tasks, Reset(t) PROVE tasks' \subseteq Task
  <2>1. /\ [t EXCEPT !.pc = "settling", !.tokens = fully'] \in Task
        /\ [t EXCEPT !.pc = "again", !.on = starting] \in Task
    BY <1>0, TaskMoves
  <2> QED BY <1>0, <1>2, <2>1 DEF Reset
<1>3. ASSUME NEW t \in tasks, Release(t) PROVE tasks' \subseteq Task
  <2>1. [t EXCEPT !.pc = "releasing", !.tokens = {}] \in Task
    BY <1>0, TaskMoves
  <2> QED BY <1>0, <1>3, <2>1 DEF Release
<1>4. ASSUME NEW t \in tasks, TailOver(t) PROVE tasks' \subseteq Task
  <2>1. \A step \in {"reset", "stop"}, on \in {None, starting} :
           [t EXCEPT !.pc = step, !.on = on] \in Task
    BY <1>0, TaskMoves
  <2> QED BY <1>0, <1>4, <2>1 DEF TailOver
<1>5. ASSUME NEW t \in tasks, ResetDone(t) \/ Released(t) PROVE tasks' \subseteq Task
  BY <1>5 DEF ResetDone, Released
<1>6. ASSUME NEW s \in Sessions,
             DelayOver(s) \/ Permission(s) \/ Recorder(s) \/ Open(s)
      PROVE  tasks' \subseteq Task
  <2>1. \A step \in {"stop", "reset"}, on \in {None, starting} :
           New(<<"start", s>>, step, on) \in Task
    BY <1>0, TaskNew
  <2> QED BY <1>0, <1>6, <2>1 DEF DelayOver, Begin, Permission, Recorder, RecorderStarts,
            RecorderFails, CallWhisper, ContextGone, Open, FailStart, FailStartTwice, ResetTask
<1>7. CASE \E s \in Sessions :
             \/ Tap(s) \/ NativeEnds(s) \/ FinalEvent(s) \/ RecorderClosed(s)
             \/ FileTranscribed(s) \/ Finish(s) \/ TimerFires(s)
  BY <1>0, <1>7 DEF Tap, NativeEnds, FinalEvent, RecorderClosed, FileTranscribed, Finish,
     TimerFires
<1>8. CASE Stop \/ Cancel
  <2>1. \A k \in {"stop", "cancel", "clear"}, step \in {"tail", "stop"}, on \in {None, starting} :
           New(<<k, presses>>, step, on) \in Task
    BY <1>0, TaskNew
  <2> QED BY <1>0, <1>8, <2>1 DEF Stop, Cancel, StopTask
<1>9. CASE TypeIntoDraft \/ Leave \/ Return \/ Unload
  <2>1. /\ \A on \in {None, starting} : New(<<"shown", finalResult>>, "stop", on) \in Task
        /\ New(<<"unmount", here>>, "reset", starting) \in Task
        /\ \A step \in {"stop", "drained"}, on \in {None, starting} :
              New(<<"unload", unloads>>, step, on) \in Task
    BY <1>0, TaskNew
  <2> QED BY <1>0, <1>9, <2>1 DEF TypeIntoDraft, Leave, Return, Unload, StopTask, ResetTask
<1>10. ASSUME NEW s \in Sessions, ModelReady(s) PROVE tasks' \subseteq Task
  <2>1. \A step \in {"stop", "reset"}, on \in {None, starting} :
           New(<<"start", s>>, step, on) \in Task
    BY <1>0, TaskNew
  <2> QED BY <1>0, <1>10, <2>1, ModelReadyTasks DEF StopTask, ResetTask
<1> QED BY Steps, <1>10, <1>1, <1>2, <1>3, <1>4, <1>5, <1>6, <1>7, <1>8, <1>9

LEMMA TasksHold == Typed /\ TasksOK /\ BarrierOK /\ Next => TasksOK'
<1> SUFFICES ASSUME Typed, TasksOK, BarrierOK, Next PROVE TasksOK'
  OBVIOUS
<1> USE NoneIsNone DEF Typed, hook, service, audio, whisper, history, None
<1>0. /\ \A t, u \in tasks :
            t.for[1] = "start" /\ u.for[1] = "start" /\ u.for[2] = t.for[2] => u = t
      /\ \A t \in tasks : t \in Task
      /\ pc \in [Sessions -> {"new", "done"} \cup StartSteps]
  <2>1. \A t \in tasks : t.for = <<t.for[1], t.for[2]>>
    BY DEF Task
  <2> QED BY <2>1 DEF TasksOK, StartsOK
<1>1. ASSUME NEW t \in tasks, TakeStop(t) \/ StopReturns(t) PROVE TasksOK'
  <2>1. ASSUME pc' = pc, NEW u, u.for = t.for, u.pc = "stopping" => u.on \in Sessions,
               tasks' = (tasks \ {t}) \cup {u}
        PROVE  TasksOK'
    BY <1>0, <2>1 DEF TasksOK
  <2>2. CASE tasks' = tasks \ {t} /\ After(t)
    BY <1>0, <2>2 DEF TasksOK, After, StartSteps
  <2>3. CASE \/ stopFn # None /\ pc' = pc
                /\ tasks' = (tasks \ {t}) \cup {[t EXCEPT !.pc = "stopping", !.on = stopFn]}
             \/ pc' = pc
                /\ tasks' = (tasks \ {t}) \cup {[t EXCEPT !.pc = "drained", !.tokens = fully]}
    <3>1. /\ [t EXCEPT !.pc = "stopping", !.on = stopFn].for = t.for
          /\ [t EXCEPT !.pc = "stopping", !.on = stopFn].on = stopFn
          /\ [t EXCEPT !.pc = "drained", !.tokens = fully].for = t.for
          /\ [t EXCEPT !.pc = "drained", !.tokens = fully].pc = "drained"
      BY <1>0 DEF Task
    <3> QED BY <2>1, <2>3, <3>1 DEF SlotsOK, SessionOrNone
  <2> QED BY <1>1, <2>2, <2>3 DEF TakeStop, StopReturns, StopDone
<1>2. ASSUME NEW t \in tasks, Reset(t) \/ TailOver(t) \/ Release(t) PROVE TasksOK'
  <2>0. CASE tasks' = tasks \ {t} /\ Abandon(t)
    BY <1>0, <2>0 DEF TasksOK, Abandon, StartSteps
  <2>1. ASSUME ~(tasks' = tasks \ {t} /\ Abandon(t))
        PROVE  \E u : /\ u.for = t.for /\ u.pc # "stopping" /\ pc' = pc
                 /\ tasks' \in {(tasks \ {t}) \cup {u}, tasks \ {t}}
    <3>1. CASE Reset(t)
      <4>1. \A step \in {"settling", "again"}, on \in {starting}, toks \in {fully'} :
               /\ [t EXCEPT !.pc = step, !.tokens = toks].for = t.for
               /\ [t EXCEPT !.pc = step, !.tokens = toks].pc = step
               /\ [t EXCEPT !.pc = step, !.on = on].for = t.for
               /\ [t EXCEPT !.pc = step, !.on = on].pc = step
        BY <1>0 DEF Task
      <4> QED BY <2>1, <3>1, <4>1 DEF Reset
    <3>2. CASE TailOver(t)
      BY <1>0, <3>2 DEF TailOver, Task
    <3>3. CASE Release(t)
      BY <1>0, <3>3 DEF Release, Task
    <3> QED BY <1>2, <3>1, <3>2, <3>3
  <2> QED BY <1>0, <2>0, <2>1 DEF TasksOK
<1>3. ASSUME NEW t \in tasks, ResetDone(t) \/ Released(t) PROVE TasksOK'
  <2>1. CASE ResetDone(t)
    BY <1>0, <2>1 DEF ResetDone, TasksOK, After, StartSteps
  <2>2. CASE Released(t)
    BY <2>2 DEF Released, TasksOK
  <2> QED BY <1>3, <2>1, <2>2
<1>4. ASSUME NEW s \in Sessions, pc[s] \notin {"draining", "resetting"},
             NEW step, pc' = [pc EXCEPT ![s] = step],
             \/ tasks' = tasks
             \/ /\ step \in {"draining", "resetting"}
                /\ \E u : /\ u.for = <<"start", s>> /\ u.pc # "stopping"
                          /\ tasks' = tasks \cup {u}
      PROVE  TasksOK'
  BY <1>0, <1>4 DEF TasksOK
<1>5. ASSUME NEW s \in Sessions, ModelReady(s) PROVE TasksOK'
  <2>1. pc[s] = "loading"
    BY <1>5, ModelReadyTasks
  <2>2. PICK step : /\ pc' = [pc EXCEPT ![s] = step]
                    /\ \/ tasks' = tasks
                       \/ /\ step \in {"draining", "resetting"}
                          /\ \E t \in {StopTask(<<"start", s>>), ResetTask(<<"start", s>>)} :
                                tasks' = tasks \cup {t}
    BY <1>5, ModelReadyTasks
  <2>3. \A t \in {StopTask(<<"start", s>>), ResetTask(<<"start", s>>)} :
           t.for = <<"start", s>> /\ t.pc # "stopping"
    BY DEF StopTask, ResetTask, New
  <2> QED BY <1>4, <2>1, <2>2, <2>3
<1>6. ASSUME NEW s \in Sessions, DelayOver(s) \/ Permission(s) PROVE TasksOK'
  BY <1>4, <1>6 DEF DelayOver, Permission, Begin, FailStart, ResetTask, New
<1>7. ASSUME NEW s \in Sessions, Recorder(s) \/ Open(s) PROVE TasksOK'
  BY <1>4, <1>7 DEF Recorder, RecorderStarts, RecorderFails, CallWhisper, ContextGone, Open,
     FailStart, FailStartTwice, New
<1>8. ASSUME NEW s \in Sessions, Tap(s) PROVE TasksOK'
  BY <1>4, <1>8 DEF Tap, TasksOK
<1>9. CASE \E s \in Sessions : \/ NativeEnds(s) \/ FinalEvent(s) \/ RecorderClosed(s)
                               \/ FileTranscribed(s) \/ Finish(s) \/ TimerFires(s)
  BY <1>9 DEF NativeEnds, FinalEvent, RecorderClosed, FileTranscribed, Finish, TimerFires,
     TasksOK
<1>10. ASSUME pc' = pc,
              \A u \in tasks' : u \in tasks \/ (u.for[1] # "start" /\ u.pc # "stopping")
       PROVE  TasksOK'
  BY <1>10 DEF TasksOK
<1>11. CASE Stop \/ Cancel
  BY <1>10, <1>11 DEF Stop, Cancel, StopTask, New
<1>12. CASE TypeIntoDraft \/ Leave \/ Return \/ Unload
  BY <1>10, <1>12 DEF TypeIntoDraft, Leave, Return, Unload, StopTask, ResetTask, New
<1> QED BY Steps, <1>1, <1>2, <1>3, <1>5, <1>6, <1>7, <1>8, <1>9, <1>11, <1>12

LEMMA TypedHolds == Typed /\ TasksOK /\ BarrierOK /\ [Next]_vars => Typed'
<1>1. CASE Next
  BY <1>1, FlagsTyped, SlotsTyped, SetsTyped, PlaceTyped, TokensTyped, StartsTyped,
     WhisperTyped, TasksTyped DEF Typed
<1>2. CASE UNCHANGED vars
  BY <1>2 DEF vars, hook, service, audio, whisper, history, Typed, FlagsOK, SlotsOK, SetsOK,
     PlaceOK, TokensOK, StartsOK, WhisperOK
<1> QED BY <1>1, <1>2

-----------------------------------------------------------------------------
(* What keeps the safety properties.                                       *)

LEMMA BarrierHolds == Typed /\ TasksOK /\ BarrierOK /\ Next => BarrierOK'
<1> SUFFICES ASSUME Typed, TasksOK, BarrierOK, Next PROVE BarrierOK'
  OBVIOUS
<1> USE NoneIsNone, DictationAssumption DEF Typed, hook, service, audio, whisper,
    history, Restore, Drop, Keep, None
<1>1. CASE \E t \in tasks : TakeStop(t) \/ Reset(t) \/ ResetDone(t) \/ Release(t)
  BY <1>1 DEF TakeStop, StopDone, After, CallStop, Ready, Settled, Reset,
     Abandon, CancelRecording, ResetDone, Release, StartsOK, SlotsOK, SessionOrNone, StartSteps,
     BarrierOK, TasksOK
<1>2. CASE \E t \in tasks : TailOver(t) \/ StopReturns(t) \/ Released(t)
  BY <1>2 DEF TailOver, StopReturns, StopDone, After, Released, StartsOK, SlotsOK,
     SessionOrNone, StartSteps, BarrierOK, TasksOK
<1>3. CASE \E s \in Sessions : Tap(s) \/ DelayOver(s) \/ Permission(s) \/ Recorder(s)
  BY <1>3 DEF Tap, DelayOver, Begin, ResetTask, New, Permission, FailStart, Recorder,
     RecorderStarts, RecorderFails, CallWhisper, ContextGone,
     StartsOK, SlotsOK, SessionOrNone, StartSteps, BarrierOK, TasksOK
<1>4. ASSUME NEW s \in Sessions, ModelReady(s) PROVE BarrierOK'
    BY <1>4, ModelReadySteps DEF StartsOK, SlotsOK, SessionOrNone, StartSteps,
     BarrierOK, TasksOK
<1>5. CASE \E s \in Sessions : Open(s) \/ NativeEnds(s) \/ FinalEvent(s) \/
        RecorderClosed(s)
  BY <1>5 DEF Open, FailStart, FailStartTwice, New, CancelRecording, NativeEnds, FinalEvent,
     RecorderClosed, StartsOK, SlotsOK, SessionOrNone, StartSteps, BarrierOK, TasksOK
<1>6. CASE \E s \in Sessions : FileTranscribed(s) \/ Finish(s) \/ TimerFires(s)
  BY <1>6 DEF FileTranscribed, Finish, TimerFires, StartsOK, SlotsOK, SessionOrNone,
     StartSteps, BarrierOK, TasksOK
<1>7. CASE Stop \/ Cancel \/ Leave \/ Return \/ Unload \/ TypeIntoDraft
  BY <1>7 DEF Stop, New, Cancel, Clear, StopTask, Leave, ResetTask, Return, Unload,
     TypeIntoDraft, StartsOK, SlotsOK, SessionOrNone, StartSteps, BarrierOK, TasksOK
<1> QED BY Steps, <1>1, <1>2, <1>3, <1>4, <1>5, <1>6, <1>7

LEMMA HandleHolds == Typed /\ TasksOK /\ BarrierOK /\ HandleOK /\ Next => HandleOK'
<1> SUFFICES ASSUME Typed, TasksOK, BarrierOK, HandleOK, Next PROVE HandleOK'
  OBVIOUS
<1> USE NoneIsNone, DictationAssumption DEF Typed, hook, service, audio, whisper,
    history, Restore, Drop, Keep, None
<1>1. CASE \E t \in tasks : TakeStop(t) \/ Reset(t) \/ ResetDone(t) \/ Release(t)
  BY <1>1 DEF TakeStop, StopDone, After, CallStop, Ready, Settled, Reset,
     Abandon, CancelRecording, ResetDone, Release, StartsOK, SlotsOK, SessionOrNone, WhisperOK,
     HandleOK, TasksOK
<1>2. CASE \E t \in tasks : TailOver(t) \/ StopReturns(t) \/ Released(t)
  BY <1>2 DEF TailOver, StopReturns, StopDone, After, Released, StartsOK, SlotsOK,
     SessionOrNone, WhisperOK, HandleOK, TasksOK
<1>3. CASE \E s \in Sessions : Tap(s) \/ DelayOver(s) \/ Permission(s) \/ Recorder(s)
  BY <1>3 DEF Tap, DelayOver, Begin, ResetTask, New, Permission, FailStart, Recorder,
     RecorderStarts, RecorderFails, CallWhisper, ContextGone,
     StartsOK, SlotsOK, SessionOrNone, WhisperOK, HandleOK, TasksOK
<1>4. ASSUME NEW s \in Sessions, ModelReady(s) PROVE HandleOK'
    BY <1>4, ModelReadySteps DEF StartsOK, SlotsOK, SessionOrNone, WhisperOK, HandleOK,
     TasksOK
<1>5. CASE \E s \in Sessions : Open(s) \/ NativeEnds(s) \/ FinalEvent(s) \/
        RecorderClosed(s)
  BY <1>5 DEF Open, FailStart, FailStartTwice, New, CancelRecording, NativeEnds, FinalEvent,
     RecorderClosed, StartsOK, SlotsOK, SessionOrNone, WhisperOK, HandleOK, TasksOK
<1>6. CASE \E s \in Sessions : FileTranscribed(s) \/ Finish(s) \/ TimerFires(s)
  BY <1>6 DEF FileTranscribed, Finish, TimerFires, StartsOK, SlotsOK, SessionOrNone,
     WhisperOK, HandleOK, TasksOK
<1>7. CASE Stop \/ Cancel \/ Leave \/ Return \/ Unload \/ TypeIntoDraft
  BY <1>7 DEF Stop, New, Cancel, Clear, StopTask, Leave, ResetTask, Return, Unload,
     TypeIntoDraft, StartsOK, SlotsOK, SessionOrNone, WhisperOK, HandleOK, TasksOK
<1> QED BY Steps, <1>1, <1>2, <1>3, <1>4, <1>5, <1>6, <1>7

LEMMA EventHolds == Typed /\ TasksOK /\ EventOK /\ Next => EventOK'
<1> SUFFICES ASSUME Typed, TasksOK, EventOK, Next PROVE EventOK'
  OBVIOUS
<1> USE NoneIsNone, DictationAssumption DEF Typed, hook, service, audio, whisper,
    history, Restore, Drop, Keep, None
<1>1. CASE \E t \in tasks : TakeStop(t) \/ Reset(t) \/ ResetDone(t) \/ Release(t)
  BY <1>1 DEF TakeStop, StopDone, After, CallStop, Ready, Settled, Reset,
     Abandon, CancelRecording, ResetDone, Release, StartsOK, SlotsOK, SessionOrNone, WhisperOK,
     EventOK, TasksOK
<1>2. CASE \E t \in tasks : TailOver(t) \/ StopReturns(t) \/ Released(t)
  BY <1>2 DEF TailOver, StopReturns, StopDone, After, Released, StartsOK, SlotsOK,
     SessionOrNone, WhisperOK, EventOK, TasksOK
<1>3. CASE \E s \in Sessions : Tap(s) \/ DelayOver(s) \/ Permission(s) \/ Recorder(s)
  BY <1>3 DEF Tap, DelayOver, Begin, ResetTask, New, Permission, FailStart, Recorder,
     RecorderStarts, RecorderFails, CallWhisper, ContextGone,
     StartsOK, SlotsOK, SessionOrNone, WhisperOK, EventOK, TasksOK
<1>4. ASSUME NEW s \in Sessions, ModelReady(s) PROVE EventOK'
    BY <1>4, ModelReadySteps DEF StartsOK, SlotsOK, SessionOrNone, WhisperOK, EventOK,
     TasksOK
<1>5. CASE \E s \in Sessions : Open(s) \/ NativeEnds(s) \/ FinalEvent(s) \/
        RecorderClosed(s)
  BY <1>5 DEF Open, FailStart, FailStartTwice, New, CancelRecording, NativeEnds, FinalEvent,
     RecorderClosed, StartsOK, SlotsOK, SessionOrNone, WhisperOK, EventOK, TasksOK
<1>6. CASE \E s \in Sessions : FileTranscribed(s) \/ Finish(s) \/ TimerFires(s)
  BY <1>6 DEF FileTranscribed, Finish, TimerFires, StartsOK, SlotsOK, SessionOrNone,
     WhisperOK, EventOK, TasksOK
<1>7. CASE Stop \/ Cancel \/ Leave \/ Return \/ Unload \/ TypeIntoDraft
  BY <1>7 DEF Stop, New, Cancel, Clear, StopTask, Leave, ResetTask, Return, Unload,
     TypeIntoDraft, StartsOK, SlotsOK, SessionOrNone, WhisperOK, EventOK, TasksOK
<1> QED BY Steps, <1>1, <1>2, <1>3, <1>4, <1>5, <1>6, <1>7

LEMMA RecorderHolds == Typed /\ TasksOK /\ BarrierOK /\ EventOK /\ RecorderOK /\ Next => RecorderOK'
<1> SUFFICES ASSUME Typed, TasksOK, BarrierOK, EventOK, RecorderOK, Next PROVE RecorderOK'
  OBVIOUS
<1> USE NoneIsNone, DictationAssumption DEF Typed, hook, service, audio, whisper,
    history, Restore, Drop, Keep, None
<1>1. CASE \E t \in tasks : TakeStop(t) \/ Reset(t) \/ ResetDone(t) \/ Release(t)
  BY <1>1 DEF TakeStop, StopDone, After, CallStop, Ready, Settled, Reset,
     Abandon, CancelRecording, ResetDone, Release, StartsOK, SlotsOK, SetsOK, PlaceOK,
     SessionOrNone, WhisperOK, RecorderOK, TasksOK, BarrierOK
<1>2. CASE \E t \in tasks : TailOver(t) \/ StopReturns(t)
  BY <1>2 DEF TailOver, StopReturns, StopDone, After, StartsOK, SlotsOK, SetsOK, PlaceOK,
     SessionOrNone, WhisperOK, RecorderOK, TasksOK, BarrierOK
<1>3. ASSUME NEW t \in tasks, Released(t) PROVE RecorderOK'
  <2>1. ASSUME NEW s \in Sessions
        PROVE  /\ native[s] \in {"capturing", "stopping"} => event'[s] = "sent"
               /\ event[s] = "sent" => event'[s] = "sent"
    BY <1>3 DEF Released, EventOK
  <2> QED BY <1>3, <2>1 DEF Released, SlotsOK, SetsOK, SessionOrNone, RecorderOK
<1>4. CASE \E s \in Sessions : Tap(s) \/ DelayOver(s) \/ Permission(s) \/ Recorder(s)
  BY <1>4 DEF Tap, DelayOver, Begin, ResetTask, New, Permission, FailStart, Recorder,
     RecorderStarts, RecorderFails, CallWhisper, ContextGone,
     StartsOK, SlotsOK, SetsOK, PlaceOK, SessionOrNone, WhisperOK, RecorderOK, TasksOK,
     BarrierOK
<1>5. ASSUME NEW s \in Sessions, ModelReady(s) PROVE RecorderOK'
    BY <1>5, ModelReadySteps DEF StartsOK, SlotsOK, SetsOK, PlaceOK, SessionOrNone,
     WhisperOK, RecorderOK, TasksOK, BarrierOK
<1>6. CASE \E s \in Sessions : Open(s) \/ NativeEnds(s) \/ FinalEvent(s) \/
        RecorderClosed(s)
  BY <1>6 DEF Open, FailStart, FailStartTwice, New, CancelRecording, NativeEnds, FinalEvent,
     RecorderClosed, StartsOK, SlotsOK, SetsOK, PlaceOK, SessionOrNone, WhisperOK,
     RecorderOK, TasksOK, BarrierOK
<1>7. CASE \E s \in Sessions : FileTranscribed(s) \/ Finish(s) \/ TimerFires(s)
  BY <1>7 DEF FileTranscribed, Finish, TimerFires, StartsOK, SlotsOK, SetsOK, PlaceOK,
     SessionOrNone, WhisperOK, RecorderOK, TasksOK, BarrierOK
<1>8. CASE Stop \/ Cancel \/ Leave \/ Return \/ Unload \/ TypeIntoDraft
  BY <1>8 DEF Stop, New, Cancel, Clear, StopTask, Leave, ResetTask, Return, Unload,
     TypeIntoDraft, StartsOK, SlotsOK, SetsOK, PlaceOK, SessionOrNone, WhisperOK,
     RecorderOK, TasksOK, BarrierOK
<1> QED BY Steps, <1>1, <1>2, <1>3, <1>4, <1>5, <1>6, <1>7, <1>8

LEMMA InitInv == Init => IInv
<1> SUFFICES ASSUME Init PROVE IInv
  OBVIOUS
<1> USE NoneIsNone, DictationAssumption DEF Init, SessionOrNone, None
<1>1. FlagsOK /\ SlotsOK /\ SetsOK /\ TokensOK /\ tasks \subseteq Task
  BY DEF FlagsOK, SlotsOK, SetsOK, TokensOK
<1>4. PlaceOK
  BY DEF PlaceOK
<1>2. StartsOK /\ WhisperOK
  BY DEF StartsOK, WhisperOK
<1>3. TasksOK /\ BarrierOK /\ HandleOK /\ EventOK /\ RecorderOK
  BY DEF TasksOK, BarrierOK, HandleOK, EventOK, RecorderOK
<1> QED BY <1>1, <1>2, <1>3, <1>4 DEF IInv, Typed

LEMMA InvInductive == IInv /\ [Next]_vars => IInv'
<1>1. CASE Next
  BY <1>1, TypedHolds, TasksHold, BarrierHolds, HandleHolds, EventHolds, RecorderHolds
     DEF IInv
<1>2. CASE UNCHANGED vars
  BY <1>2, TypedHolds DEF vars, hook, service, audio, whisper, history, IInv, TasksOK,
     BarrierOK, HandleOK, EventOK, RecorderOK
<1> QED BY <1>1, <1>2

LEMMA Invariance == Spec => []IInv
BY InitInv, InvInductive, PTL DEF Spec

\* In every reachable state each variable is in its range, and only a start that has
\* gone past the barrier can be the one the barrier holds stops for.
THEOREM TypeCorrect == Spec => []TypeOK
<1>1. IInv => TypeOK
  BY TypeParts DEF IInv
<1> QED BY Invariance, <1>1, PTL

\* However stops, resets, evictions and new dictations interleave, stop() of a job of
\* whisper.rn is called once at most: whoever stops takes the handle with it.
THEOREM StoppedOnce == Spec => []StopsOnce
<1>1. IInv => StopsOnce
  BY DEF IInv, HandleOK, StopsOnce
<1> QED BY Invariance, <1>1, PTL

\* With no dictation under way, however many there were and however they ended, no
\* recorder runs on but one that failed to start or to stop, and the audio session is
\* back on playback unless such a recorder holds it or the switch itself failed.
THEOREM AudioHandedBack == Spec => []HandedBack
<1>1. IInv => HandedBack
  BY DEF IInv, Typed, SlotsOK, PlaceOK, SessionOrNone, RecorderOK, HandedBack, AtRest,
     StartSteps
<1> QED BY Invariance, <1>1, PTL

-----------------------------------------------------------------------------
(* What was cancelled.                                                     *)

LEMMA NeverNewAgain == Typed /\ TasksOK /\ Next => (\A r \in Sessions : pc'[r] = "new" =>
    pc[r] = "new")
<1> SUFFICES ASSUME Typed, TasksOK, Next PROVE (\A r \in Sessions : pc'[r] = "new" =>
    pc[r] = "new")
  OBVIOUS
<1> USE NoneIsNone, DictationAssumption DEF Typed, hook, service, audio, whisper,
    history, Restore, Drop, Keep, None
<1>1. CASE \E t \in tasks : TakeStop(t) \/ Reset(t) \/ ResetDone(t) \/ Release(t)
  BY <1>1 DEF TakeStop, StopDone, After, CallStop, Ready, Settled, Reset,
     Abandon, CancelRecording, ResetDone, Release, StartsOK, SessionOrNone, SlotsOK, TasksOK
<1>2. CASE \E t \in tasks : TailOver(t) \/ StopReturns(t) \/ Released(t)
  BY <1>2 DEF TailOver, StopReturns, StopDone, After, Released, StartsOK, SessionOrNone,
     SlotsOK, TasksOK
<1>3. CASE \E s \in Sessions : Tap(s) \/ DelayOver(s) \/ Permission(s) \/ Recorder(s)
  BY <1>3 DEF Tap, DelayOver, Begin, ResetTask, New, Permission, FailStart, Recorder,
     RecorderStarts, RecorderFails, CallWhisper, ContextGone,
     StartsOK, SessionOrNone, SlotsOK, TasksOK
<1>4. ASSUME NEW s \in Sessions, ModelReady(s) PROVE (\A r \in Sessions : pc'[r] = "new" => pc[r] = "new")
    BY <1>4, ModelReadySteps DEF StartsOK, SessionOrNone, SlotsOK, TasksOK
<1>5. CASE \E s \in Sessions : Open(s) \/ NativeEnds(s) \/ FinalEvent(s) \/
        RecorderClosed(s)
  BY <1>5 DEF Open, FailStart, FailStartTwice, New, CancelRecording, NativeEnds, FinalEvent,
     RecorderClosed, StartsOK, SessionOrNone, SlotsOK, TasksOK
<1>6. CASE \E s \in Sessions : FileTranscribed(s) \/ Finish(s) \/ TimerFires(s)
  BY <1>6 DEF FileTranscribed, Finish, TimerFires, StartsOK, SessionOrNone, SlotsOK,
     TasksOK
<1>7. CASE Stop \/ Cancel \/ Leave \/ Return \/ Unload \/ TypeIntoDraft
  BY <1>7 DEF Stop, New, Cancel, Clear, StopTask, Leave, ResetTask, Return, Unload,
     TypeIntoDraft, StartsOK, SessionOrNone, SlotsOK, TasksOK
<1> QED BY Steps, <1>1, <1>2, <1>3, <1>4, <1>5, <1>6, <1>7

LEMMA CancelHolds == Typed /\ TasksOK /\ BarrierOK /\ CancelOK /\ MaxSessions = 1 /\ Next
    => CancelOK'
<1> SUFFICES ASSUME Typed, TasksOK, BarrierOK, CancelOK, MaxSessions = 1, Next PROVE
    CancelOK'
  OBVIOUS
<1> USE NoneIsNone, DictationAssumption DEF Typed, hook, service, audio, whisper,
    history, Restore, Drop, Keep, None
<1>0. /\ cancelled \subseteq Sessions
      /\ \A r \in Sessions : pc'[r] = "new" => pc[r] = "new"
  BY NeverNewAgain DEF SetsOK
<1>1. CASE \E t \in tasks : TakeStop(t) \/ Reset(t) \/ ResetDone(t) \/ Release(t)
  BY <1>1, <1>0 DEF TakeStop, StopDone, After, CallStop, Ready, Settled, Reset,
     Abandon, CancelRecording, ResetDone, Release, CancelOK, CancelledNotTyped, Alive
<1>2. CASE \E t \in tasks : TailOver(t) \/ StopReturns(t) \/ Released(t)
  BY <1>2, <1>0 DEF TailOver, StopReturns, StopDone, After, Released, CancelOK,
     CancelledNotTyped, Alive
<1>3. CASE \E s \in Sessions : DelayOver(s) \/ Permission(s) \/ Recorder(s)
  BY <1>3, <1>0 DEF DelayOver, Begin, ResetTask, New, Permission, FailStart, Recorder,
     RecorderStarts, RecorderFails, CallWhisper, ContextGone,
     CancelOK, CancelledNotTyped, Alive
<1>4. ASSUME NEW s \in Sessions, Tap(s) PROVE CancelOK'
  BY <1>4, <1>0 DEF Tap, InFlight, CancelOK, CancelledNotTyped, Alive, StartsOK, PlaceOK, SetsOK
<1>5. ASSUME NEW s \in Sessions, ModelReady(s) PROVE CancelOK'
  <2>1. pc[s] = "loading" /\ UNCHANGED <<cancelled, drafted, owner, mounted, here, current, pendingResult>>
    BY <1>5, ModelReadySteps DEF ModelReady
  <2>2. CASE UNCHANGED <<isCancelled, finalResult>>
    BY <2>1, <2>2, <1>0 DEF CancelOK, CancelledNotTyped
  <2>3. CASE BeginRecording(s) /\ ~ Superseded(s)
    <3>1. s \notin cancelled
      BY <2>1, <2>3 DEF Superseded, Alive, CancelOK
    <3>2. cancelled = {}
      BY <3>1 DEF Sessions, SetsOK
    <3> QED BY <2>1, <2>3, <3>2, <1>0 DEF BeginRecording, CancelOK, CancelledNotTyped
  <2> QED BY <1>5, <2>2, <2>3 DEF ModelReady, NotBegun
<1>6. CASE \E s \in Sessions : Open(s) \/ NativeEnds(s) \/ FinalEvent(s) \/
        RecorderClosed(s)
  BY <1>6, <1>0 DEF Open, FailStart, FailStartTwice, New, CancelRecording, NativeEnds, FinalEvent,
     RecorderClosed, CancelOK, CancelledNotTyped, Alive
<1>7. CASE \E s \in Sessions : FileTranscribed(s) \/ TimerFires(s)
  BY <1>7, <1>0 DEF FileTranscribed, TimerFires, CancelOK, CancelledNotTyped, Alive
<1>8. ASSUME NEW s \in Sessions, Finish(s) PROVE CancelOK'
  BY <1>8, <1>0 DEF Finish, CancelOK, CancelledNotTyped, Alive, StartsOK, PlaceOK, SetsOK, WhisperOK, SlotsOK, SessionOrNone, Sessions
<1>9. CASE Stop \/ Leave \/ Unload
  BY <1>9, <1>0 DEF Stop, New, Leave, ResetTask, Unload, StopTask, CancelOK, CancelledNotTyped,
     Alive
<1>10. CASE Cancel
  BY <1>10, <1>0 DEF Cancel, Clear, CancelOK, CancelledNotTyped, Alive, StartsOK, PlaceOK, SetsOK
<1>11. CASE Return
  BY <1>11, <1>0 DEF Return, CancelOK, CancelledNotTyped, Alive, StartsOK, PlaceOK, SetsOK
<1>12. CASE TypeIntoDraft
  BY <1>12, <1>0 DEF TypeIntoDraft, Clear, CancelOK, CancelledNotTyped, Alive, StartsOK, PlaceOK, SetsOK
<1> QED BY Steps, <1>1, <1>2, <1>3, <1>4, <1>5, <1>6, <1>7, <1>8, <1>9, <1>10, <1>11,
    <1>12

\* With a single dictation, whatever the composer's screen does meanwhile, what was
\* cancelled before it was typed is not typed later. (A second dictation resets the
\* flag of the cancel, isCancelled, while the first may still deliver its words.)
THEOREM CancelledStaysOut == MaxSessions = 1 => (Spec => []CancelledNotTyped)
<1> SUFFICES ASSUME MaxSessions = 1 PROVE Spec => []CancelledNotTyped
  OBVIOUS
<1>1. Init => CancelOK
  BY NoneIsNone DEF Init, CancelOK, CancelledNotTyped
<1>2. IInv /\ CancelOK /\ [Next]_vars => CancelOK'
  <2>1. CASE Next
    BY <2>1, CancelHolds DEF IInv
  <2>2. CASE UNCHANGED vars
    BY <2>2 DEF vars, hook, service, audio, whisper, history, CancelOK, CancelledNotTyped
  <2> QED BY <2>1, <2>2
<1>3. CancelOK => CancelledNotTyped
  BY DEF CancelOK
<1> QED BY Invariance, <1>1, <1>2, <1>3, PTL DEF Spec
=============================================================================
