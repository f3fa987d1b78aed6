--------------------------- MODULE ChatGeneration ---------------------------
(***************************************************************************)
(* A chat turn from the Send button to its last token: the send, queue and *)
(* compaction code of the chat screen, the singleton generationService     *)
(* with its shared abort flag, the streaming slot of the chat store and    *)
(* the llama.cpp engine service with its native completions.               *)
(*                                                                         *)
(* JavaScript runs to completion between two awaits, so an action is the   *)
(* code from one await to the next and pc[t] names the await turn t is at. *)
(* A promise's continuation runs in the action that settles the promise.   *)
(* Text is abstracted to the set of turns whose tokens it contains.        *)
(***************************************************************************)
EXTENDS Naturals, Sequences, FiniteSets

CONSTANTS
    Turns,          \* sends the user may make
    Convs,          \* conversations
    ConvOf,         \* the conversation a send is made in
    ToolTurns,      \* the turns that run the tool loop
    MaxSteps,       \* rounds of tool calls of a turn
    MaxRetries,     \* retries of a local completion (bound)
    MaxRoutes,      \* fallback models a turn may load
    Presses,        \* of the Stop button (bound)
    ContextFills,   \* the context window may fill up
    Fails,          \* completions may fail
    Images,         \* an image model is installed
    MayLeave        \* the user may leave the chat screen

ASSUME TurnsAssumption ==
    /\ ConvOf \in [Turns -> Convs]
    /\ ToolTurns \subseteq Turns
    /\ MaxSteps \in Nat \ {0} /\ MaxRetries \in Nat /\ MaxRoutes \in Nat
    /\ {ContextFills, Fails, Images, MayLeave} \subseteq BOOLEAN
    /\ "none" \notin Turns \cup Convs \cup Presses

VARIABLES
    \* generationService
    isGenerating, abortRequested, generationAttempt, tokenBuffer, queue, timers,
    \* the pending stop a new attempt drains, and the stops that clear it
    pendingStop, pendings,
    \* the chat store and the generation session
    stream, history, session,
    \* llmService and llama.cpp
    busy, active, native, interrupted, boundTo, stops,
    \* a start refused since llama.cpp was last quiet has taken the place of
    \* the promise of the completion in flight
    displaced,
    \* the turn imageGenerationService draws for, and whether the chat screen
    \* is mounted: it registers the queue processor
    drawing, mounted,
    \* one record of locals per turn, and what the user stopped
    pc, turn, stopped

svcVars    == <<isGenerating, abortRequested, generationAttempt, tokenBuffer,
                queue, timers>>
stopVars   == <<pendingStop, pendings>>
storeVars  == <<stream, history, session>>
runVars    == <<busy, active, native, interrupted, displaced>>
engineVars == <<runVars, boundTo, stops, stopVars>>
turnVars   == <<pc, turn, stopped>>
screenVars == <<drawing, mounted>>
vars == <<svcVars, storeVars, engineVars, screenVars, turnVars>>

None == "none"
StopIds == Presses \cup Turns     \* a compaction or a retry stops the engine too

\* where a turn waits
Awaits == {"new", "reclaim", "queued", "merged", "routing", "drawing",
           "readying", "context", "draining", "idling", "clearing",
           "running", "tool", "backoff", "fallback", "rebinding", "stopping",
           "summary", "summarizing", "done"}
Outcomes == {None, "answered", "stopped", "failed", "refused"}

Messages == [role : {"user", "reply", "notice"}, text : SUBSET Turns,
             status : {"sent", "calls", "completed", "cancelled", "failed", "error"}]

NoReply == [for |-> None, text |-> {}]
FreshTurn == [attempt |-> 0, drains |-> None, steps |-> 0, retries |-> 0,
              routes |-> MaxRoutes, compacted |-> FALSE, bare |-> FALSE,
              carries |-> {}, outcome |-> None]

TypeOK ==
    /\ isGenerating \in BOOLEAN /\ abortRequested \in BOOLEAN
    /\ generationAttempt \in Nat
    /\ pendings \subseteq Presses /\ pendingStop \in Presses \cup {None}
    /\ tokenBuffer \subseteq Turns
    /\ queue \in Seq(Turns) /\ timers \in Nat
    /\ stream \in [for : Convs \cup {None}, text : SUBSET Turns]
    /\ \A c \in Convs : \A i \in DOMAIN history[c] : history[c][i] \in Messages
    /\ session \in Convs \cup {None}
    /\ busy \in BOOLEAN /\ active \in Turns \cup {None}
    /\ native \subseteq Turns /\ interrupted \subseteq native
    /\ displaced \in BOOLEAN
    /\ boundTo \in Convs \cup {None}
    /\ stops \in [StopIds -> {"unused", "idle", "litert", "native"} \cup Turns]
    /\ drawing \in Turns \cup {None} /\ mounted \in BOOLEAN
    /\ pc \in [Turns -> Awaits] /\ stopped \subseteq Turns
    /\ \A t \in Turns : turn[t].outcome \in Outcomes

Init ==
    /\ isGenerating = FALSE /\ abortRequested = FALSE
    /\ generationAttempt = 0 /\ pendingStop = None /\ pendings = {}
    /\ tokenBuffer = {} /\ queue = <<>> /\ timers = 0
    /\ stream = NoReply /\ history = [c \in Convs |-> <<>>] /\ session = None
    /\ busy = FALSE /\ active = None /\ native = {} /\ interrupted = {}
    /\ displaced = FALSE
    /\ boundTo = None /\ stops = [i \in StopIds |-> IF i \in Turns THEN "idle" ELSE "unused"]
    /\ drawing = None /\ mounted = TRUE
    /\ pc = [t \in Turns |-> "new"] /\ turn = [t \in Turns |-> FreshTurn]
    /\ stopped = {}
-----------------------------------------------------------------------------
(* The shared helpers.                                                      *)

AddMessage(c, role, text, status) ==
    history' = [history EXCEPT ![c] = Append(@, [role |-> role, text |-> text, status |-> status])]

\* finalizeStreamingMessage after a flush: it empties the slot whichever
\* conversation it is called for, and stores the reply only in the slot's own
Shown == stream.text \cup tokenBuffer
Finalize(c, status) ==
    /\ stream' = NoReply
    /\ IF c # None /\ stream.for = c /\ (Shown # {} \/ status # "completed")
       THEN AddMessage(c, "reply", Shown, status)
       ELSE UNCHANGED history

\* Mutant: the end of a generation leaves the queue to the next send.
ResetStateNoDrain ==
    /\ isGenerating' = FALSE /\ tokenBuffer' = {}
    /\ UNCHANGED timers

ResetState ==
    /\ isGenerating' = FALSE /\ tokenBuffer' = {}
    /\ timers' = IF queue # <<>> THEN timers + 1 ELSE timers

\* startGenerationFn returns: whatever session there is ends
Finish(t, outcome) ==
    /\ pc' = [pc EXCEPT ![t] = "done"]
    /\ turn' = [turn EXCEPT ![t].outcome = outcome]
    /\ session' = None

Goto(t, label) == pc' = [pc EXCEPT ![t] = label]

\* processNextInQueue, after pcs and turns: all queued sends become one, made
\* in the chat of the first, if the screen's processor is there to take it
ProcessNextInQueue(pcs, turns) ==
    LET taken == IF mounted THEN {queue[i] : i \in DOMAIN queue} ELSE {}
        first == {t \in taken : t = Head(queue)}
    IN /\ queue' = IF mounted THEN <<>> ELSE queue
       /\ pc' = [t \in Turns |-> IF t \in first THEN "routing"
                                 ELSE IF t \in taken THEN "merged" ELSE pcs[t]]
       /\ turn' = [t \in Turns |-> IF t \in first THEN [turns[t] EXCEPT !.carries = taken]
                                   ELSE turns[t]]
-----------------------------------------------------------------------------
(* Sending, queueing and routing.                                           *)

\* handleSendFn up to the await of reclaimSttForGeneration
Send(t) ==
    /\ pc[t] = "new" /\ mounted
    /\ Goto(t, "reclaim")
    /\ turn' = [turn EXCEPT ![t].carries = {t}]
    /\ UNCHANGED <<svcVars, storeVars, engineVars, screenVars, stopped>>

\* the rest of handleSendFn: queue behind whatever runs, or dispatch
Admit(t) ==
    /\ pc[t] = "reclaim"
    /\ IF isGenerating \/ drawing # None
       THEN queue' = Append(queue, t) /\ Goto(t, "queued")
       ELSE UNCHANGED queue /\ Goto(t, "routing")
    /\ UNCHANGED <<isGenerating, abortRequested, generationAttempt,
                   tokenBuffer, timers, storeVars, engineVars, screenVars, turn, stopped>>

\* the 100 ms timer a resetState left behind
DrainTimer ==
    /\ timers > 0 /\ timers' = timers - 1
    /\ ProcessNextInQueue(pc, turn)
    /\ UNCHANGED <<isGenerating, abortRequested, generationAttempt,
                   tokenBuffer, storeVars, engineVars, screenVars, stopped>>

\* the chat screen unmounts or mounts: its processor goes or comes
Leave ==
    /\ MayLeave /\ mounted' = ~mounted
    /\ UNCHANGED <<svcVars, storeVars, engineVars, drawing, turnVars>>

\* resolveTurnKind chose text: dispatchGenerationFn stores the user's message
\* and enters startGenerationFn, up to the await of the model's readiness
RouteText(t) ==
    /\ pc[t] = "routing"
    /\ AddMessage(ConvOf[t], "user", turn[t].carries, "sent")
    /\ session' = ConvOf[t]
    /\ Goto(t, "readying")
    /\ UNCHANGED <<svcVars, stream, engineVars, screenVars, turn, stopped>>

\* resolveTurnKind chose image: the service draws one picture at a time
RouteImage(t) ==
    /\ pc[t] = "routing" /\ Images
    /\ AddMessage(ConvOf[t], "user", turn[t].carries, "sent")
    /\ drawing' = IF drawing = None THEN t ELSE drawing
    /\ Goto(t, "drawing")
    /\ UNCHANGED <<svcVars, stream, session, engineVars, mounted, turn, stopped>>

\* generateImage returned, with a picture or refused: drainQueue
ImageDone(t) ==
    /\ pc[t] = "drawing"
    /\ drawing' = IF drawing = t THEN None ELSE drawing
    /\ LET pcs   == [pc EXCEPT ![t] = "done"]
           turns == [turn EXCEPT ![t].outcome = IF drawing = t THEN "answered" ELSE "refused"]
       IN IF isGenerating THEN pc' = pcs /\ turn' = turns /\ UNCHANGED queue
                          ELSE ProcessNextInQueue(pcs, turns)
    /\ UNCHANGED <<isGenerating, abortRequested, generationAttempt,
                   tokenBuffer, timers, storeVars, engineVars, mounted, stopped>>

\* the model is ready, or its load failed and the turn ends with an alert
Ready(t) ==
    /\ pc[t] = "readying"
    /\ \/ Goto(t, "context") /\ UNCHANGED <<turn, session>>
       \/ Fails /\ Finish(t, "failed")
    /\ UNCHANGED <<svcVars, stream, history, engineVars, screenVars, stopped>>
\* the chat before the prompt's own check: a long one is summarised first
LongChat(t) ==
    /\ pc[t] = "readying" /\ ContextFills
    /\ Goto(t, "summary")
    /\ UNCHANGED <<svcVars, storeVars, engineVars, screenVars, turn, stopped>>
-----------------------------------------------------------------------------
(* llmService: one completion at a time, guarded by busy; active is the     *)
(* promise a stop waits for.                                                *)

StartRun(t) ==
    /\ busy' = TRUE /\ active' = t /\ native' = native \cup {t}
    /\ UNCHANGED <<interrupted, displaced>>

\* the completion settles: its finally block, and the stops that awaited it;
\* mine is what the turn itself goes on to do with the engine
Release(t, mine) ==
    LET settled == {i \in StopIds : stops[i] = t}
    IN /\ stops' = [i \in StopIds |-> IF i = t THEN mine
                                      ELSE IF i \in settled THEN "idle" ELSE stops[i]]
       /\ pendings' = pendings \ settled
       /\ pendingStop' = IF pendings \cap settled # {} THEN None ELSE pendingStop

EndRun(t, mine) ==
    /\ native' = native \ {t} /\ busy' = FALSE /\ active' = None
    /\ interrupted' = IF mine = "native" THEN native \ {t} ELSE interrupted \ {t}
    /\ displaced' = (displaced /\ native \ {t} # {})
    /\ Release(t, mine)

\* generateWithToolsImpl: a refused start still replaces, and then clears,
\* the active promise; callLocalWithRetry stops the engine and backs off
StartToolRun(t) ==
    IF ~busy
    THEN StartRun(t) /\ Goto(t, "running") /\ UNCHANGED stops
    ELSE /\ active' = None /\ interrupted' = native /\ UNCHANGED <<busy, native>>
         /\ displaced' = TRUE
         /\ stops' = [stops EXCEPT ![t] = "native"]
         /\ Goto(t, "backoff")

\* stopAllTextEngines: LiteRT has answered, llama's stopCompletion is called
LiteRTStopped(i) ==
    /\ stops[i] = "litert"
    /\ stops' = [stops EXCEPT ![i] = "native"]
    /\ interrupted' = native
    /\ UNCHANGED <<svcVars, storeVars, busy, active, native, displaced, boundTo,
                   stopVars, screenVars, turnVars>>

\* Mutant: the engine is declared idle when stopCompletion has answered.
NativeStoppedIdleAtOnce(i) ==
    /\ stops[i] = "native"
    /\ stops' = [stops EXCEPT ![i] = "idle"] /\ busy' = FALSE
    /\ pendings' = pendings \ {i}
    /\ pendingStop' = IF i \in pendings THEN None ELSE pendingStop
    /\ UNCHANGED <<svcVars, storeVars, active, native, interrupted, displaced,
                   boundTo, screenVars, turnVars>>

\* stopCompletion has answered: wait for the completion in flight, if any
NativeStopped(i) ==
    /\ stops[i] = "native"
    /\ IF active # None
       THEN stops' = [stops EXCEPT ![i] = active] /\ UNCHANGED <<busy, stopVars>>
       ELSE /\ stops' = [stops EXCEPT ![i] = "idle"]
            /\ busy' = FALSE
            /\ pendings' = pendings \ {i}
            /\ pendingStop' = IF i \in pendings THEN None ELSE pendingStop
    /\ UNCHANGED <<svcVars, storeVars, active, native, interrupted, displaced,
                   boundTo, screenVars, turnVars>>
-----------------------------------------------------------------------------
(* Preparing an attempt.                                                    *)

\* the synchronous head of prepareGeneration, when nothing is generating
TakeSlot(t) ==
    /\ isGenerating' = TRUE
    /\ generationAttempt' = generationAttempt + 1
    /\ stream' = [for |-> ConvOf[t], text |-> {}]
    /\ turn' = [turn EXCEPT ![t].attempt = generationAttempt + 1, ![t].drains = pendingStop]
    /\ Goto(t, "draining")

\* prepareContext has answered; an attempt in progress refuses this one, and
\* the turn ends as if it had been answered
Claim(t) ==
    /\ pc[t] = "context"
    /\ IF isGenerating
       THEN Finish(t, "refused") /\ UNCHANGED <<isGenerating, generationAttempt, stream>>
       ELSE TakeSlot(t) /\ UNCHANGED session
    /\ UNCHANGED <<abortRequested, tokenBuffer, queue, timers, history, engineVars,
                   screenVars, stopped>>

Mine(t) == generationAttempt = turn[t].attempt

Quit(t) == Finish(t, "stopped") /\ UNCHANGED <<svcVars, stream, history>>

\* an error leaves the engine: a fallback model if no tool ran yet, else the
\* shown partial is kept and the error stored as a reply (startGenerationFn)
Kept(t, status) ==
    IF stream.for = ConvOf[t] THEN <<[role |-> "reply", text |-> Shown, status |-> status]>>
                              ELSE <<>>
GiveUp(t) ==
    /\ IF isGenerating THEN ResetState /\ stream' = NoReply
                       ELSE UNCHANGED <<isGenerating, tokenBuffer, timers, stream>>
    /\ history' = [history EXCEPT ![ConvOf[t]] =
            @ \o (IF isGenerating THEN Kept(t, "failed") ELSE <<>>)
              \o <<[role |-> "reply", text |-> {}, status |-> "error"]>>]
    /\ Finish(t, "failed")
    /\ UNCHANGED <<abortRequested, generationAttempt, queue>>

Fail(t) ==
    IF abortRequested THEN Quit(t)
    ELSE IF turn[t].routes > 0 /\ turn[t].steps = 0
    THEN Goto(t, "fallback") /\ UNCHANGED <<svcVars, storeVars, turn>>
    ELSE GiveUp(t)

\* prepareGeneration's catch block, and then the caller's
PrepareFails(t) ==
    IF ~Mine(t) THEN Quit(t)
    ELSE /\ ResetState /\ stream' = NoReply
         /\ IF turn[t].routes > 0
            THEN Goto(t, "fallback") /\ UNCHANGED <<turn, session, history>>
            ELSE AddMessage(ConvOf[t], "reply", {}, "error") /\ Finish(t, "failed")
         /\ UNCHANGED <<abortRequested, generationAttempt, queue>>

\* the pending stop has settled: the attempt owns the abort flag
Drained(t) ==
    /\ pc[t] = "draining"
    /\ turn[t].drains # None => turn[t].drains \notin pendings
    /\ IF ~Mine(t) \/ ~isGenerating
       THEN Quit(t)
       ELSE /\ abortRequested' = FALSE /\ Goto(t, "idling")
            /\ UNCHANGED <<isGenerating, generationAttempt, tokenBuffer, queue, timers,
                           storeVars, turn>>
    /\ UNCHANGED <<engineVars, screenVars, stopped>>

StillOwns(t) == Mine(t) /\ isGenerating /\ ~abortRequested

\* the first completion of a run that is prepared. An engine made busy in the
\* meantime, by another turn's summary, refuses it
Begin(t) ==
    /\ IF t \in ToolTurns \/ ~busy
       THEN /\ StartToolRun(t) /\ tokenBuffer' = {}
            /\ UNCHANGED <<isGenerating, abortRequested, generationAttempt, queue, timers,
                           storeVars, turn>>
       ELSE Fail(t) /\ UNCHANGED <<runVars, stops>>
    /\ UNCHANGED stopVars

\* waitForIdle has answered. The conversation boundary: the context of the
\* chat that used it last is cleared first
Idle(t) ==
    /\ pc[t] = "idling" /\ ~busy
    /\ IF StillOwns(t) /\ boundTo = ConvOf[t] THEN Begin(t)
       ELSE /\ IF StillOwns(t) THEN Goto(t, "clearing") /\ UNCHANGED <<svcVars, storeVars, turn>>
                          ELSE Quit(t)
            /\ UNCHANGED <<runVars, stops, stopVars>>
    /\ UNCHANGED <<boundTo, screenVars, stopped>>

\* clearCache has answered: the context is this chat's, wanted or not
Cleared(t) ==
    /\ pc[t] = "clearing"
    /\ boundTo' = ConvOf[t]
    /\ IF StillOwns(t) THEN Begin(t) ELSE Quit(t) /\ UNCHANGED <<runVars, stops, stopVars>>
    /\ UNCHANGED <<screenVars, stopped>>

\* the model is gone or still busy after 15 s, or the cache is not cleared
NotReady(t) ==
    /\ \/ pc[t] = "idling" /\ (busy \/ Fails)
       \/ pc[t] = "clearing" /\ Fails
    /\ PrepareFails(t)
    /\ UNCHANGED <<engineVars, screenVars, stopped>>
-----------------------------------------------------------------------------
(* The stream and the end of a completion.                                  *)

Running(t) == pc[t] = "running" /\ t \in native

\* Mutant: the turn does not look at the abort flag.
TokenAfterStop(t) ==
    /\ Running(t) /\ (t \in ToolTurns \/ busy)
    /\ t \notin tokenBuffer
    /\ tokenBuffer' = tokenBuffer \cup {t}
    /\ UNCHANGED <<isGenerating, abortRequested, generationAttempt, queue, timers,
                   storeVars, engineVars, screenVars, turnVars>>

\* a token: llmService drops it once it is not generating, the turn once the
\* shared flag says abort
Token(t) ==
    /\ Running(t) /\ ~abortRequested /\ (t \in ToolTurns \/ busy)
    /\ t \notin tokenBuffer
    /\ tokenBuffer' = tokenBuffer \cup {t}
    /\ UNCHANGED <<isGenerating, abortRequested, generationAttempt, queue, timers,
                   storeVars, engineVars, screenVars, turnVars>>

\* the 50 ms flush timer
Flush ==
    /\ tokenBuffer # {}
    /\ stream' = [stream EXCEPT !.text = Shown] /\ tokenBuffer' = {}
    /\ UNCHANGED <<isGenerating, abortRequested, generationAttempt, queue, timers,
                   history, session, engineVars, screenVars, turnVars>>

\* the reply is complete: finalizeStreamingMessage, resetState
Complete(t, outcome) ==
    /\ Finalize(ConvOf[t], "completed") /\ ResetState /\ Finish(t, outcome)
    /\ UNCHANGED <<abortRequested, generationAttempt, queue>>

\* generateResponse resolves, interrupted or not
PlainEnds(t) ==
    /\ Running(t) /\ t \notin ToolTurns
    /\ EndRun(t, "idle")
    /\ IF abortRequested THEN Quit(t) ELSE Complete(t, "answered")
    /\ UNCHANGED <<boundTo, screenVars, stopped>>

\* the loop's last completion: without calls, or interrupted. Only the run
\* without tools after an empty answer does not look at the interruption
ToolTurnEnds(t) ==
    /\ Running(t) /\ t \in ToolTurns
    /\ EndRun(t, "idle")
    /\ \E streamed \in BOOLEAN :
        LET over == ~turn[t].bare /\ (t \in interrupted \/ abortRequested)
            said == IF over \/ streamed THEN stream
                    ELSE [stream EXCEPT !.text = @ \cup {t}]
        IN IF abortRequested
           THEN stream' = said /\ Finish(t, "stopped") /\ UNCHANGED <<svcVars, history>>
           ELSE /\ IF stream.for = ConvOf[t] /\ said.text \cup tokenBuffer # {}
                   THEN AddMessage(ConvOf[t], "reply", said.text \cup tokenBuffer, "completed")
                   ELSE UNCHANGED history
                /\ stream' = NoReply /\ ResetState
                /\ Finish(t, IF over THEN "stopped" ELSE "answered")
                /\ UNCHANGED <<abortRequested, generationAttempt, queue>>
    /\ UNCHANGED <<boundTo, screenVars, stopped>>

\* the completion calls tools: the round so far becomes a message of its own
ToolCalls(t) ==
    /\ Running(t) /\ t \in ToolTurns
    /\ t \notin interrupted /\ ~abortRequested /\ ~turn[t].bare /\ turn[t].steps < MaxSteps
    /\ EndRun(t, "idle")
    /\ stream' = [stream EXCEPT !.text = {}] /\ tokenBuffer' = {}
    /\ AddMessage(ConvOf[t], "reply", {t}, "calls")
    /\ turn' = [turn EXCEPT ![t].steps = @ + 1, ![t].retries = 0]
    /\ Goto(t, "tool")
    /\ UNCHANGED <<isGenerating, abortRequested, generationAttempt, queue, timers,
                   session, boundTo, screenVars, stopped>>

\* nothing streamed and no calls: once more without tools, at once
EmptyAnswer(t) ==
    /\ Running(t) /\ t \in ToolTurns /\ t \notin Shown
    /\ t \notin interrupted /\ ~abortRequested /\ ~turn[t].bare /\ turn[t].steps < MaxSteps
    /\ Release(t, "idle") /\ busy' = TRUE /\ active' = t
    /\ turn' = [turn EXCEPT ![t].bare = TRUE, ![t].retries = 0]
    /\ UNCHANGED <<svcVars, storeVars, native, interrupted, displaced, boundTo, screenVars, pc,
                   stopped>>

\* the tools have run: the next round, or the final answer without tools
ToolsDone(t) ==
    /\ pc[t] = "tool"
    /\ IF abortRequested
       THEN Quit(t) /\ UNCHANGED <<runVars, stops>>
       ELSE StartToolRun(t) /\ UNCHANGED <<svcVars, storeVars, turn>>
    /\ UNCHANGED <<boundTo, stopVars, screenVars, stopped>>

\* Mutant: the retries are not counted.
RetryForever(t) ==
    /\ pc[t] = "backoff" /\ stops[t] = "idle"
    /\ StartToolRun(t)
    /\ UNCHANGED <<svcVars, storeVars, turn, boundTo, stopVars, screenVars, stopped>>

\* callLocalWithRetry's backoff has passed
Retry(t) ==
    /\ pc[t] = "backoff" /\ stops[t] = "idle"
    /\ IF turn[t].retries < MaxRetries
       THEN /\ turn' = [turn EXCEPT ![t].retries = @ + 1]
            /\ StartToolRun(t) /\ UNCHANGED <<svcVars, storeVars>>
       ELSE Fail(t) /\ UNCHANGED <<runVars, stops>>
    /\ UNCHANGED <<boundTo, stopVars, screenVars, stopped>>

\* a completion fails
RunFails(t) ==
    /\ Fails /\ Running(t)
    /\ IF t \in ToolTurns /\ turn[t].retries < MaxRetries
       THEN EndRun(t, "native") /\ Goto(t, "backoff") /\ UNCHANGED <<svcVars, storeVars, turn>>
       ELSE EndRun(t, "idle") /\ Fail(t)
    /\ UNCHANGED <<boundTo, screenVars, stopped>>
-----------------------------------------------------------------------------
(* Context full, compaction and fallback.                                   *)

\* the context is full: the partial is kept; the first time the engines are
\* stopped and the chat summarised, the second the turn ends with an alert
ContextFull(t) ==
    /\ ContextFills /\ Running(t)
    /\ EndRun(t, IF abortRequested \/ turn[t].compacted THEN "idle" ELSE "litert")
    /\ IF abortRequested THEN Quit(t)
       ELSE /\ Finalize(ConvOf[t], "failed") /\ ResetState
            /\ IF turn[t].compacted
               THEN Finish(t, "failed")
               ELSE /\ turn' = [turn EXCEPT ![t].compacted = TRUE]
                    /\ Goto(t, "stopping") /\ UNCHANGED session
            /\ UNCHANGED <<abortRequested, generationAttempt, queue>>
    /\ UNCHANGED <<boundTo, screenVars, stopped>>

EnginesStopped(t) ==
    /\ pc[t] = "stopping" /\ stops[t] = "idle"
    /\ Goto(t, "summary")
    /\ UNCHANGED <<svcVars, storeVars, engineVars, screenVars, turn, stopped>>

\* compact() has answered: is this turn still wanted?
Compacted(t) ==
    LET wanted == IF turn[t].compacted THEN ~abortRequested ELSE session = ConvOf[t]
    IN IF wanted THEN Goto(t, "context") /\ UNCHANGED <<svcVars, storeVars, turn>>
                 ELSE Quit(t)

\* summarizeMessages, or the trim alone when the engine is not free
Summarize(t) ==
    /\ pc[t] = "summary"
    /\ \/ ~busy /\ StartRun(t) /\ Goto(t, "summarizing") /\ UNCHANGED <<svcVars, storeVars, turn>>
       \/ Compacted(t) /\ UNCHANGED runVars
    /\ UNCHANGED <<boundTo, stops, stopVars, screenVars, stopped>>

Summarized(t) ==
    /\ pc[t] = "summarizing"
    /\ EndRun(t, "idle")
    /\ Compacted(t)
    /\ UNCHANGED <<boundTo, screenVars, stopped>>

\* the next route's model has been loaded, which first stops what runs on the
\* old one: its empty context is to be bound to the chat
Fallback(t) ==
    /\ pc[t] = "fallback" /\ turn[t].routes > 0 /\ native = {}
    /\ boundTo' = None
    /\ IF abortRequested THEN Quit(t)
                         ELSE Goto(t, "rebinding") /\ UNCHANGED <<svcVars, storeVars, turn>>
    /\ UNCHANGED <<runVars, stops, stopVars, screenVars, stopped>>

\* the boundary is set: what was shown of this reply goes, and the run starts
\* on the new route, or fails again when the engine is busy
Rebound(t) ==
    /\ pc[t] = "rebinding"
    /\ boundTo' = ConvOf[t]
    /\ IF abortRequested
       THEN Quit(t) /\ UNCHANGED <<runVars, stops>>
       ELSE /\ AddMessage(ConvOf[t], "notice", {}, "sent")
            /\ tokenBuffer' = {}
            /\ IF isGenerating
               THEN /\ stream' = [stream EXCEPT !.text = {}]
                    /\ turn' = [turn EXCEPT ![t].routes = @ - 1]
                    /\ IF t \in ToolTurns \/ ~busy
                       THEN StartToolRun(t)
                       ELSE Goto(t, "fallback") /\ UNCHANGED <<runVars, stops>>
                    /\ UNCHANGED <<isGenerating, generationAttempt>>
               ELSE /\ isGenerating' = TRUE /\ generationAttempt' = generationAttempt + 1
                    /\ stream' = [for |-> ConvOf[t], text |-> {}]
                    /\ turn' = [turn EXCEPT ![t].routes = @ - 1, ![t].drains = pendingStop,
                                            ![t].attempt = generationAttempt + 1]
                    /\ Goto(t, "draining") /\ UNCHANGED <<runVars, stops>>
            /\ UNCHANGED <<abortRequested, queue, timers, session>>
    /\ UNCHANGED <<stopVars, screenVars, stopped>>

\* the load or the boundary fails: the next route, or the end of them, stopped
\* or not
FallbackFails(t) ==
    /\ pc[t] \in {"fallback", "rebinding"} /\ (Fails \/ turn[t].routes = 0)
    /\ IF turn[t].routes > 1
       THEN /\ turn' = [turn EXCEPT ![t].routes = @ - 1] /\ Goto(t, "fallback")
            /\ UNCHANGED <<svcVars, storeVars>>
       ELSE GiveUp(t)
    /\ UNCHANGED <<engineVars, screenVars, stopped>>

\* the load unloads the old model, which stops what runs on it
Unload(t) ==
    /\ pc[t] = "fallback" /\ native # interrupted
    /\ interrupted' = native
    /\ UNCHANGED <<svcVars, storeVars, busy, active, native, displaced, boundTo, stops,
                   stopVars, screenVars, turnVars>>
-----------------------------------------------------------------------------
(* The user stops, or looks at another chat.                                *)

Working(t) == pc[t] \notin {"new", "reclaim", "queued", "merged", "routing", "drawing", "done"}

\* the turns a stop means: the one that forms the reply, or all at work
Meant == LET owners == {t \in Turns : Working(t) /\ turn[t].attempt = generationAttempt}
         IN IF isGenerating THEN owners ELSE {t \in Turns : Working(t)}

\* handleStopFn and stopGeneration; the Stop button is there while a reply
\* forms or a picture is drawn
Stop(i) ==
    /\ stops[i] = "unused"
    /\ mounted /\ (stream.for # None \/ drawing # None)
    /\ abortRequested' = TRUE /\ generationAttempt' = generationAttempt + 1
    /\ session' = None
    /\ Finalize(stream.for, "cancelled")
    /\ stopped' = stopped \cup Meant
    /\ IF isGenerating
       THEN /\ ResetState
            /\ interrupted' = native
            /\ stops' = [stops EXCEPT ![i] = "native"]
            /\ pendingStop' = i /\ pendings' = pendings \cup {i}
       ELSE /\ tokenBuffer' = {}
            /\ stops' = [stops EXCEPT ![i] = "litert"]
            /\ UNCHANGED <<isGenerating, timers, interrupted, stopVars>>
    /\ UNCHANGED <<queue, busy, active, native, displaced, boundTo, screenVars, pc, turn>>

\* another chat becomes the active one: the session of the first ends
SwitchChat ==
    /\ mounted /\ session # None /\ Cardinality(Convs) > 1
    /\ session' = None
    /\ UNCHANGED <<svcVars, stream, history, engineVars, screenVars, turnVars>>
-----------------------------------------------------------------------------
Step(t) ==
    \/ Send(t) \/ Admit(t) \/ RouteText(t) \/ RouteImage(t) \/ ImageDone(t)
    \/ Ready(t) \/ LongChat(t) \/ Claim(t) \/ Drained(t) \/ Idle(t) \/ Cleared(t) \/ NotReady(t)
    \/ Token(t) \/ PlainEnds(t) \/ ToolTurnEnds(t) \/ ToolCalls(t) \/ EmptyAnswer(t)
    \/ ToolsDone(t) \/ Retry(t) \/ RunFails(t) \/ ContextFull(t) \/ EnginesStopped(t)
    \/ Summarize(t) \/ Summarized(t) \/ Fallback(t) \/ Rebound(t) \/ FallbackFails(t) \/ Unload(t)

Engine(i) == LiteRTStopped(i) \/ NativeStopped(i)

AllDone == (\A t \in Turns : pc[t] \in {"done", "merged"}) /\ timers = 0 /\ UNCHANGED vars

Next ==
    \/ \E t \in Turns : Step(t)
    \/ \E i \in StopIds : Engine(i)
    \/ \E i \in Presses : Stop(i)
    \/ DrainTimer \/ Flush \/ Leave \/ SwitchChat \/ AllDone

Spec == Init /\ [][Next]_vars

\* every await settles: a completion ends, a tool answers, a load returns, and
\* the timers fire; a token, a press or a send is never owed
Advance(t) == Step(t) /\ ~(Send(t) \/ RouteImage(t) \/ LongChat(t) \/ Token(t))
Fairness ==
    /\ \A t \in Turns : WF_vars(Advance(t))
    /\ \A i \in StopIds : WF_vars(Engine(i))
    /\ WF_vars(DrainTimer)
FairSpec == Spec /\ Fairness
-----------------------------------------------------------------------------
(* llama.cpp computes one completion at a time, and when llmService says it  *)
(* is idle it is: what waits for that, a retry, a summary, the next turn or  *)
(* a release, never meets a completion that has not unwound. One thing only  *)
(* breaks it: a tool loop whose start was refused, and then until the engine *)
(* is quiet again, when it is idle for everyone.                             *)
OneNativeRun ==
    /\ ~displaced => Cardinality(native) <= 1 /\ (~busy => native = {})
    /\ native = {} => ~busy /\ active = None

(* The streaming slot of the store implements ReplySlot.                     *)
Owners == {t \in Turns : turn[t].attempt = generationAttempt}
Replies(c) == {history[c][i] : i \in {j \in DOMAIN history[c] : history[c][j].role = "reply"}}
Slot == INSTANCE ReplySlot WITH
    Nobody <- None,
    turnOf <- IF isGenerating THEN CHOOSE t \in Owners : TRUE ELSE None,
    said   <- IF isGenerating THEN Shown ELSE stream.text,
    kept   <- [c \in Convs |-> UNION {m.text : m \in Replies(c)}]
SlotSpec == Slot!Spec

(* A queued message is never forgotten: something that is under way will     *)
(* take it from the queue when it ends (resetState, drainQueue).             *)
NoStrandedQueue == queue # <<>> => isGenerating \/ drawing # None \/ timers > 0

(* Every message sent comes to an end: answered, stopped, failed or joined   *)
(* to another one. No two turns, stops and timers wait on each other.        *)
TurnsEnd == \A t \in Turns : pc[t] = "reclaim" ~> pc[t] \in {"done", "merged"}

(* The following do not hold of the code; their configurations show how.     *)

(* llama.cpp computes one completion at a time (generateResponse's guard).   *)
(* Expected to be violated: a refused start of a tool loop clears the        *)
(* promise its own stop then does not wait for, and that stop clears busy.   *)
AlwaysAlone == Cardinality(native) <= 1

(* A reply is computed in its own chat's native context: "a new chat never   *)
(* inherits native KV/recurrent state" (llm.ts:431). Expected to be          *)
(* violated: a turn stopped while it clears the cache lets another chat      *)
(* start, and then binds the context to its own chat all the same.           *)
NativeContext == \A t \in native : pc[t] = "running" => boundTo = ConvOf[t]

(* A turn the user has stopped starts no further completion. Expected to be  *)
(* violated: the next turn clears the abort flag that a stopped tool loop    *)
(* has yet to look at.                                                       *)
StoppedForGood == [][\A t \in stopped : t \in native' => t \in native]_vars

(* A message stays in the chat it was written in. Expected to be violated:   *)
(* messages queued from two chats are joined into one of the first chat.     *)
OwnChat == \A c \in Convs : \A i \in DOMAIN history[c] :
    history[c][i].role = "user" => \A t \in history[c][i].text : ConvOf[t] = c

(* A message that is sent while another is answered waits for its turn.      *)
(* Expected to be violated: until the first claims the service, the second   *)
(* is not queued, and the service refuses it.                                *)
NoneRefused == \A t \in Turns : turn[t].outcome # "refused"
=============================================================================
