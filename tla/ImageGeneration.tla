--------------------------- MODULE ImageGeneration ---------------------------
(***************************************************************************)
(* Drawing pictures: imageGenerationService, the generator service below   *)
(* it (localDreamGenerator), Android's LocalDreamModule and the route to a *)
(* remote server.                                                          *)
(*                                                                         *)
(* The service keeps one state (the phase and the request the card names), *)
(* one cancel flag and one abort controller for all requests. A request is *)
(* ignored only while the phase says that one is in flight, and a cancel   *)
(* leaves that phase at once: what it stopped may still be unwinding when  *)
(* the next request starts. Calls to the native module and their answers   *)
(* each arrive in order; the native module draws on coroutines.            *)
(***************************************************************************)
EXTENDS Naturals, Sequences, FiniteSets

CONSTANTS
    Requests,       \* the pictures asked for
    Routes,         \* "local", "remote": where they may be drawn
    MaxCancels,     \* presses of the stop button (bound)
    None

ASSUME ImageAssumption ==
    /\ Routes \subseteq {"local", "remote"}
    /\ MaxCancels \in Nat
    /\ None \notin Requests

VARIABLES
    \* imageGenerationService: the phase, the request whose conversation the
    \* card names, the one its message id belongs to and the one whose progress
    \* it shows; the cancel flag and the request the abort controller is for
    phase, shown, card, progress, cancelRequested, remoteRequest,
    \* localDreamGenerator: its busy flag and the progress subscriptions
    generating, listening,
    \* the bridge
    calls, replies,
    \* LocalDreamModule: its coroutines, the connection of one of them, the flag
    job, cut, active, generationCancelled,
    \* the requests: where each is, those whose controller is aborted, and the
    \* id under which the picture's message is stored
    pc, route, aborted, messageId,
    \* history: presses so far; what the user stopped; the requests that were
    \* alone when they started; those whose stop came too late, or whose stop
    \* flag a later request cleared
    cancels, cancelled, alone, excused

svcVars == <<phase, shown, card, progress, cancelRequested>>
bridge == <<calls, replies>>
native == <<job, cut, active, generationCancelled>>
history == <<cancels, cancelled, alone, excused>>
vars == <<svcVars, remoteRequest, generating, listening, bridge, native,
          pc, route, aborted, messageId, history>>

Phases == {"idle", "enhancing", "loading", "generating", "done", "error", "cancelled"}
Steps == {"textLoad", "enhance", "asking", "load", "cache", "draw", "remote", "write"}
Ends == {"saved", "quit", "failed", "ignored"}
Op == [op : {"cancel"}, of : {None}] \cup [op : {"loaded", "cache", "draw"}, of : Requests]
Reply == [op : {"cancel"}, of : {None}, said : {"ok"}]
         \cup [op : {"loaded", "cache"}, of : Requests, said : {"ok"}]
         \cup [op : {"draw"}, of : Requests, said : {"ok", "cancelled", "error"}]

\* Every variable stays in its range, and a request is subscribed to the progress
\* events exactly while its native call is awaited (the finally of generateImage).
TypeOK ==
    /\ listening = {r \in Requests : pc[r] = "draw"}
    /\ phase \in Phases
    /\ {shown, card, progress, remoteRequest, active} \subseteq Requests \cup {None}
    /\ {cancelRequested, generating, generationCancelled} \subseteq BOOLEAN
    /\ calls \in Seq(Op) /\ replies \in Seq(Reply)
    /\ job \in [Requests -> {"none", "checking", "opening", "streaming", "encoding", "ended"}]
    /\ pc \in [Requests -> {"new"} \cup Steps \cup Ends]
    /\ route \in [Requests -> Routes]
    /\ messageId \in [Requests -> Requests \cup {None}]
    /\ {cut, aborted, cancelled, alone, excused} \subseteq SUBSET Requests
    /\ cancels \in 0 .. MaxCancels

Init ==
    /\ phase = "idle" /\ shown = None /\ card = None /\ progress = None
    /\ cancelRequested = FALSE /\ remoteRequest = None
    /\ generating = FALSE /\ listening = {}
    /\ calls = <<>> /\ replies = <<>>
    /\ job = [r \in Requests |-> "none"] /\ cut = {} /\ active = None
    /\ generationCancelled = FALSE
    /\ pc = [r \in Requests |-> "new"] /\ route \in [Requests -> Routes]
    /\ aborted = {} /\ messageId = [r \in Requests |-> None]
    /\ cancels = 0 /\ cancelled = {} /\ alone = {} /\ excused = {}
-----------------------------------------------------------------------------
(* The helpers of the service.                                             *)

\* Mutant: enhancing does not count as in flight.
InFlightLate(p) == p \in {"loading", "generating"}

InFlight(p) == p \in {"enhancing", "loading", "generating"}

AtWork == {r \in Requests : pc[r] \in Steps}

Goto(r, step) == pc' = [pc EXCEPT ![r] = step]

Ask(op, r) == calls' = Append(calls, [op |-> op, of |-> r])

\* updateState: the card names r from now on
Show(r, p) == phase' = p /\ shown' = r /\ progress' = None

ResetState ==
    /\ phase' = "idle" /\ shown' = None /\ card' = None /\ progress' = None

\* a request gives up because of the cancel flag
Quit(r) ==
    /\ ResetState /\ Goto(r, "quit")
    /\ UNCHANGED <<cancelRequested, messageId>>

\* Mutant: the failure is reported, and the phase left as it was.
FailReportOnly(r) ==
    /\ progress' = None
    /\ Goto(r, "failed")
    /\ UNCHANGED <<phase, shown, card, cancelRequested, messageId>>

\* _fail, whatever the card shows by then
Fail(r) ==
    /\ phase' = "error" /\ progress' = None
    /\ Goto(r, "failed")
    /\ UNCHANGED <<shown, card, cancelRequested, messageId>>

\* the picture is shown and stored in the chat, under the given message id
Save(r, id) ==
    /\ phase' = "done" /\ progress' = None
    /\ messageId' = [messageId EXCEPT ![r] = id]
    /\ Goto(r, "saved")
    /\ UNCHANGED <<shown, card, cancelRequested>>
-----------------------------------------------------------------------------
(* A request up to the native call.                                        *)

\* the remote route, once the prompt is ready: the request is sent
SendRemote(r) ==
    /\ Show(r, "generating") /\ card' = r
    /\ remoteRequest' = r
    /\ Goto(r, "remote")
    /\ UNCHANGED calls

\* the local route, once the prompt is ready: is the model loaded?
AskLoaded(r) ==
    /\ Show(r, "loading")
    /\ Ask("loaded", r)
    /\ Goto(r, "asking")
    /\ UNCHANGED remoteRequest

\* generateImage: ignored while one is in flight. The prompt may be enhanced
\* first, by a text model that may have to be loaded; a local request may find
\* no model selected
Start(r) ==
    /\ pc[r] = "new"
    /\ IF InFlight(phase)
       THEN Goto(r, "ignored") /\ UNCHANGED <<svcVars, remoteRequest, calls, history>>
       ELSE /\ cancelRequested' = FALSE
            /\ excused' = excused \cup AtWork
            /\ alone' = IF AtWork = {} /\ calls = <<>> /\ replies = <<>>
                        THEN alone \cup {r} ELSE alone
            /\ \/ /\ route[r] = "local" /\ Goto(r, "failed")
                  /\ phase' = "error" /\ progress' = None
                  /\ UNCHANGED <<shown, card, remoteRequest, calls>>
               \/ \E step \in {"textLoad", "enhance"} :
                      /\ Show(r, "enhancing") /\ Goto(r, step)
                      /\ card' = IF route[r] = "local" THEN r ELSE card
                      /\ UNCHANGED <<remoteRequest, calls>>
               \/ route[r] = "local" /\ AskLoaded(r) /\ card' = r
               \/ route[r] = "remote" /\ SendRemote(r)
            /\ UNCHANGED <<cancels, cancelled>>
    /\ UNCHANGED <<generating, listening, replies, native, route, aborted, messageId>>

\* the prompt is ready: the flag is looked at, then the route is taken
Prompted(r) ==
    IF cancelRequested
    THEN Quit(r) /\ UNCHANGED <<remoteRequest, calls>>
    ELSE /\ IF route[r] = "remote" THEN SendRemote(r) ELSE AskLoaded(r) /\ UNCHANGED card
         /\ UNCHANGED <<cancelRequested, messageId>>

\* the text model is loaded, or cannot be: enhancement is skipped
TextLoaded(r) ==
    /\ pc[r] = "textLoad"
    /\ \/ /\ Show(r, "enhancing") /\ Goto(r, "enhance")
          /\ UNCHANGED <<card, cancelRequested, remoteRequest, calls, messageId>>
       \/ Prompted(r)
    /\ UNCHANGED <<generating, listening, replies, native, route, aborted, history>>

\* generateStandalone has answered or failed
Enhanced(r) ==
    /\ pc[r] = "enhance" /\ Prompted(r)
    /\ UNCHANGED <<generating, listening, replies, native, route, aborted, history>>

\* localDreamGenerator.generateImage refuses a second generation
Draw(r) ==
    IF generating
    THEN Fail(r) /\ UNCHANGED <<generating, listening, calls>>
    ELSE /\ phase' = "generating"
         /\ generating' = TRUE /\ listening' = listening \cup {r}
         /\ Ask("draw", r) /\ Goto(r, "draw")
         /\ UNCHANGED <<shown, card, progress, cancelRequested, messageId>>

\* _ensureImageModelLoaded said yes: the flag is looked at for the last time
\* before the native call; the kernel cache may have to be asked for first
Loaded(r) ==
    IF cancelRequested
    THEN Quit(r) /\ UNCHANGED <<generating, listening, calls>>
    ELSE \/ Draw(r)
         \/ /\ Ask("cache", r) /\ Goto(r, "cache")
            /\ UNCHANGED <<svcVars, generating, listening, messageId>>

\* loadImageModel has returned, or failed
LoadDone(r) ==
    /\ pc[r] = "load"
    /\ \/ Loaded(r)
       \/ Fail(r) /\ UNCHANGED <<generating, listening, calls>>
    /\ UNCHANGED <<remoteRequest, replies, native, route, aborted, history>>
-----------------------------------------------------------------------------
(* Answers of the native module, in their order.                           *)

\* the model is loaded with the right threads, or has to be loaded
LoadedKnown(r) ==
    \/ Loaded(r)
    \/ /\ phase' = "loading" /\ Goto(r, "load")
       /\ UNCHANGED <<shown, card, progress, cancelRequested, generating, listening, calls,
                      messageId>>

\* Mutant: the picture is kept whatever the flag says.
DrawnAnyway(r, said) ==
    /\ generating' = FALSE /\ listening' = listening \ {r}
    /\ CASE said = "ok" -> Save(r, card)
         [] said = "cancelled" -> Quit(r)
         [] said = "error" -> Fail(r)
    /\ UNCHANGED calls

\* the native generation has ended
Drawn(r, said) ==
    /\ generating' = FALSE /\ listening' = listening \ {r}
    /\ CASE said = "ok" -> IF cancelRequested THEN Quit(r) ELSE Save(r, card)
         [] said = "cancelled" -> Quit(r)
         [] said = "error" -> Fail(r)
    /\ UNCHANGED calls

\* cancelGeneration's await is over: resetState, whoever is at work by now
CancelDone ==
    /\ ResetState
    /\ UNCHANGED <<cancelRequested, generating, listening, calls, pc, messageId>>

TakeReply ==
    /\ replies # <<>>
    /\ replies' = Tail(replies)
    /\ LET a == Head(replies) IN
       \/ a.op = "cancel" /\ CancelDone
       \/ a.op = "loaded" /\ LoadedKnown(a.of)
       \/ a.op = "cache" /\ Draw(a.of)
       \/ a.op = "draw" /\ Drawn(a.of, a.said)
    /\ UNCHANGED <<remoteRequest, native, route, aborted, history>>
-----------------------------------------------------------------------------
(* The remote server and the file.                                         *)

\* the server has answered, or the request failed or was aborted
RemoteAnswered(r) ==
    /\ pc[r] = "remote"
    /\ \/ /\ ~cancelRequested /\ Goto(r, "write")
          /\ UNCHANGED <<svcVars, remoteRequest, messageId>>
       \/ /\ r \in aborted \/ cancelRequested
          /\ Goto(r, "quit") /\ remoteRequest' = None
          /\ UNCHANGED <<svcVars, messageId>>
       \/ /\ r \notin aborted /\ ~cancelRequested
          /\ Fail(r) /\ remoteRequest' = None
    /\ UNCHANGED <<generating, listening, bridge, native, route, aborted, history>>

\* the picture is on disk, or could not be written or fetched; the flag is not
\* looked at again unless it failed
Written(r) ==
    /\ pc[r] = "write"
    /\ remoteRequest' = None
    /\ \/ Save(r, r)
       \/ IF r \in aborted \/ cancelRequested
          THEN Goto(r, "quit") /\ UNCHANGED <<svcVars, messageId>>
          ELSE Fail(r)
    /\ UNCHANGED <<generating, listening, bridge, native, route, aborted, history>>

\* the server reports progress of r, which every request's closure would show
RemoteProgress(r) ==
    /\ pc[r] = "remote" /\ ~cancelRequested
    /\ progress' = r
    /\ UNCHANGED <<phase, shown, card, cancelRequested, remoteRequest, generating, listening,
                   bridge, native, pc, route, aborted, messageId, history>>
-----------------------------------------------------------------------------
(* LocalDreamModule.                                                       *)

Answer(op, r, said) == replies' = Append(replies, [op |-> op, of |-> r, said |-> said])

\* the module takes a call: a generation starts on a coroutine of its own, a
\* cancel raises the flag and closes the connection there is
TakeCall ==
    /\ calls # <<>>
    /\ calls' = Tail(calls)
    /\ LET c == Head(calls) IN
       \/ /\ c.op \in {"loaded", "cache"}
          /\ Answer(c.op, c.of, "ok") /\ UNCHANGED native
       \/ /\ c.op = "draw"
          /\ job' = [job EXCEPT ![c.of] = "checking"]
          /\ UNCHANGED <<replies, cut, active, generationCancelled>>
       \/ /\ c.op = "cancel"
          /\ generationCancelled' = TRUE
          /\ cut' = cut \cup ({active} \ {None}) /\ active' = None
          /\ Answer("cancel", None, "ok") /\ UNCHANGED job
    /\ UNCHANGED <<svcVars, remoteRequest, generating, listening, pc, route, aborted,
                   messageId, history>>

\* the server is healthy: the flag is lowered; or it is not
JobStarts(r) ==
    /\ job[r] = "checking"
    /\ \/ /\ job' = [job EXCEPT ![r] = "opening"]
          /\ generationCancelled' = FALSE
          /\ UNCHANGED replies
       \/ /\ job' = [job EXCEPT ![r] = "ended"]
          /\ Answer("draw", r, "error")
          /\ UNCHANGED generationCancelled
    /\ UNCHANGED <<svcVars, remoteRequest, generating, listening, calls, cut, active, pc, route,
                   aborted, messageId, history>>

\* the connection is there for a cancel to close: one that came since the flag
\* was lowered has not closed it
JobConnects(r) ==
    /\ job[r] = "opening"
    /\ job' = [job EXCEPT ![r] = "streaming"] /\ active' = r
    /\ UNCHANGED <<svcVars, remoteRequest, generating, listening, bridge, cut,
                   generationCancelled, pc, route, aborted, messageId, history>>

\* the stream ends: with the picture, which is encoded next, with an error, or
\* because of a cancel; the connection of whoever has it by now is forgotten
JobEnds(r) ==
    /\ job[r] = "streaming"
    /\ \/ /\ r \notin cut /\ ~generationCancelled
          /\ job' = [job EXCEPT ![r] = "encoding"]
          /\ UNCHANGED <<replies, active>>
       \/ /\ Answer("draw", r, IF generationCancelled THEN "cancelled" ELSE "error")
          /\ job' = [job EXCEPT ![r] = "ended"] /\ active' = None
    /\ UNCHANGED <<svcVars, remoteRequest, generating, listening, calls, cut,
                   generationCancelled, pc, route, aborted, messageId, history>>

JobSaved(r) ==
    /\ job[r] = "encoding"
    /\ Answer("draw", r, "ok")
    /\ job' = [job EXCEPT ![r] = "ended"] /\ active' = None
    /\ UNCHANGED <<svcVars, remoteRequest, generating, listening, calls, cut,
                   generationCancelled, pc, route, aborted, messageId, history>>

\* a progress event names no request: every subscription hears it
JobProgress(r) ==
    /\ job[r] = "streaming" /\ r \notin cut /\ ~generationCancelled
    /\ listening # {} /\ ~cancelRequested
    /\ progress' = r
    /\ UNCHANGED <<phase, shown, card, cancelRequested, remoteRequest, generating, listening,
                   bridge, native, pc, route, aborted, messageId, history>>
-----------------------------------------------------------------------------
\* cancelGeneration up to its await, from the chat, the gallery or Eject All
Cancel ==
    /\ cancels < MaxCancels /\ cancels' = cancels + 1
    /\ InFlight(phase)
    /\ cancelRequested' = TRUE
    /\ aborted' = aborted \cup ({remoteRequest} \ {None})
    /\ phase' = "cancelled" /\ progress' = None
    /\ generating' = FALSE
    /\ Ask("cancel", None)
    /\ cancelled' = cancelled \cup ({shown} \cap AtWork)
    /\ excused' = excused \cup {r \in Requests : pc[r] = "write"}
    /\ UNCHANGED <<shown, card, remoteRequest, listening, replies, native, pc, route, messageId,
                   alone>>

Service ==
    \/ TakeReply
    \/ \E r \in Requests : TextLoaded(r) \/ Enhanced(r) \/ LoadDone(r)
Device ==
    \/ TakeCall
    \/ \E r \in Requests : JobStarts(r) \/ JobConnects(r) \/ JobSaved(r)
Servers == \E r \in Requests : JobEnds(r) \/ RemoteAnswered(r)
Disk == \E r \in Requests : Written(r)
Progress == \E r \in Requests : RemoteProgress(r) \/ JobProgress(r)

Next == (\E r \in Requests : Start(r)) \/ Cancel \/ Service \/ Device \/ Servers \/ Disk \/ Progress

Spec == Init /\ [][Next]_vars

\* Loads and completions return, the native module answers and files are written.
\* A picture being drawn may take forever, for neither connection has a read
\* time-out: it ends for certain only where it was closed. Nobody has to press a
\* button.
FairSpec ==
    /\ Spec /\ WF_vars(Service) /\ WF_vars(Device) /\ WF_vars(Disk)
    /\ WF_vars(\E r \in cut : JobEnds(r))
    /\ WF_vars(\E r \in aborted : RemoteAnswered(r))
-----------------------------------------------------------------------------
(* Properties.                                                             *)

\* What the user stopped is not stored, at whichever await the stop finds it;
\* unless the file was being written, or another request has cleared the flag.
StopIsKept == \A r \in cancelled : pc[r] = "saved" => r \in excused

\* A request that started alone and that nobody stopped is what the card shows,
\* for as long as it works: nothing that came before or after takes it over.
AloneIsShown ==
    \A r \in (alone \cap AtWork) \ cancelled :
        InFlight(phase) /\ shown = r /\ progress \in {None, r}

\* The server that draws the picture of r has not answered, and nobody has closed
\* the connection.
BeingDrawn(r) ==
    \/ pc[r] = "draw" /\ job[r] = "streaming" /\ r \notin cut
    \/ pc[r] = "remote" /\ r \notin aborted

\* The progress card goes away, unless a picture is being drawn by a server that
\* stays silent: no end of a request, no stop and no race of the two leaves the
\* phase in flight with nothing the user waits for.
CardGoes == InFlight(phase) ~> (~InFlight(phase) \/ \E r \in Requests : BeingDrawn(r))

\* Said of a cancel by docs/standards/CODEBASE_GUIDE.md: "No image added to gallery
\* or conversation". Expected to be violated: the next request clears the flag
\* the stopped one has not looked at yet.
NoImageAfterStop == \A r \in cancelled : pc[r] # "saved"
=============================================================================
