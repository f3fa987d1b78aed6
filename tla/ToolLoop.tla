------------------------------ MODULE ToolLoop ------------------------------
(***************************************************************************)
(* One turn of the tool loop, generationToolLoop.ts: runToolLoop with the  *)
(* three engines below callLLMWithRetry. llama.cpp retries a failed        *)
(* completion with a growing pause, a remote server that cannot compile    *)
(* the tool schemas is asked again without them, and LiteRT runs the tool  *)
(* calls itself through a handler. The loop compacts a full context, makes *)
(* one more attempt after an empty answer, and asks for a last answer when *)
(* the budget of calls is spent.                                           *)
(*                                                                         *)
(* An action is the code from one await to the next. The turns beside this *)
(* one are ChatGeneration's; here they may only clear the abort flag.      *)
(***************************************************************************)
EXTENDS Naturals, Sequences, FiniteSets

CONSTANTS
    Engines,        \* "llama", "litert", "remote": the engines a turn may find
    MaxTools,       \* maxToolSteps: rounds, and tool calls, of a turn
    MaxBatch,       \* calls in one answer of the model (bound)
    MaxAttempts,    \* MAX_LLM_RETRIES
    History         \* messages before the turn's own

ASSUME LoopAssumption ==
    /\ Engines \subseteq {"llama", "litert", "remote"}
    /\ MaxTools \in Nat \ {0} /\ MaxBatch \in Nat \ {0}
    /\ MaxAttempts \in Nat \ {0} /\ History \in Nat

VARIABLES
    engine,
    pc,             \* the await the turn is at
    outcome,        \* what runToolLoop returned or threw
    \* locals of runToolLoop
    iteration, total, compactions, left, gathered,
    prompt, summarized,
    seg,            \* state.streamedContent and state.reasoningContent
    \* the call of callLLMWithRetry in progress
    stage, withTools, attempt, streamed, nativeCalls, limitReached,
    \* shared with the generation service and the chat store
    aborted, voices,
    \* history: a stop and a reset of the flag, tool executions, texts dropped
    stopped, cleared, calls, untold

call    == <<stage, withTools, attempt, streamed, nativeCalls, limitReached>>
budget  == <<iteration, total, compactions>>
reply   == <<seg, voices>>
known   == <<prompt, summarized, gathered>>
history == <<stopped, cleared, calls, untold>>
vars == <<engine, pc, outcome, budget, left, known, reply, call, aborted, history>>

Texts == {"content", "reasoning"}
Upto(n) == 1 .. n
Max2(n) == IF n > 2 THEN 2 ELSE n

\* a message of the prompt: an earlier one, the user's, a call message of the
\* assistant with the calls in it, or the result of one call
Message == [role : {"earlier", "user", "call", "result"}, of : SUBSET Nat]
Result(i) == [role |-> "result", of |-> {i}]
Items(s) == {s[i] : i \in DOMAIN s}

TypeOK ==
    /\ engine \in Engines
    /\ pc \in {"routing", "preparing", "completing", "backoff", "tool", "native",
               "compacting", "settling", "cut", "unread", "lost", "done"}
    /\ outcome \in {"running", "answered", "interrupted", "failed", "silent"}
    /\ iteration \in 0 .. MaxTools /\ total \in 0 .. MaxTools
    /\ compactions \in 0 .. MaxTools /\ left \in 0 .. MaxBatch
    /\ prompt \in Seq(Message) /\ summarized \subseteq Message
    /\ gathered \in BOOLEAN /\ seg \subseteq Texts
    /\ stage \in {"loop", "plain", "limit", "recover"}
    /\ attempt \in (0 .. MaxAttempts - 1) \cup {1}
    /\ {withTools, limitReached, aborted, stopped, cleared, untold} \subseteq BOOLEAN
    /\ streamed \subseteq Texts /\ voices \in 0 .. 2
    /\ nativeCalls \in 0 .. MaxTools /\ calls \in Nat

Init ==
    /\ engine \in Engines /\ pc = "routing" /\ outcome = "running"
    /\ iteration = 0 /\ total = 0 /\ compactions = 0 /\ left = 0
    /\ prompt = [i \in Upto(History) |-> [role |-> "earlier", of |-> {i}]]
                \o <<[role |-> "user", of |-> {}]>>
    /\ summarized = {} /\ gathered = FALSE /\ seg = {}
    /\ stage = "loop" /\ withTools = TRUE /\ attempt = 0 /\ streamed = {}
    /\ nativeCalls = 0 /\ limitReached = FALSE
    /\ aborted = FALSE /\ voices = 0
    /\ stopped = FALSE /\ cleared = FALSE /\ calls = 0 /\ untold = FALSE
-----------------------------------------------------------------------------
(* What the handlers share.                                                 *)

\* callLLMWithRetry: LiteRT first prepares its conversation
Ask(s, tools) ==
    /\ pc' = IF engine = "litert" THEN "preparing" ELSE "completing"
    /\ stage' = s /\ withTools' = tools /\ attempt' = 0 /\ streamed' = {}
    /\ nativeCalls' = 0 /\ limitReached' = FALSE
    /\ UNCHANGED outcome

Return(how) == pc' = "done" /\ outcome' = how /\ UNCHANGED call

\* emitToolLimitFinalAnswer: only an answer that streamed is reset
LimitAnswer ==
    IF aborted THEN Return("interrupted") /\ UNCHANGED reply
    ELSE /\ Ask("limit", FALSE)
         /\ seg' = {} /\ voices' = IF seg # {} THEN 0 ELSE voices

\* Mutant: the head of the loop does not look at the abort flag.
LoopOverByCount(i) == i >= MaxTools

LoopOver(i) == i >= MaxTools \/ aborted

\* the head of the loop, for the round, the calls made so far and the texts shown
Round(i, n, shown) ==
    /\ iteration' = i
    /\ IF LoopOver(i)
       THEN Return(IF aborted THEN "interrupted" ELSE "silent") /\ UNCHANGED seg /\ voices' = shown
       ELSE IF n >= MaxTools THEN LimitAnswer
       ELSE Ask("loop", TRUE) /\ seg' = {} /\ voices' = shown

\* emitFinalResponse: an answer that streamed is there already
Emit ==
    /\ Return("answered")
    /\ voices' = IF "content" \in seg THEN voices ELSE Max2(voices + 1)
    /\ UNCHANGED seg

\* the completion was interrupted, or its turn was
Halted(interrupted) == interrupted \/ aborted
-----------------------------------------------------------------------------
(* Routing, the engines' preparation and streaming.                        *)

\* selectEffectiveSchemas ended: a failed routing keeps all tools
Routed ==
    /\ pc = "routing" /\ Round(0, 0, voices)
    /\ UNCHANGED <<engine, total, compactions, left, known, aborted, history>>

\* liteRTService.prepareConversation ended; nothing looks at the abort flag
Prepared ==
    /\ pc = "preparing" /\ pc' = "completing"
    /\ UNCHANGED <<engine, outcome, budget, left, known, reply, call, aborted, history>>

\* buildStreamHandler: a stopped turn streams nothing
Token(kind) ==
    /\ pc = "completing" /\ ~aborted /\ kind \notin streamed
    /\ seg' = seg \cup {kind} /\ streamed' = streamed \cup {kind}
    /\ voices' = IF kind = "content" THEN Max2(voices + 1) ELSE voices
    /\ UNCHANGED <<engine, pc, outcome, budget, left, known, stage, withTools, attempt,
                   nativeCalls, limitReached, aborted, history>>

NativeBudget == MaxTools

\* buildLiteRTToolCallHandler: LiteRT calls a tool by itself
NativeTool ==
    /\ engine = "litert" /\ pc = "completing" /\ withTools /\ ~aborted
    /\ IF nativeCalls >= NativeBudget
       THEN limitReached' = TRUE /\ UNCHANGED <<pc, nativeCalls, calls>>
       ELSE /\ pc' = "native" /\ nativeCalls' = nativeCalls + 1 /\ calls' = calls + 1
            /\ UNCHANGED limitReached
    /\ UNCHANGED <<engine, outcome, budget, left, known, reply, stage, withTools, attempt,
                   streamed, aborted, stopped, cleared, untold>>

\* its result goes to the chat and to the model; a stop meanwhile has taken the
\* listeners away, and the end of generateRaw with them
NativeToolDone ==
    /\ pc = "native"
    /\ pc' = IF stopped THEN "lost" ELSE "completing"
    /\ limitReached' = (limitReached \/ nativeCalls = MaxTools)
    /\ UNCHANGED <<engine, outcome, budget, left, known, reply, stage, withTools, attempt,
                   streamed, nativeCalls, aborted, history>>
-----------------------------------------------------------------------------
(* A completion ends with an answer. A remote one that was cut off by a stop *)
(* ends with an empty one, never with an error.                            *)

\* a stop ended it, or landed before it ended; the retry of a blank answer
\* does not ask
Interrupted(interrupted) ==
    /\ pc \in {"completing", "cut"} /\ stage # "plain"
    /\ interrupted => engine = "llama"
    /\ Halted(interrupted) /\ Return("interrupted")
    /\ UNCHANGED <<engine, budget, left, known, reply, aborted, history>>

\* a text; a blank one is asked for once more, without tools
Answered(blank) ==
    /\ pc = "completing" \/ (pc = "cut" /\ blank)
    /\ stage = "loop" /\ ~Halted(FALSE) /\ ~limitReached
    /\ IF blank /\ "content" \notin seg /\ ~aborted
       THEN Ask("plain", FALSE) /\ seg' = {} /\ UNCHANGED voices
       ELSE Emit
    /\ UNCHANGED <<engine, budget, left, known, aborted, history>>

\* Mutant: the calls of one answer are not cut to the budget.
WithinBudgetAll(n) == n

\* callsWithinToolBudget
WithinBudget(n) == IF n <= MaxTools - total THEN n ELSE MaxTools - total

\* n calls, reported by the engine or found in the text of the answer (the
\* only way for LiteRT's): one message for all, a new segment of the stream,
\* and the first call begins
CalledTools(n) ==
    LET made == WithinBudget(n) IN
    /\ pc = "completing" /\ stage = "loop" /\ ~Halted(FALSE) /\ ~limitReached
    /\ prompt' = Append(prompt, [role |-> "call", of |-> {total + i : i \in Upto(made)}])
    /\ pc' = "tool" /\ left' = made /\ calls' = calls + 1 /\ voices' = 0
    /\ UNCHANGED <<engine, outcome, budget, summarized, gathered, seg, call, aborted,
                   stopped, cleared, untold>>

\* LiteRT spent the budget: its calls join the prompt of the last answer
NativeLimit ==
    LET made(i) == IF i % 2 = 1 THEN [role |-> "call", of |-> {(i + 1) \div 2}]
                                ELSE Result(i \div 2)
    IN  /\ pc = "completing" /\ stage = "loop" /\ limitReached /\ ~Halted(FALSE)
        /\ prompt' = prompt \o [i \in Upto(2 * nativeCalls) |-> made(i)]
        /\ LimitAnswer
        /\ UNCHANGED <<engine, budget, left, summarized, gathered, aborted, history>>

\* the answer of an attempt that may not call tools
LastAnswered ==
    /\ pc \in {"completing", "cut"} /\ stage # "loop"
    /\ stage # "plain" => ~Halted(FALSE)
    /\ Emit
    /\ UNCHANGED <<engine, budget, left, known, aborted, history>>
\* the server's arguments for a call are no JSON: the callback that should settle the
\* remote completion throws into the event of the stream that called it, and the
\* provider, which has completed, calls no other
Unreadable ==
    /\ pc = "completing" /\ engine = "remote" /\ pc' = "unread"
    /\ UNCHANGED <<engine, outcome, budget, left, known, reply, call, aborted, history>>

\* the rest of the stream says nothing more: nobody will settle the completion
StreamEnds ==
    /\ pc = "unread" /\ pc' = "lost"
    /\ UNCHANGED <<engine, outcome, budget, left, known, reply, call, aborted, history>>
-----------------------------------------------------------------------------
(* A completion fails.                                                     *)

Errors == {"transient", "context", "grammar", "parse", "signature", "fatal"}

\* the error reaches runToolLoop, which knows two remedies in a round
Thrown(kind) ==
    IF stage = "loop" /\ kind = "context" /\ compactions < MaxTools
    THEN pc' = "compacting" /\ UNCHANGED <<outcome, reply, call>>
    ELSE IF stage = "loop" /\ kind = "signature" /\ gathered
    THEN Ask("recover", FALSE) /\ seg' = {} /\ voices' = 0
    ELSE Return("failed") /\ UNCHANGED reply

LastAttempt == attempt >= MaxAttempts - 1

\* Mutant: a request that has streamed is sent again, too.
MayAskAgainAlways(kind) == kind = "grammar" /\ withTools

\* a remote server that refuses the schemas is asked again if it said nothing
MayAskAgain(kind) == kind = "grammar" /\ withTools /\ streamed = {}

FailsLocal(kind) ==
    /\ engine = "llama" /\ kind \in {"transient", "context", "fatal"}
    /\ IF kind = "transient" /\ ~LastAttempt
       THEN pc' = "backoff" /\ UNCHANGED <<outcome, reply, call>>
       ELSE Thrown(kind)

FailsRemote(kind) ==
    /\ engine = "remote" /\ kind \in {"context", "grammar", "signature", "fatal"}
    /\ IF MayAskAgain(kind)
       THEN /\ withTools' = FALSE /\ streamed' = {}
            /\ UNCHANGED <<pc, outcome, reply, stage, attempt, nativeCalls, limitReached>>
       ELSE Thrown(kind)

\* LiteRT could not parse the model's call: once more without tools. The
\* handler stays with the first attempt.
FailsLiteRT(kind) ==
    /\ engine = "litert" /\ kind \in {"context", "parse", "fatal"} /\ ~limitReached
    /\ IF kind = "parse" /\ attempt = 0
       THEN /\ pc' = "preparing" /\ withTools' = FALSE /\ attempt' = 1 /\ streamed' = {}
            /\ UNCHANGED <<outcome, reply, stage, nativeCalls, limitReached>>
       ELSE Thrown(kind)

Fails(kind) ==
    /\ pc = "completing"
    /\ FailsLocal(kind) \/ FailsRemote(kind) \/ FailsLiteRT(kind)
    /\ UNCHANGED <<engine, budget, left, known, aborted, history>>

\* Mutant: the attempts of a local completion are not counted.
RetryUncounted ==
    /\ pc = "backoff" /\ pc' = "completing" /\ streamed' = {}
    /\ UNCHANGED <<engine, outcome, budget, left, known, reply, stage, withTools, attempt,
                   nativeCalls, limitReached, aborted, history>>

\* stopGeneration and the pause are over; the abort flag is not looked at
Retry ==
    /\ pc = "backoff" /\ pc' = "completing"
    /\ attempt' = attempt + 1 /\ streamed' = {}
    /\ UNCHANGED <<engine, outcome, budget, left, known, reply, stage, withTools,
                   nativeCalls, limitReached, aborted, history>>

\* the rest of the stream is an error, or breaks off: that is reported
UnreadFails(kind) ==
    /\ pc = "unread" /\ kind \in {"context", "signature", "fatal"}
    /\ Thrown(kind)
    /\ UNCHANGED <<engine, budget, left, known, aborted, history>>

\* compact() keeps the messages from some one on. Its summary, if one can be
\* made, is of those it leaves out and of the summary the chat had at the
\* start of the turn. LiteRT cannot be asked for one.
Compacted(k, told) ==
    /\ pc = "compacting"
    /\ engine = "litert" => ~told
    /\ prompt' = SubSeq(prompt, k + 1, Len(prompt))
    /\ summarized' = IF told THEN {prompt[i] : i \in Upto(k)} ELSE {}
    /\ untold' = (untold \/ ~told)
    /\ compactions' = compactions + 1
    /\ Round(iteration, total, 0)
    /\ UNCHANGED <<engine, total, left, gathered, aborted, stopped, cleared, calls>>

\* nothing to leave out, or no prompt got shorter: the error is thrown
CompactedInVain ==
    /\ pc = "compacting" /\ Return("failed")
    /\ UNCHANGED <<engine, budget, left, known, reply, aborted, history>>
-----------------------------------------------------------------------------
(* The calls of a round, one after the other: executeToolCalls.            *)

\* Mutant: a call that throws leaves no result.
ResultOnlyIfOk(ok, i) == IF ok THEN Append(prompt, Result(i)) ELSE prompt

WithResult(ok, i) == Append(prompt, Result(i))

\* after the last call, or at a stop: the loop ends, or goes to the next round
Executed ==
    IF aborted THEN Return("interrupted") /\ UNCHANGED <<iteration, reply>>
    ELSE IF total' >= MaxTools THEN LimitAnswer /\ UNCHANGED iteration
    ELSE IF engine = "remote" THEN Round(iteration + 1, total', voices)
    ELSE pc' = "settling" /\ UNCHANGED <<outcome, call, iteration, reply>>

ToolDone(ok) ==
    /\ pc = "tool"
    /\ prompt' = WithResult(ok, total + 1) /\ gathered' = (gathered \/ ok)
    /\ total' = total + 1
    /\ IF left > 1 /\ ~aborted
       THEN /\ left' = left - 1 /\ calls' = calls + 1
            /\ UNCHANGED <<pc, outcome, iteration, reply, call>>
       ELSE left' = 0 /\ UNCHANGED calls /\ Executed
    /\ UNCHANGED <<engine, compactions, summarized, aborted, stopped, cleared, untold>>

\* the pause for a local context is over
Settled ==
    /\ pc = "settling" /\ Round(iteration + 1, total, voices)
    /\ UNCHANGED <<engine, total, compactions, left, known, aborted, history>>
-----------------------------------------------------------------------------
(* The user stops the turn; a later turn clears the flag they share.       *)

\* stopGeneration: what is shown becomes a message, the streaming slot is
\* empty. The request of a remote completion is cut off. LiteRT's listeners are
\* removed, so that a native end is not heard.
Stop ==
    /\ outcome = "running" /\ ~stopped
    /\ aborted' = TRUE /\ stopped' = TRUE /\ voices' = 0
    /\ pc' = CASE pc = "completing" /\ engine = "litert" -> "lost"
               [] pc \in {"completing", "unread"} /\ engine = "remote" -> "cut"
               [] OTHER -> pc
    /\ UNCHANGED <<engine, outcome, budget, left, known, seg, call, cleared, calls, untold>>

\* prepareGeneration of the next turn
ClearFlag ==
    /\ aborted /\ aborted' = FALSE /\ cleared' = TRUE
    /\ UNCHANGED <<engine, pc, outcome, budget, left, known, reply, call, stopped, calls,
                   untold>>

\* LiteRT's native call may reject: sendMessage does hear that
LostRejects ==
    /\ pc = "lost" /\ engine = "litert"
    /\ IF limitReached THEN LimitAnswer
       ELSE Return("failed") /\ UNCHANGED reply
    /\ UNCHANGED <<engine, budget, left, known, aborted, history>>

Done == outcome # "running" /\ UNCHANGED vars

Stays == pc = "lost" /\ UNCHANGED vars

Completion ==
    \/ \E i \in BOOLEAN : Interrupted(i)
    \/ \E blank \in BOOLEAN : Answered(blank)
    \/ \E n \in Upto(MaxBatch) : CalledTools(n)
    \/ NativeLimit
    \/ LastAnswered
    \/ Unreadable \/ StreamEnds
    \/ \E kind \in Errors : Fails(kind) \/ UnreadFails(kind)

Compaction ==
    \/ \E k \in Upto(Len(prompt) - 1), told \in BOOLEAN : Compacted(k, told)
    \/ CompactedInVain

Step ==
    \/ Routed \/ Prepared \/ Retry \/ Settled \/ NativeTool \/ NativeToolDone
    \/ \E kind \in Texts : Token(kind)
    \/ \E ok \in BOOLEAN : ToolDone(ok)
    \/ Completion \/ Compaction

Next == Step \/ Stop \/ ClearFlag \/ LostRejects \/ Done \/ Stays

Spec == Init /\ [][Next]_vars

\* every await of the turn settles: tools, native and remote calls end, timers
\* fire; a listener that is gone is not waited for
FairSpec == Spec /\ WF_vars(Step)
-----------------------------------------------------------------------------
(* Properties.                                                             *)

\* The model is never asked to go on from a call whose result is missing: an
\* error, a stop, a cut of the batch or a compaction leaves none behind in the
\* prompt of a completion.
EveryCallAnswered ==
    pc = "completing" =>
        \A m \in Items(prompt) : m.role = "call" =>
            \A i \in m.of : Result(i) \in Items(prompt)

\* Tools run at most MaxTools times in a turn. LiteRT's handler counts beside
\* the loop, and from zero in each round and each repetition of a round.
CallsWithinLimit ==
    calls <= MaxTools * (IF engine = "litert" THEN iteration + compactions + 2 ELSE 1)

\* A turn that reports an answer shows one, and a remote turn, which is not
\* asked again once it has streamed, shows the text of one completion only.
\* The rounds never run out without an answer.
OneAnswer ==
    /\ outcome # "silent"
    /\ outcome = "answered" /\ ~stopped =>
           /\ voices >= 1
           /\ engine = "remote" => voices = 1

\* A stopped turn whose flag still stands starts no completion, but for the
\* retry after a pause and the one LiteRT was preparing, which do not look, nor
\* does the second attempt of the latter.
Asks == /\ pc' \in {"preparing", "completing"}
        /\ <<pc, stage, withTools>>' # <<pc, stage, withTools>>
StopStartsNothing ==
    [][aborted /\ Asks => pc \in {"backoff", "preparing"}
                           \/ (engine = "litert" /\ attempt' = 1)]_vars

\* Every turn ends, whatever fails and however often, unless a completion is lost for
\* good: a stop took LiteRT's listeners away, or a remote call could not be read.
TurnEnds == <>[](outcome # "running" \/ pc = "lost")

\* Said by the comment on the limit: "One limit means the two engines cannot
\* stop at different counts". Expected to be violated: see CallsWithinLimit.
OneLimit == calls <= MaxTools

\* Said by the header of contextCompaction.ts: compaction "keeps only the
\* summary plus recent messages", so nothing is in neither unless no summary
\* could be made. Expected to be violated: the second compaction of a turn
\* reads the summary of the turn's start and drops the first one's.
NothingForgotten ==
    untold \/ \A i \in Upto(History) :
        [role |-> "earlier", of |-> {i}] \in Items(prompt) \cup summarized
=============================================================================
