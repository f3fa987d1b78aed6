--------------------------- MODULE ToolLoopProofs ---------------------------
(***************************************************************************)
(* The tool loop, for every limit, size of a batch and number of attempts: *)
(* the variables stay in their ranges, the tools run as often as the limit *)
(* allows, no completion is asked to go on from a call whose result is     *)
(* missing, an answer is shown, and a stopped turn starts nothing.         *)
(***************************************************************************)
EXTENDS ToolLoop, SequenceTheorems, TLAPS

\* What the loop has checked when it reaches an await: a round is left, the
\* calls of the batch fit what is left of the budget, an attempt is left, and
\* a compaction is.
Budgets ==
    /\ pc # "done" => iteration < MaxTools
    /\ pc = "routing" => iteration = 0 /\ compactions = 0 /\ total = 0 /\ calls = 0
    /\ pc \notin {"tool", "done"} /\ stage = "loop" => total < MaxTools
    /\ pc = "tool" => left >= 1 /\ total + left <= MaxTools
    /\ pc = "backoff" => attempt < MaxAttempts - 1
    /\ pc = "compacting" => compactions < MaxTools /\ stage = "loop"

\* The parts of the type invariant.
CallOK ==
    /\ pc \in {"routing", "preparing", "completing", "backoff", "tool", "native",
               "compacting", "settling", "cut", "unread", "lost", "done"}
    /\ outcome \in {"running", "answered", "interrupted", "failed", "silent"}
    /\ stage \in {"loop", "plain", "limit", "recover"}
    /\ attempt \in (0 .. MaxAttempts - 1) \cup {1}
    /\ withTools \in BOOLEAN /\ limitReached \in BOOLEAN
    /\ streamed \subseteq Texts /\ nativeCalls \in 0 .. MaxTools

ReplyOK == seg \subseteq Texts /\ voices \in 0 .. 2

RestOK ==
    /\ engine \in Engines
    /\ iteration \in 0 .. MaxTools /\ total \in 0 .. MaxTools
    /\ compactions \in 0 .. MaxTools /\ left \in 0 .. MaxBatch /\ calls \in Nat
    /\ aborted \in BOOLEAN /\ stopped \in BOOLEAN /\ cleared \in BOOLEAN /\ untold \in BOOLEAN

PromptOK == prompt \in Seq(Message) /\ summarized \subseteq Message /\ gathered \in BOOLEAN

LEMMA TypeParts == TypeOK <=> CallOK /\ ReplyOK /\ RestOK /\ PromptOK
BY DEF TypeOK, CallOK, ReplyOK, RestOK, PromptOK

LEMMA TypePartsNext == TypeOK' <=> CallOK' /\ ReplyOK' /\ RestOK' /\ PromptOK'
BY DEF TypeOK, CallOK, ReplyOK, RestOK, PromptOK

-----------------------------------------------------------------------------
(* What the handlers share.                                                *)

\* A completion is asked for, at a stage.
LEMMA AskTypes ==
    ASSUME CallOK, NEW s \in {"loop", "plain", "limit", "recover"}, NEW tools \in BOOLEAN,
           Ask(s, tools)
    PROVE  /\ CallOK' /\ nativeCalls' = 0 /\ withTools' = tools /\ stage' = s
           /\ pc' \in {"preparing", "completing"}
<1>1. /\ pc' \in {"preparing", "completing"} /\ stage' = s /\ attempt' = 0
      /\ streamed' = {} /\ nativeCalls' = 0 /\ outcome' = outcome
  BY DEF Ask
<1>2. withTools' = tools /\ limitReached' = FALSE
  BY DEF Ask
<1>3. attempt' \in (0 .. MaxAttempts - 1) \cup {1} /\ nativeCalls' \in 0 .. MaxTools
  BY <1>1, LoopAssumption
<1>4. withTools' \in BOOLEAN /\ limitReached' \in BOOLEAN
  BY <1>2
<1> QED BY <1>1, <1>2, <1>3, <1>4 DEF CallOK

LEMMA ReturnTypes ==
    ASSUME CallOK, NEW how \in {"answered", "interrupted", "failed", "silent"}, Return(how)
    PROVE  CallOK' /\ pc' = "done" /\ UNCHANGED call
BY DEF CallOK, Return, call

\* After the budget is spent the turn is over, or one completion without tools follows.
LEMMA LimitTypes ==
    ASSUME CallOK, ReplyOK, LimitAnswer
    PROVE  /\ CallOK' /\ ReplyOK'
           /\ \/ pc' = "done" /\ UNCHANGED call
              \/ /\ pc' \in {"preparing", "completing"} /\ stage' = "limit"
                 /\ ~ withTools' /\ nativeCalls' = 0
<1>1. CASE aborted
  <2>1. Return("interrupted") /\ UNCHANGED reply  BY <1>1 DEF LimitAnswer
  <2> QED BY <2>1, ReturnTypes DEF ReplyOK, reply
<1>2. CASE ~ aborted
  <2>1. Ask("limit", FALSE) /\ seg' = {} /\ (voices' = 0 \/ voices' = voices)
    BY <1>2 DEF LimitAnswer
  <2>2. CallOK' /\ nativeCalls' = 0 /\ withTools' = FALSE /\ stage' = "limit"
        /\ pc' \in {"preparing", "completing"}
    BY <2>1, AskTypes
  <2>3. ReplyOK'  BY <2>1 DEF ReplyOK
  <2> QED BY <2>2, <2>3
<1> QED BY <1>1, <1>2

\* The head of the loop lets a round begin only within both budgets.
LEMMA RoundTypes ==
    ASSUME CallOK, ReplyOK, NEW i \in 0 .. MaxTools, NEW n \in 0 .. MaxTools,
           NEW shown \in 0 .. 2, Round(i, n, shown)
    PROVE  /\ CallOK' /\ ReplyOK' /\ iteration' = i
           /\ \/ pc' = "done" /\ UNCHANGED call
              \/ /\ pc' \in {"preparing", "completing"} /\ i < MaxTools /\ nativeCalls' = 0
                 /\ \/ stage' = "limit" /\ ~ withTools'
                    \/ stage' = "loop" /\ n < MaxTools
<1>1. iteration' = i  BY DEF Round
<1>2. CASE LoopOver(i)
  <2>1. /\ Return(IF aborted THEN "interrupted" ELSE "silent")
        /\ UNCHANGED seg /\ voices' = shown
    BY <1>2 DEF Round
  <2> QED BY <1>1, <2>1, ReturnTypes DEF ReplyOK
<1>3. CASE ~ LoopOver(i) /\ n >= MaxTools
  <2>1. LimitAnswer  BY <1>3 DEF Round
  <2>2. i < MaxTools  BY <1>3, LoopAssumption DEF LoopOver
  <2> QED BY <1>1, <2>1, <2>2, LimitTypes
<1>4. CASE ~ LoopOver(i) /\ ~ n >= MaxTools
  <2>1. Ask("loop", TRUE) /\ seg' = {} /\ voices' = shown  BY <1>4 DEF Round
  <2>2. i < MaxTools /\ n < MaxTools  BY <1>4, LoopAssumption DEF LoopOver
  <2>3. CallOK' /\ nativeCalls' = 0 /\ stage' = "loop" /\ pc' \in {"preparing", "completing"}
    BY <2>1, AskTypes
  <2>4. ReplyOK'  BY <2>1 DEF ReplyOK
  <2> QED BY <1>1, <2>2, <2>3, <2>4
<1> QED BY <1>2, <1>3, <1>4

LEMMA EmitTypes ==
    ASSUME CallOK, ReplyOK, Emit
    PROVE  CallOK' /\ ReplyOK' /\ pc' = "done" /\ UNCHANGED call
<1>1. Return("answered") /\ UNCHANGED seg
      /\ (voices' = voices \/ voices' = Max2(voices + 1))
  BY DEF Emit
<1>2. Max2(voices + 1) \in 0 .. 2  BY DEF Max2, ReplyOK
<1> QED BY <1>1, <1>2, ReturnTypes DEF ReplyOK

\* A failed completion ends the turn, or is compacted, or asked again.
LEMMA ThrownTypes ==
    ASSUME CallOK, ReplyOK, NEW kind, Thrown(kind)
    PROVE  /\ CallOK' /\ ReplyOK'
           /\ \/ pc' = "done" /\ UNCHANGED call
              \/ pc' = "compacting" /\ UNCHANGED call /\ stage = "loop" /\ compactions < MaxTools
              \/ /\ pc' \in {"preparing", "completing"} /\ stage' = "recover"
                 /\ ~ withTools' /\ nativeCalls' = 0
<1>1. CASE stage = "loop" /\ kind = "context" /\ compactions < MaxTools
  BY <1>1 DEF Thrown, CallOK, ReplyOK, reply, call
<1>2. CASE Ask("recover", FALSE) /\ seg' = {} /\ voices' = 0
  <2>1. CallOK' /\ nativeCalls' = 0 /\ withTools' = FALSE /\ stage' = "recover"
        /\ pc' \in {"preparing", "completing"}
    BY <1>2, AskTypes
  <2>2. ReplyOK'  BY <1>2 DEF ReplyOK
  <2> QED BY <2>1, <2>2
<1>3. CASE Return("failed") /\ UNCHANGED reply
  BY <1>3, ReturnTypes DEF ReplyOK, reply
<1> QED BY <1>1, <1>2, <1>3 DEF Thrown

-----------------------------------------------------------------------------
(* The prompt.                                                             *)

LEMMA MessageTypes ==
    /\ \A i \in Nat : Result(i) \in Message
    /\ \A c \in SUBSET Nat : [role |-> "call", of |-> c] \in Message
BY DEF Message, Result

\* The calls LiteRT made, each followed by its result.
LiteRTMade(n) == [i \in Upto(2 * n) |->
    IF i % 2 = 1 THEN [role |-> "call", of |-> {(i + 1) \div 2}] ELSE Result(i \div 2)]

LEMMA LiteRTMadeTypes ==
    ASSUME NEW n \in Nat
    PROVE  /\ LiteRTMade(n) \in Seq(Message) /\ Len(LiteRTMade(n)) = 2 * n
           /\ \A i \in 1 .. 2 * n : LiteRTMade(n)[i] =
                  IF i % 2 = 1 THEN [role |-> "call", of |-> {(i + 1) \div 2}] ELSE Result(i \div 2)
<1>1. \A i \in 1 .. 2 * n : (i + 1) \div 2 \in Nat /\ i \div 2 \in Nat
  OBVIOUS
<1>2. \A i \in 1 .. 2 * n :
        (IF i % 2 = 1 THEN [role |-> "call", of |-> {(i + 1) \div 2}] ELSE Result(i \div 2))
            \in Message
  BY <1>1, MessageTypes
<1>3. 2 * n \in Nat  OBVIOUS
<1>4. LiteRTMade(n) \in [1 .. 2 * n -> Message]
  BY <1>2 DEF LiteRTMade, Upto
<1>5. LiteRTMade(n) \in Seq(Message) /\ Len(LiteRTMade(n)) = 2 * n
  BY <1>3, <1>4, SeqDef, LenProperties
<1> QED BY <1>5 DEF LiteRTMade, Upto

LEMMA PromptTypes ==
    ASSUME TypeOK, Next
    PROVE  PromptOK'
<1> USE DEF PromptOK
<1>0. PromptOK /\ total \in Nat /\ nativeCalls \in Nat
  BY LoopAssumption, TypeParts DEF CallOK, RestOK
<1>1. ASSUME NEW n \in Upto(MaxBatch), CalledTools(n)
      PROVE  PromptOK'
  <2> DEFINE c == {total + i : i \in Upto(WithinBudget(n))}
  <2>1. prompt' = Append(prompt, [role |-> "call", of |-> c]) /\ UNCHANGED <<summarized, gathered>>
    BY <1>1 DEF CalledTools
  <2>2. WithinBudget(n) \in Int
    BY <1>0, LoopAssumption DEF Upto, WithinBudget
  <2>3. c \in SUBSET Nat
    BY <1>0, <2>2 DEF Upto
  <2> HIDE DEF c
  <2> QED BY <1>0, <2>1, <2>3, MessageTypes
<1>2. ASSUME NativeLimit
      PROVE  PromptOK'
  <2>1. prompt' = prompt \o LiteRTMade(nativeCalls) /\ UNCHANGED <<summarized, gathered>>
    BY <1>2 DEF NativeLimit, LiteRTMade
  <2>2. LiteRTMade(nativeCalls) \in Seq(Message)  BY <1>0, LiteRTMadeTypes
  <2> QED BY <1>0, <2>1, <2>2
<1>3. ASSUME NEW k \in Upto(Len(prompt) - 1), NEW told \in BOOLEAN, Compacted(k, told)
      PROVE  PromptOK'
  <2>1. /\ prompt' = SubSeq(prompt, k + 1, Len(prompt)) /\ gathered' = gathered
        /\ summarized' = IF told THEN {prompt[i] : i \in Upto(k)} ELSE {}
    BY <1>3 DEF Compacted
  <2>2. k \in Nat /\ Len(prompt) \in Nat /\ 1 <= k /\ k <= Len(prompt) - 1
    BY <1>0, <1>3 DEF Upto
  <2>3. SubSeq(prompt, k + 1, Len(prompt)) \in Seq(Message)
    BY <1>0, <2>2
  <2>4. {prompt[i] : i \in Upto(k)} \subseteq Message
    BY <1>0, <2>2 DEF Upto
  <2> QED BY <1>0, <2>1, <2>3, <2>4
<1>4. ASSUME NEW ok \in BOOLEAN, ToolDone(ok)
      PROVE  PromptOK'
  <2>1. /\ prompt' = Append(prompt, Result(total + 1)) /\ summarized' = summarized
        /\ gathered' = (gathered \/ ok)
    BY <1>4 DEF ToolDone, WithResult
  <2>2. Result(total + 1) \in Message  BY <1>0, MessageTypes
  <2>3. prompt' \in Seq(Message)  BY <1>0, <2>1, <2>2
  <2>4. gathered' \in BOOLEAN  BY <2>1
  <2> QED BY <1>0, <2>1, <2>3, <2>4
<1>5. CASE UNCHANGED known
  BY <1>0, <1>5 DEF known
<1>6. \/ UNCHANGED known \/ NativeLimit
      \/ \E n \in Upto(MaxBatch) : CalledTools(n)
      \/ \E k \in Upto(Len(prompt) - 1), told \in BOOLEAN : Compacted(k, told)
      \/ \E ok \in BOOLEAN : ToolDone(ok)
  BY DEF Next, Step, Completion, Compaction, Routed, Prepared, Retry, Settled, NativeTool,
         NativeToolDone, Token, Interrupted, Answered, LastAnswered, Unreadable, StreamEnds,
         Fails, UnreadFails, CompactedInVain,
         Stop, ClearFlag, LostRejects, Done, Stays, vars
<1> QED BY <1>1, <1>2, <1>3, <1>4, <1>5, <1>6

-----------------------------------------------------------------------------
(* Types and budgets.                                                      *)

LEMMA InitTypes == Init => TypeOK /\ Budgets
<1> SUFFICES ASSUME Init PROVE TypeOK /\ Budgets
  OBVIOUS
<1>1. CallOK /\ ReplyOK /\ RestOK
  <2>a. /\ withTools \in BOOLEAN /\ limitReached \in BOOLEAN /\ aborted \in BOOLEAN
        /\ stopped \in BOOLEAN /\ cleared \in BOOLEAN /\ untold \in BOOLEAN
    BY DEF Init
  <2>b. /\ 0 \in 0 .. MaxTools /\ 0 \in 0 .. MaxBatch /\ 0 \in Nat
        /\ 0 \in (0 .. MaxAttempts - 1) \cup {1}
    BY LoopAssumption
  <2>1. CallOK  BY <2>a, <2>b DEF Init, CallOK
  <2>2. ReplyOK  BY DEF Init, ReplyOK
  <2>3. RestOK  BY <2>a, <2>b DEF Init, RestOK
  <2> QED BY <2>1, <2>2, <2>3
<1>2. Budgets
  BY LoopAssumption DEF Init, Budgets
<1>3. PromptOK
  <2> DEFINE old == [i \in Upto(History) |-> [role |-> "earlier", of |-> {i}]]
  <2>1. old \in Seq(Message)
    <3>1. \A i \in 1 .. History : [role |-> "earlier", of |-> {i}] \in Message
      BY LoopAssumption DEF Message
    <3>2. old \in [1 .. History -> Message]  BY <3>1 DEF Upto
    <3> HIDE DEF old
    <3> QED BY <3>2, LoopAssumption, SeqDef
  <2>2. <<[role |-> "user", of |-> {}]>> \in Seq(Message)
    <3>1. [role |-> "user", of |-> {}] \in Message  BY DEF Message
    <3> QED BY <3>1
  <2>3. prompt = old \o <<[role |-> "user", of |-> {}]>>
        /\ summarized = {} /\ gathered = FALSE
    BY DEF Init
  <2> HIDE DEF old
  <2>4. prompt \in Seq(Message)  BY <2>1, <2>2, <2>3
  <2>5. summarized \subseteq Message /\ gathered \in BOOLEAN  BY <2>3
  <2> QED BY <2>4, <2>5 DEF PromptOK
<1> QED BY <1>1, <1>2, <1>3, TypeParts

LEMMA TypesInductive == TypeOK /\ Budgets /\ [Next]_vars => TypeOK' /\ Budgets'
<1> SUFFICES ASSUME TypeOK, Budgets, [Next]_vars
             PROVE  TypeOK' /\ Budgets'
  OBVIOUS
<1>0. /\ CallOK /\ ReplyOK /\ RestOK /\ PromptOK
      /\ MaxTools \in Nat \ {0} /\ MaxBatch \in Nat \ {0} /\ MaxAttempts \in Nat \ {0}
  BY TypeParts, LoopAssumption
<1>1. CASE UNCHANGED vars
  <2>1. CallOK' /\ ReplyOK' /\ RestOK' /\ PromptOK' /\ Budgets'
    BY <1>0, <1>1 DEF vars, budget, reply, known, call, history, CallOK, ReplyOK, RestOK,
         PromptOK, Budgets
  <2> QED BY <2>1, TypePartsNext
<1>2. ASSUME Next
      PROVE  CallOK' /\ ReplyOK' /\ RestOK' /\ Budgets'
  <2>1. CASE Routed
    <3>1. /\ iteration = 0 /\ total = 0 /\ compactions = 0 /\ Round(0, 0, voices)
          /\ UNCHANGED <<engine, total, compactions, left, aborted, stopped, cleared, untold, calls>>
      BY <2>1 DEF Routed, Budgets, history
    <3>2. 0 \in 0 .. MaxTools /\ voices \in 0 .. 2  BY <1>0 DEF ReplyOK
    <3> QED BY <1>0, <3>1, <3>2, RoundTypes DEF RestOK, Budgets, call
  <2>2. CASE Prepared
    BY <1>0, <2>2 DEF Prepared, CallOK, ReplyOK, RestOK, Budgets, budget, call, reply, history
  <2>3. CASE Retry
    BY <1>0, <2>3 DEF Retry, CallOK, ReplyOK, RestOK, Budgets, budget, reply, history
  <2>4. CASE Settled
    <3>1. /\ iteration + 1 \in 0 .. MaxTools /\ total \in 0 .. MaxTools /\ voices \in 0 .. 2
          /\ Round(iteration + 1, total, voices)
      BY <1>0, <2>4 DEF Settled, Budgets, RestOK, ReplyOK
    <3>2. UNCHANGED <<engine, total, compactions, left, aborted, stopped, cleared, untold, calls>>
      BY <2>4 DEF Settled, history
    <3> QED BY <1>0, <3>1, <3>2, RoundTypes DEF RestOK, Budgets
  <2>5. CASE NativeTool
    <3>1. /\ pc = "completing"
          /\ UNCHANGED <<engine, outcome, budget, left, reply, stage, withTools, attempt, streamed,
                         aborted, stopped, cleared, untold>>
      BY <2>5 DEF NativeTool
    <3>2. CASE limitReached' = TRUE /\ UNCHANGED <<pc, nativeCalls, calls>>
      BY <1>0, <3>1, <3>2 DEF CallOK, ReplyOK, RestOK, Budgets, budget, reply
    <3>3. CASE /\ pc' = "native" /\ nativeCalls' = nativeCalls + 1 /\ calls' = calls + 1
               /\ UNCHANGED limitReached /\ ~ nativeCalls >= MaxTools
      BY <1>0, <3>1, <3>3 DEF CallOK, ReplyOK, RestOK, Budgets, budget, reply
    <3> QED BY <2>5, <3>2, <3>3 DEF NativeTool, NativeBudget
  <2>6. CASE NativeToolDone
    BY <1>0, <2>6 DEF NativeToolDone, CallOK, ReplyOK, RestOK, Budgets, budget, reply, history
  <2>7. ASSUME NEW kind \in Texts, Token(kind)
        PROVE  CallOK' /\ ReplyOK' /\ RestOK' /\ Budgets'
    <3>1. Max2(voices + 1) \in 0 .. 2  BY <1>0 DEF Max2, ReplyOK
    <3> QED BY <1>0, <2>7, <3>1 DEF Token, CallOK, ReplyOK, RestOK, Budgets, budget, history
  <2>8. ASSUME NEW ok \in BOOLEAN, ToolDone(ok)
        PROVE  CallOK' /\ ReplyOK' /\ RestOK' /\ Budgets'
    <3>1. /\ pc = "tool" /\ left >= 1 /\ total + left <= MaxTools /\ total' = total + 1
          /\ UNCHANGED <<engine, compactions, aborted, stopped, cleared, untold>>
      BY <2>8 DEF ToolDone, Budgets
    <3>2. total' \in 0 .. MaxTools /\ iteration < MaxTools
      BY <1>0, <3>1 DEF RestOK, Budgets
    <3>3. CASE left > 1 /\ ~ aborted
      <4>1. left' = left - 1 /\ calls' = calls + 1 /\ UNCHANGED <<pc, outcome, iteration, reply, call>>
        BY <2>8, <3>3 DEF ToolDone
      <4> QED BY <1>0, <3>1, <3>2, <3>3, <4>1 DEF CallOK, ReplyOK, RestOK, Budgets, call, reply
    <3>4. CASE ~ (left > 1 /\ ~ aborted)
      <4>1. left' = 0 /\ calls' = calls /\ Executed
        BY <2>8, <3>4 DEF ToolDone
      <4>2. CASE aborted
        <5>1. Return("interrupted") /\ UNCHANGED <<iteration, reply>>
          BY <4>1, <4>2 DEF Executed
        <5> QED BY <1>0, <3>1, <3>2, <4>1, <5>1, ReturnTypes DEF ReplyOK, RestOK, Budgets, reply
      <4>3. CASE ~ aborted /\ total' >= MaxTools
        <5>1. LimitAnswer /\ iteration' = iteration
          BY <4>1, <4>3 DEF Executed
        <5> QED BY <1>0, <3>1, <3>2, <4>1, <5>1, LimitTypes DEF RestOK, Budgets
      <4>4. CASE ~ aborted /\ ~ total' >= MaxTools /\ engine = "remote"
        <5>1. Round(iteration + 1, total', voices)
          BY <4>1, <4>4 DEF Executed
        <5>2. iteration + 1 \in 0 .. MaxTools /\ voices \in 0 .. 2
          BY <1>0, <3>2 DEF RestOK, ReplyOK
        <5>3. PICK n \in 0 .. MaxTools : n = total'  BY <3>2
        <5>4. Round(iteration + 1, n, voices)  BY <5>1, <5>3
        <5> QED BY <1>0, <3>1, <3>2, <4>1, <5>2, <5>3, <5>4, RoundTypes DEF RestOK, Budgets
      <4>5. CASE ~ aborted /\ ~ total' >= MaxTools /\ engine # "remote"
        <5>1. pc' = "settling" /\ UNCHANGED <<outcome, call, iteration, reply>>
          BY <4>1, <4>5 DEF Executed
        <5> QED BY <1>0, <3>1, <3>2, <4>1, <4>5, <5>1
                DEF CallOK, ReplyOK, RestOK, Budgets, call, reply
      <4> QED BY <4>2, <4>3, <4>4, <4>5
    <3> QED BY <3>3, <3>4
  <2>9. ASSUME NEW i \in BOOLEAN, Interrupted(i)
        PROVE  CallOK' /\ ReplyOK' /\ RestOK' /\ Budgets'
    <3>1. Return("interrupted") /\ UNCHANGED <<engine, budget, left, known, reply, aborted, history>>
      BY <2>9 DEF Interrupted
    <3> QED BY <1>0, <3>1, ReturnTypes DEF ReplyOK, RestOK, Budgets, budget, reply, history
  <2>10. ASSUME NEW blank \in BOOLEAN, Answered(blank)
         PROVE  CallOK' /\ ReplyOK' /\ RestOK' /\ Budgets'
    <3>1. UNCHANGED <<engine, budget, left, aborted, history>> /\ pc \in {"completing", "cut"}
      BY <2>10 DEF Answered
    <3>2. CASE Ask("plain", FALSE) /\ seg' = {} /\ UNCHANGED voices
      BY <1>0, <3>1, <3>2, AskTypes DEF ReplyOK, RestOK, Budgets, budget, history
    <3>3. CASE Emit
      BY <1>0, <3>1, <3>3, EmitTypes DEF RestOK, Budgets, budget, history
    <3> QED BY <2>10, <3>2, <3>3 DEF Answered
  <2>11. ASSUME NEW n \in Upto(MaxBatch), CalledTools(n)
         PROVE  CallOK' /\ ReplyOK' /\ RestOK' /\ Budgets'
    <3>1. /\ pc = "completing" /\ stage = "loop" /\ pc' = "tool" /\ left' = WithinBudget(n)
          /\ calls' = calls + 1 /\ voices' = 0
          /\ UNCHANGED <<engine, outcome, budget, seg, call, aborted, stopped, cleared, untold>>
      BY <2>11 DEF CalledTools
    <3>2. /\ total < MaxTools /\ iteration < MaxTools /\ n \in 1 .. MaxBatch
      BY <3>1 DEF Budgets, Upto
    <3>3. left' \in 0 .. MaxBatch /\ left' >= 1 /\ total + left' <= MaxTools
      BY <1>0, <3>1, <3>2 DEF RestOK, WithinBudget
    <3> QED BY <1>0, <3>1, <3>2, <3>3 DEF CallOK, ReplyOK, RestOK, Budgets, budget, call
  <2>12. CASE NativeLimit
    <3>1. /\ LimitAnswer /\ pc = "completing"
          /\ UNCHANGED <<engine, budget, left, aborted, history>>
      BY <2>12 DEF NativeLimit
    <3> QED BY <1>0, <3>1, LimitTypes DEF RestOK, Budgets, budget, history
  <2>13. CASE LastAnswered
    <3>1. Emit /\ UNCHANGED <<engine, budget, left, aborted, history>>
      BY <2>13 DEF LastAnswered
    <3> QED BY <1>0, <3>1, EmitTypes DEF RestOK, Budgets, budget, history
  <2>14. ASSUME NEW kind \in Errors, Fails(kind)
         PROVE  CallOK' /\ ReplyOK' /\ RestOK' /\ Budgets'
    <3>1. /\ pc = "completing" /\ UNCHANGED <<engine, budget, left, known, aborted, history>>
          /\ FailsLocal(kind) \/ FailsRemote(kind) \/ FailsLiteRT(kind)
      BY <2>14 DEF Fails
    <3>2. CASE Thrown(kind)
      BY <1>0, <3>1, <3>2, ThrownTypes DEF RestOK, Budgets, budget, history, call
    <3>3. CASE pc' = "backoff" /\ ~ LastAttempt /\ UNCHANGED <<outcome, reply, call>>
      BY <1>0, <3>1, <3>3 DEF LastAttempt, CallOK, ReplyOK, RestOK, Budgets, budget, history,
           call, reply
    <3>4. CASE /\ withTools' = FALSE /\ streamed' = {}
               /\ UNCHANGED <<pc, outcome, reply, stage, attempt, nativeCalls, limitReached>>
      BY <1>0, <3>1, <3>4 DEF CallOK, ReplyOK, RestOK, Budgets, budget, history, reply
    <3>5. CASE /\ pc' = "preparing" /\ withTools' = FALSE /\ attempt' = 1 /\ streamed' = {}
               /\ UNCHANGED <<outcome, reply, stage, nativeCalls, limitReached>>
      BY <1>0, <3>1, <3>5 DEF CallOK, ReplyOK, RestOK, Budgets, budget, history, reply
    <3> QED BY <3>1, <3>2, <3>3, <3>4, <3>5 DEF FailsLocal, FailsRemote, FailsLiteRT
  <2>15. ASSUME NEW k \in Upto(Len(prompt) - 1), NEW told \in BOOLEAN, Compacted(k, told)
         PROVE  CallOK' /\ ReplyOK' /\ RestOK' /\ Budgets'
    <3>1. /\ pc = "compacting" /\ untold' = (untold \/ ~ told) /\ compactions' = compactions + 1
          /\ Round(iteration, total, 0)
          /\ UNCHANGED <<engine, total, left, aborted, stopped, cleared, calls>>
      BY <2>15 DEF Compacted
    <3>2. /\ iteration \in 0 .. MaxTools /\ total \in 0 .. MaxTools /\ 0 \in 0 .. 2
          /\ compactions < MaxTools /\ compactions \in Nat
      BY <1>0, <3>1 DEF RestOK, Budgets
    <3>3. untold' \in BOOLEAN  BY <3>1
    <3>4. compactions' \in 0 .. MaxTools  BY <1>0, <3>1, <3>2
    <3> HIDE DEF Round
    <3> QED BY <1>0, <3>1, <3>2, <3>3, <3>4, RoundTypes DEF RestOK, Budgets
  <2>16. CASE CompactedInVain
    <3>1. Return("failed") /\ UNCHANGED <<engine, budget, left, reply, aborted, history>>
      BY <2>16 DEF CompactedInVain
    <3> QED BY <1>0, <3>1, ReturnTypes DEF ReplyOK, RestOK, Budgets, budget, reply, history
  <2>17. CASE Stop
    <3>1. /\ aborted' = TRUE /\ stopped' = TRUE /\ voices' = 0
          /\ pc' = pc \/ (pc \in {"completing", "unread"} /\ pc' \in {"lost", "cut"})
          /\ UNCHANGED <<engine, outcome, budget, left, seg, call, cleared, calls, untold>>
      BY <2>17 DEF Stop
    <3> QED BY <1>0, <3>1 DEF CallOK, ReplyOK, RestOK, Budgets, budget, call
  <2>18. CASE ClearFlag
    <3>1. /\ aborted' = FALSE /\ cleared' = TRUE
          /\ UNCHANGED <<engine, pc, outcome, budget, left, reply, call, stopped, calls, untold>>
      BY <2>18 DEF ClearFlag
    <3>2. aborted' \in BOOLEAN /\ cleared' \in BOOLEAN  BY <3>1
    <3> QED BY <1>0, <3>1, <3>2 DEF CallOK, ReplyOK, RestOK, Budgets, budget, call, reply
  <2>19. CASE LostRejects
    <3>1. pc = "lost" /\ UNCHANGED <<engine, budget, left, aborted, history>>
      BY <2>19 DEF LostRejects
    <3>2. CASE LimitAnswer
      BY <1>0, <3>1, <3>2, LimitTypes DEF RestOK, Budgets, budget, history
    <3>3. CASE Return("failed") /\ UNCHANGED reply
      BY <1>0, <3>1, <3>3, ReturnTypes DEF ReplyOK, RestOK, Budgets, budget, reply, history
    <3> QED BY <2>19, <3>2, <3>3 DEF LostRejects
  <2>20. CASE Done \/ Stays
    BY <1>0, <2>20 DEF Done, Stays, vars, budget, reply, known, call, history, CallOK, ReplyOK,
         RestOK, Budgets
  <2>21. CASE Unreadable \/ StreamEnds
    <3>1. /\ pc \in {"completing", "unread"} /\ pc' \in {"unread", "lost"}
          /\ UNCHANGED <<engine, outcome, budget, left, reply, call, aborted, history>>
      BY <2>21 DEF Unreadable, StreamEnds
    <3> QED BY <1>0, <3>1 DEF CallOK, ReplyOK, RestOK, Budgets, budget, call, reply, history
  <2>22. ASSUME NEW kind \in Errors, UnreadFails(kind)
         PROVE  CallOK' /\ ReplyOK' /\ RestOK' /\ Budgets'
    <3>1. /\ pc = "unread" /\ Thrown(kind)
          /\ UNCHANGED <<engine, budget, left, known, aborted, history>>
      BY <2>22 DEF UnreadFails
    <3> QED BY <1>0, <3>1, ThrownTypes DEF RestOK, Budgets, budget, history, call
  <2> QED BY <1>2, <2>1, <2>2, <2>3, <2>4, <2>5, <2>6, <2>7, <2>8, <2>9, <2>10, <2>11, <2>12,
             <2>13, <2>14, <2>15, <2>16, <2>17, <2>18, <2>19, <2>20, <2>21, <2>22
          DEF Next, Step, Completion, Compaction
<1> QED BY <1>1, <1>2, PromptTypes, TypePartsNext

\* Whatever the engine, the limit, the batches and the number of attempts: all
\* variables of a turn stay in their ranges, and with them the rounds, the calls
\* counted by the loop and by LiteRT's handler, the compactions and the attempts.
THEOREM TypeCorrect == Spec => []TypeOK
<1>1. TypeOK /\ Budgets => TypeOK  OBVIOUS
<1> QED BY <1>1, InitTypes, TypesInductive, PTL DEF Spec

-----------------------------------------------------------------------------
(* The number of tool calls.                                               *)

\* The calls the loop has made or begun, and those LiteRT may have made: as many
\* as its handler has counted while it is there, else at most the limit, and the
\* limit for each round and each repetition of one that is over.
Looped == IF pc = "tool" THEN total + 1 ELSE total
Counted == IF withTools THEN nativeCalls ELSE MaxTools
Handled == MaxTools * (iteration + compactions) + Counted

CallsInv == IF engine = "litert" THEN calls <= Looped + Handled ELSE calls <= Looped

LEMMA NatProduct == \A a, b \in Nat : a * b \in Nat
OBVIOUS

\* A step that makes no call but the loop's, whose handler's count goes on, is closed
\* for good, or starts from zero in another round or repetition.
LEMMA CallsArithmetic ==
    ASSUME NEW k \in Nat, NEW s \in Nat, NEW r \in Nat, NEW n \in 0 .. k, NEW m \in 0 .. k,
           NEW l \in Nat, NEW j \in Nat, NEW c \in Nat, NEW d \in Nat,
           d - c <= j - l, (r = s /\ n <= m) \/ r >= s + 1
    PROVE  /\ c <= l => d <= j
           /\ c <= l + (k * s + n) => d <= j + (k * r + m)
<1>1. k * s \in Nat /\ k * r \in Nat  BY NatProduct
<1>2. k * s + n <= k * r + m
  <2>1. CASE r = s /\ n <= m
    BY <1>1, <2>1
  <2>2. CASE r >= s + 1
    <3>1. PICK e \in Nat : r = s + 1 + e  BY <2>2
    <3>2. k * r = k * s + k + k * e  BY <3>1
    <3>3. k * e \in Nat  BY NatProduct
    <3> QED BY <1>1, <3>2, <3>3
  <2> QED BY <2>1, <2>2
<1> QED BY <1>1, <1>2

LEMMA CallsStep ==
    ASSUME TypeOK, TypeOK', CallsInv, engine' = engine, calls' - calls <= Looped' - Looped,
           \/ /\ iteration' + compactions' = iteration + compactions
              /\ ~ withTools' \/ UNCHANGED <<withTools, nativeCalls>>
           \/ iteration' + compactions' >= iteration + compactions + 1
    PROVE  CallsInv'
<1>0. /\ MaxTools \in Nat /\ calls \in Nat /\ calls' \in Nat /\ total \in Nat /\ total' \in Nat
      /\ iteration \in Nat /\ iteration' \in Nat /\ compactions \in Nat /\ compactions' \in Nat
      /\ nativeCalls \in 0 .. MaxTools /\ nativeCalls' \in 0 .. MaxTools
  BY TypeParts, TypePartsNext, LoopAssumption DEF CallOK, RestOK
<1>1. Looped \in Nat /\ Counted \in 0 .. MaxTools  BY <1>0 DEF Looped, Counted
<1>2. PICK j \in Nat : j = Looped'
  <2>1. PICK t \in Nat : t = total'  BY <1>0
  <2>2. Looped' = t + 1 \/ Looped' = t  BY <2>1 DEF Looped
  <2> QED BY <2>2
<1>3. PICK m \in 0 .. MaxTools : m = Counted'
  <2>1. Counted' = nativeCalls' \/ Counted' = MaxTools  BY DEF Counted
  <2> QED BY <1>0, <2>1
<1>4. PICK d \in Nat : d = calls'  BY <1>0
<1>5. PICK r \in Nat : r = iteration' + compactions'
  <2>1. PICK a \in Nat, b \in Nat : a = iteration' /\ b = compactions'  BY <1>0
  <2>2. a + b \in Nat  OBVIOUS
  <2>3. iteration' + compactions' = a + b  BY <2>1, Zenon
  <2> QED BY <2>2, <2>3
<1>6. PICK s \in Nat : s = iteration + compactions  BY <1>0
<1>7. d - calls <= j - Looped  BY <1>2, <1>4
<1>8. (r = s /\ Counted <= m) \/ r >= s + 1
  <2>1. CASE r = s /\ ~ withTools'
    <3>1. m = MaxTools  BY <1>3, <2>1 DEF Counted
    <3> QED BY <1>0, <1>1, <2>1, <3>1
  <2>2. CASE r = s /\ UNCHANGED <<withTools, nativeCalls>>
    <3>1. m = Counted  BY <1>3, <2>2 DEF Counted
    <3> QED BY <1>0, <1>1, <2>2, <3>1
  <2> QED BY <1>5, <1>6, <2>1, <2>2
<1>9. /\ calls <= Looped => d <= j
      /\ calls <= Looped + (MaxTools * s + Counted) => d <= j + (MaxTools * r + m)
  BY <1>0, <1>1, <1>7, <1>8, CallsArithmetic
<1>10. CallsInv' = IF engine = "litert" THEN d <= j + (MaxTools * r + m) ELSE d <= j
  BY <1>2, <1>3, <1>4, <1>5 DEF CallsInv, Handled
<1> QED BY <1>6, <1>9, <1>10 DEF CallsInv, Handled

LEMMA CallsInductive ==
    ASSUME TypeOK, TypeOK', Budgets, CallsInv, [Next]_vars
    PROVE  CallsInv'
<1> USE DEF Looped
<1>0. /\ CallOK /\ ReplyOK /\ RestOK /\ CallOK' /\ RestOK'
      /\ MaxTools \in Nat \ {0}
      /\ total \in 0 .. MaxTools /\ iteration \in Nat /\ compactions \in Nat /\ calls \in Nat
      /\ voices \in 0 .. 2 /\ iteration \in 0 .. MaxTools
  BY TypeParts, TypePartsNext, LoopAssumption DEF RestOK, ReplyOK
<1>1. ASSUME pc # "tool", pc' # "tool", UNCHANGED <<engine, budget, calls>>,
             ~ withTools' \/ UNCHANGED <<withTools, nativeCalls>>
      PROVE  CallsInv'
  BY <1>0, <1>1, CallsStep DEF budget
<1>2. CASE UNCHANGED vars
  BY <1>0, <1>2, CallsStep DEF vars, budget, call, history
<1>3. CASE Routed
  <2>1. Round(0, 0, voices) /\ total = 0 /\ calls = 0 /\ UNCHANGED <<engine, total, compactions, calls>>
    BY <1>3 DEF Routed, Budgets, history
  <2>2. PICK a \in Nat, b \in Nat, m \in Nat : a = iteration' /\ b = compactions' /\ m = Counted'
    <3>1. iteration' \in 0 .. MaxTools /\ compactions' \in 0 .. MaxTools  BY <1>0 DEF RestOK
    <3>2. Counted' = nativeCalls' \/ Counted' = MaxTools  BY DEF Counted
    <3>3. nativeCalls' \in 0 .. MaxTools  BY <1>0 DEF CallOK
    <3> QED BY <1>0, <3>1, <3>2, <3>3
  <2>3. PICK j \in Nat : j = Looped'
    <3>1. Looped' = 0 + 1 \/ Looped' = 0  BY <2>1
    <3> QED BY <3>1
  <2>4. MaxTools * (a + b) \in Nat  BY <1>0, NatProduct
  <2>5. 0 <= j + (MaxTools * (a + b) + m) /\ 0 <= j  BY <2>4
  <2>6. CallsInv' = IF engine = "litert" THEN 0 <= j + (MaxTools * (a + b) + m) ELSE 0 <= j
    BY <2>1, <2>2, <2>3 DEF CallsInv, Handled
  <2> QED BY <2>5, <2>6
<1>4. CASE Prepared \/ Retry
  BY <1>1, <1>4 DEF Prepared, Retry, call, history
<1>5. CASE Settled
  <2>1. Round(iteration + 1, total, voices) /\ pc = "settling"
        /\ UNCHANGED <<engine, total, compactions, calls>>
    BY <1>5 DEF Settled, history
  <2>2. iteration' = iteration + 1  BY <2>1 DEF Round
  <2>3. pc' # "tool"
    <3>1. iteration + 1 \in 0 .. MaxTools  BY <1>0, <2>1 DEF Budgets
    <3> QED BY <1>0, <2>1, <3>1, RoundTypes
  <2> QED BY <1>0, <2>1, <2>2, <2>3, CallsStep
<1>6. CASE NativeTool
  <2>1. /\ engine = "litert" /\ withTools /\ withTools' = withTools /\ pc = "completing"
        /\ UNCHANGED <<engine, budget>>
    BY <1>6 DEF NativeTool
  <2>2. CASE UNCHANGED <<pc, nativeCalls, calls>>
    BY <1>1, <2>1, <2>2
  <2>3. CASE pc' = "native" /\ nativeCalls' = nativeCalls + 1 /\ calls' = calls + 1
    <3>1. nativeCalls \in Nat /\ MaxTools * (iteration + compactions) \in Nat
      BY <1>0 DEF CallOK
    <3> QED BY <1>0, <2>1, <2>3, <3>1 DEF CallsInv, Handled, Counted, budget
  <2> QED BY <1>6, <2>2, <2>3 DEF NativeTool
<1>7. CASE NativeToolDone
  BY <1>1, <1>7 DEF NativeToolDone, history
<1>8. ASSUME NEW kind \in Texts, Token(kind)
      PROVE  CallsInv'
  BY <1>1, <1>8 DEF Token, history
<1>9. ASSUME NEW ok \in BOOLEAN, ToolDone(ok)
      PROVE  CallsInv'
  <2>1. /\ pc = "tool" /\ total' = total + 1 /\ UNCHANGED <<engine, compactions>>
        /\ total' \in 0 .. MaxTools /\ iteration + 1 \in 0 .. MaxTools
    BY <1>0, <1>9 DEF ToolDone, RestOK, Budgets
  <2>2. CASE calls' = calls + 1 /\ UNCHANGED <<pc, outcome, iteration, reply, call>>
    BY <1>0, <2>1, <2>2, CallsStep DEF call
  <2>3. CASE UNCHANGED calls /\ Executed
    <3>1. CASE UNCHANGED <<iteration, call>>
      BY <1>0, <2>1, <2>3, <3>1, CallsStep DEF call
    <3>2. CASE LimitAnswer /\ UNCHANGED iteration
      BY <1>0, <2>1, <2>3, <3>2, LimitTypes, CallsStep DEF call
    <3>3. CASE Round(iteration + 1, total', voices)
      <4>1. iteration' = iteration + 1  BY <3>3 DEF Round
      <4> QED BY <1>0, <2>1, <2>3, <4>1, CallsStep
    <3> QED BY <2>3, <3>1, <3>2, <3>3 DEF Executed, Return
  <2> QED BY <1>9, <2>2, <2>3 DEF ToolDone
<1>10. ASSUME NEW i \in BOOLEAN, Interrupted(i)
       PROVE  CallsInv'
  BY <1>1, <1>10 DEF Interrupted, Return, call, history
<1>11. ASSUME NEW blank \in BOOLEAN, Answered(blank)
       PROVE  CallsInv'
  <2>1. UNCHANGED <<engine, budget, calls>> /\ pc # "tool"  BY <1>11 DEF Answered, history
  <2>2. CASE Ask("plain", FALSE)
    BY <1>1, <2>1, <2>2 DEF Ask
  <2>3. CASE Emit
    BY <1>1, <2>1, <2>3 DEF Emit, Return, call
  <2> QED BY <1>11, <2>2, <2>3 DEF Answered
<1>12. ASSUME NEW n \in Upto(MaxBatch), CalledTools(n)
       PROVE  CallsInv'
  <2>1. pc = "completing" /\ pc' = "tool" /\ calls' = calls + 1
        /\ UNCHANGED <<engine, budget, withTools, nativeCalls>>
    BY <1>12 DEF CalledTools, call
  <2> QED BY <1>0, <2>1, CallsStep DEF budget
<1>13. CASE NativeLimit
  <2>1. LimitAnswer /\ pc = "completing" /\ UNCHANGED <<engine, budget, calls>>
    BY <1>13 DEF NativeLimit, history
  <2> QED BY <1>0, <1>1, <2>1, LimitTypes DEF call
<1>14. CASE LastAnswered
  BY <1>1, <1>14 DEF LastAnswered, Emit, Return, call, history
<1>15. ASSUME NEW kind \in Errors, Fails(kind)
       PROVE  CallsInv'
  <2>1. /\ pc = "completing" /\ UNCHANGED <<engine, budget, calls>>
        /\ FailsLocal(kind) \/ FailsRemote(kind) \/ FailsLiteRT(kind)
    BY <1>15 DEF Fails, history
  <2>2. CASE Thrown(kind)
    BY <1>0, <1>1, <2>1, <2>2, ThrownTypes DEF call
  <2>3. CASE pc' # "tool" /\ UNCHANGED call
    BY <1>1, <2>1, <2>3 DEF call
  <2>4. CASE pc' # "tool" /\ withTools' = FALSE
    BY <1>1, <2>1, <2>4
  <2> QED BY <2>1, <2>2, <2>3, <2>4 DEF FailsLocal, FailsRemote, FailsLiteRT
<1>16. ASSUME NEW k \in Upto(Len(prompt) - 1), NEW told \in BOOLEAN, Compacted(k, told)
       PROVE  CallsInv'
  <2>1. /\ pc = "compacting" /\ compactions' = compactions + 1 /\ Round(iteration, total, 0)
        /\ UNCHANGED <<engine, total, calls>>
    BY <1>16 DEF Compacted
  <2>2. iteration' = iteration  BY <2>1 DEF Round
  <2>3. pc' # "tool"  BY <1>0, <2>1, RoundTypes
  <2> QED BY <1>0, <2>1, <2>2, <2>3, CallsStep
<1>17. CASE CompactedInVain
  BY <1>1, <1>17 DEF CompactedInVain, Return, call, history
<1>18. CASE Stop \/ ClearFlag
  <2>1. /\ (pc' = "tool") <=> (pc = "tool")
        /\ UNCHANGED <<engine, budget, call, calls>>
    BY <1>18 DEF Stop, ClearFlag
  <2> QED BY <1>0, <2>1, CallsStep DEF budget, call
<1>19. CASE LostRejects
  <2>1. pc = "lost" /\ UNCHANGED <<engine, budget, calls>>
    BY <1>19 DEF LostRejects, history
  <2>2. CASE LimitAnswer
    BY <1>0, <1>1, <2>1, <2>2, LimitTypes DEF call
  <2>3. CASE Return("failed")
    BY <1>1, <2>1, <2>3 DEF Return, call
  <2> QED BY <1>19, <2>2, <2>3 DEF LostRejects
<1>20. CASE Unreadable \/ StreamEnds
  BY <1>1, <1>20 DEF Unreadable, StreamEnds, call, history
<1>21. ASSUME NEW kind \in Errors, UnreadFails(kind)
       PROVE  CallsInv'
  <2>1. pc = "unread" /\ Thrown(kind) /\ UNCHANGED <<engine, budget, calls>>
    BY <1>21 DEF UnreadFails, history
  <2> QED BY <1>0, <1>1, <2>1, ThrownTypes DEF call
<1> QED BY <1>2, <1>3, <1>4, <1>5, <1>6, <1>7, <1>8, <1>9, <1>10, <1>11, <1>12, <1>13, <1>14,
           <1>15, <1>16, <1>17, <1>18, <1>19, <1>20, <1>21
        DEF Next, Step, Completion, Compaction, Done, Stays

\* The loop runs at most MaxTools tools in a turn; beside it LiteRT's handler runs at
\* most as many again in each round and each repetition of one, whatever fails, is
\* compacted or is sent again.
THEOREM LimitHolds == Spec => []CallsWithinLimit
<1> DEFINE Inv == TypeOK /\ Budgets /\ CallsInv
<1>1. Init => Inv
  <2> SUFFICES ASSUME Init PROVE Inv
    OBVIOUS
  <2>1. TypeOK /\ Budgets  BY InitTypes
  <2>2. CallsInv
    <3>1. /\ pc = "routing" /\ calls = 0 /\ total = 0 /\ iteration = 0 /\ compactions = 0
          /\ nativeCalls = 0 /\ MaxTools \in Nat /\ MaxTools * 0 = 0
      BY LoopAssumption DEF Init
    <3>2. Looped = 0 /\ Counted \in Nat  BY <3>1 DEF Looped, Counted
    <3> QED BY <3>1, <3>2 DEF CallsInv, Handled
  <2> QED BY <2>1, <2>2
<1>2. Inv /\ [Next]_vars => Inv'
  BY TypesInductive, CallsInductive
<1>3. Inv => CallsWithinLimit
  <2> SUFFICES ASSUME TypeOK, Budgets, CallsInv PROVE CallsWithinLimit
    OBVIOUS
  <2> DEFINE s == iteration + compactions
             n == Counted
  <2>1. /\ MaxTools \in Nat /\ s \in Nat /\ n \in 0 .. MaxTools /\ calls \in Nat
        /\ total \in 0 .. MaxTools
    BY TypeParts, LoopAssumption DEF CallOK, RestOK, Counted
  <2>2. Looped \in 0 .. MaxTools
    BY <2>1, TypeParts DEF Looped, Budgets, RestOK
  <2>3. Handled = MaxTools * s + n  BY DEF Handled
  <2>4. iteration + compactions + 2 = s + 2
    BY TypeParts DEF RestOK
  <2> HIDE DEF s, n
  <2>5. MaxTools * (s + 2) = MaxTools * s + MaxTools + MaxTools /\ MaxTools * s \in Nat
        /\ MaxTools * 1 = MaxTools
    BY <2>1
  <2> QED BY <2>1, <2>2, <2>3, <2>4, <2>5 DEF CallsInv, CallsWithinLimit
<1> QED BY <1>1, <1>2, <1>3, PTL DEF Spec

-----------------------------------------------------------------------------
(* Calls and their results.                                                *)

\* Call i of the message at j has its result further on in the prompt.
Answers(p, j, i) == \E k \in (j + 1) .. Len(p) : p[k] = Result(i)

\* Every call has its result behind it, but for those of the batch that are still to
\* be run. That a result is behind its call is what a compaction needs, which may
\* cut the prompt anywhere.
AnsweredInv ==
    pc # "done" =>
        \A j \in 1 .. Len(prompt) : prompt[j].role = "call" =>
            \A i \in prompt[j].of :
                Answers(prompt, j, i) \/ (pc = "tool" /\ total < i /\ i <= total + left)

\* Appending keeps results where they are.
LEMMA AnswersKept ==
    ASSUME NEW p \in Seq(Message), NEW q \in Seq(Message),
           NEW j \in 1 .. Len(p), NEW i \in Nat, Answers(p, j, i)
    PROVE  Answers(p \o q, j, i)
<1>1. PICK k \in (j + 1) .. Len(p) : p[k] = Result(i)  BY DEF Answers
<1>2. /\ Len(p \o q) = Len(p) + Len(q) /\ Len(p) \in Nat /\ Len(q) \in Nat
      /\ k \in 1 .. Len(p)
  BY ConcatProperties
<1>3. (p \o q)[k] = p[k]  BY <1>2, ConcatProperties
<1>4. k \in (j + 1) .. Len(p \o q)  BY <1>2
<1> QED BY <1>1, <1>3, <1>4 DEF Answers

\* A step that leaves the prompt and the batch alone, or ends the turn.
LEMMA QuietStep ==
    ASSUME AnsweredInv,
           \/ pc' = "done"
           \/ /\ pc # "done"
              /\ (pc' = "tool") <=> (pc = "tool")
              /\ UNCHANGED <<prompt, total, left>>
    PROVE  AnsweredInv'
<1>1. CASE pc' = "done"
  BY <1>1 DEF AnsweredInv
<1>2. CASE pc # "done" /\ ((pc' = "tool") <=> (pc = "tool")) /\ UNCHANGED <<prompt, total, left>>
  <2>1. SUFFICES ASSUME NEW j \in 1 .. Len(prompt'), prompt'[j].role = "call",
                        NEW i \in prompt'[j].of
                 PROVE  Answers(prompt', j, i) \/ (pc' = "tool" /\ total' < i /\ i <= total' + left')
    BY DEF AnsweredInv
  <2>2. Answers(prompt, j, i) \/ (pc = "tool" /\ total < i /\ i <= total + left)
    BY <1>2, <2>1 DEF AnsweredInv
  <2>3. prompt' = prompt /\ total' = total /\ left' = left  BY <1>2
  <2>4. (pc = "tool") <=> (pc' = "tool")  BY <1>2
  <2> QED BY <2>2, <2>3, <2>4, Zenon
<1> QED BY <1>1, <1>2

\* A message with the calls of a round is appended, and its first call begins.
LEMMA CalledStep ==
    ASSUME TypeOK, Budgets, AnsweredInv, NEW n \in Upto(MaxBatch), CalledTools(n)
    PROVE  AnsweredInv'
<1> DEFINE c == {total + i : i \in Upto(WithinBudget(n))}
           msg == [role |-> "call", of |-> c]
<1>1. /\ prompt' = Append(prompt, msg) /\ left' = WithinBudget(n) /\ total' = total
      /\ pc = "completing" /\ pc' = "tool"
  BY DEF CalledTools, budget
<1>2. prompt \in Seq(Message) /\ total \in Nat /\ WithinBudget(n) \in Int
  BY TypeParts, LoopAssumption DEF PromptOK, RestOK, WithinBudget, Upto
<1>3. msg \in Message
  <2>1. c \in SUBSET Nat  BY <1>2 DEF Upto
  <2> HIDE DEF c
  <2> QED BY <2>1, MessageTypes
<1>4. \A i \in c : total < i /\ i <= total + WithinBudget(n)
  BY <1>2 DEF Upto
<1>5. /\ msg.role = "call" /\ msg.of = c  OBVIOUS
<1> HIDE DEF c, msg
<1>6. /\ prompt' = prompt \o <<msg>> /\ Len(prompt') = Len(prompt) + 1 /\ Len(prompt) \in Nat
      /\ prompt'[Len(prompt) + 1] = msg /\ \A j \in 1 .. Len(prompt) : prompt'[j] = prompt[j]
      /\ <<msg>> \in Seq(Message)
  BY <1>1, <1>2, <1>3, AppendProperties
<1>7. SUFFICES ASSUME NEW j \in 1 .. Len(prompt) + 1, prompt'[j].role = "call",
                      NEW i \in prompt'[j].of
               PROVE  Answers(prompt', j, i) \/ (total < i /\ i <= total + WithinBudget(n))
  BY <1>1, <1>6 DEF AnsweredInv
<1>8. CASE j = Len(prompt) + 1
  BY <1>4, <1>5, <1>6, <1>8
<1>9. CASE j \in 1 .. Len(prompt)
  <2>1. prompt[j].role = "call" /\ i \in prompt[j].of /\ prompt[j] \in Message
    BY <1>2, <1>6, <1>7, <1>9
  <2>2. i \in Nat  BY <2>1 DEF Message
  <2>3. Answers(prompt, j, i)  BY <1>1, <1>9, <2>1 DEF AnsweredInv
  <2> QED BY <1>2, <1>6, <1>9, <2>2, <2>3, AnswersKept
<1> QED BY <1>6, <1>8, <1>9

\* A call ends: its result is appended.
LEMMA ToolStep ==
    ASSUME TypeOK, Budgets, AnsweredInv, NEW ok \in BOOLEAN, ToolDone(ok)
    PROVE  AnsweredInv'
<1> DEFINE msg == Result(total + 1)
<1>1. pc = "tool" /\ prompt' = Append(prompt, msg) /\ total' = total + 1
  BY DEF ToolDone, WithResult
<1>2. prompt \in Seq(Message) /\ total \in Nat /\ left \in Nat
  BY TypeParts DEF PromptOK, RestOK
<1>3. msg \in Message  BY <1>2, MessageTypes
<1>4. CASE pc' = "done"
  BY <1>4 DEF AnsweredInv
<1>5. CASE pc' # "done"
  <2>1. \/ left' = left - 1 /\ pc' = "tool"
        \/ left <= 1 /\ left' = 0
    <3>1. CASE left > 1 /\ ~ aborted
      BY <1>1, <3>1 DEF ToolDone
    <3>2. CASE ~ (left > 1 /\ ~ aborted)
      <4>1. left' = 0 /\ Executed  BY <3>2 DEF ToolDone
      <4>2. ~ aborted  BY <1>5, <4>1 DEF Executed, Return
      <4> QED BY <1>2, <3>2, <4>1, <4>2
    <3> QED BY <3>1, <3>2
  <2>2. /\ prompt' = prompt \o <<msg>> /\ Len(prompt') = Len(prompt) + 1 /\ Len(prompt) \in Nat
        /\ prompt'[Len(prompt) + 1] = msg /\ \A j \in 1 .. Len(prompt) : prompt'[j] = prompt[j]
        /\ <<msg>> \in Seq(Message)
    BY <1>1, <1>2, <1>3, AppendProperties
  <2>3. msg.role = "result"  BY DEF Result
  <2> HIDE DEF msg
  <2>4. SUFFICES ASSUME NEW j \in 1 .. Len(prompt) + 1, prompt'[j].role = "call",
                        NEW i \in prompt'[j].of
                 PROVE  Answers(prompt', j, i) \/ (pc' = "tool" /\ total' < i /\ i <= total' + left')
    BY <2>2 DEF AnsweredInv
  <2>5. j \in 1 .. Len(prompt)  BY <2>2, <2>3, <2>4
  <2>6. prompt[j].role = "call" /\ i \in prompt[j].of /\ prompt[j] \in Message
    BY <1>2, <2>2, <2>4, <2>5
  <2>7. i \in Nat  BY <2>6 DEF Message
  <2>8. CASE Answers(prompt, j, i)
    BY <1>2, <2>2, <2>5, <2>7, <2>8, AnswersKept
  <2>9. CASE total < i /\ i <= total + left
    <3>1. CASE i = total + 1
      <4>1. Len(prompt) + 1 \in (j + 1) .. Len(prompt')  BY <2>2, <2>5
      <4>2. prompt'[Len(prompt) + 1] = Result(i)  BY <2>2, <3>1 DEF msg
      <4> QED BY <4>1, <4>2 DEF Answers
    <3>2. CASE i # total + 1
      <4>1. total + 1 < i /\ left > 1  BY <1>2, <2>7, <2>9, <3>2
      <4>2. left' = left - 1 /\ pc' = "tool"  BY <1>2, <2>1, <4>1
      <4>3. i <= (total + 1) + (left - 1)  BY <1>2, <2>7, <2>9
      <4> QED BY <1>1, <4>1, <4>2, <4>3
    <3> QED BY <3>1, <3>2
  <2> QED BY <1>1, <2>5, <2>6, <2>8, <2>9 DEF AnsweredInv
<1> QED BY <1>4, <1>5

\* An odd number within an even bound has a successor within it, which is even.
LEMMA OddNumber ==
    \A x, n \in Nat : x % 2 = 1 /\ x <= 2 * n => x + 1 <= 2 * n /\ (x + 1) % 2 = 0
BY SMT

\* LiteRT's calls join the prompt, each with its result.
LEMMA NativeStep ==
    ASSUME TypeOK, AnsweredInv, NativeLimit
    PROVE  AnsweredInv'
<1> DEFINE made == LiteRTMade(nativeCalls)
<1>1. pc = "completing" /\ prompt' = prompt \o made /\ LimitAnswer
  BY DEF NativeLimit, LiteRTMade
<1>2. prompt \in Seq(Message) /\ nativeCalls \in Nat
  BY TypeParts, LoopAssumption DEF PromptOK, CallOK
<1>3. /\ made \in Seq(Message) /\ Len(made) = 2 * nativeCalls
      /\ \A i \in 1 .. 2 * nativeCalls : made[i] =
             IF i % 2 = 1 THEN [role |-> "call", of |-> {(i + 1) \div 2}] ELSE Result(i \div 2)
  BY <1>2, LiteRTMadeTypes
<1> HIDE DEF made
<1>4. /\ Len(prompt') = Len(prompt) + Len(made) /\ Len(prompt) \in Nat
      /\ \A j \in 1 .. Len(prompt) : prompt'[j] = prompt[j]
      /\ \A j \in 1 .. Len(made) : prompt'[Len(prompt) + j] = made[j]
  <2>1. Len(prompt) \in Nat /\ Len(made) \in Nat  BY <1>2, <1>3
  <2>2. Len(prompt') = Len(prompt) + Len(made)  BY <1>1, <1>2, <1>3, ConcatProperties
  <2>3. \A j \in 1 .. Len(prompt) : prompt'[j] = prompt[j]
    BY <1>1, <1>2, <1>3, <2>1, ConcatProperties
  <2>4. ASSUME NEW j \in 1 .. Len(made)
        PROVE  prompt'[Len(prompt) + j] = made[j]
    <3>1. /\ Len(prompt) + j \in 1 .. Len(prompt) + Len(made)
          /\ Len(prompt) + j > Len(prompt) /\ (Len(prompt) + j) - Len(prompt) = j
      BY <2>1
    <3> QED BY <1>1, <1>2, <1>3, <3>1, ConcatProperties
  <2> QED BY <2>1, <2>2, <2>3, <2>4
<1>5. SUFFICES ASSUME NEW j \in 1 .. Len(prompt) + Len(made), prompt'[j].role = "call",
                      NEW i \in prompt'[j].of
               PROVE  Answers(prompt', j, i)
  BY <1>4 DEF AnsweredInv
<1>6. CASE j \in 1 .. Len(prompt)
  <2>1. prompt[j].role = "call" /\ i \in prompt[j].of /\ prompt[j] \in Message
    BY <1>2, <1>4, <1>5, <1>6
  <2>2. i \in Nat  BY <2>1 DEF Message
  <2>3. Answers(prompt, j, i)  BY <1>1, <1>6, <2>1 DEF AnsweredInv
  <2> QED BY <1>1, <1>2, <1>3, <1>6, <2>2, <2>3, AnswersKept
<1>7. CASE j \notin 1 .. Len(prompt)
  <2>1. PICK x \in 1 .. Len(made) : j = Len(prompt) + x
    <3>1. j - Len(prompt) \in 1 .. Len(made) /\ j = Len(prompt) + (j - Len(prompt))
      BY <1>2, <1>3, <1>4, <1>7
    <3> QED BY <3>1
  <2>2. prompt'[j] = made[x]  BY <1>4, <2>1
  <2>3. x % 2 = 1
    <3>1. x % 2 # 1 => made[x] = Result(x \div 2)  BY <1>3, <2>1
    <3>2. Result(x \div 2).role = "result"  BY DEF Result
    <3> QED BY <1>5, <2>2, <3>1, <3>2
  <2>4. made[x] = [role |-> "call", of |-> {(x + 1) \div 2}]  BY <1>3, <2>1, <2>3
  <2>5. i = (x + 1) \div 2  BY <1>5, <2>2, <2>4
  <2>6. x + 1 \in 1 .. 2 * nativeCalls /\ (x + 1) % 2 # 1
    <3>1. x \in Nat /\ x <= 2 * nativeCalls  BY <1>2, <1>3, <2>1
    <3>2. x + 1 <= 2 * nativeCalls /\ (x + 1) % 2 = 0  BY <1>2, <2>3, <3>1, OddNumber
    <3> QED BY <1>2, <2>1, <3>1, <3>2
  <2>7. made[x + 1] = Result((x + 1) \div 2)  BY <1>3, <2>6
  <2>8. prompt'[Len(prompt) + (x + 1)] = made[x + 1]  BY <1>3, <1>4, <2>6
  <2>9. /\ Len(prompt) + (x + 1) \in (j + 1) .. (Len(prompt) + Len(made))
    BY <1>2, <1>3, <1>4, <2>1, <2>6
  <2> QED BY <1>4, <2>5, <2>7, <2>8, <2>9 DEF Answers
<1> QED BY <1>6, <1>7

\* A prefix of the prompt is left out: what is kept keeps what is behind it.
LEMMA CompactStep ==
    ASSUME TypeOK, AnsweredInv, NEW k \in Upto(Len(prompt) - 1), NEW told \in BOOLEAN,
           Compacted(k, told)
    PROVE  AnsweredInv'
<1>1. pc = "compacting" /\ prompt' = SubSeq(prompt, k + 1, Len(prompt))
  BY DEF Compacted
<1>2. prompt \in Seq(Message) /\ Len(prompt) \in Nat /\ k \in Nat /\ k <= Len(prompt) - 1 /\ 1 <= k
  BY TypeParts DEF PromptOK, Upto
<1>3. /\ Len(prompt') = Len(prompt) - k
      /\ \A j \in 1 .. Len(prompt) - k : prompt'[j] = prompt[j + k]
  <2>1. k + 1 \in 1 .. Len(prompt) /\ Len(prompt) \in k + 1 .. Len(prompt)  BY <1>2
  <2>2. Len(prompt') = Len(prompt) - (k + 1) + 1  BY <1>1, <1>2, <2>1, SubSeqProperties
  <2>3. \A j \in 1 .. Len(prompt) - k : prompt'[j] = prompt[(k + 1) + j - 1]
    BY <1>1, <1>2, <2>1, SubSeqProperties
  <2> QED BY <1>2, <2>2, <2>3
<1>4. SUFFICES ASSUME NEW j \in 1 .. Len(prompt) - k, prompt'[j].role = "call",
                      NEW i \in prompt'[j].of
               PROVE  Answers(prompt', j, i)
  BY <1>3 DEF AnsweredInv
<1>5. j + k \in 1 .. Len(prompt) /\ prompt[j + k].role = "call" /\ i \in prompt[j + k].of
  BY <1>2, <1>3, <1>4
<1>6. Answers(prompt, j + k, i)  BY <1>1, <1>5 DEF AnsweredInv
<1>7. PICK x \in (j + k + 1) .. Len(prompt) : prompt[x] = Result(i)  BY <1>6 DEF Answers
<1>8. x - k \in 1 .. Len(prompt) - k /\ (x - k) + k = x /\ x - k \in (j + 1) .. (Len(prompt) - k)
  BY <1>2, <1>7
<1>9. prompt'[x - k] = Result(i)  BY <1>3, <1>7, <1>8
<1> QED BY <1>3, <1>8, <1>9 DEF Answers

LEMMA RoundLeavesTools ==
    ASSUME NEW i, NEW n, NEW shown, Round(i, n, shown)
    PROVE  pc' # "tool"
BY DEF Round, LimitAnswer, Ask, Return

LEMMA AnsweredInductive ==
    ASSUME TypeOK, Budgets, AnsweredInv, [Next]_vars
    PROVE  AnsweredInv'
<1>0. CallOK /\ ReplyOK  BY TypeParts
<1>1. CASE UNCHANGED vars \/ Done \/ Stays
  <2>1. UNCHANGED <<pc, prompt, total, left>>  BY <1>1 DEF Done, Stays, vars, known, budget
  <2> QED BY <2>1, QuietStep DEF AnsweredInv
<1>2. CASE Stop \/ ClearFlag
  <2>1. /\ UNCHANGED <<prompt, total, left>>
        /\ pc' = pc \/ (pc \in {"completing", "unread"} /\ pc' \in {"lost", "cut"})
    BY <1>2 DEF Stop, ClearFlag, known, budget
  <2>2. CASE pc = "done"  BY <2>1, <2>2, QuietStep
  <2>3. CASE pc # "done"  BY <2>1, <2>3, QuietStep
  <2> QED BY <2>2, <2>3
<1>3. ASSUME pc \notin {"done", "tool"}, UNCHANGED <<prompt, total, left>>, pc' # "tool"
      PROVE  AnsweredInv'
  BY <1>3, QuietStep
<1>4. CASE Routed \/ Settled
  <2>1. /\ pc \in {"routing", "settling"} /\ UNCHANGED <<prompt, total, left>>
        /\ Round(0, 0, voices) \/ Round(iteration + 1, total, voices)
    BY <1>4 DEF Routed, Settled, known
  <2>2. pc' # "tool"  BY <2>1, RoundLeavesTools
  <2> QED BY <1>3, <2>1, <2>2
<1>5. CASE Prepared \/ Retry \/ NativeTool \/ NativeToolDone
  BY <1>3, <1>5 DEF Prepared, Retry, NativeTool, NativeToolDone, known, budget
<1>6. ASSUME NEW kind \in Texts, Token(kind)
      PROVE  AnsweredInv'
  BY <1>3, <1>6 DEF Token, known, budget
<1>7. ASSUME NEW ok \in BOOLEAN, ToolDone(ok)
      PROVE  AnsweredInv'
  BY <1>7, ToolStep
<1>8. ASSUME NEW i \in BOOLEAN, Interrupted(i)
      PROVE  AnsweredInv'
  BY <1>8, QuietStep DEF Interrupted, Return
<1>9. ASSUME NEW blank \in BOOLEAN, Answered(blank)
      PROVE  AnsweredInv'
  <2>1. pc \in {"completing", "cut"} /\ UNCHANGED <<prompt, total, left>>
    BY <1>9 DEF Answered, known, budget
  <2>2. pc' # "tool"
    BY <1>9 DEF Answered, Ask, Emit, Return
  <2> QED BY <1>3, <2>1, <2>2
<1>10. ASSUME NEW n \in Upto(MaxBatch), CalledTools(n)
       PROVE  AnsweredInv'
  BY <1>10, CalledStep
<1>11. CASE NativeLimit
  BY <1>11, NativeStep
<1>12. CASE LastAnswered
  BY <1>12, QuietStep DEF LastAnswered, Emit, Return
<1>13. ASSUME NEW kind \in Errors, Fails(kind)
       PROVE  AnsweredInv'
  <2>1. /\ pc = "completing" /\ UNCHANGED <<prompt, total, left>>
        /\ FailsLocal(kind) \/ FailsRemote(kind) \/ FailsLiteRT(kind)
    BY <1>13 DEF Fails, known, budget
  <2>2. pc' # "tool"
    BY <2>1 DEF FailsLocal, FailsRemote, FailsLiteRT, Thrown, Ask, Return
  <2> QED BY <1>3, <2>1, <2>2
<1>14. ASSUME NEW k \in Upto(Len(prompt) - 1), NEW told \in BOOLEAN, Compacted(k, told)
       PROVE  AnsweredInv'
  BY <1>14, CompactStep
<1>15. CASE CompactedInVain
  BY <1>15, QuietStep DEF CompactedInVain, Return
<1>16. CASE LostRejects
  <2>1. pc = "lost" /\ UNCHANGED <<prompt, total, left>>
    BY <1>16 DEF LostRejects, known, budget
  <2>2. pc' # "tool"
    BY <1>16 DEF LostRejects, LimitAnswer, Ask, Return
  <2> QED BY <1>3, <2>1, <2>2
<1>17. CASE Unreadable \/ StreamEnds
  BY <1>3, <1>17 DEF Unreadable, StreamEnds, known, budget
<1>18. ASSUME NEW kind \in Errors, UnreadFails(kind)
       PROVE  AnsweredInv'
  BY <1>3, <1>18 DEF UnreadFails, Thrown, Ask, Return, known, budget
<1> QED BY <1>1, <1>2, <1>4, <1>5, <1>6, <1>7, <1>8, <1>9, <1>10, <1>11, <1>12, <1>13, <1>14,
           <1>15, <1>16, <1>17, <1>18
        DEF Next, Step, Completion, Compaction

\* However calls fail, batches are cut, turns are stopped, contexts are compacted and
\* completions are sent again: no completion is asked to go on from a prompt with a
\* call whose result is missing.
THEOREM CallsAnswered == Spec => []EveryCallAnswered
<1> DEFINE Inv == TypeOK /\ Budgets /\ AnsweredInv
<1>1. Init => Inv
  <2> SUFFICES ASSUME Init PROVE Inv
    OBVIOUS
  <2>1. TypeOK /\ Budgets  BY InitTypes
  <2>2. \A j \in 1 .. Len(prompt) : prompt[j].role # "call"
    <3> DEFINE old == [i \in Upto(History) |-> [role |-> "earlier", of |-> {i}]]
               user == [role |-> "user", of |-> {}]
    <3>1. prompt = old \o <<user>>  BY DEF Init
    <3>2. old \in Seq(Message) /\ Len(old) = History
      <4>1. \A i \in 1 .. History : [role |-> "earlier", of |-> {i}] \in Message
        BY LoopAssumption DEF Message
      <4>2. old \in [1 .. History -> Message]  BY <4>1 DEF Upto
      <4> HIDE DEF old
      <4> QED BY <4>2, LoopAssumption, SeqDef, LenProperties
    <3>3. \A i \in 1 .. History : old[i].role = "earlier"  BY DEF Upto
    <3>4. user \in Message /\ user.role = "user"  BY DEF Message
    <3> HIDE DEF old, user
    <3>5. /\ <<user>> \in Seq(Message) /\ Len(<<user>>) = 1 /\ <<user>>[1] = user
      BY <3>4
    <3>6. /\ Len(prompt) = History + 1
          /\ \A j \in 1 .. History + 1 : prompt[j] = IF j <= History THEN old[j]
                                                     ELSE <<user>>[j - History]
      BY <3>1, <3>2, <3>5, ConcatProperties
    <3>7. \A j \in 1 .. History + 1 : prompt[j] = user \/ (j \in 1 .. History /\ prompt[j] = old[j])
      <4> SUFFICES ASSUME NEW j \in 1 .. History + 1
                   PROVE  prompt[j] = user \/ (j \in 1 .. History /\ prompt[j] = old[j])
        OBVIOUS
      <4>1. CASE j <= History  BY <3>6, <4>1, LoopAssumption
      <4>2. CASE j = History + 1
        <5>1. ~ j <= History /\ j - History = 1  BY <4>2, LoopAssumption
        <5> QED BY <3>5, <3>6, <5>1
      <4> QED BY <4>1, <4>2, LoopAssumption
    <3> QED BY <3>3, <3>4, <3>6, <3>7
  <2> QED BY <2>1, <2>2 DEF AnsweredInv
<1>2. Inv /\ [Next]_vars => Inv'
  BY TypesInductive, AnsweredInductive
<1>3. Inv => EveryCallAnswered
  <2> SUFFICES ASSUME TypeOK, AnsweredInv, pc = "completing", NEW m \in Items(prompt),
                      m.role = "call", NEW i \in m.of
               PROVE  Result(i) \in Items(prompt)
    BY DEF EveryCallAnswered
  <2>1. prompt \in Seq(Message)  BY TypeParts DEF PromptOK
  <2>2. PICK j \in 1 .. Len(prompt) : prompt[j] = m  BY <2>1 DEF Items
  <2>3. Answers(prompt, j, i)  BY <2>2 DEF AnsweredInv
  <2>4. PICK k \in (j + 1) .. Len(prompt) : prompt[k] = Result(i)  BY <2>3 DEF Answers
  <2>5. k \in DOMAIN prompt  BY <2>1, <2>2, <2>4
  <2> QED BY <2>4, <2>5 DEF Items
<1> QED BY <1>1, <1>2, <1>3, PTL DEF Spec
-----------------------------------------------------------------------------
(* What a stopped turn still starts, and what a turn that answers shows.   *)

\* A remote completion is cut off by the stop, and its engine has none of the
\* awaits of the other two.
StopInv ==
    /\ aborted => stopped
    /\ pc = "cut" => stopped
    /\ pc = "unread" => engine = "remote"
    /\ engine = "remote" =>
           /\ pc \notin {"preparing", "backoff", "native", "settling"}
           /\ aborted => pc \notin {"completing", "unread"}

\* A round before the last answer ran a call, so that the calls run out before the
\* rounds do.
RoundsInv ==
    /\ pc # "done" => outcome = "running" /\ iteration <= total
    /\ pc \in {"tool", "settling"} => stage = "loop"
    /\ pc = "settling" => iteration < total

\* What was streamed is shown, but while tools run; a remote reply shows no text that
\* the request in progress did not stream.
ShownInv ==
    ~ stopped =>
        /\ pc \notin {"tool", "settling", "done"} /\ "content" \in seg => voices >= 1
        /\ engine = "remote" =>
               /\ pc \in {"routing", "tool"} => voices = 0
               /\ pc = "completing" => /\ seg \subseteq streamed
                                       /\ voices = IF "content" \in seg THEN 1 ELSE 0

AnswerInv == StopInv /\ RoundsInv /\ ShownInv /\ OneAnswer

LEMMA AnswerInit == Init => AnswerInv
<1> SUFFICES ASSUME Init PROVE AnswerInv
  OBVIOUS
<1>1. /\ pc = "routing" /\ outcome = "running" /\ iteration = 0 /\ total = 0
      /\ seg = {} /\ voices = 0 /\ aborted = FALSE
  BY DEF Init
<1> QED BY <1>1 DEF AnswerInv, StopInv, RoundsInv, ShownInv, OneAnswer

\* The turn ends without an answer.
LEMMA EndsUnanswered ==
    ASSUME AnswerInv, Return("interrupted") \/ Return("failed"), UNCHANGED <<engine, aborted, stopped>>
    PROVE  AnswerInv'
<1>1. pc' = "done" /\ outcome' \in {"interrupted", "failed"}
  BY DEF Return
<1> QED BY <1>1 DEF AnswerInv, StopInv, RoundsInv, ShownInv, OneAnswer

\* The turn ends with the text that is shown, or with the one it had not streamed.
LEMMA EmitShows ==
    ASSUME TypeOK, AnswerInv, pc \in {"completing", "cut"}, Emit,
           UNCHANGED <<engine, aborted, stopped>>
    PROVE  AnswerInv'
<1>1. /\ pc' = "done" /\ outcome' = "answered"
      /\ voices' = IF "content" \in seg THEN voices ELSE Max2(voices + 1)
  BY DEF Emit, Return
<1>2. voices \in 0 .. 2  BY DEF TypeOK
<1>3. ASSUME ~ stopped PROVE voices' >= 1
  <2>1. pc = "completing"  BY <1>3 DEF AnswerInv, StopInv
  <2>2. CASE "content" \in seg  BY <1>1, <1>3, <2>1, <2>2 DEF AnswerInv, ShownInv
  <2>3. CASE "content" \notin seg  BY <1>1, <1>2, <2>3 DEF Max2
  <2> QED BY <2>2, <2>3
<1>4. ASSUME ~ stopped, engine = "remote" PROVE voices' = 1
  <2>1. pc = "completing"  BY <1>4 DEF AnswerInv, StopInv
  <2>2. voices = IF "content" \in seg THEN 1 ELSE 0
    BY <1>4, <2>1 DEF AnswerInv, ShownInv
  <2> QED BY <1>1, <2>2 DEF Max2
<1> QED BY <1>1, <1>3, <1>4 DEF AnswerInv, StopInv, RoundsInv, ShownInv, OneAnswer

\* A completion is asked for while no text of its segment is shown.
LEMMA AskShows ==
    ASSUME AnswerInv, pc # "done", NEW s, NEW tools, Ask(s, tools), seg' = {}, ~ aborted,
           UNCHANGED <<engine, aborted, stopped>>, iteration' <= total',
           engine = "remote" /\ ~ stopped => voices' = 0
    PROVE  AnswerInv'
<1>1. /\ pc' = IF engine = "litert" THEN "preparing" ELSE "completing"
      /\ outcome' = "running" /\ streamed' = {}
  BY DEF Ask, AnswerInv, RoundsInv
<1> QED BY <1>1 DEF AnswerInv, StopInv, RoundsInv, ShownInv, OneAnswer

LEMMA LimitShows ==
    ASSUME AnswerInv, pc # "done", LimitAnswer, UNCHANGED <<engine, aborted, stopped>>,
           iteration' <= total', engine = "remote" /\ ~ stopped => voices = 0 \/ seg # {}
    PROVE  AnswerInv'
<1>1. CASE aborted
  BY <1>1, EndsUnanswered DEF LimitAnswer
<1>2. CASE ~ aborted
  <2>1. Ask("limit", FALSE) /\ seg' = {} /\ voices' = IF seg # {} THEN 0 ELSE voices
    BY <1>2 DEF LimitAnswer
  <2> QED BY <1>2, <2>1, AskShows
<1> QED BY <1>1, <1>2

\* A round that is left begins, unless the turn was stopped.
LEMMA RoundShows ==
    ASSUME AnswerInv, pc # "done", NEW i \in Nat, NEW n \in Nat, NEW shown, Round(i, n, shown),
           i < MaxTools, n < MaxTools, i <= total', UNCHANGED <<engine, aborted, stopped>>,
           engine = "remote" /\ ~ stopped => shown = 0
    PROVE  AnswerInv'
<1>1. iteration' = i  BY DEF Round
<1>2. LoopOver(i) <=> aborted  BY LoopAssumption DEF LoopOver
<1>3. CASE aborted
  BY <1>2, <1>3, EndsUnanswered DEF Round
<1>4. CASE ~ aborted
  <2>1. ~ (n >= MaxTools)  BY LoopAssumption
  <2>2. Ask("loop", TRUE) /\ seg' = {} /\ voices' = shown
    BY <1>2, <1>4, <2>1 DEF Round
  <2> QED BY <1>1, <1>4, <2>2, AskShows
<1> QED BY <1>3, <1>4

\* A failed completion: the turn ends, or the context is compacted, or the remote
\* server is asked without the signatures it refused.
LEMMA ThrownShows ==
    ASSUME AnswerInv, pc \in {"completing", "unread"}, NEW kind, Thrown(kind),
           kind = "signature" => engine = "remote",
           UNCHANGED <<engine, aborted, stopped, iteration, total>>
    PROVE  AnswerInv' /\ ~ (aborted /\ Asks)
<1>1. CASE stage = "loop" /\ kind = "context" /\ compactions < MaxTools
  <2>1. pc' = "compacting" /\ UNCHANGED <<outcome, reply, call>>
    BY <1>1 DEF Thrown
  <2> QED BY <2>1 DEF AnswerInv, StopInv, RoundsInv, ShownInv, OneAnswer, Asks, reply, call
<1>2. CASE kind = "signature" /\ Ask("recover", FALSE) /\ seg' = {} /\ voices' = 0
  <2>1. engine = "remote" /\ ~ aborted  BY <1>2 DEF AnswerInv, StopInv
  <2>2. iteration' <= total'  BY DEF AnswerInv, RoundsInv
  <2> QED BY <1>2, <2>1, <2>2, AskShows
<1>3. CASE Return("failed") /\ UNCHANGED reply
  <2>1. AnswerInv'  BY <1>3, EndsUnanswered
  <2>2. pc' = "done"  BY <1>3 DEF Return
  <2> QED BY <2>1, <2>2 DEF Asks
<1> QED BY <1>1, <1>2, <1>3 DEF Thrown

\* Every step keeps the invariant, and what a stopped turn starts is what the property
\* allows.
StartsNothing ==
    aborted /\ Asks => pc \in {"backoff", "preparing"} \/ (engine = "litert" /\ attempt' = 1)

LEMMA ToolShows ==
    ASSUME TypeOK, Budgets, AnswerInv, NEW ok \in BOOLEAN, ToolDone(ok)
    PROVE  AnswerInv' /\ StartsNothing
<1>1. /\ pc = "tool" /\ stage = "loop" /\ total' = total + 1
      /\ UNCHANGED <<engine, aborted, stopped>>
  BY DEF ToolDone, AnswerInv, RoundsInv
<1>2. /\ total \in Nat /\ iteration \in Nat /\ iteration <= total /\ left \in Nat
      /\ total + left <= MaxTools /\ left >= 1 /\ iteration < MaxTools /\ MaxTools \in Nat
  BY <1>1, LoopAssumption DEF TypeOK, Budgets, AnswerInv, RoundsInv
<1>3. engine = "remote" /\ ~ stopped => voices = 0
  BY <1>1 DEF AnswerInv, ShownInv
<1>4. CASE left > 1 /\ ~ aborted
  <2>1. UNCHANGED <<pc, outcome, iteration, reply, call>>
    BY <1>4 DEF ToolDone
  <2>2. RoundsInv'
    BY <1>1, <1>2, <2>1 DEF AnswerInv, RoundsInv, call
  <2>3. StopInv' /\ ShownInv' /\ OneAnswer'
    BY <1>1, <2>1 DEF AnswerInv, StopInv, ShownInv, OneAnswer, reply, call
  <2> QED BY <1>4, <2>2, <2>3 DEF AnswerInv, StartsNothing
<1>5. CASE ~ (left > 1 /\ ~ aborted) /\ Executed
  <2>1. CASE aborted
    <3>1. Return("interrupted")  BY <1>5, <2>1 DEF Executed
    <3>2. pc' = "done"  BY <3>1 DEF Return
    <3> QED BY <1>1, <3>1, <3>2, EndsUnanswered DEF StartsNothing, Asks
  <2>2. CASE ~ aborted /\ total' >= MaxTools
    <3>1. LimitAnswer /\ iteration' = iteration  BY <2>2, <1>5 DEF Executed
    <3>2. iteration' <= total'  BY <1>1, <1>2, <3>1
    <3> QED BY <1>1, <1>3, <2>2, <3>1, <3>2, LimitShows DEF StartsNothing
  <2>3. CASE ~ aborted /\ ~ total' >= MaxTools /\ engine = "remote"
    <3>1. Round(iteration + 1, total', voices)  BY <2>3, <1>5 DEF Executed
    <3>2. /\ iteration + 1 \in Nat /\ total' \in Nat /\ iteration + 1 <= total'
          /\ total' < MaxTools /\ iteration + 1 < MaxTools
      BY <1>1, <1>2, <2>3
    <3> QED BY <1>1, <1>3, <2>3, <3>1, <3>2, RoundShows DEF StartsNothing
  <2>4. CASE ~ aborted /\ ~ total' >= MaxTools /\ engine # "remote"
    <3>1. pc' = "settling" /\ UNCHANGED <<outcome, call, iteration, reply>>
      BY <2>4, <1>5 DEF Executed
    <3>2. RoundsInv'
      BY <1>1, <1>2, <3>1 DEF AnswerInv, RoundsInv, call
    <3>3. StopInv' /\ ShownInv' /\ OneAnswer'
      BY <1>1, <2>4, <3>1 DEF AnswerInv, StopInv, ShownInv, OneAnswer, reply
    <3> QED BY <2>4, <3>2, <3>3 DEF AnswerInv, StartsNothing
  <2> QED BY <2>1, <2>2, <2>3, <2>4
<1> QED BY <1>4, <1>5 DEF ToolDone

LEMMA FailShows ==
    ASSUME TypeOK, AnswerInv, NEW kind \in Errors, Fails(kind)
    PROVE  AnswerInv' /\ StartsNothing
<1>1. /\ pc = "completing" /\ UNCHANGED <<engine, aborted, stopped, iteration, total>>
  BY DEF Fails, budget, history
<1>2. ASSUME Thrown(kind), kind = "signature" => engine = "remote"
      PROVE  AnswerInv' /\ StartsNothing
  BY <1>1, <1>2, ThrownShows DEF StartsNothing
<1>3. CASE FailsLocal(kind)
  <2>1. CASE pc' = "backoff" /\ UNCHANGED <<outcome, reply, call>>
    <3>1. engine = "llama"  BY <1>3 DEF FailsLocal
    <3> QED BY <1>1, <2>1, <3>1 DEF AnswerInv, StopInv, RoundsInv, ShownInv, OneAnswer, reply, call,
                                    StartsNothing, Asks
  <2>2. CASE Thrown(kind)
    <3>1. kind # "signature"  BY <1>3 DEF FailsLocal
    <3> QED BY <1>2, <2>2, <3>1
  <2> QED BY <1>3, <2>1, <2>2 DEF FailsLocal
<1>4. CASE FailsRemote(kind)
  <2>1. engine = "remote" /\ ~ aborted  BY <1>1, <1>4 DEF FailsRemote, AnswerInv, StopInv
  <2>2. CASE /\ MayAskAgain(kind) /\ streamed' = {}
             /\ UNCHANGED <<pc, outcome, reply, stage, attempt, nativeCalls, limitReached>>
    <3>1. streamed = {}  BY <2>2 DEF MayAskAgain
    <3> QED BY <1>1, <2>1, <2>2, <3>1 DEF AnswerInv, StopInv, RoundsInv, ShownInv, OneAnswer, reply,
                                          StartsNothing
  <2>3. CASE Thrown(kind)
    BY <1>2, <2>1, <2>3
  <2> QED BY <1>4, <2>2, <2>3 DEF FailsRemote
<1>5. CASE FailsLiteRT(kind)
  <2>1. engine = "litert" /\ kind # "signature"  BY <1>5 DEF FailsLiteRT
  <2>2. CASE /\ pc' = "preparing" /\ attempt' = 1
             /\ UNCHANGED <<outcome, reply, stage, nativeCalls, limitReached>>
    BY <1>1, <2>1, <2>2 DEF AnswerInv, StopInv, RoundsInv, ShownInv, OneAnswer, reply,
                            StartsNothing
  <2>3. CASE Thrown(kind)
    BY <1>2, <2>1, <2>3
  <2> QED BY <1>5, <2>2, <2>3 DEF FailsLiteRT
<1> QED BY <1>3, <1>4, <1>5 DEF Fails

\* A remote call that cannot be read: the rest of the stream brings an error, or nothing.
LEMMA UnreadShows ==
    ASSUME TypeOK, AnswerInv, \/ Unreadable \/ StreamEnds
                              \/ \E kind \in Errors : UnreadFails(kind)
    PROVE  AnswerInv' /\ StartsNothing
<1>1. CASE Unreadable \/ StreamEnds
  <2>1. /\ pc \in {"completing", "unread"} /\ pc' \in {"unread", "lost"} /\ engine = "remote"
        /\ UNCHANGED <<engine, outcome, iteration, total, seg, voices, stage, streamed, aborted,
                       stopped>>
    BY <1>1 DEF Unreadable, StreamEnds, budget, reply, call, history, AnswerInv, StopInv
  <2> QED BY <2>1 DEF AnswerInv, StopInv, RoundsInv, ShownInv, OneAnswer, StartsNothing, Asks
<1>2. ASSUME NEW kind \in Errors, UnreadFails(kind)
      PROVE  AnswerInv' /\ StartsNothing
  <2>1. /\ pc = "unread" /\ Thrown(kind) /\ engine = "remote"
        /\ UNCHANGED <<engine, aborted, stopped, iteration, total>>
    BY <1>2 DEF UnreadFails, budget, history, AnswerInv, StopInv
  <2> QED BY <2>1, ThrownShows DEF StartsNothing
<1> QED BY <1>1, <1>2

\* A completion ends with an answer, calls, or an interruption.
LEMMA CompletionShows ==
    ASSUME TypeOK, Budgets, AnswerInv, Completion
    PROVE  AnswerInv' /\ StartsNothing
<1>1. ASSUME NEW i \in BOOLEAN, Interrupted(i)
      PROVE  AnswerInv' /\ StartsNothing
  <2>1. Return("interrupted") /\ UNCHANGED <<engine, aborted, stopped>>
    BY <1>1 DEF Interrupted, history
  <2>2. pc' = "done"  BY <2>1 DEF Return
  <2> QED BY <2>1, <2>2, EndsUnanswered DEF StartsNothing, Asks
<1>2. ASSUME NEW blank \in BOOLEAN, Answered(blank)
      PROVE  AnswerInv' /\ StartsNothing
  <2>1. /\ pc \in {"completing", "cut"} /\ ~ aborted
        /\ UNCHANGED <<engine, aborted, stopped, iteration, total>>
    BY <1>2 DEF Answered, Halted, budget, history
  <2>2. CASE Emit
    BY <2>1, <2>2, EmitShows DEF StartsNothing
  <2>3. CASE /\ Ask("plain", FALSE) /\ seg' = {} /\ voices' = voices /\ "content" \notin seg
    <3>1. engine = "remote" /\ ~ stopped => voices' = 0
      BY <2>1, <2>3 DEF AnswerInv, StopInv, ShownInv
    <3>2. iteration' <= total'  BY <2>1 DEF AnswerInv, RoundsInv
    <3> QED BY <2>1, <2>3, <3>1, <3>2, AskShows DEF StartsNothing
  <2> QED BY <1>2, <2>2, <2>3 DEF Answered
<1>3. ASSUME NEW n \in Upto(MaxBatch), CalledTools(n)
      PROVE  AnswerInv' /\ StartsNothing
  <2>1. /\ pc = "completing" /\ pc' = "tool" /\ stage = "loop" /\ ~ aborted /\ voices' = 0
        /\ UNCHANGED <<engine, outcome, iteration, total, stage, aborted, stopped>>
    BY <1>3 DEF CalledTools, Halted, budget, call
  <2> QED BY <2>1 DEF AnswerInv, StopInv, RoundsInv, ShownInv, OneAnswer, StartsNothing
<1>4. CASE NativeLimit
  <2>1. /\ pc = "completing" /\ limitReached /\ LimitAnswer /\ ~ aborted
        /\ UNCHANGED <<engine, aborted, stopped, iteration, total>>
    BY <1>4 DEF NativeLimit, Halted, budget, history
  <2>2. iteration' <= total'  BY <2>1 DEF AnswerInv, RoundsInv
  <2>3. engine = "remote" /\ ~ stopped => voices = 0 \/ seg # {}
    BY <2>1 DEF AnswerInv, ShownInv
  <2> QED BY <2>1, <2>2, <2>3, LimitShows DEF StartsNothing
<1>5. CASE LastAnswered
  <2>1. Emit /\ pc \in {"completing", "cut"} /\ UNCHANGED <<engine, aborted, stopped>>
    BY <1>5 DEF LastAnswered, history
  <2>2. pc' = "done"  BY <2>1 DEF Emit, Return
  <2> QED BY <2>1, <2>2, EmitShows DEF StartsNothing, Asks
<1> QED BY <1>1, <1>2, <1>3, <1>4, <1>5, FailShows, UnreadShows DEF Completion

LEMMA AnswerInductive ==
    ASSUME TypeOK, Budgets, AnswerInv, [Next]_vars
    PROVE  AnswerInv' /\ (StartsNothing \/ UNCHANGED vars)
<1>1. CASE UNCHANGED vars \/ Done \/ Stays
  BY <1>1 DEF Done, Stays, vars, budget, reply, call, history, AnswerInv, StopInv, RoundsInv,
              ShownInv, OneAnswer
<1>2. CASE Routed
  <2>1. /\ pc = "routing" /\ Round(0, 0, voices) /\ UNCHANGED <<engine, total, aborted, stopped>>
    BY <1>2 DEF Routed, history
  <2>2. 0 <= total' /\ 0 < MaxTools /\ 0 \in Nat
    BY <2>1, LoopAssumption DEF TypeOK
  <2>3. engine = "remote" /\ ~ stopped => voices = 0
    BY <2>1 DEF AnswerInv, ShownInv
  <2>4. AnswerInv'  BY <2>1, <2>2, <2>3, RoundShows
  <2>5. aborted => pc' = "done"  BY <2>1 DEF Round, LoopOver, Return
  <2> QED BY <2>4, <2>5 DEF StartsNothing, Asks
<1>3. CASE Settled
  <2>1. /\ pc = "settling" /\ Round(iteration + 1, total, voices)
        /\ UNCHANGED <<engine, total, aborted, stopped>>
    BY <1>3 DEF Settled, history
  <2>2. /\ iteration + 1 \in Nat /\ total \in Nat /\ iteration + 1 <= total' /\ total < MaxTools
        /\ iteration + 1 < MaxTools
    BY <2>1, LoopAssumption DEF TypeOK, Budgets, AnswerInv, RoundsInv
  <2>3. engine # "remote"  BY <2>1 DEF AnswerInv, StopInv
  <2>4. AnswerInv'  BY <2>1, <2>2, <2>3, RoundShows
  <2>5. aborted => pc' = "done"  BY <2>1 DEF Round, LoopOver, Return
  <2> QED BY <2>4, <2>5 DEF StartsNothing, Asks
<1>4. CASE Prepared
  <2>1. /\ pc = "preparing" /\ pc' = "completing"
        /\ UNCHANGED <<engine, outcome, iteration, total, seg, voices, aborted, stopped>>
    BY <1>4 DEF Prepared, budget, reply, history
  <2> QED BY <2>1 DEF AnswerInv, StopInv, RoundsInv, ShownInv, OneAnswer, StartsNothing
<1>5. CASE Retry
  <2>1. /\ pc = "backoff" /\ pc' = "completing"
        /\ UNCHANGED <<engine, outcome, iteration, total, seg, voices, aborted, stopped>>
    BY <1>5 DEF Retry, budget, reply, history
  <2> QED BY <2>1 DEF AnswerInv, StopInv, RoundsInv, ShownInv, OneAnswer, StartsNothing
<1>6. CASE NativeTool
  <2>1. /\ engine = "litert" /\ pc = "completing" /\ pc' \in {"native", "completing"} /\ ~ aborted
        /\ UNCHANGED <<engine, outcome, iteration, total, seg, voices, aborted, stopped>>
    BY <1>6 DEF NativeTool, budget, reply
  <2> QED BY <2>1 DEF AnswerInv, StopInv, RoundsInv, ShownInv, OneAnswer, StartsNothing
<1>7. CASE NativeToolDone
  <2>1. /\ pc = "native" /\ pc' = IF stopped THEN "lost" ELSE "completing"
        /\ UNCHANGED <<engine, outcome, iteration, total, seg, voices, aborted, stopped>>
    BY <1>7 DEF NativeToolDone, budget, reply, history
  <2>2. engine # "remote" /\ (aborted => stopped)
    BY <2>1 DEF AnswerInv, StopInv
  <2> QED BY <2>1, <2>2 DEF AnswerInv, StopInv, RoundsInv, ShownInv, OneAnswer, StartsNothing, Asks
<1>8. ASSUME NEW kind \in Texts, Token(kind)
      PROVE  AnswerInv' /\ StartsNothing
  <2>1. /\ pc = "completing" /\ ~ aborted /\ kind \notin streamed
        /\ seg' = seg \cup {kind} /\ streamed' = streamed \cup {kind}
        /\ voices' = IF kind = "content" THEN Max2(voices + 1) ELSE voices
        /\ UNCHANGED <<engine, pc, outcome, iteration, total, stage, aborted, stopped>>
    BY <1>8 DEF Token, budget, history
  <2>2. voices \in 0 .. 2  BY DEF TypeOK
  <2>3. StopInv' /\ RoundsInv' /\ OneAnswer'
    BY <2>1 DEF AnswerInv, StopInv, RoundsInv, OneAnswer
  <2>4. ASSUME ~ stopped, "content" \in seg' PROVE voices' >= 1
    BY <2>1, <2>2, <2>4 DEF AnswerInv, ShownInv, Max2
  <2>5. ASSUME ~ stopped, engine = "remote"
        PROVE  seg' \subseteq streamed' /\ voices' = IF "content" \in seg' THEN 1 ELSE 0
    BY <2>1, <2>5 DEF AnswerInv, ShownInv, Max2
  <2>6. ShownInv'  BY <2>1, <2>4, <2>5 DEF ShownInv
  <2> QED BY <2>1, <2>3, <2>6 DEF AnswerInv, StartsNothing
<1>9. ASSUME NEW k \in Upto(Len(prompt) - 1), NEW told \in BOOLEAN, Compacted(k, told)
      PROVE  AnswerInv' /\ StartsNothing
  <2>1. /\ pc = "compacting" /\ Round(iteration, total, 0)
        /\ UNCHANGED <<engine, total, aborted, stopped>>
    BY <1>9 DEF Compacted
  <2>2. /\ iteration \in Nat /\ total \in Nat /\ iteration <= total' /\ total < MaxTools
        /\ iteration < MaxTools
    BY <2>1 DEF TypeOK, Budgets, AnswerInv, RoundsInv
  <2>3. AnswerInv'  BY <2>1, <2>2, RoundShows
  <2>4. aborted => pc' = "done"  BY <2>1 DEF Round, LoopOver, Return
  <2> QED BY <2>3, <2>4 DEF StartsNothing, Asks
<1>10. CASE CompactedInVain
  <2>1. Return("failed") /\ UNCHANGED <<engine, aborted, stopped>>
    BY <1>10 DEF CompactedInVain, history
  <2>2. pc' = "done"  BY <2>1 DEF Return
  <2> QED BY <2>1, <2>2, EndsUnanswered DEF StartsNothing, Asks
<1>11. CASE Stop
  <2>1. /\ outcome = "running" /\ ~ stopped /\ aborted' = TRUE /\ stopped' = TRUE
        /\ pc' = CASE pc = "completing" /\ engine = "litert" -> "lost"
                   [] pc \in {"completing", "unread"} /\ engine = "remote" -> "cut"
                   [] OTHER -> pc
        /\ UNCHANGED <<engine, outcome, iteration, total, seg, stage>>
    BY <1>11 DEF Stop, budget, call
  <2>2. ~ aborted  BY <2>1 DEF AnswerInv, StopInv, TypeOK
  <2>3. pc' = pc \/ (pc = "completing" /\ pc' = "lost" /\ engine = "litert")
                 \/ (pc \in {"completing", "unread"} /\ pc' = "cut")
    BY <2>1
  <2>4. engine = "remote" => pc' \notin {"completing", "unread"}  BY <2>1
  <2>5. StopInv'
    BY <2>1, <2>3, <2>4 DEF AnswerInv, StopInv
  <2>6. RoundsInv' /\ ShownInv' /\ OneAnswer'
    BY <2>1, <2>3 DEF AnswerInv, RoundsInv, ShownInv, OneAnswer
  <2> QED BY <2>2, <2>5, <2>6 DEF AnswerInv, StartsNothing
<1>12. CASE ClearFlag
  <2>1. /\ aborted' = FALSE
        /\ UNCHANGED <<engine, pc, outcome, iteration, total, seg, voices, stage, withTools,
                       streamed, stopped>>
    BY <1>12 DEF ClearFlag, budget, reply, call
  <2> QED BY <2>1 DEF AnswerInv, StopInv, RoundsInv, ShownInv, OneAnswer, StartsNothing, Asks
<1>13. CASE LostRejects
  <2>1. /\ pc = "lost" /\ UNCHANGED <<engine, aborted, stopped, iteration, total>>
        /\ LimitAnswer \/ Return("failed")
    BY <1>13 DEF LostRejects, budget, history
  <2>2. iteration' <= total' /\ engine # "remote"
    BY <1>13, <2>1 DEF LostRejects, AnswerInv, StopInv, RoundsInv
  <2>3. AnswerInv'  BY <2>1, <2>2, LimitShows, EndsUnanswered
  <2>4. aborted => pc' = "done"  BY <2>1 DEF LimitAnswer, Return
  <2> QED BY <2>3, <2>4 DEF StartsNothing, Asks
<1> QED BY <1>1, <1>2, <1>3, <1>4, <1>5, <1>6, <1>7, <1>8, <1>9, <1>10, <1>11, <1>12, <1>13,
           ToolShows, CompletionShows
        DEF Next, Step, Compaction

LEMMA AnswerHolds == Spec => [](TypeOK /\ Budgets /\ AnswerInv)
<1>1. Init => TypeOK /\ Budgets /\ AnswerInv
  BY InitTypes, AnswerInit
<1>2. TypeOK /\ Budgets /\ AnswerInv /\ [Next]_vars => (TypeOK /\ Budgets /\ AnswerInv)'
  BY TypesInductive, AnswerInductive
<1> QED BY <1>1, <1>2, PTL DEF Spec

\* Whatever fails, is sent again, compacted or cut: a turn that reports an answer shows
\* one, a remote turn shows the text of one completion only, and no turn runs out of
\* rounds without an answer.
THEOREM AnswerShown == Spec => []OneAnswer
<1>1. AnswerInv => OneAnswer  BY DEF AnswerInv
<1> QED BY <1>1, AnswerHolds, PTL

\* A turn that is stopped starts no further completion while its flag stands, but for the
\* three awaits that do not look at it.
THEOREM StoppedStaysStopped == Spec => StopStartsNothing
<1>1. TypeOK /\ Budgets /\ AnswerInv /\ [Next]_vars => [StartsNothing]_vars
  BY AnswerInductive
<1>2. Spec => [][StartsNothing]_vars
  BY <1>1, AnswerHolds, PTL DEF Spec
<1> QED BY <1>2 DEF StopStartsNothing, StartsNothing
=============================================================================
