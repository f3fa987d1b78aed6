------------------------ MODULE ChatGenerationProofs ------------------------
(***************************************************************************)
(* Chat turns, for every set of turns, conversations and presses of stop:  *)
(* the variables stay in their ranges, and a queued message has something  *)
(* to take it, and llama.cpp runs one completion at a time until a start   *)
(* of a tool loop is refused.  With plain turns, the use of the streaming  *)
(* slot implements ReplySlot.                                              *)
(***************************************************************************)
EXTENDS ChatGeneration, FiniteSetTheorems, SequenceTheorems, TLAPS

Locals == [attempt : Nat, drains : Presses \cup {None}, steps : Nat, retries : Nat,
           routes : Int, compacted : BOOLEAN, bare : BOOLEAN,
           carries : SUBSET Turns, outcome : Outcomes]

\* What TypeOK says of the service, the store, the engine and the turns, and
\* the functions it leaves open.
ServiceOK ==
    /\ isGenerating \in BOOLEAN /\ abortRequested \in BOOLEAN
    /\ generationAttempt \in Nat /\ tokenBuffer \subseteq Turns
    /\ queue \in Seq(Turns) /\ timers \in Nat
StopOK ==
    /\ pendings \subseteq Presses /\ pendingStop \in Presses \cup {None}
    /\ stops \in [StopIds -> {"unused", "idle", "litert", "native"} \cup Turns]
StoreOK ==
    /\ stream \in [for : Convs \cup {None}, text : SUBSET Turns]
    /\ history \in [Convs -> Seq(Messages)]
    /\ session \in Convs \cup {None}
EngineOK ==
    /\ busy \in BOOLEAN /\ active \in Turns \cup {None}
    /\ native \subseteq Turns /\ interrupted \subseteq native
    /\ displaced \in BOOLEAN
    /\ boundTo \in Convs \cup {None}
TurnOK ==
    /\ drawing \in Turns \cup {None} /\ mounted \in BOOLEAN
    /\ pc \in [Turns -> Awaits] /\ turn \in [Turns -> Locals]
    /\ stopped \subseteq Turns

TypeInv == ServiceOK /\ StopOK /\ StoreOK /\ EngineOK /\ TurnOK

LEMMA TypeInvTypes == TypeInv => TypeOK
<1> SUFFICES ASSUME TypeInv PROVE TypeOK  OBVIOUS
<1>1. \A c \in Convs : \A i \in DOMAIN history[c] : history[c][i] \in Messages
  BY DEF TypeInv, StoreOK
<1>2. \A t \in Turns : turn[t].outcome \in Outcomes
  BY DEF TypeInv, TurnOK, Locals
<1> QED
  BY <1>1, <1>2 DEF TypeInv, ServiceOK, StopOK, StoreOK, EngineOK, TurnOK, TypeOK
-----------------------------------------------------------------------------
(* The shared helpers keep the types of what they write.                   *)

LEMMA AddMessageType ==
    ASSUME StoreOK, NEW c \in Convs, NEW role, NEW text, NEW status,
           [role |-> role, text |-> text, status |-> status] \in Messages,
           AddMessage(c, role, text, status)
    PROVE  history' \in [Convs -> Seq(Messages)]
<1> DEFINE m == [role |-> role, text |-> text, status |-> status]
<1>1. Append(history[c], m) \in Seq(Messages)
  BY DEF StoreOK
<1> QED BY <1>1 DEF StoreOK, AddMessage

LEMMA FinalizeType ==
    ASSUME StoreOK, tokenBuffer \subseteq Turns, NEW c \in Convs \cup {None},
           NEW status \in {"completed", "cancelled", "failed"}, Finalize(c, status)
    PROVE  /\ stream' \in [for : Convs \cup {None}, text : SUBSET Turns]
           /\ history' \in [Convs -> Seq(Messages)]
<1>1. stream' \in [for : Convs \cup {None}, text : SUBSET Turns]
  BY DEF Finalize, NoReply
<1>2. CASE c # None /\ AddMessage(c, "reply", Shown, status)
  <2>1. [role |-> "reply", text |-> Shown, status |-> status] \in Messages
    BY DEF Shown, StoreOK, Messages
  <2> QED BY <1>1, <1>2, <2>1, AddMessageType
<1>3. CASE UNCHANGED history
  BY <1>1, <1>3 DEF StoreOK
<1> QED BY <1>2, <1>3 DEF Finalize

LEMMA ResetStateType ==
    ASSUME ServiceOK, ResetState
    PROVE  isGenerating' \in BOOLEAN /\ tokenBuffer' \subseteq Turns /\ timers' \in Nat
<1>1. isGenerating' \in BOOLEAN /\ tokenBuffer' \subseteq Turns
  BY DEF ResetState
<1>2. timers \in Nat /\ timers' = (IF queue # <<>> THEN timers + 1 ELSE timers)
  BY DEF ServiceOK, ResetState
<1>3. timers' \in Nat
  <2>1. CASE queue = <<>>  BY <1>2, <2>1
  <2>2. CASE queue # <<>>  BY <1>2, <2>2
  <2> QED BY <2>1, <2>2
<1> QED BY <1>1, <1>3

\* A turn's locals, some of them changed.
Keeps(m, l) == m \in Locals /\ m.attempt = l.attempt /\ m.drains = l.drains /\ m.routes = l.routes
Takes(m, a, d) == m \in Locals /\ m.attempt = a /\ m.drains = d

LEMMA LocalsExcept ==
    ASSUME NEW l \in Locals
    PROVE  /\ \A o \in Outcomes : Keeps([l EXCEPT !.outcome = o], l)
           /\ Keeps([l EXCEPT !.compacted = TRUE], l)
           /\ \A s \in SUBSET Turns : Keeps([l EXCEPT !.carries = s], l)
           /\ Keeps([l EXCEPT !.steps = @ + 1, !.retries = 0], l)
           /\ Keeps([l EXCEPT !.bare = TRUE, !.retries = 0], l)
           /\ Keeps([l EXCEPT !.retries = @ + 1], l)
           /\ [l EXCEPT !.routes = @ - 1] \in Locals
           /\ [l EXCEPT !.routes = @ - 1].attempt = l.attempt
           /\ \A a \in Nat, d \in Presses \cup {None} :
                /\ Takes([l EXCEPT !.attempt = a, !.drains = d], a, d)
                /\ [l EXCEPT !.attempt = a, !.drains = d].routes = l.routes
                /\ Takes([l EXCEPT !.routes = @ - 1, !.drains = d, !.attempt = a], a, d)
<1>1. \A o \in Outcomes : Keeps([l EXCEPT !.outcome = o], l)  BY DEF Locals, Keeps
<1>2. Keeps([l EXCEPT !.compacted = TRUE], l)  BY DEF Locals, Keeps
<1>3. \A s \in SUBSET Turns : Keeps([l EXCEPT !.carries = s], l)  BY DEF Locals, Keeps
<1>4. Keeps([l EXCEPT !.steps = @ + 1, !.retries = 0], l)
  <2> DEFINE m == [l EXCEPT !.steps = @ + 1]
  <2>1. Keeps(m, l)  BY DEF Locals, Keeps
  <2> HIDE DEF m
  <2>2. Keeps([m EXCEPT !.retries = 0], l)  BY <2>1 DEF Locals, Keeps
  <2>3. [m EXCEPT !.retries = 0] = [l EXCEPT !.steps = @ + 1, !.retries = 0]  BY DEF m
  <2> QED BY <2>2, <2>3
<1>5. Keeps([l EXCEPT !.bare = TRUE, !.retries = 0], l)  BY DEF Locals, Keeps
<1>6. Keeps([l EXCEPT !.retries = @ + 1], l)  BY DEF Locals, Keeps
<1>7. /\ [l EXCEPT !.routes = @ - 1] \in Locals
      /\ [l EXCEPT !.routes = @ - 1].attempt = l.attempt
  BY DEF Locals
<1>8. ASSUME NEW a \in Nat, NEW d \in Presses \cup {None}
      PROVE  /\ Takes([l EXCEPT !.attempt = a, !.drains = d], a, d)
             /\ [l EXCEPT !.attempt = a, !.drains = d].routes = l.routes
             /\ Takes([l EXCEPT !.routes = @ - 1, !.drains = d, !.attempt = a], a, d)
  <2> DEFINE m == [l EXCEPT !.attempt = a]
             n == [l EXCEPT !.routes = @ - 1]
             o == [n EXCEPT !.drains = d]
  <2>1. m \in Locals /\ m.attempt = a /\ m.routes = l.routes  BY DEF Locals
  <2>2. n \in Locals  BY <1>7
  <2> HIDE DEF m, n
  <2>3. o \in Locals /\ o.drains = d  BY <2>2 DEF Locals
  <2>4. Takes([m EXCEPT !.drains = d], a, d) /\ [m EXCEPT !.drains = d].routes = l.routes
    BY <2>1 DEF Locals, Takes
  <2>5. [m EXCEPT !.drains = d] = [l EXCEPT !.attempt = a, !.drains = d]  BY DEF m
  <2>6. [o EXCEPT !.attempt = a] = [l EXCEPT !.routes = @ - 1, !.drains = d, !.attempt = a]
    BY DEF n
  <2> HIDE DEF o
  <2>7. Takes([o EXCEPT !.attempt = a], a, d)  BY <2>3 DEF Locals, Takes
  <2> QED BY <2>4, <2>5, <2>6, <2>7
<1> QED BY <1>1, <1>2, <1>3, <1>4, <1>5, <1>6, <1>7, <1>8

LEMMA FinishType ==
    ASSUME TurnOK, StoreOK, NEW t \in Turns, NEW outcome \in Outcomes, Finish(t, outcome)
    PROVE  /\ pc' \in [Turns -> Awaits] /\ turn' \in [Turns -> Locals]
           /\ session' \in Convs \cup {None}
<1>1. [turn[t] EXCEPT !.outcome = outcome] \in Locals
  BY LocalsExcept DEF TurnOK, Keeps
<1>2. turn' = [turn EXCEPT ![t] = [turn[t] EXCEPT !.outcome = outcome]]
  BY DEF Finish
<1>3. turn' \in [Turns -> Locals]
  BY <1>1, <1>2 DEF TurnOK
<1>4. pc' \in [Turns -> Awaits]
  BY DEF Finish, TurnOK, Awaits
<1> QED BY <1>3, <1>4 DEF Finish

LEMMA ReleaseType ==
    ASSUME StopOK, NEW t \in Turns, NEW mine \in {"idle", "litert", "native"}, Release(t, mine)
    PROVE  StopOK'
BY DEF StopOK, Release, StopIds, None

LEMMA EndRunType ==
    ASSUME StopOK, EngineOK, NEW t \in Turns, NEW mine \in {"idle", "litert", "native"},
           EndRun(t, mine), boundTo' = boundTo
    PROVE  StopOK' /\ EngineOK'
BY ReleaseType DEF EndRun, EngineOK

LEMMA StartRunType ==
    ASSUME EngineOK, NEW t \in Turns, StartRun(t), boundTo' \in Convs \cup {None}
    PROVE  EngineOK'
BY DEF EngineOK, StartRun

LEMMA QuitType ==
    ASSUME TypeInv, NEW t \in Turns, Quit(t), UNCHANGED <<screenVars, stopped>>
    PROVE  ServiceOK' /\ StoreOK' /\ TurnOK'
<1>1. "stopped" \in Outcomes  BY DEF Outcomes
<1>2. /\ pc' \in [Turns -> Awaits] /\ turn' \in [Turns -> Locals]
      /\ session' \in Convs \cup {None}
  BY <1>1, FinishType DEF TypeInv, Quit
<1> QED BY <1>2 DEF TypeInv, Quit, ServiceOK, StoreOK, TurnOK, svcVars, screenVars

LEMMA GiveUpType ==
    ASSUME TypeInv, NEW t \in Turns, GiveUp(t), UNCHANGED <<screenVars, stopped>>
    PROVE  ServiceOK' /\ StoreOK' /\ TurnOK'
<1>1. "failed" \in Outcomes  BY DEF Outcomes
<1>2. /\ pc' \in [Turns -> Awaits] /\ turn' \in [Turns -> Locals]
      /\ session' \in Convs \cup {None}
  BY <1>1, FinishType DEF TypeInv, GiveUp
<1>3. ServiceOK'
  BY ResetStateType DEF TypeInv, GiveUp, ServiceOK
<1>4. stream' \in [for : Convs \cup {None}, text : SUBSET Turns]
  BY DEF TypeInv, StoreOK, GiveUp, NoReply
<1>5. history' \in [Convs -> Seq(Messages)]
  <2> DEFINE a == IF isGenerating THEN Kept(t, "failed") ELSE <<>>
             b == <<[role |-> "reply", text |-> {}, status |-> "error"]>>
  <2>1. [role |-> "reply", text |-> Shown, status |-> "failed"] \in Messages
    BY DEF TypeInv, ServiceOK, StoreOK, Shown, Messages
  <2>2. [role |-> "reply", text |-> {}, status |-> "error"] \in Messages
    BY DEF Messages
  <2>3. a \in Seq(Messages)
    BY <2>1 DEF Kept
  <2>4. b \in Seq(Messages)
    BY <2>2
  <2>5. ConvOf[t] \in Convs
    BY TurnsAssumption
  <2>6. history[ConvOf[t]] \o a \o b \in Seq(Messages)
    BY <2>3, <2>4, <2>5 DEF TypeInv, StoreOK
  <2>7. history' = [history EXCEPT ![ConvOf[t]] = @ \o a \o b]
    BY DEF GiveUp
  <2> HIDE DEF a, b
  <2> QED BY <2>5, <2>6, <2>7 DEF TypeInv, StoreOK
<1> QED BY <1>2, <1>3, <1>4, <1>5 DEF TypeInv, StoreOK, TurnOK, screenVars

LEMMA FailType ==
    ASSUME TypeInv, NEW t \in Turns, Fail(t), UNCHANGED <<screenVars, stopped>>
    PROVE  ServiceOK' /\ StoreOK' /\ TurnOK'
<1>1. CASE Quit(t)  BY <1>1, QuitType
<1>2. CASE Goto(t, "fallback") /\ UNCHANGED <<svcVars, storeVars, turn>>
  BY <1>2 DEF TypeInv, ServiceOK, StoreOK, TurnOK, Goto, Awaits, svcVars, storeVars, screenVars
<1>3. CASE GiveUp(t)  BY <1>3, GiveUpType
<1> QED BY <1>1, <1>2, <1>3 DEF Fail

LEMMA CompactedType ==
    ASSUME TypeInv, NEW t \in Turns, Compacted(t), UNCHANGED <<screenVars, stopped>>
    PROVE  ServiceOK' /\ StoreOK' /\ TurnOK'
<1>1. CASE Quit(t)  BY <1>1, QuitType
<1>2. CASE Goto(t, "context") /\ UNCHANGED <<svcVars, storeVars, turn>>
  BY <1>2 DEF TypeInv, ServiceOK, StoreOK, TurnOK, Goto, Awaits, svcVars, storeVars, screenVars
<1> QED BY <1>1, <1>2 DEF Compacted

LEMMA StartToolRunType ==
    ASSUME TypeInv, NEW t \in Turns, StartToolRun(t), UNCHANGED stopVars,
           boundTo' \in Convs \cup {None}
    PROVE  EngineOK' /\ StopOK' /\ pc' \in [Turns -> Awaits]
<1>1. CASE StartRun(t) /\ Goto(t, "running") /\ UNCHANGED stops
  BY <1>1, StartRunType DEF TypeInv, EngineOK, StopOK, TurnOK, Goto, Awaits, stopVars
<1>2. CASE ~(StartRun(t) /\ Goto(t, "running") /\ UNCHANGED stops)
  BY <1>2 DEF StartToolRun, TypeInv, EngineOK, StopOK, TurnOK, Goto, Awaits, stopVars, StopIds
<1> QED BY <1>1, <1>2

\* The queue is taken whole, or left to the next screen.
LEMMA ProcessType ==
    ASSUME TurnOK, ServiceOK, NEW pcs \in [Turns -> Awaits], NEW turns \in [Turns -> Locals],
           ProcessNextInQueue(pcs, turns)
    PROVE  /\ queue' \in Seq(Turns) /\ pc' \in [Turns -> Awaits] /\ turn' \in [Turns -> Locals]
           /\ mounted => queue' = <<>>
           /\ ~mounted => queue' = queue
<1> DEFINE taken == IF mounted THEN {queue[i] : i \in DOMAIN queue} ELSE {}
           first == {t \in taken : t = Head(queue)}
<1>1. taken \subseteq Turns
  BY DEF ServiceOK
<1>2. /\ queue' = IF mounted THEN <<>> ELSE queue
      /\ pc' = [t \in Turns |-> IF t \in first THEN "routing"
                                ELSE IF t \in taken THEN "merged" ELSE pcs[t]]
      /\ turn' = [t \in Turns |-> IF t \in first THEN [turns[t] EXCEPT !.carries = taken]
                                  ELSE turns[t]]
  BY DEF ProcessNextInQueue
<1> HIDE DEF taken, first
<1>3. pc' \in [Turns -> Awaits]
  BY <1>2 DEF Awaits
<1>4. \A t \in Turns : [turns[t] EXCEPT !.carries = taken] \in Locals
  BY <1>1, LocalsExcept DEF Keeps
<1>5. turn' \in [Turns -> Locals]
  BY <1>2, <1>4
<1> QED BY <1>2, <1>3, <1>5 DEF ServiceOK
-----------------------------------------------------------------------------
(* Every step keeps the types.                                             *)

LEMMA SendType ==
    ASSUME TypeInv, NEW t \in Turns, Send(t) \/ Admit(t)
    PROVE  TypeInv'
<1>1. CASE Send(t)
  <2>1. [turn[t] EXCEPT !.carries = {t}] \in Locals
    BY LocalsExcept DEF TypeInv, TurnOK, Keeps
  <2>2. turn' = [turn EXCEPT ![t] = [turn[t] EXCEPT !.carries = {t}]]
    BY <1>1 DEF Send
  <2>3. turn' \in [Turns -> Locals]
    BY <2>1, <2>2 DEF TypeInv, TurnOK
  <2>4. pc' \in [Turns -> Awaits]
    BY <1>1 DEF Send, Goto, TypeInv, TurnOK, Awaits
  <2> QED
    BY <1>1, <2>3, <2>4 DEF Send, TypeInv, ServiceOK, StopOK, StoreOK, EngineOK, TurnOK,
       svcVars, storeVars, engineVars, runVars, stopVars, screenVars
<1>2. CASE Admit(t)
  <2>1. queue' \in Seq(Turns) /\ pc' \in [Turns -> Awaits]
    <3>1. CASE isGenerating \/ drawing # None
      BY <1>2, <3>1 DEF Admit, Goto, TypeInv, TurnOK, ServiceOK, Awaits
    <3>2. CASE ~(isGenerating \/ drawing # None)
      BY <1>2, <3>2 DEF Admit, Goto, TypeInv, TurnOK, ServiceOK, Awaits
    <3> QED BY <3>1, <3>2
  <2> QED
    BY <1>2, <2>1 DEF Admit, TypeInv, ServiceOK, StopOK, StoreOK, EngineOK, TurnOK,
       storeVars, engineVars, runVars, stopVars, screenVars
<1> QED BY <1>1, <1>2

LEMMA DrainTimerType ==
    ASSUME TypeInv, DrainTimer
    PROVE  TypeInv'
<1>1. queue' \in Seq(Turns) /\ pc' \in [Turns -> Awaits] /\ turn' \in [Turns -> Locals]
  BY ProcessType DEF DrainTimer, TypeInv, TurnOK
<1>2. timers' \in Nat
  BY DEF DrainTimer, TypeInv, ServiceOK
<1> QED
  BY <1>1, <1>2 DEF DrainTimer, TypeInv, ServiceOK, StopOK, StoreOK, EngineOK, TurnOK,
     storeVars, engineVars, runVars, stopVars, screenVars

LEMMA RouteType ==
    ASSUME TypeInv, NEW t \in Turns, RouteText(t) \/ RouteImage(t)
    PROVE  TypeInv'
<1>1. ConvOf[t] \in Convs
  BY TurnsAssumption
<1>2. [role |-> "user", text |-> turn[t].carries, status |-> "sent"] \in Messages
  BY DEF TypeInv, TurnOK, Locals, Messages
<1>3. history' \in [Convs -> Seq(Messages)]
  BY <1>1, <1>2, AddMessageType DEF RouteText, RouteImage, TypeInv
<1>4. pc' \in [Turns -> Awaits] /\ drawing' \in Turns \cup {None}
  BY DEF RouteText, RouteImage, Goto, TypeInv, TurnOK, Awaits, screenVars
<1>5. session' \in Convs \cup {None}
  BY <1>1 DEF RouteText, RouteImage, TypeInv, StoreOK
<1>6. UNCHANGED <<svcVars, stream, engineVars, mounted, turn, stopped>>
  BY DEF RouteText, RouteImage, screenVars
<1> QED
  BY <1>3, <1>4, <1>5, <1>6 DEF TypeInv, ServiceOK, StopOK, StoreOK, EngineOK, TurnOK,
     svcVars, engineVars, runVars, stopVars

LEMMA ImageDoneType ==
    ASSUME TypeInv, NEW t \in Turns, ImageDone(t)
    PROVE  TypeInv'
<1> DEFINE o == IF drawing = t THEN "answered" ELSE "refused"
           pcs == [pc EXCEPT ![t] = "done"]
           turns == [turn EXCEPT ![t].outcome = o]
<1>1. pcs \in [Turns -> Awaits]
  BY DEF TypeInv, TurnOK, Awaits
<1>2. turns \in [Turns -> Locals]
  <2>1. o \in Outcomes  BY DEF Outcomes
  <2>2. [turn[t] EXCEPT !.outcome = o] \in Locals
    BY <2>1, LocalsExcept DEF TypeInv, TurnOK, Keeps
  <2>3. turns = [turn EXCEPT ![t] = [turn[t] EXCEPT !.outcome = o]]
    OBVIOUS
  <2> QED BY <2>2, <2>3 DEF TypeInv, TurnOK
<1>3. IF isGenerating THEN pc' = pcs /\ turn' = turns /\ UNCHANGED queue
                      ELSE ProcessNextInQueue(pcs, turns)
  BY DEF ImageDone
<1> HIDE DEF pcs, turns
<1>4. queue' \in Seq(Turns) /\ pc' \in [Turns -> Awaits] /\ turn' \in [Turns -> Locals]
  BY <1>1, <1>2, <1>3, ProcessType DEF TypeInv, ServiceOK
<1>5. drawing' \in Turns \cup {None}
  BY DEF ImageDone, TypeInv, TurnOK
<1> QED
  BY <1>4, <1>5 DEF ImageDone, TypeInv, ServiceOK, StopOK, StoreOK, EngineOK, TurnOK,
     storeVars, engineVars, runVars, stopVars

LEMMA ReadyType ==
    ASSUME TypeInv, NEW t \in Turns, Ready(t) \/ LongChat(t) \/ EnginesStopped(t)
    PROVE  TypeInv'
<1>1. /\ pc' \in [Turns -> Awaits] /\ turn' \in [Turns -> Locals]
      /\ session' \in Convs \cup {None}
  <2>1. CASE Finish(t, "failed")
    BY <2>1, FinishType DEF TypeInv, Outcomes
  <2>2. CASE \E at \in {"context", "summary"} : Goto(t, at) /\ UNCHANGED <<turn, session>>
    BY <2>2 DEF Goto, TypeInv, TurnOK, StoreOK, Awaits
  <2> QED
    BY <2>1, <2>2 DEF Ready, LongChat, EnginesStopped, storeVars
<1>2. UNCHANGED <<svcVars, stream, history, engineVars, screenVars, stopped>>
  BY DEF Ready, LongChat, EnginesStopped, storeVars
<1> QED
  BY <1>1, <1>2 DEF TypeInv, ServiceOK, StopOK, StoreOK, EngineOK, TurnOK,
     svcVars, engineVars, runVars, stopVars, screenVars

LEMMA ClaimType ==
    ASSUME TypeInv, NEW t \in Turns, Claim(t)
    PROVE  TypeInv'
<1>1. CASE Finish(t, "refused") /\ UNCHANGED <<isGenerating, generationAttempt, stream>>
  <2>1. /\ pc' \in [Turns -> Awaits] /\ turn' \in [Turns -> Locals]
        /\ session' \in Convs \cup {None}
    BY <1>1, FinishType DEF TypeInv, Outcomes
  <2> QED
    BY <1>1, <2>1 DEF Claim, TypeInv, ServiceOK, StopOK, StoreOK, EngineOK, TurnOK,
       engineVars, runVars, stopVars, screenVars
<1>2. CASE TakeSlot(t) /\ UNCHANGED session
  <2> DEFINE l == [turn[t] EXCEPT !.attempt = generationAttempt + 1, !.drains = pendingStop]
  <2>0. turn[t] \in Locals /\ generationAttempt + 1 \in Nat /\ pendingStop \in Presses \cup {None}
    BY DEF TypeInv, TurnOK, ServiceOK, StopOK
  <2>1. l \in Locals
    BY <2>0, LocalsExcept DEF Takes
  <2>2. turn' = [turn EXCEPT ![t] = l]
    BY <1>2 DEF TakeSlot
  <2> HIDE DEF l
  <2>3. turn' \in [Turns -> Locals]
    BY <2>1, <2>2 DEF TypeInv, TurnOK
  <2>4. pc' \in [Turns -> Awaits]
    BY <1>2 DEF TakeSlot, Goto, TypeInv, TurnOK, Awaits
  <2>5. stream' \in [for : Convs \cup {None}, text : SUBSET Turns]
    BY <1>2, TurnsAssumption DEF TakeSlot
  <2>6. isGenerating' \in BOOLEAN /\ generationAttempt' \in Nat
    BY <1>2 DEF TakeSlot, TypeInv, ServiceOK
  <2> QED
    BY <1>2, <2>3, <2>4, <2>5, <2>6 DEF Claim, TypeInv, ServiceOK, StopOK, StoreOK, EngineOK,
       TurnOK, engineVars, runVars, stopVars, screenVars
<1> QED BY <1>1, <1>2 DEF Claim

LEMMA PrepareFailsType ==
    ASSUME TypeInv, NEW t \in Turns, PrepareFails(t), UNCHANGED <<screenVars, stopped>>
    PROVE  ServiceOK' /\ StoreOK' /\ TurnOK'
<1>1. CASE ~Mine(t)
  BY <1>1, QuitType DEF PrepareFails
<1>2. CASE Mine(t)
  <2>1. ResetState /\ stream' = NoReply /\ UNCHANGED <<abortRequested, generationAttempt, queue>>
    BY <1>2 DEF PrepareFails
  <2>2. ServiceOK'
    BY <2>1, ResetStateType DEF TypeInv, ServiceOK
  <2>3. stream' \in [for : Convs \cup {None}, text : SUBSET Turns]
    BY <2>1 DEF NoReply
  <2>4. CASE Goto(t, "fallback") /\ UNCHANGED <<turn, session, history>>
    BY <2>2, <2>3, <2>4 DEF TypeInv, StoreOK, TurnOK, Goto, Awaits, screenVars
  <2>5. CASE AddMessage(ConvOf[t], "reply", {}, "error") /\ Finish(t, "failed")
    <3>1. [role |-> "reply", text |-> {}, status |-> "error"] \in Messages /\ "failed" \in Outcomes
      BY DEF Messages, Outcomes
    <3>2. history' \in [Convs -> Seq(Messages)]
      BY <2>5, <3>1, AddMessageType, TurnsAssumption DEF TypeInv
    <3>3. /\ pc' \in [Turns -> Awaits] /\ turn' \in [Turns -> Locals]
          /\ session' \in Convs \cup {None}
      BY <2>5, <3>1, FinishType DEF TypeInv
    <3> QED BY <2>2, <2>3, <3>2, <3>3 DEF TypeInv, StoreOK, TurnOK, screenVars
  <2> QED BY <1>2, <2>4, <2>5 DEF PrepareFails
<1> QED BY <1>1, <1>2

LEMMA DrainedType ==
    ASSUME TypeInv, NEW t \in Turns, Drained(t)
    PROVE  TypeInv'
<1>1. ServiceOK' /\ StoreOK' /\ TurnOK'
  <2>1. CASE Quit(t)
    BY <2>1, QuitType DEF Drained
  <2>2. CASE /\ abortRequested' = FALSE /\ Goto(t, "idling")
             /\ UNCHANGED <<isGenerating, generationAttempt, tokenBuffer, queue, timers,
                            storeVars, turn>>
    BY <2>2 DEF Drained, TypeInv, ServiceOK, StoreOK, TurnOK, Goto, Awaits, storeVars, screenVars
  <2> QED BY <2>1, <2>2 DEF Drained
<1> QED
  BY <1>1 DEF Drained, TypeInv, StopOK, EngineOK, engineVars, runVars, stopVars

LEMMA BeginType ==
    ASSUME TypeInv, NEW t \in Turns, Begin(t), UNCHANGED <<screenVars, stopped>>,
           boundTo' \in Convs \cup {None}
    PROVE  TypeInv'
<1>1. CASE /\ StartToolRun(t) /\ tokenBuffer' = {} /\ UNCHANGED stopVars
           /\ UNCHANGED <<isGenerating, abortRequested, generationAttempt, queue, timers,
                          storeVars, turn>>
  <2>1. EngineOK' /\ StopOK' /\ pc' \in [Turns -> Awaits]
    BY <1>1, StartToolRunType
  <2> QED
    BY <1>1, <2>1 DEF TypeInv, ServiceOK, StoreOK, TurnOK, storeVars, screenVars
<1>2. CASE Fail(t) /\ UNCHANGED <<runVars, stops, stopVars>>
  <2>1. ServiceOK' /\ StoreOK' /\ TurnOK'
    BY <1>2, FailType
  <2> QED BY <1>2, <2>1 DEF TypeInv, StopOK, EngineOK, runVars, stopVars
<1> QED BY <1>1, <1>2 DEF Begin

LEMMA IdleType ==
    ASSUME TypeInv, NEW t \in Turns, Idle(t) \/ Cleared(t)
    PROVE  TypeInv'
<1>1. boundTo' \in Convs \cup {None} /\ UNCHANGED <<screenVars, stopped>>
  BY TurnsAssumption DEF Idle, Cleared, TypeInv, EngineOK
<1>2. CASE Begin(t)
  BY <1>1, <1>2, BeginType
<1>3. CASE Quit(t) /\ UNCHANGED <<runVars, stops, stopVars>>
  <2>1. ServiceOK' /\ StoreOK' /\ TurnOK'
    BY <1>1, <1>3, QuitType
  <2> QED BY <1>1, <1>3, <2>1 DEF TypeInv, StopOK, EngineOK, runVars, stopVars
<1>4. CASE /\ Goto(t, "clearing") /\ UNCHANGED <<svcVars, storeVars, turn>>
           /\ UNCHANGED <<runVars, stops, stopVars>>
  BY <1>1, <1>4 DEF TypeInv, ServiceOK, StopOK, StoreOK, EngineOK, TurnOK, Goto, Awaits,
     svcVars, storeVars, runVars, stopVars, screenVars
<1> QED BY <1>2, <1>3, <1>4 DEF Idle, Cleared

LEMMA NotReadyType ==
    ASSUME TypeInv, NEW t \in Turns, NotReady(t)
    PROVE  TypeInv'
<1>1. ServiceOK' /\ StoreOK' /\ TurnOK'
  BY PrepareFailsType DEF NotReady
<1> QED
  BY <1>1 DEF NotReady, TypeInv, StopOK, EngineOK, engineVars, runVars, stopVars

LEMMA TokenType ==
    ASSUME TypeInv, (\E t \in Turns : Token(t)) \/ Flush \/ Leave \/ SwitchChat
    PROVE  TypeInv'
<1>1. CASE \E t \in Turns : Token(t)
  BY <1>1 DEF Token, TypeInv, ServiceOK, StopOK, StoreOK, EngineOK, TurnOK,
     storeVars, engineVars, runVars, stopVars, screenVars, turnVars
<1>2. CASE Flush
  <2>1. Shown \subseteq Turns
    BY DEF Shown, TypeInv, ServiceOK, StoreOK
  <2>2. stream' \in [for : Convs \cup {None}, text : SUBSET Turns]
    BY <1>2, <2>1 DEF Flush, TypeInv, StoreOK
  <2> QED
    BY <1>2, <2>2 DEF Flush, TypeInv, ServiceOK, StopOK, StoreOK, EngineOK, TurnOK,
       engineVars, runVars, stopVars, screenVars, turnVars
<1>3. CASE Leave
  BY <1>3 DEF Leave, TypeInv, ServiceOK, StopOK, StoreOK, EngineOK, TurnOK,
     svcVars, storeVars, engineVars, runVars, stopVars, turnVars
<1>4. CASE SwitchChat
  BY <1>4 DEF SwitchChat, TypeInv, ServiceOK, StopOK, StoreOK, EngineOK, TurnOK,
     svcVars, engineVars, runVars, stopVars, screenVars, turnVars
<1> QED BY <1>1, <1>2, <1>3, <1>4

LEMMA PlainEndsType ==
    ASSUME TypeInv, NEW t \in Turns, PlainEnds(t)
    PROVE  TypeInv'
<1>1. StopOK' /\ EngineOK'
  BY EndRunType DEF PlainEnds, TypeInv
<1>2. CASE Quit(t)
  BY <1>1, <1>2, QuitType DEF PlainEnds, TypeInv
<1>3. CASE Complete(t, "answered")
  <2>1. /\ stream' \in [for : Convs \cup {None}, text : SUBSET Turns]
        /\ history' \in [Convs -> Seq(Messages)]
    BY <1>3, FinalizeType, TurnsAssumption DEF Complete, TypeInv, ServiceOK
  <2>2. ServiceOK'
    BY <1>3, ResetStateType DEF Complete, TypeInv, ServiceOK
  <2>3. /\ pc' \in [Turns -> Awaits] /\ turn' \in [Turns -> Locals]
        /\ session' \in Convs \cup {None}
    BY <1>3, FinishType DEF Complete, TypeInv, Outcomes
  <2> QED BY <1>1, <2>1, <2>2, <2>3 DEF PlainEnds, TypeInv, StoreOK, TurnOK, screenVars
<1> QED BY <1>2, <1>3 DEF PlainEnds

LEMMA ToolTurnEndsType ==
    ASSUME TypeInv, NEW t \in Turns, ToolTurnEnds(t)
    PROVE  TypeInv'
<1>1. StopOK' /\ EngineOK'
  BY EndRunType DEF ToolTurnEnds, TypeInv
<1>2. PICK streamed \in BOOLEAN :
        LET over == ~turn[t].bare /\ (t \in interrupted \/ abortRequested)
            said == IF over \/ streamed THEN stream
                    ELSE [stream EXCEPT !.text = @ \cup {t}]
        IN IF abortRequested
           THEN stream' = said /\ Finish(t, "stopped") /\ UNCHANGED <<svcVars, history>>
           ELSE /\ IF stream.for = ConvOf[t] /\ said.text \cup tokenBuffer # {}
                   THEN AddMessage(ConvOf[t], "reply", said.text \cup tokenBuffer, "completed")
                   ELSE UNCHANGED history
                /\ stream' = NoReply /\ ResetState
                /\ Finish(t, IF over THEN "stopped" ELSE "answered")
                /\ UNCHANGED <<abortRequested, generationAttempt, queue>>
  BY DEF ToolTurnEnds
<1> DEFINE over == ~turn[t].bare /\ (t \in interrupted \/ abortRequested)
           said == IF over \/ streamed THEN stream ELSE [stream EXCEPT !.text = @ \cup {t}]
           outcome == IF over THEN "stopped" ELSE "answered"
<1>3. said \in [for : Convs \cup {None}, text : SUBSET Turns]
  BY DEF TypeInv, StoreOK
<1>4. outcome \in Outcomes /\ "stopped" \in Outcomes
  BY DEF Outcomes
<1> HIDE DEF over
<1>5. CASE abortRequested
  <2>1. stream' = said /\ Finish(t, "stopped") /\ UNCHANGED <<svcVars, history>>
    BY <1>2, <1>5 DEF over
  <2> HIDE DEF said, outcome
  <2>2. /\ pc' \in [Turns -> Awaits] /\ turn' \in [Turns -> Locals]
        /\ session' \in Convs \cup {None}
    BY <2>1, <1>4, FinishType DEF TypeInv
  <2> QED
    BY <1>1, <1>3, <2>1, <2>2 DEF ToolTurnEnds, TypeInv, ServiceOK, StoreOK, TurnOK, svcVars,
       screenVars
<1>6. CASE ~abortRequested
  <2>1. /\ IF stream.for = ConvOf[t] /\ said.text \cup tokenBuffer # {}
           THEN AddMessage(ConvOf[t], "reply", said.text \cup tokenBuffer, "completed")
           ELSE UNCHANGED history
        /\ stream' = NoReply /\ ResetState
        /\ Finish(t, outcome)
        /\ UNCHANGED <<abortRequested, generationAttempt, queue>>
    BY <1>2, <1>6 DEF over
  <2> HIDE DEF said, outcome
  <2>2. [role |-> "reply", text |-> said.text \cup tokenBuffer, status |-> "completed"] \in Messages
    BY <1>3 DEF TypeInv, ServiceOK, Messages
  <2>3. history' \in [Convs -> Seq(Messages)]
    <3>1. CASE AddMessage(ConvOf[t], "reply", said.text \cup tokenBuffer, "completed")
      BY <2>2, <3>1, AddMessageType, TurnsAssumption DEF TypeInv
    <3>2. CASE UNCHANGED history
      BY <3>2 DEF TypeInv, StoreOK
    <3> QED BY <2>1, <3>1, <3>2
  <2>4. ServiceOK'
    BY <2>1, ResetStateType DEF TypeInv, ServiceOK
  <2>5. stream' \in [for : Convs \cup {None}, text : SUBSET Turns]
    BY <2>1 DEF NoReply
  <2>6. /\ pc' \in [Turns -> Awaits] /\ turn' \in [Turns -> Locals]
        /\ session' \in Convs \cup {None}
    BY <2>1, <1>4, FinishType DEF TypeInv
  <2> QED
    BY <1>1, <2>3, <2>4, <2>5, <2>6 DEF ToolTurnEnds, TypeInv, StoreOK, TurnOK, screenVars
<1> QED BY <1>5, <1>6

LEMMA ToolCallsType ==
    ASSUME TypeInv, NEW t \in Turns, ToolCalls(t)
    PROVE  TypeInv'
<1>1. StopOK' /\ EngineOK'
  BY EndRunType DEF ToolCalls, TypeInv
<1>2. [role |-> "reply", text |-> {t}, status |-> "calls"] \in Messages
  BY DEF Messages
<1>3. history' \in [Convs -> Seq(Messages)]
  BY <1>2, AddMessageType, TurnsAssumption DEF ToolCalls, TypeInv
<1>4. stream' \in [for : Convs \cup {None}, text : SUBSET Turns]
  BY DEF ToolCalls, TypeInv, StoreOK
<1> DEFINE l == [turn[t] EXCEPT !.steps = @ + 1, !.retries = 0]
<1>5. l \in Locals
  BY LocalsExcept DEF TypeInv, TurnOK, Keeps
<1>6. turn' = [turn EXCEPT ![t] = l]
  BY DEF ToolCalls
<1> HIDE DEF l
<1>7. turn' \in [Turns -> Locals]
  BY <1>5, <1>6 DEF TypeInv, TurnOK
<1>8. pc' \in [Turns -> Awaits]
  BY DEF ToolCalls, Goto, TypeInv, TurnOK, Awaits
<1> QED
  BY <1>1, <1>3, <1>4, <1>7, <1>8 DEF ToolCalls, TypeInv, ServiceOK, StoreOK, TurnOK, screenVars

LEMMA EmptyAnswerType ==
    ASSUME TypeInv, NEW t \in Turns, EmptyAnswer(t)
    PROVE  TypeInv'
<1>1. StopOK'
  BY ReleaseType DEF EmptyAnswer, TypeInv
<1>2. EngineOK'
  BY DEF EmptyAnswer, TypeInv, EngineOK
<1> DEFINE l == [turn[t] EXCEPT !.bare = TRUE, !.retries = 0]
<1>3. l \in Locals
  BY LocalsExcept DEF TypeInv, TurnOK, Keeps
<1>4. turn' = [turn EXCEPT ![t] = l]
  BY DEF EmptyAnswer
<1> HIDE DEF l
<1>5. turn' \in [Turns -> Locals]
  BY <1>3, <1>4 DEF TypeInv, TurnOK
<1> QED
  BY <1>1, <1>2, <1>5 DEF EmptyAnswer, TypeInv, ServiceOK, StoreOK, TurnOK, svcVars, storeVars,
     screenVars

LEMMA ToolsDoneType ==
    ASSUME TypeInv, NEW t \in Turns, ToolsDone(t)
    PROVE  TypeInv'
<1>1. CASE Quit(t) /\ UNCHANGED <<runVars, stops>>
  <2>1. ServiceOK' /\ StoreOK' /\ TurnOK'
    BY <1>1, QuitType DEF ToolsDone
  <2> QED
    BY <1>1, <2>1 DEF ToolsDone, TypeInv, StopOK, EngineOK, runVars, stopVars
<1>2. CASE StartToolRun(t) /\ UNCHANGED <<svcVars, storeVars, turn>>
  <2>1. EngineOK' /\ StopOK' /\ pc' \in [Turns -> Awaits]
    BY <1>2, StartToolRunType DEF ToolsDone, TypeInv, EngineOK
  <2> QED
    BY <1>2, <2>1 DEF ToolsDone, TypeInv, ServiceOK, StoreOK, TurnOK, svcVars, storeVars, screenVars
<1> QED BY <1>1, <1>2 DEF ToolsDone

LEMMA RetryType ==
    ASSUME TypeInv, NEW t \in Turns, Retry(t)
    PROVE  TypeInv'
<1>1. CASE /\ turn' = [turn EXCEPT ![t].retries = @ + 1]
           /\ StartToolRun(t) /\ UNCHANGED <<svcVars, storeVars>>
  <2>1. EngineOK' /\ StopOK' /\ pc' \in [Turns -> Awaits]
    BY <1>1, StartToolRunType DEF Retry, TypeInv, EngineOK
  <2> DEFINE l == [turn[t] EXCEPT !.retries = @ + 1]
  <2>2. l \in Locals
    BY LocalsExcept DEF TypeInv, TurnOK, Keeps
  <2>3. turn' = [turn EXCEPT ![t] = l]
    BY <1>1
  <2> HIDE DEF l
  <2>4. turn' \in [Turns -> Locals]
    BY <2>2, <2>3 DEF TypeInv, TurnOK
  <2> QED
    BY <1>1, <2>1, <2>4 DEF Retry, TypeInv, ServiceOK, StoreOK, TurnOK, svcVars, storeVars,
       screenVars
<1>2. CASE Fail(t) /\ UNCHANGED <<runVars, stops>>
  <2>1. ServiceOK' /\ StoreOK' /\ TurnOK'
    BY <1>2, FailType DEF Retry
  <2> QED
    BY <1>2, <2>1 DEF Retry, TypeInv, StopOK, EngineOK, runVars, stopVars
<1> QED BY <1>1, <1>2 DEF Retry

LEMMA RunFailsType ==
    ASSUME TypeInv, NEW t \in Turns, RunFails(t)
    PROVE  TypeInv'
<1>1. CASE EndRun(t, "native") /\ Goto(t, "backoff") /\ UNCHANGED <<svcVars, storeVars, turn>>
  <2>1. StopOK' /\ EngineOK'
    BY <1>1, EndRunType DEF RunFails, TypeInv
  <2> QED
    BY <1>1, <2>1 DEF RunFails, TypeInv, ServiceOK, StoreOK, TurnOK, Goto, Awaits, svcVars,
       storeVars, screenVars
<1>2. CASE EndRun(t, "idle") /\ Fail(t)
  <2>1. StopOK' /\ EngineOK'
    BY <1>2, EndRunType DEF RunFails, TypeInv
  <2> QED BY <1>2, <2>1, FailType DEF RunFails, TypeInv
<1> QED BY <1>1, <1>2 DEF RunFails

LEMMA ContextFullType ==
    ASSUME TypeInv, NEW t \in Turns, ContextFull(t)
    PROVE  TypeInv'
<1>1. StopOK' /\ EngineOK'
  BY EndRunType DEF ContextFull, TypeInv
<1>2. CASE Quit(t)
  BY <1>1, <1>2, QuitType DEF ContextFull, TypeInv
<1>3. CASE /\ Finalize(ConvOf[t], "failed") /\ ResetState
           /\ UNCHANGED <<abortRequested, generationAttempt, queue>>
           /\ ~abortRequested
  <2>1. /\ stream' \in [for : Convs \cup {None}, text : SUBSET Turns]
        /\ history' \in [Convs -> Seq(Messages)]
    BY <1>3, FinalizeType, TurnsAssumption DEF TypeInv, ServiceOK
  <2>2. ServiceOK'
    BY <1>3, ResetStateType DEF TypeInv, ServiceOK
  <2>3. /\ pc' \in [Turns -> Awaits] /\ turn' \in [Turns -> Locals]
        /\ session' \in Convs \cup {None}
    <3>1. CASE Finish(t, "failed")
      BY <3>1, FinishType DEF TypeInv, Outcomes
    <3>2. CASE /\ turn' = [turn EXCEPT ![t].compacted = TRUE]
               /\ Goto(t, "stopping") /\ UNCHANGED session
      <4> DEFINE l == [turn[t] EXCEPT !.compacted = TRUE]
      <4>1. l \in Locals
        BY LocalsExcept DEF TypeInv, TurnOK, Keeps
      <4>2. turn' = [turn EXCEPT ![t] = l]
        BY <3>2
      <4> HIDE DEF l
      <4> QED BY <3>2, <4>1, <4>2 DEF TypeInv, TurnOK, StoreOK, Goto, Awaits
    <3> QED BY <1>3, <3>1, <3>2 DEF ContextFull
  <2> QED BY <1>1, <2>1, <2>2, <2>3 DEF ContextFull, TypeInv, StoreOK, TurnOK, screenVars
<1> QED BY <1>2, <1>3 DEF ContextFull

LEMMA SummarizeType ==
    ASSUME TypeInv, NEW t \in Turns, Summarize(t) \/ Summarized(t)
    PROVE  TypeInv'
<1>1. CASE Summarized(t)
  <2>1. StopOK' /\ EngineOK'
    BY <1>1, EndRunType DEF Summarized, TypeInv
  <2> QED BY <1>1, <2>1, CompactedType DEF Summarized, TypeInv
<1>2. CASE Summarize(t) /\ Compacted(t) /\ UNCHANGED runVars
  <2>1. ServiceOK' /\ StoreOK' /\ TurnOK'
    BY <1>2, CompactedType DEF Summarize
  <2> QED BY <1>2, <2>1 DEF Summarize, TypeInv, StopOK, EngineOK, runVars, stopVars
<1>3. CASE Summarize(t) /\ StartRun(t) /\ Goto(t, "summarizing") /\ UNCHANGED <<svcVars, storeVars, turn>>
  <2>1. EngineOK'
    BY <1>3, StartRunType DEF Summarize, TypeInv, EngineOK
  <2> QED
    BY <1>3, <2>1 DEF Summarize, TypeInv, ServiceOK, StopOK, StoreOK, TurnOK, Goto, Awaits,
       svcVars, stopVars, storeVars, screenVars
<1> QED BY <1>1, <1>2, <1>3 DEF Summarize

LEMMA FallbackType ==
    ASSUME TypeInv, NEW t \in Turns, Fallback(t)
    PROVE  TypeInv'
<1>1. StopOK' /\ EngineOK'
  BY DEF Fallback, TypeInv, StopOK, EngineOK, runVars, stopVars
<1>2. CASE Quit(t)
  BY <1>1, <1>2, QuitType DEF Fallback, TypeInv
<1>3. CASE Goto(t, "rebinding") /\ UNCHANGED <<svcVars, storeVars, turn>>
  BY <1>1, <1>3 DEF Fallback, TypeInv, ServiceOK, StoreOK, TurnOK, Goto, Awaits, svcVars,
     storeVars, screenVars
<1> QED BY <1>2, <1>3 DEF Fallback

LEMMA ReboundType ==
    ASSUME TypeInv, NEW t \in Turns, Rebound(t)
    PROVE  TypeInv'
<1>1. boundTo' \in Convs \cup {None}
  BY TurnsAssumption DEF Rebound
<1>2. ASSUME UNCHANGED <<runVars, stops>> PROVE StopOK' /\ EngineOK'
  BY <1>1, <1>2 DEF Rebound, TypeInv, StopOK, EngineOK, runVars, stopVars
<1>3. CASE abortRequested
  <2>1. Quit(t) /\ UNCHANGED <<runVars, stops>>
    BY <1>3 DEF Rebound
  <2>2. ServiceOK' /\ StoreOK' /\ TurnOK'
    BY <2>1, QuitType DEF Rebound
  <2> QED BY <1>2, <2>1, <2>2 DEF TypeInv
<1>4. CASE ~abortRequested
  <2>1. [role |-> "notice", text |-> {}, status |-> "sent"] \in Messages
    BY DEF Messages
  <2>2. history' \in [Convs -> Seq(Messages)]
    BY <1>4, <2>1, AddMessageType, TurnsAssumption DEF Rebound, TypeInv
  <2>3. tokenBuffer' = {} /\ UNCHANGED <<abortRequested, queue, timers, session>>
    BY <1>4 DEF Rebound
  <2>4. CASE isGenerating
    <3>1. /\ stream' = [stream EXCEPT !.text = {}]
          /\ turn' = [turn EXCEPT ![t].routes = @ - 1]
          /\ UNCHANGED <<isGenerating, generationAttempt>>
      BY <1>4, <2>4 DEF Rebound
    <3>2. EngineOK' /\ StopOK' /\ pc' \in [Turns -> Awaits]
      <4>1. CASE StartToolRun(t)
        BY <1>1, <4>1, StartToolRunType DEF Rebound
      <4>2. CASE Goto(t, "fallback") /\ UNCHANGED <<runVars, stops>>
        BY <1>2, <4>2 DEF TypeInv, TurnOK, Goto, Awaits
      <4> QED BY <1>4, <2>4, <4>1, <4>2 DEF Rebound
    <3> DEFINE l == [turn[t] EXCEPT !.routes = @ - 1]
    <3>3. l \in Locals
      BY LocalsExcept DEF TypeInv, TurnOK
    <3>4. turn' = [turn EXCEPT ![t] = l]
      BY <3>1
    <3> HIDE DEF l
    <3>5. turn' \in [Turns -> Locals]
      BY <3>3, <3>4 DEF TypeInv, TurnOK
    <3>6. stream' \in [for : Convs \cup {None}, text : SUBSET Turns]
      BY <3>1 DEF TypeInv, StoreOK
    <3> QED
      BY <2>2, <2>3, <3>1, <3>2, <3>5, <3>6 DEF Rebound, TypeInv, ServiceOK, StoreOK,
         TurnOK, screenVars
  <2>5. CASE ~isGenerating
    <3>1. /\ isGenerating' = TRUE /\ generationAttempt' = generationAttempt + 1
          /\ stream' = [for |-> ConvOf[t], text |-> {}]
          /\ turn' = [turn EXCEPT ![t].routes = @ - 1, ![t].drains = pendingStop,
                                  ![t].attempt = generationAttempt + 1]
          /\ Goto(t, "draining") /\ UNCHANGED <<runVars, stops>>
      BY <1>4, <2>5 DEF Rebound
    <3> DEFINE l == [turn[t] EXCEPT !.routes = @ - 1, !.drains = pendingStop,
                                    !.attempt = generationAttempt + 1]
    <3>3. turn[t] \in Locals /\ generationAttempt + 1 \in Nat /\ pendingStop \in Presses \cup {None}
      BY DEF TypeInv, TurnOK, ServiceOK, StopOK
    <3>4. l \in Locals
      BY <3>3, LocalsExcept DEF Takes
    <3>5. turn' = [turn EXCEPT ![t] = l]
      BY <3>1
    <3> HIDE DEF l
    <3>6. turn' \in [Turns -> Locals] /\ pc' \in [Turns -> Awaits]
      BY <3>1, <3>4, <3>5 DEF TypeInv, TurnOK, Goto, Awaits
    <3>7. stream' \in [for : Convs \cup {None}, text : SUBSET Turns]
      BY <3>1, TurnsAssumption
    <3>8. ServiceOK'
      BY <2>3, <3>1, <3>3 DEF TypeInv, ServiceOK
    <3> QED
      BY <1>2, <2>2, <2>3, <3>1, <3>6, <3>7, <3>8 DEF Rebound, TypeInv, StoreOK, TurnOK,
         screenVars
  <2> QED BY <2>4, <2>5
<1> QED BY <1>3, <1>4

LEMMA FallbackFailsType ==
    ASSUME TypeInv, NEW t \in Turns, FallbackFails(t)
    PROVE  TypeInv'
<1>1. StopOK' /\ EngineOK'
  BY DEF FallbackFails, TypeInv, StopOK, EngineOK, engineVars, runVars, stopVars
<1>2. CASE /\ turn' = [turn EXCEPT ![t].routes = @ - 1] /\ Goto(t, "fallback")
           /\ UNCHANGED <<svcVars, storeVars>>
  <2> DEFINE l == [turn[t] EXCEPT !.routes = @ - 1]
  <2>1. l \in Locals
    BY LocalsExcept DEF TypeInv, TurnOK
  <2>2. turn' = [turn EXCEPT ![t] = l]
    BY <1>2
  <2> HIDE DEF l
  <2>3. turn' \in [Turns -> Locals]
    BY <2>1, <2>2 DEF TypeInv, TurnOK
  <2> QED
    BY <1>1, <1>2, <2>3 DEF FallbackFails, TypeInv, ServiceOK, StoreOK, TurnOK, Goto, Awaits,
       svcVars, storeVars, screenVars
<1>3. CASE GiveUp(t)
  BY <1>1, <1>3, GiveUpType DEF FallbackFails, TypeInv
<1> QED BY <1>2, <1>3 DEF FallbackFails

LEMMA EngineType ==
    ASSUME TypeInv, (\E i \in StopIds : Engine(i)) \/ (\E t \in Turns : Unload(t))
    PROVE  TypeInv'
<1>1. CASE \E t \in Turns : Unload(t)
  BY <1>1 DEF Unload, TypeInv, ServiceOK, StopOK, StoreOK, EngineOK, TurnOK,
     svcVars, storeVars, stopVars, screenVars, turnVars
<1>2. CASE \E i \in StopIds : LiteRTStopped(i)
  BY <1>2 DEF LiteRTStopped, TypeInv, ServiceOK, StopOK, StoreOK, EngineOK, TurnOK,
     svcVars, storeVars, stopVars, screenVars, turnVars
<1>3. CASE \E i \in StopIds : NativeStopped(i)
  <2>1. StopOK' /\ busy' \in BOOLEAN
    BY <1>3 DEF NativeStopped, TypeInv, StopOK, EngineOK, stopVars
  <2> QED
    BY <1>3, <2>1 DEF NativeStopped, TypeInv, ServiceOK, StoreOK, EngineOK, TurnOK,
       svcVars, storeVars, screenVars, turnVars
<1> QED BY <1>1, <1>2, <1>3 DEF Engine

LEMMA StopType ==
    ASSUME TypeInv, NEW i \in Presses, Stop(i)
    PROVE  TypeInv'
<1>1. /\ stream' \in [for : Convs \cup {None}, text : SUBSET Turns]
      /\ history' \in [Convs -> Seq(Messages)]
  BY FinalizeType DEF Stop, TypeInv, ServiceOK, StoreOK
<1>2. ServiceOK'
  <2>1. isGenerating' \in BOOLEAN /\ tokenBuffer' \subseteq Turns /\ timers' \in Nat
    BY ResetStateType DEF Stop, TypeInv, ServiceOK
  <2>2. abortRequested' = TRUE /\ generationAttempt' = generationAttempt + 1 /\ queue' = queue
    BY DEF Stop
  <2> QED BY <2>1, <2>2 DEF TypeInv, ServiceOK
<1>3. stopped' \subseteq Turns
  BY DEF Stop, Meant, TypeInv, TurnOK
<1>4. StopOK' /\ EngineOK'
  BY DEF Stop, TypeInv, StopOK, EngineOK, stopVars
<1> QED
  BY <1>1, <1>2, <1>3, <1>4 DEF Stop, TypeInv, StoreOK, TurnOK, screenVars
-----------------------------------------------------------------------------
LEMMA InitType == Init => TypeInv
<1> SUFFICES ASSUME Init PROVE TypeInv  OBVIOUS
<1>1. FreshTurn \in Locals
  BY TurnsAssumption DEF FreshTurn, Locals, Outcomes
<1>2. <<>> \in Seq(Messages) /\ <<>> \in Seq(Turns)
  OBVIOUS
<1>3. StoreOK
  BY <1>2 DEF Init, StoreOK, NoReply
<1>4. StopOK
  BY DEF Init, StopOK, StopIds
<1>5. TurnOK
  BY <1>1 DEF Init, TurnOK, Awaits
<1> QED BY <1>2, <1>3, <1>4, <1>5 DEF Init, TypeInv, ServiceOK, EngineOK

LEMMA NextType == TypeInv /\ [Next]_vars => TypeInv'
<1> SUFFICES ASSUME TypeInv, [Next]_vars PROVE TypeInv'  OBVIOUS
<1>1. CASE UNCHANGED vars
  BY <1>1 DEF vars, TypeInv, ServiceOK, StopOK, StoreOK, EngineOK, TurnOK,
     svcVars, storeVars, engineVars, runVars, stopVars, screenVars, turnVars
<1>2. ASSUME NEW t \in Turns, Step(t) PROVE TypeInv'
  BY <1>2, SendType, RouteType, ImageDoneType, ReadyType, ClaimType, DrainedType, IdleType,
     NotReadyType, TokenType, PlainEndsType, ToolTurnEndsType, ToolCallsType, EmptyAnswerType,
     ToolsDoneType, RetryType, RunFailsType, ContextFullType, SummarizeType, FallbackType,
     ReboundType,
     FallbackFailsType, EngineType DEF Step
<1>3. CASE \E i \in StopIds : Engine(i)
  BY <1>3, EngineType
<1>4. CASE \E i \in Presses : Stop(i)
  BY <1>4, StopType
<1>5. CASE DrainTimer \/ Flush \/ Leave \/ SwitchChat \/ AllDone
  BY <1>1, <1>5, DrainTimerType, TokenType DEF AllDone
<1> QED BY <1>1, <1>2, <1>3, <1>4, <1>5 DEF Next

(* The variables of a chat turn stay in their ranges: text is made of turns, *)
(* messages have a known form, and only running completions are interrupted. *)
THEOREM TypeCorrect == Spec => []TypeOK
<1>1. Spec => []TypeInv
  BY InitType, NextType, PTL DEF Spec
<1> QED BY <1>1, TypeInvTypes, PTL
-----------------------------------------------------------------------------
(* The queue: what a step does to what will take it.                       *)

QueueStep ==
    \/ queue' = <<>>
    \/ isGenerating' = TRUE \/ drawing' # None
    \/ queue' = queue /\ ResetState
    \/ queue' = queue /\ UNCHANGED <<isGenerating, drawing, timers>>

LEMMA QueueKept == TypeInv /\ NoStrandedQueue /\ QueueStep => NoStrandedQueue'
<1> SUFFICES ASSUME TypeInv, NoStrandedQueue, QueueStep, queue' # <<>>
             PROVE  isGenerating' \/ drawing' # None \/ timers' > 0
  BY DEF NoStrandedQueue
<1>1. timers \in Nat
  BY DEF TypeInv, ServiceOK
<1>2. CASE isGenerating' = TRUE \/ drawing' # None
  BY <1>2
<1>3. CASE queue' = queue /\ ResetState
  BY <1>1, <1>3 DEF ResetState
<1>4. CASE queue' = queue /\ UNCHANGED <<isGenerating, drawing, timers>>
  BY <1>4 DEF NoStrandedQueue
<1> QED BY <1>2, <1>3, <1>4 DEF QueueStep

LEMMA QuitQueue ==
    ASSUME NEW t, Quit(t) \/ GiveUp(t) \/ Fail(t) \/ Compacted(t) \/ PrepareFails(t),
           drawing' = drawing
    PROVE  QueueStep
<1>1. CASE Quit(t)
  BY <1>1 DEF Quit, QueueStep, svcVars
<1>2. CASE GiveUp(t)
  BY <1>2 DEF GiveUp, QueueStep
<1>3. CASE UNCHANGED svcVars
  BY <1>3 DEF QueueStep, svcVars
<1>4. CASE ResetState /\ queue' = queue
  BY <1>4 DEF QueueStep
<1> QED
  BY <1>1, <1>2, <1>3, <1>4 DEF Fail, Compacted, PrepareFails

LEMMA AdmitQueue ==
    ASSUME TypeInv, NEW t \in Turns, Send(t) \/ Admit(t) \/ RouteText(t) \/ RouteImage(t)
    PROVE  QueueStep
<1>1. CASE Admit(t) /\ (isGenerating \/ drawing # None)
  <2>1. isGenerating' = TRUE \/ drawing' # None
    BY <1>1 DEF Admit, screenVars, TypeInv, ServiceOK
  <2> QED BY <2>1 DEF QueueStep
<1>2. CASE Admit(t) /\ ~(isGenerating \/ drawing # None)
  BY <1>2 DEF Admit, screenVars, QueueStep
<1>3. CASE Send(t) \/ RouteText(t)
  BY <1>3 DEF Send, RouteText, svcVars, screenVars, QueueStep
<1>4. CASE RouteImage(t)
  <2>1. drawing' # None
    BY <1>4, TurnsAssumption DEF RouteImage, None
  <2> QED BY <2>1 DEF QueueStep
<1> QED BY <1>1, <1>2, <1>3, <1>4

LEMMA TakenQueue ==
    ASSUME TypeInv, mounted = TRUE, NEW t \in Turns, ImageDone(t) \/ DrainTimer
    PROVE  QueueStep
<1>1. CASE ImageDone(t) /\ isGenerating
  <2>1. isGenerating' = TRUE
    BY <1>1 DEF ImageDone, TypeInv, ServiceOK
  <2> QED BY <2>1 DEF QueueStep
<1>2. CASE \E pcs, turns : ProcessNextInQueue(pcs, turns)
  BY <1>2 DEF ProcessNextInQueue, QueueStep
<1> QED BY <1>1, <1>2 DEF ImageDone, DrainTimer

LEMMA PrepareQueue ==
    ASSUME TypeInv, NEW t \in Turns,
           Ready(t) \/ LongChat(t) \/ Claim(t) \/ Drained(t) \/ Idle(t)
           \/ Cleared(t) \/ NotReady(t)
    PROVE  QueueStep
<1>1. CASE Ready(t) \/ LongChat(t)
  BY <1>1 DEF Ready, LongChat, svcVars, screenVars, QueueStep
<1>2. CASE Claim(t)
  <2>1. queue' = queue /\ UNCHANGED <<drawing, timers>>
    BY <1>2 DEF Claim, screenVars
  <2>2. CASE isGenerating' = TRUE  BY <2>2 DEF QueueStep
  <2>3. CASE UNCHANGED isGenerating  BY <2>1, <2>3 DEF QueueStep
  <2> QED BY <1>2, <2>2, <2>3 DEF Claim, TakeSlot
<1>3. CASE Drained(t) \/ Idle(t) \/ Cleared(t)
  <2>1. drawing' = drawing
    BY <1>3 DEF Drained, Idle, Cleared, screenVars
  <2>2. CASE Quit(t) \/ Fail(t)  BY <2>1, <2>2, QuitQueue
  <2>3. CASE UNCHANGED <<isGenerating, queue, timers>>  BY <2>1, <2>3 DEF QueueStep
  <2> QED BY <1>3, <2>2, <2>3 DEF Drained, Idle, Cleared, Begin, svcVars
<1>4. CASE NotReady(t)
  BY <1>4, QuitQueue DEF NotReady, screenVars
<1> QED BY <1>1, <1>2, <1>3, <1>4

LEMMA RunQueue ==
    ASSUME TypeInv, NEW t \in Turns,
           \/ Token(t) \/ PlainEnds(t) \/ ToolTurnEnds(t) \/ ToolCalls(t) \/ EmptyAnswer(t)
           \/ ToolsDone(t) \/ Retry(t) \/ RunFails(t) \/ ContextFull(t)
    PROVE  QueueStep
<1>1. drawing' = drawing
  BY DEF Token, PlainEnds, ToolTurnEnds, ToolCalls, EmptyAnswer, ToolsDone, Retry, RunFails,
     ContextFull, screenVars
<1>2. CASE Quit(t) \/ Fail(t)
  BY <1>1, <1>2, QuitQueue
<1>3. CASE UNCHANGED svcVars
  BY <1>1, <1>3 DEF QueueStep, svcVars
<1>4. CASE ResetState /\ queue' = queue
  BY <1>4 DEF QueueStep
<1>5. CASE UNCHANGED <<isGenerating, queue, timers>>
  BY <1>1, <1>5 DEF QueueStep
<1>6. CASE Token(t) \/ ToolCalls(t) \/ EmptyAnswer(t)
  BY <1>3, <1>5, <1>6 DEF Token, ToolCalls, EmptyAnswer
<1>7. CASE PlainEnds(t)
  BY <1>2, <1>4, <1>7 DEF PlainEnds, Complete
<1>8. CASE ToolTurnEnds(t)
  BY <1>3, <1>4, <1>8 DEF ToolTurnEnds
<1>9. CASE ToolsDone(t) \/ Retry(t) \/ RunFails(t)
  BY <1>2, <1>3, <1>9 DEF ToolsDone, Retry, RunFails
<1>10. CASE ContextFull(t)
  BY <1>2, <1>4, <1>10 DEF ContextFull
<1> QED BY <1>6, <1>7, <1>8, <1>9, <1>10

LEMMA AgainQueue ==
    ASSUME TypeInv, NEW t \in Turns,
           \/ EnginesStopped(t) \/ Summarize(t) \/ Summarized(t) \/ Fallback(t)
           \/ Rebound(t) \/ FallbackFails(t) \/ Unload(t)
    PROVE  QueueStep
<1>1. drawing' = drawing
  BY DEF EnginesStopped, Summarize, Summarized, Fallback, Rebound, FallbackFails, Unload,
     screenVars
<1>2. CASE Quit(t) \/ GiveUp(t) \/ Compacted(t)
  BY <1>1, <1>2, QuitQueue
<1>3. CASE UNCHANGED svcVars
  BY <1>1, <1>3 DEF QueueStep, svcVars
<1>4. CASE EnginesStopped(t) \/ Summarize(t) \/ Summarized(t) \/ Unload(t)
  BY <1>2, <1>3, <1>4 DEF EnginesStopped, Summarize, Summarized, Unload
<1>5. CASE Fallback(t) \/ FallbackFails(t)
  BY <1>2, <1>3, <1>5 DEF Fallback, FallbackFails
<1>6. CASE Rebound(t) /\ ~abortRequested
  <2>1. queue' = queue /\ timers' = timers
    BY <1>6 DEF Rebound
  <2>2. isGenerating' = isGenerating \/ isGenerating' = TRUE
    BY <1>6 DEF Rebound
  <2> QED BY <1>1, <2>1, <2>2 DEF QueueStep
<1>7. CASE Rebound(t) /\ abortRequested
  BY <1>2, <1>7 DEF Rebound
<1> QED BY <1>4, <1>5, <1>6, <1>7

LEMMA StopQueue ==
    ASSUME TypeInv,
           \/ \E i \in StopIds : Engine(i)
           \/ \E j \in Presses : Stop(j)
           \/ Flush \/ SwitchChat \/ AllDone
    PROVE  QueueStep
<1>1. CASE \E i \in StopIds : Engine(i)
  BY <1>1 DEF Engine, LiteRTStopped, NativeStopped, svcVars, screenVars, QueueStep
<1>2. CASE \E j \in Presses : Stop(j)
  <2>1. queue' = queue /\ drawing' = drawing
    BY <1>2 DEF Stop, screenVars
  <2>2. ResetState \/ UNCHANGED <<isGenerating, timers>>
    BY <1>2 DEF Stop
  <2> QED BY <2>1, <2>2 DEF QueueStep
<1>3. CASE Flush
  BY <1>3 DEF Flush, screenVars, QueueStep
<1>4. CASE SwitchChat
  BY <1>4 DEF SwitchChat, svcVars, screenVars, QueueStep
<1>5. CASE AllDone
  BY <1>5 DEF AllDone, vars, svcVars, screenVars, QueueStep
<1> QED BY <1>1, <1>2, <1>3, <1>4, <1>5

\* The user stays on the chat screen.
NobodyLeaves == MayLeave = FALSE

LEMMA StaysMounted ==
    ASSUME NobodyLeaves, mounted = TRUE, [Next]_vars
    PROVE  mounted' = TRUE
<1>1. CASE \E t \in Turns : Step(t)
  <2> PICK t \in Turns : Step(t)
    BY <1>1
  <2>1. CASE Send(t) \/ Admit(t) \/ RouteText(t) \/ RouteImage(t) \/ ImageDone(t)
    BY <2>1 DEF Send, Admit, RouteText, RouteImage, ImageDone, screenVars
  <2>2. CASE \/ Ready(t) \/ LongChat(t) \/ Claim(t) \/ Drained(t) \/ Idle(t) \/ Cleared(t)
          \/ NotReady(t)
    BY <2>2 DEF Ready, LongChat, Claim, Drained, Idle, Cleared, NotReady, screenVars
  <2>3. CASE Token(t) \/ PlainEnds(t) \/ ToolTurnEnds(t) \/ ToolCalls(t) \/ EmptyAnswer(t)
    BY <2>3 DEF Token, PlainEnds, ToolTurnEnds, ToolCalls, EmptyAnswer, screenVars
  <2>4. CASE ToolsDone(t) \/ Retry(t) \/ RunFails(t) \/ ContextFull(t) \/ EnginesStopped(t)
    BY <2>4 DEF ToolsDone, Retry, RunFails, ContextFull, EnginesStopped, screenVars
  <2>5. CASE \/ Summarize(t) \/ Summarized(t) \/ Fallback(t) \/ Rebound(t) \/ FallbackFails(t)
          \/ Unload(t)
    BY <2>5 DEF Summarize, Summarized, Fallback, Rebound, FallbackFails, Unload, screenVars
  <2> QED BY <2>1, <2>2, <2>3, <2>4, <2>5 DEF Step
<1>2. CASE ~\E t \in Turns : Step(t)
  BY <1>2 DEF NobodyLeaves, Next, Engine, LiteRTStopped, NativeStopped, Stop, DrainTimer, Flush,
     Leave, SwitchChat, AllDone, vars, screenVars
<1> QED BY <1>1, <1>2

QueueInv == TypeInv /\ mounted = TRUE /\ NoStrandedQueue

LEMMA NextQueue == NobodyLeaves /\ QueueInv /\ [Next]_vars => QueueInv'
<1> SUFFICES ASSUME NobodyLeaves, QueueInv, [Next]_vars PROVE QueueInv'  OBVIOUS
<1>1. TypeInv' /\ mounted' = TRUE
  BY NextType, StaysMounted DEF QueueInv
<1>2. CASE UNCHANGED vars
  BY <1>1, <1>2 DEF QueueInv, NoStrandedQueue, vars, svcVars, screenVars
<1>3. ASSUME NEW t \in Turns, Step(t) PROVE QueueStep
  BY <1>3, AdmitQueue, TakenQueue, PrepareQueue, RunQueue, AgainQueue DEF Step, QueueInv
<1>4. ASSUME DrainTimer PROVE QueueStep
  BY <1>4 DEF DrainTimer, ProcessNextInQueue, QueueStep, QueueInv
<1>5. ASSUME Leave PROVE FALSE
  BY <1>5 DEF Leave, NobodyLeaves
<1>6. CASE ~UNCHANGED vars
  <2>1. QueueStep
    BY <1>3, <1>4, <1>5, <1>6, StopQueue DEF Next, QueueInv
  <2> QED BY <1>1, <2>1, QueueKept DEF QueueInv
<1> QED BY <1>2, <1>6

(* A message that is queued is never forgotten, as long as the user stays on *)
(* the chat screen: a turn or a picture under way, or a timer, takes it.     *)
THEOREM QueueTaken ==
    ASSUME NobodyLeaves
    PROVE  Spec => []NoStrandedQueue
<1>1. Init => QueueInv
  BY InitType DEF Init, QueueInv, NoStrandedQueue
<1>2. QueueInv => NoStrandedQueue
  BY DEF QueueInv
<1>3. QueueInv /\ [Next]_vars => QueueInv'
  BY NextQueue
<1> QED BY <1>1, <1>2, <1>3, PTL DEF Spec

-----------------------------------------------------------------------------
(* The engine, for every kind of turn.                                     *)

\* The engine's own record of what it runs is right until it refuses a start,
\* and again once it is quiet.
AloneInv ==
    /\ native = {} => busy = FALSE /\ active = None
    /\ displaced = FALSE => native \subseteq {active} /\ (busy = FALSE => native = {})
    /\ \A t \in Turns : pc[t] = "summarizing" => t \in native

\* No turn comes to summarise but those that did.
NoneSummarizes == \A t \in Turns : pc'[t] = "summarizing" => pc[t] = "summarizing"

LEMMA SameAlone ==
    ASSUME AloneInv, NoneSummarizes, UNCHANGED <<busy, active, native, displaced>>
    PROVE  AloneInv'
BY DEF AloneInv, NoneSummarizes

LEMMA EndAlone ==
    ASSUME TypeInv, AloneInv, NEW t \in Turns, NEW mine, t \in native, EndRun(t, mine),
           NoneSummarizes, pc'[t] # "summarizing"
    PROVE  AloneInv'
<1>1. busy' = FALSE /\ active' = None /\ native' = native \ {t}
  BY DEF EndRun
<1>2. displaced' = FALSE => native' = {}
  <2>1. ASSUME displaced' = FALSE, native' # {} PROVE FALSE
    <3>1. displaced = FALSE
      BY <1>1, <2>1 DEF EndRun, TypeInv, EngineOK
    <3>2. native \subseteq {active}
      BY <3>1 DEF AloneInv
    <3> QED BY <1>1, <2>1, <3>2
  <2> QED BY <2>1
<1>3. \A u \in Turns : pc'[u] = "summarizing" => u \in native'
  BY <1>1 DEF AloneInv, NoneSummarizes
<1> QED BY <1>1, <1>2, <1>3 DEF AloneInv

LEMMA StartAlone ==
    ASSUME TypeInv, AloneInv, NEW t \in Turns, busy = FALSE, StartRun(t),
           \A u \in Turns : pc'[u] = "summarizing" => u = t \/ pc[u] = "summarizing"
    PROVE  AloneInv'
<1>1. busy' = TRUE /\ active' = t /\ native' = native \cup {t} /\ displaced' = displaced
  BY DEF StartRun
<1>2. displaced = FALSE => native = {}
  BY DEF AloneInv
<1> QED BY <1>1, <1>2 DEF AloneInv

\* A turn goes where it does not summarise.
LEMMA GotoAlone ==
    ASSUME TypeInv, NEW t \in Turns, NEW at, at # "summarizing",
           Goto(t, at) \/ pc' = pc \/ pc' = [pc EXCEPT ![t] = at]
    PROVE  NoneSummarizes /\ (pc' # pc => pc'[t] # "summarizing")
BY DEF Goto, NoneSummarizes, TypeInv, TurnOK

LEMMA FinishAlone ==
    ASSUME TypeInv, NEW t \in Turns,
           \/ \E o : Finish(t, o)
           \/ Quit(t) \/ GiveUp(t) \/ Fail(t) \/ PrepareFails(t) \/ Compacted(t)
    PROVE  NoneSummarizes /\ pc'[t] # "summarizing"
<1>1. CASE \E o : Finish(t, o)
  BY <1>1 DEF Finish, NoneSummarizes, TypeInv, TurnOK
<1>2. CASE Goto(t, "fallback") \/ Goto(t, "context")
  BY <1>2 DEF Goto, NoneSummarizes, TypeInv, TurnOK
<1> QED BY <1>1, <1>2 DEF Quit, GiveUp, Fail, PrepareFails, Compacted

LEMMA ToolRunAlone ==
    ASSUME TypeInv, AloneInv, NEW t \in Turns, StartToolRun(t)
    PROVE  AloneInv'
<1>1. CASE ~busy
  <2>1. busy = FALSE /\ StartRun(t) /\ Goto(t, "running")
    BY <1>1 DEF StartToolRun, TypeInv, EngineOK
  <2>2. NoneSummarizes
    BY <2>1, GotoAlone
  <2> QED BY <2>1, <2>2, StartAlone DEF NoneSummarizes
<1>2. CASE busy
  <2>1. displaced' = TRUE /\ native' = native /\ busy' = busy /\ Goto(t, "backoff")
    BY <1>2 DEF StartToolRun
  <2>2. NoneSummarizes
    BY <2>1, GotoAlone
  <2>3. native # {}
    BY <1>2 DEF AloneInv
  <2> QED BY <2>1, <2>2, <2>3 DEF AloneInv, NoneSummarizes
<1> QED BY <1>1, <1>2

LEMMA ProcessAlone ==
    ASSUME NEW pcs, NEW turns, ProcessNextInQueue(pcs, turns),
           \A t \in Turns : pcs[t] = "summarizing" => pc[t] = "summarizing"
    PROVE  NoneSummarizes
BY DEF ProcessNextInQueue, NoneSummarizes

\* Sending, queueing, drawing and getting ready.
LEMMA AdmitAlone ==
    ASSUME TypeInv, AloneInv, NEW t \in Turns,
           \/ Send(t) \/ Admit(t) \/ RouteText(t) \/ RouteImage(t) \/ ImageDone(t) \/ Ready(t)
           \/ LongChat(t) \/ Claim(t) \/ Drained(t) \/ NotReady(t) \/ EnginesStopped(t)
    PROVE  AloneInv'
<1>1. UNCHANGED <<busy, active, native, displaced>>
  BY DEF Send, Admit, RouteText, RouteImage, ImageDone, Ready, LongChat, Claim, Drained, NotReady,
     EnginesStopped, engineVars, runVars
<1>2. CASE \E o : Finish(t, o)
  BY <1>1, <1>2, FinishAlone, SameAlone
<1>3. CASE Quit(t) \/ PrepareFails(t)
  BY <1>1, <1>3, FinishAlone, SameAlone
<1>4. CASE \E at \in Awaits \ {"summarizing"} : Goto(t, at)
  BY <1>1, <1>4, GotoAlone, SameAlone
<1>5. CASE ImageDone(t)
  <2> DEFINE pcs == [pc EXCEPT ![t] = "done"]
  <2>1. \A u \in Turns : pcs[u] = "summarizing" => pc[u] = "summarizing"
    BY DEF TypeInv, TurnOK
  <2>2. pc' = pcs \/ \E turns : ProcessNextInQueue(pcs, turns)
    BY <1>5 DEF ImageDone
  <2> HIDE DEF pcs
  <2>3. NoneSummarizes
    BY <2>1, <2>2, ProcessAlone DEF NoneSummarizes
  <2> QED BY <1>1, <2>3, SameAlone
<1>6. CASE Send(t) \/ Admit(t) \/ RouteText(t) \/ RouteImage(t)
  BY <1>4, <1>6 DEF Send, Admit, RouteText, RouteImage, Awaits
<1>7. CASE Ready(t) \/ LongChat(t) \/ EnginesStopped(t)
  BY <1>2, <1>4, <1>7 DEF Ready, LongChat, EnginesStopped, Awaits
<1>8. CASE Claim(t) \/ Drained(t) \/ NotReady(t)
  BY <1>2, <1>3, <1>4, <1>8 DEF Claim, TakeSlot, Drained, NotReady, Awaits
<1> QED BY <1>5, <1>6, <1>7, <1>8

\* The first completion of a run, and what comes before it.
LEMMA BeginAlone ==
    ASSUME TypeInv, AloneInv, NEW t \in Turns,
           \/ Idle(t) \/ Cleared(t) \/ ToolsDone(t) \/ Retry(t)
           \/ Fallback(t) \/ Rebound(t) \/ FallbackFails(t)
    PROVE  AloneInv'
<1>1. CASE StartToolRun(t)
  BY <1>1, ToolRunAlone
<1>2. CASE UNCHANGED runVars /\ (Quit(t) \/ Fail(t) \/ GiveUp(t))
  BY <1>2, FinishAlone, SameAlone DEF runVars
<1>3. CASE /\ UNCHANGED runVars
           /\ \E at \in {"clearing", "rebinding", "fallback", "draining"} : Goto(t, at)
  BY <1>3, GotoAlone, SameAlone DEF runVars
<1>4. CASE Idle(t) \/ Cleared(t)
  BY <1>1, <1>2, <1>3, <1>4 DEF Idle, Cleared, Begin
<1>5. CASE ToolsDone(t) \/ Retry(t)
  BY <1>1, <1>2, <1>5 DEF ToolsDone, Retry
<1>6. CASE Fallback(t) \/ FallbackFails(t)
  BY <1>2, <1>3, <1>6 DEF Fallback, FallbackFails, engineVars
<1>7. CASE Rebound(t)
  BY <1>1, <1>2, <1>3, <1>7 DEF Rebound
<1> QED BY <1>4, <1>5, <1>6, <1>7

\* The ends of completions, and summaries.
LEMMA RunAlone ==
    ASSUME TypeInv, AloneInv, NEW t \in Turns,
           \/ PlainEnds(t) \/ ToolTurnEnds(t) \/ ToolCalls(t) \/ RunFails(t)
           \/ ContextFull(t) \/ Summarize(t) \/ Summarized(t)
    PROVE  AloneInv'
<1>1. CASE \E mine : t \in native /\ EndRun(t, mine) /\ NoneSummarizes /\ pc'[t] # "summarizing"
  BY <1>1, EndAlone
<1>2. ASSUME NEW at, at # "summarizing", Goto(t, at) PROVE NoneSummarizes /\ pc'[t] # "summarizing"
  BY <1>2 DEF Goto, NoneSummarizes, TypeInv, TurnOK
<1>3. CASE PlainEnds(t)
  <2>1. NoneSummarizes /\ pc'[t] # "summarizing"
    BY <1>3, FinishAlone DEF PlainEnds, Complete
  <2> QED BY <1>1, <1>3, <2>1 DEF PlainEnds, Running
<1>4. CASE ToolTurnEnds(t)
  <2>1. NoneSummarizes /\ pc'[t] # "summarizing"
    BY <1>4, FinishAlone DEF ToolTurnEnds
  <2> QED BY <1>1, <1>4, <2>1 DEF ToolTurnEnds, Running
<1>5. CASE ToolCalls(t)
  <2>1. NoneSummarizes /\ pc'[t] # "summarizing"
    BY <1>2, <1>5 DEF ToolCalls
  <2> QED BY <1>1, <1>5, <2>1 DEF ToolCalls, Running
<1>6. CASE RunFails(t)
  <2>1. NoneSummarizes /\ pc'[t] # "summarizing"
    BY <1>2, <1>6, FinishAlone DEF RunFails
  <2> QED BY <1>1, <1>6, <2>1 DEF RunFails, Running
<1>7. CASE ContextFull(t)
  <2>1. NoneSummarizes /\ pc'[t] # "summarizing"
    BY <1>2, <1>7, FinishAlone DEF ContextFull
  <2> QED BY <1>1, <1>7, <2>1 DEF ContextFull, Running
<1>8. CASE Summarized(t)
  <2>1. t \in native /\ NoneSummarizes /\ pc'[t] # "summarizing"
    BY <1>8, FinishAlone DEF Summarized, AloneInv
  <2> QED BY <1>1, <1>8, <2>1 DEF Summarized
<1>9. CASE Summarize(t) /\ Compacted(t) /\ UNCHANGED runVars
  BY <1>9, FinishAlone, SameAlone DEF runVars
<1>10. CASE ~busy /\ StartRun(t) /\ Goto(t, "summarizing")
  <2>1. \A u \in Turns : pc'[u] = "summarizing" => u = t \/ pc[u] = "summarizing"
    BY <1>10 DEF Goto, TypeInv, TurnOK
  <2> QED BY <1>10, <2>1, StartAlone DEF TypeInv, EngineOK
<1> QED BY <1>3, <1>4, <1>5, <1>6, <1>7, <1>8, <1>9, <1>10 DEF Summarize

\* Steps that leave the turns where they are, and the stops.
LEMMA StopAlone ==
    ASSUME TypeInv, AloneInv,
           \/ \E t \in Turns : Token(t) \/ EmptyAnswer(t) \/ Unload(t)
           \/ \E i \in StopIds : Engine(i)
           \/ \E j \in Presses : Stop(j)
           \/ DrainTimer \/ Flush \/ Leave \/ SwitchChat \/ AllDone \/ UNCHANGED vars
    PROVE  AloneInv'
<1>1. CASE DrainTimer
  <2>1. NoneSummarizes
    BY <1>1, ProcessAlone DEF DrainTimer
  <2> QED BY <1>1, <2>1, SameAlone DEF DrainTimer, engineVars, runVars
<1>2. CASE \E t \in Turns : EmptyAnswer(t)
  <2> PICK t \in Turns : EmptyAnswer(t)
    BY <1>2
  <2>1. /\ t \in native /\ busy' = TRUE /\ active' = t
        /\ UNCHANGED <<native, displaced, pc>>
    BY DEF EmptyAnswer, Running
  <2>2. displaced = FALSE => native \subseteq {t}
    BY <2>1 DEF AloneInv
  <2> QED BY <2>1, <2>2 DEF AloneInv
<1>3. CASE \E i \in StopIds : NativeStopped(i) /\ active = None
  <2>1. busy' = FALSE /\ UNCHANGED <<active, native, displaced, pc>>
    BY <1>3 DEF NativeStopped, turnVars
  <2>2. displaced = FALSE => native = {}
    BY <1>3, TurnsAssumption DEF AloneInv, TypeInv, EngineOK, None
  <2> QED BY <2>1, <2>2 DEF AloneInv
<1>4. CASE UNCHANGED <<busy, active, native, displaced, pc>>
  BY <1>4 DEF AloneInv
<1>5. CASE \E i \in StopIds : Engine(i)
  BY <1>3, <1>4, <1>5 DEF Engine, LiteRTStopped, NativeStopped, turnVars
<1>6. CASE \/ \E t \in Turns : Token(t) \/ Unload(t)
           \/ \E j \in Presses : Stop(j)
  BY <1>4, <1>6 DEF Token, Unload, Stop, engineVars, runVars, turnVars
<1>7. CASE Flush \/ Leave \/ SwitchChat \/ AllDone \/ UNCHANGED vars
  BY <1>4, <1>7 DEF Flush, Leave, SwitchChat, AllDone, vars, engineVars, runVars, turnVars
<1> QED BY <1>1, <1>2, <1>5, <1>6, <1>7

LEMMA NextAlone == TypeInv /\ AloneInv /\ [Next]_vars => AloneInv'
<1> SUFFICES ASSUME TypeInv, AloneInv, [Next]_vars PROVE AloneInv'  OBVIOUS
<1>1. ASSUME NEW t \in Turns, Step(t) PROVE AloneInv'
  BY <1>1, AdmitAlone, BeginAlone, RunAlone, StopAlone DEF Step
<1> QED BY <1>1, StopAlone DEF Next

(* llama.cpp computes one completion at a time and is idle when llmService   *)
(* says so, whatever turns, tools, fallbacks, stops and summaries come       *)
(* together, until it refuses the start of a tool loop; and the flag never   *)
(* stays up once nothing runs.                                               *)
THEOREM EngineAlone == Spec => []OneNativeRun
<1>1. Init => TypeInv /\ AloneInv
  BY InitType DEF Init, AloneInv
<1>2. TypeInv /\ AloneInv /\ [Next]_vars => TypeInv' /\ AloneInv'
  BY NextType, NextAlone
<1>3. TypeInv /\ AloneInv => OneNativeRun
  <2> SUFFICES ASSUME TypeInv, AloneInv PROVE OneNativeRun  OBVIOUS
  <2>1. native = {} => ~busy /\ active = None
    BY DEF AloneInv
  <2>2. ASSUME ~displaced PROVE Cardinality(native) <= 1 /\ (~busy => native = {})
    <3>1. native \subseteq {active} /\ (busy = FALSE => native = {})
      BY <2>2 DEF AloneInv, TypeInv, EngineOK
    <3>2. CASE native = {}
      BY <3>1, <3>2, FS_EmptySet DEF TypeInv, EngineOK
    <3>3. CASE native = {active}
      BY <3>1, <3>3, FS_Singleton DEF TypeInv, EngineOK
    <3> QED BY <3>1, <3>2, <3>3
  <2> QED BY <2>1, <2>2 DEF OneNativeRun
<1> QED BY <1>1, <1>2, <1>3, PTL DEF Spec
-----------------------------------------------------------------------------
(***************************************************************************)
(* The streaming slot of plain chat turns, for every set of turns,         *)
(* conversations and presses of stop: the slot implements ReplySlot.       *)
(***************************************************************************)

\* Turns without tools, and no other model to fall back to.
PlainTurns == ToolTurns = {} /\ MaxRoutes = 0

PlainInv ==
    \A t \in Turns : turn[t].routes = 0 /\ pc[t] \notin {"fallback", "rebinding", "tool", "backoff"}

\* The engine's own record of what it runs is right.
RunInv ==
    /\ native \subseteq {active}
    /\ busy = FALSE => native = {}
    /\ \A t \in Turns : pc[t] = "summarizing" => t \in native

Owns(t) == isGenerating = TRUE /\ turn[t].attempt = generationAttempt

\* One turn at most owns the slot, and only its words are in it. A completion
\* the slot has been taken from finds the abort flag up, and until it ends the
\* stop is pending that the next owner waits for.
SlotInv ==
    /\ \A t \in Turns : turn[t].attempt <= generationAttempt
    /\ isGenerating = TRUE => \E t \in Turns : Owns(t)
    /\ \A t, u \in Turns : Owns(t) /\ Owns(u) => t = u
    /\ isGenerating = FALSE => stream = NoReply /\ tokenBuffer = {}
    /\ \A t \in Turns : Owns(t) =>
        /\ stream.for = ConvOf[t] /\ Shown \subseteq {t}
        /\ pc[t] \in {"draining", "idling", "clearing"} => Shown = {}
    /\ \A t \in Turns : Running(t) =>
        IF Owns(t) THEN abortRequested = FALSE
                   ELSE abortRequested = TRUE /\ pendingStop \in pendings
    /\ \A t, u \in Turns :
        Running(t) /\ ~Owns(t) /\ pc[u] = "draining" /\ Owns(u) => turn[u].drains = pendingStop

PlainSlotInv == TypeInv /\ PlainInv /\ RunInv /\ SlotInv

\* The state of ReplySlot.
Owner == IF isGenerating THEN CHOOSE t \in Owners : TRUE ELSE None
Said == IF isGenerating THEN Shown ELSE stream.text
Stored == [c \in Convs |-> UNION {m.text : m \in Replies(c)}]

LEMMA OwnerIs ==
    ASSUME TypeInv, SlotInv, NEW t \in Turns, Owns(t)
    PROVE  Owner = t
<1>1. Owners = {t}
  BY DEF SlotInv, Owns, Owners
<1>2. isGenerating
  BY DEF Owns
<1> QED BY <1>1, <1>2 DEF Owner

LEMMA OneOwner ==
    ASSUME TypeInv, SlotInv, isGenerating
    PROVE  \E t \in Turns : Owns(t) /\ Owner = t
<1>1. isGenerating = TRUE
  BY DEF TypeInv, ServiceOK
<1>2. PICK t \in Turns : Owns(t)
  BY <1>1 DEF SlotInv
<1> QED BY <1>2, OwnerIs

LEMMA AloneRuns ==
    ASSUME TypeInv, RunInv
    PROVE  /\ \A t, u \in native : t = u
           /\ active = None => native = {}
           /\ \A t \in native : native = {t} /\ busy = TRUE
BY TurnsAssumption DEF TypeInv, EngineOK, RunInv, None
-----------------------------------------------------------------------------
(* What the chats keep.                                                    *)

WordsOf(h) == UNION {m.text : m \in {h[i] : i \in {j \in DOMAIN h : h[j].role = "reply"}}}

LEMMA WordsAppend ==
    ASSUME NEW h \in Seq(Messages), NEW m \in Messages
    PROVE  WordsOf(Append(h, m)) = WordsOf(h) \cup (IF m.role = "reply" THEN m.text ELSE {})
<1> DEFINE g == Append(h, m)
<1>1. /\ Len(h) \in Nat /\ DOMAIN h = 1 .. Len(h) /\ DOMAIN g = 1 .. (Len(h) + 1)
      /\ \A i \in 1 .. Len(h) : g[i] = h[i]
      /\ g[Len(h) + 1] = m
  OBVIOUS
<1>2. DOMAIN g = DOMAIN h \cup {Len(h) + 1} /\ Len(h) + 1 \notin DOMAIN h
  BY <1>1
<1>3. \A i \in DOMAIN h : g[i] = h[i]
  BY <1>1
<1> HIDE DEF g
<1>4. ASSUME NEW x \in WordsOf(g) PROVE x \in WordsOf(h) \cup (IF m.role = "reply" THEN m.text ELSE {})
  <2>1. PICK i \in DOMAIN g : g[i].role = "reply" /\ x \in g[i].text
    BY <1>4 DEF WordsOf
  <2>2. CASE i \in DOMAIN h
    <3>1. h[i].role = "reply" /\ x \in h[i].text  BY <1>3, <2>1, <2>2
    <3> QED BY <2>2, <3>1 DEF WordsOf
  <2>3. CASE i = Len(h) + 1
    BY <1>1, <2>1, <2>3
  <2> QED BY <1>2, <2>1, <2>2, <2>3
<1>5. ASSUME NEW x \in WordsOf(h) PROVE x \in WordsOf(g)
  <2>1. PICK i \in DOMAIN h : h[i].role = "reply" /\ x \in h[i].text
    BY <1>5 DEF WordsOf
  <2>2. i \in DOMAIN g /\ g[i].role = "reply" /\ x \in g[i].text
    BY <1>2, <1>3, <2>1
  <2> QED BY <2>2 DEF WordsOf
<1>6. ASSUME NEW x \in m.text, m.role = "reply" PROVE x \in WordsOf(g)
  <2>1. Len(h) + 1 \in DOMAIN g /\ g[Len(h) + 1].role = "reply" /\ x \in g[Len(h) + 1].text
    BY <1>1, <1>2, <1>6
  <2> QED BY <2>1 DEF WordsOf
<1>7. WordsOf(g) \subseteq WordsOf(h) \cup (IF m.role = "reply" THEN m.text ELSE {})
  BY <1>4
<1>8. WordsOf(h) \subseteq WordsOf(g)
  BY <1>5
<1>9. (IF m.role = "reply" THEN m.text ELSE {}) \subseteq WordsOf(g)
  BY <1>6
<1>10. WordsOf(g) = WordsOf(h) \cup (IF m.role = "reply" THEN m.text ELSE {})
  BY <1>7, <1>8, <1>9
<1> QED BY <1>10 DEF g

LEMMA StoredIs == /\ Stored = [c \in Convs |-> WordsOf(history[c])]
                  /\ Stored' = [c \in Convs |-> WordsOf(history'[c])]
BY DEF Stored, Replies, WordsOf

LEMMA StoredMessage ==
    ASSUME StoreOK, NEW c \in Convs, NEW role, NEW text, NEW status,
           [role |-> role, text |-> text, status |-> status] \in Messages,
           AddMessage(c, role, text, status)
    PROVE  /\ role = "reply" => Stored' = [Stored EXCEPT ![c] = @ \cup text]
           /\ role # "reply" => Stored' = Stored
<1> DEFINE m == [role |-> role, text |-> text, status |-> status]
           more == IF role = "reply" THEN text ELSE {}
<1>1. history[c] \in Seq(Messages) /\ history' = [history EXCEPT ![c] = Append(@, m)]
  BY DEF StoreOK, AddMessage
<1>2. m.role = role /\ m.text = text
  OBVIOUS
<1> HIDE DEF m
<1>3. WordsOf(Append(history[c], m)) = WordsOf(history[c]) \cup more
  BY <1>1, <1>2, WordsAppend DEF m
<1>4. \A d \in Convs : WordsOf(history'[d]) = IF d = c THEN WordsOf(history[c]) \cup more
                                                       ELSE WordsOf(history[d])
  <2> TAKE d \in Convs
  <2>1. CASE d = c
    <3>1. history'[d] = Append(history[c], m)
      BY <1>1, <2>1 DEF StoreOK
    <3> QED BY <1>3, <2>1, <3>1
  <2>2. CASE d # c
    <3>1. history'[d] = history[d]
      BY <1>1, <2>2 DEF StoreOK
    <3> QED BY <2>2, <3>1
  <2> QED BY <2>1, <2>2
<1>5. Stored' = [Stored EXCEPT ![c] = @ \cup more]
  BY <1>4, StoredIs
<1>6. CASE role = "reply"  BY <1>5, <1>6
<1>7. CASE role # "reply"
  <2>1. Stored' = [d \in Convs |-> Stored[d]] /\ Stored = [d \in Convs |-> Stored[d]]
    BY <1>4, <1>7, StoredIs
  <2> QED BY <1>7, <2>1
<1> QED BY <1>6, <1>7

LEMMA StoredSame == UNCHANGED history => Stored' = Stored
BY DEF Stored, Replies
-----------------------------------------------------------------------------
(* What most steps leave alone.                                            *)

SameTurns ==
    \A t \in Turns : /\ turn'[t].attempt = turn[t].attempt /\ turn'[t].drains = turn[t].drains
                     /\ turn'[t].routes = turn[t].routes

Watched == {"draining", "idling", "clearing", "running", "summarizing", "fallback", "rebinding",
            "tool", "backoff"}

PcQuiet == \A t \in Turns : pc'[t] = pc[t] \/ pc'[t] \notin Watched

\* The engine is left alone, or its completion has ended and nothing runs.
EngineQuiet ==
    \/ UNCHANGED <<busy, active, native, pendingStop, pendings>>
    \/ native' = {} /\ \A t \in Turns : pc'[t] # "summarizing"

LEMMA QuietTurns ==
    ASSUME PlainSlotInv, SameTurns, PcQuiet, EngineQuiet
    PROVE  PlainInv' /\ RunInv'
<1>1. PlainInv'
  BY DEF PlainSlotInv, PlainInv, SameTurns, PcQuiet, Watched
<1>2. RunInv'
  BY DEF PlainSlotInv, RunInv, EngineQuiet, PcQuiet, Watched
<1> QED BY <1>1, <1>2

LEMMA QuietRuns ==
    ASSUME PlainSlotInv, PcQuiet, EngineQuiet, NEW t \in Turns, Running(t)'
    PROVE  Running(t) /\ UNCHANGED <<pendingStop, pendings>>
BY DEF PcQuiet, EngineQuiet, Running, Watched

LEMMA QuietStep ==
    ASSUME PlainSlotInv, TypeInv', SameTurns, PcQuiet, EngineQuiet,
           UNCHANGED <<isGenerating, generationAttempt, abortRequested, stream, tokenBuffer>>
    PROVE  PlainSlotInv' /\ UNCHANGED <<Owner, Said>>
<1>1. \A t \in Turns : Owns(t)' <=> Owns(t)
  BY DEF SameTurns, Owns
<1>2. SlotInv'
  <2>1. /\ \A t \in Turns : turn'[t].attempt <= generationAttempt'
        /\ isGenerating' = TRUE => \E t \in Turns : Owns(t)'
        /\ \A t, u \in Turns : Owns(t)' /\ Owns(u)' => t = u
        /\ isGenerating' = FALSE => stream' = NoReply /\ tokenBuffer' = {}
    BY <1>1 DEF PlainSlotInv, SlotInv, SameTurns
  <2>2. \A t \in Turns : Owns(t)' =>
            /\ stream'.for = ConvOf[t] /\ Shown' \subseteq {t}
            /\ pc'[t] \in {"draining", "idling", "clearing"} => Shown' = {}
    BY <1>1 DEF PlainSlotInv, SlotInv, PcQuiet, Watched, Shown
  <2>3. ASSUME NEW t \in Turns, Running(t)'
        PROVE  IF Owns(t)' THEN abortRequested' = FALSE
                           ELSE abortRequested' = TRUE /\ pendingStop' \in pendings'
    BY <1>1, <2>3, QuietRuns DEF PlainSlotInv, SlotInv
  <2>4. ASSUME NEW t \in Turns, NEW u \in Turns,
               Running(t)', ~Owns(t)', pc'[u] = "draining", Owns(u)'
        PROVE  turn'[u].drains = pendingStop'
    <3>1. Running(t) /\ pendingStop' = pendingStop
      BY <2>4, QuietRuns
    <3>2. pc[u] = "draining"
      BY <2>4 DEF PcQuiet, Watched
    <3>3. ~Owns(t) /\ Owns(u)
      BY <1>1, <2>4
    <3>4. turn[u].drains = pendingStop
      BY <3>1, <3>2, <3>3 DEF PlainSlotInv, SlotInv
    <3> QED BY <3>1, <3>4 DEF SameTurns
  <2> QED BY <2>1, <2>2, <2>3, <2>4 DEF SlotInv
<1>3. Owners' = Owners
  BY DEF Owners, SameTurns
<1>4. UNCHANGED <<Owner, Said>>
  BY <1>3 DEF Owner, Said, Shown
<1> QED BY <1>2, <1>4, QuietTurns DEF PlainSlotInv

\* A reply ends: nothing of a completion that was not stopped remains.
LEMMA EndStep ==
    ASSUME PlainSlotInv, TypeInv', SameTurns, PcQuiet, EngineQuiet,
           UNCHANGED <<generationAttempt, abortRequested>>,
           isGenerating' = FALSE, stream' = NoReply, tokenBuffer' = {},
           \A t \in Turns : Running(t)' => ~Owns(t)
    PROVE  PlainSlotInv' /\ Owner' = None /\ Said' = {}
<1>1. SlotInv'
  <2>1. \A t \in Turns : ~Owns(t)'
    BY DEF Owns
  <2>2. \A t \in Turns : turn'[t].attempt <= generationAttempt'
    BY DEF PlainSlotInv, SlotInv, SameTurns
  <2>3. ASSUME NEW t \in Turns, Running(t)'
        PROVE  abortRequested' = TRUE /\ pendingStop' \in pendings'
    <3>1. Running(t) /\ UNCHANGED <<pendingStop, pendings>>
      BY <2>3, QuietRuns
    <3>2. ~Owns(t)
      BY <2>3
    <3> QED BY <3>1, <3>2 DEF PlainSlotInv, SlotInv
  <2> QED BY <2>1, <2>2, <2>3 DEF SlotInv
<1>2. Owner' = None /\ Said' = {}
  BY DEF Owner, Said, NoReply
<1> QED BY <1>1, <1>2, QuietTurns DEF PlainSlotInv

LEMMA FinishQuiet ==
    ASSUME TypeInv, NEW t \in Turns, NEW outcome \in Outcomes, Finish(t, outcome)
    PROVE  SameTurns /\ PcQuiet /\ \A u \in Turns : pc'[u] = IF u = t THEN "done" ELSE pc[u]
<1>1. Keeps([turn[t] EXCEPT !.outcome = outcome], turn[t])
  BY LocalsExcept DEF TypeInv, TurnOK
<1>2. turn' = [turn EXCEPT ![t] = [turn[t] EXCEPT !.outcome = outcome]]
  BY DEF Finish
<1>3. SameTurns
  BY <1>1, <1>2 DEF SameTurns, TypeInv, TurnOK, Keeps
<1>4. \A u \in Turns : pc'[u] = IF u = t THEN "done" ELSE pc[u]
  BY DEF Finish, TypeInv, TurnOK
<1>5. PcQuiet
  BY <1>4 DEF PcQuiet, Watched
<1> QED BY <1>3, <1>4, <1>5

LEMMA GotoQuiet ==
    ASSUME TypeInv, NEW t \in Turns, NEW at, Goto(t, at)
    PROVE  /\ \A u \in Turns : pc'[u] = IF u = t THEN at ELSE pc[u]
           /\ at \notin Watched => PcQuiet
           /\ turn' = turn => SameTurns
BY DEF Goto, TypeInv, TurnOK, PcQuiet, SameTurns

LEMMA ProcessQuiet ==
    ASSUME TypeInv, NEW pcs, NEW turns \in [Turns -> Locals],
           ProcessNextInQueue(pcs, turns),
           \A t \in Turns : pcs[t] = pc[t] \/ pcs[t] = "done",
           \A t \in Turns : Keeps(turns[t], turn[t])
    PROVE  SameTurns /\ PcQuiet
<1> DEFINE taken == IF mounted THEN {queue[i] : i \in DOMAIN queue} ELSE {}
           first == {t \in taken : t = Head(queue)}
<1>1. /\ taken \subseteq Turns
      /\ pc' = [t \in Turns |-> IF t \in first THEN "routing"
                                ELSE IF t \in taken THEN "merged" ELSE pcs[t]]
      /\ turn' = [t \in Turns |-> IF t \in first THEN [turns[t] EXCEPT !.carries = taken]
                                  ELSE turns[t]]
  BY DEF ProcessNextInQueue, TypeInv, ServiceOK
<1> HIDE DEF taken, first
<1>2. PcQuiet
  BY <1>1 DEF PcQuiet, Watched
<1>3. \A t \in Turns : Keeps([turns[t] EXCEPT !.carries = taken], turns[t])
  BY <1>1, LocalsExcept
<1>4. \A t \in Turns : turn'[t] = [turns[t] EXCEPT !.carries = taken] \/ turn'[t] = turns[t]
  BY <1>1
<1>5. SameTurns
  <2> SUFFICES ASSUME NEW t \in Turns
               PROVE  /\ turn'[t].attempt = turn[t].attempt /\ turn'[t].drains = turn[t].drains
                      /\ turn'[t].routes = turn[t].routes
    BY DEF SameTurns
  <2> DEFINE x == [turns[t] EXCEPT !.carries = taken]
  <2>1. Keeps(x, turns[t]) /\ Keeps(turns[t], turn[t]) /\ (turn'[t] = x \/ turn'[t] = turns[t])
    BY <1>3, <1>4
  <2> HIDE DEF x
  <2> QED BY <2>1 DEF Keeps
<1> QED BY <1>2, <1>5

\* The end of the completion of t, the only one there is.
LEMMA EndRunQuiet ==
    ASSUME PlainSlotInv, NEW t \in Turns, NEW mine, t \in native, EndRun(t, mine),
           PcQuiet, pc'[t] # "summarizing"
    PROVE  EngineQuiet /\ native' = {}
<1>1. native = {t}
  BY AloneRuns DEF PlainSlotInv
<1>2. native' = {}
  BY <1>1 DEF EndRun
<1>3. \A u \in Turns : pc'[u] # "summarizing"
  BY <1>1 DEF PcQuiet, Watched, PlainSlotInv, RunInv
<1> QED BY <1>2, <1>3 DEF EngineQuiet
-----------------------------------------------------------------------------
(* Every step keeps the invariant, and is a step of the slot or none.      *)

SlotQuiet == UNCHANGED <<Owner, Said, Stored>>
Begins == \E t \in Turns : Owner = None /\ Owner' = t /\ UNCHANGED <<Said, Stored>>
Says == Owner \in Turns /\ Said' = {Owner} /\ UNCHANGED <<Owner, Stored>>
Ends ==
    /\ Owner \in Turns
    /\ Stored' = [Stored EXCEPT ![ConvOf[Owner]] = @ \cup Said]
    /\ Owner' = None /\ Said' = {}
SlotStep == SlotQuiet \/ Begins \/ Says \/ Ends

\* Sending, queueing, drawing and routing.
LEMMA AdmitSlot ==
    ASSUME PlainSlotInv, TypeInv', NEW t \in Turns,
           Send(t) \/ Admit(t) \/ RouteText(t) \/ RouteImage(t) \/ ImageDone(t) \/ DrainTimer
    PROVE  PlainSlotInv' /\ SlotStep
<1>1. UNCHANGED <<isGenerating, generationAttempt, abortRequested, stream, tokenBuffer,
                  boundTo, busy, active, native, pendingStop, pendings>>
  BY DEF Send, Admit, RouteText, RouteImage, ImageDone, DrainTimer, svcVars, storeVars,
     engineVars, runVars, stopVars
<1>2. EngineQuiet
  BY <1>1 DEF EngineQuiet
<1>3. TypeInv
  BY DEF PlainSlotInv
<1>4. SameTurns /\ PcQuiet
  <2>1. CASE Send(t)
    <3>1. Keeps([turn[t] EXCEPT !.carries = {t}], turn[t])
      BY <1>3, LocalsExcept DEF TypeInv, TurnOK
    <3>2. turn' = [turn EXCEPT ![t] = [turn[t] EXCEPT !.carries = {t}]]
      BY <2>1 DEF Send
    <3>3. SameTurns
      BY <1>3, <3>1, <3>2 DEF SameTurns, TypeInv, TurnOK, Keeps
    <3>4. "reclaim" \notin Watched
      BY DEF Watched
    <3> QED BY <1>3, <2>1, <3>3, <3>4, GotoQuiet DEF Send
  <2>2. CASE Admit(t) \/ RouteText(t) \/ RouteImage(t)
    <3>1. turn' = turn
      BY <2>2 DEF Admit, RouteText, RouteImage
    <3>2. PICK at \in {"queued", "routing", "readying", "drawing"} : Goto(t, at)
      BY <2>2 DEF Admit, RouteText, RouteImage
    <3>3. at \notin Watched
      BY DEF Watched
    <3> QED BY <1>3, <3>1, <3>2, <3>3, GotoQuiet
  <2>3. CASE ImageDone(t)
    <3> DEFINE o == IF drawing = t THEN "answered" ELSE "refused"
               pcs == [pc EXCEPT ![t] = "done"]
               turns == [turn EXCEPT ![t].outcome = o]
    <3>1. \A u \in Turns : pcs[u] = pc[u] \/ pcs[u] = "done"
      BY <1>3 DEF TypeInv, TurnOK
    <3>2. turns \in [Turns -> Locals] /\ \A u \in Turns : Keeps(turns[u], turn[u])
      <4>1. o \in Outcomes  BY DEF Outcomes
      <4>2. Keeps([turn[t] EXCEPT !.outcome = o], turn[t])
        BY <1>3, <4>1, LocalsExcept DEF TypeInv, TurnOK
      <4>3. turns = [turn EXCEPT ![t] = [turn[t] EXCEPT !.outcome = o]]
        OBVIOUS
      <4> QED BY <1>3, <4>2, <4>3 DEF TypeInv, TurnOK, Keeps
    <3>3. IF isGenerating THEN pc' = pcs /\ turn' = turns /\ UNCHANGED queue
                          ELSE ProcessNextInQueue(pcs, turns)
      BY <2>3 DEF ImageDone
    <3> HIDE DEF pcs, turns
    <3>4. CASE pc' = pcs /\ turn' = turns
      BY <3>1, <3>2, <3>4 DEF SameTurns, Keeps, PcQuiet, Watched
    <3>5. CASE ProcessNextInQueue(pcs, turns)
      BY <1>3, <3>1, <3>2, <3>5, ProcessQuiet
    <3> QED BY <3>3, <3>4, <3>5
  <2>4. CASE DrainTimer
    <3>1. ProcessNextInQueue(pc, turn)
      BY <2>4 DEF DrainTimer
    <3>2. turn \in [Turns -> Locals] /\ \A u \in Turns : Keeps(turn[u], turn[u])
      BY <1>3 DEF TypeInv, TurnOK, Keeps
    <3> QED BY <1>3, <3>1, <3>2, ProcessQuiet
  <2> QED BY <2>1, <2>2, <2>3, <2>4
<1>5. Stored' = Stored
  <2>1. CASE RouteText(t) \/ RouteImage(t)
    <3>1. [role |-> "user", text |-> turn[t].carries, status |-> "sent"] \in Messages
      BY <1>3 DEF TypeInv, TurnOK, Locals, Messages
    <3>2. ConvOf[t] \in Convs
      BY TurnsAssumption
    <3> QED BY <1>3, <2>1, <3>1, <3>2, StoredMessage DEF RouteText, RouteImage, TypeInv
  <2>2. CASE UNCHANGED history
    BY <2>2, StoredSame
  <2> QED BY <2>1, <2>2 DEF Send, Admit, ImageDone, DrainTimer, storeVars
<1> QED BY <1>1, <1>2, <1>4, <1>5, QuietStep DEF SlotStep, SlotQuiet

\* The screen, and the stops that have been asked for.
LEMMA OtherSlot ==
    ASSUME PlainSlotInv, TypeInv',
           \/ Leave \/ SwitchChat \/ AllDone \/ UNCHANGED vars \/ \E i \in StopIds : Engine(i)
    PROVE  PlainSlotInv' /\ SlotStep
<1>1. /\ UNCHANGED <<isGenerating, generationAttempt, abortRequested, stream, tokenBuffer,
                     boundTo, history, pc, turn>>
  BY DEF Leave, SwitchChat, AllDone, vars, Engine, LiteRTStopped, NativeStopped, svcVars,
     storeVars, engineVars, turnVars
<1>2. SameTurns /\ PcQuiet
  BY <1>1 DEF SameTurns, PcQuiet
<1>3. EngineQuiet
  <2>1. CASE UNCHANGED <<busy, active, native, pendingStop, pendings>>
    BY <2>1 DEF EngineQuiet
  <2>2. CASE active = None /\ native' = native
    <3>1. native = {}
      BY <2>2, AloneRuns DEF PlainSlotInv
    <3>2. \A t \in Turns : pc[t] # "summarizing"
      BY <3>1 DEF PlainSlotInv, RunInv
    <3> QED BY <1>1, <2>2, <3>1, <3>2 DEF EngineQuiet
  <2> QED
    BY <2>1, <2>2 DEF Leave, SwitchChat, AllDone, vars, Engine, LiteRTStopped, NativeStopped,
       engineVars, runVars, stopVars
<1>4. Stored' = Stored
  BY <1>1, StoredSame
<1> QED BY <1>1, <1>2, <1>3, <1>4, QuietStep DEF SlotStep, SlotQuiet

\* A turn that gives up what it does leaves the slot alone.
LEMMA QuitSlot ==
    ASSUME PlainSlotInv, TypeInv', NEW t \in Turns, Quit(t), EngineQuiet
    PROVE  PlainSlotInv' /\ SlotStep
<1>1. "stopped" \in Outcomes
  BY DEF Outcomes
<1>2. SameTurns /\ PcQuiet
  BY <1>1, FinishQuiet DEF Quit, PlainSlotInv
<1>3. Stored' = Stored
  BY StoredSame DEF Quit
<1> QED BY <1>2, <1>3, QuietStep DEF Quit, svcVars, SlotStep, SlotQuiet

\* Up to the moment the turn wants the slot.
LEMMA ReadySlot ==
    ASSUME PlainSlotInv, TypeInv', NEW t \in Turns,
           \/ Ready(t) \/ LongChat(t) \/ EnginesStopped(t)
           \/ Claim(t) /\ isGenerating
    PROVE  PlainSlotInv' /\ SlotStep
<1>1. UNCHANGED <<isGenerating, generationAttempt, abortRequested, stream, tokenBuffer,
                  boundTo, busy, active, native, pendingStop, pendings, history>>
  BY DEF Ready, LongChat, EnginesStopped, Claim, svcVars, storeVars, engineVars, runVars, stopVars
<1>2. SameTurns /\ PcQuiet
  <2>1. CASE \E o \in Outcomes : Finish(t, o)
    BY <2>1, FinishQuiet DEF PlainSlotInv
  <2>2. CASE \E at \in {"context", "summary"} : Goto(t, at) /\ turn' = turn
    BY <2>2, GotoQuiet DEF PlainSlotInv, Watched
  <2>3. {"failed", "refused"} \subseteq Outcomes
    BY DEF Outcomes
  <2> QED BY <2>1, <2>2, <2>3 DEF Ready, LongChat, EnginesStopped, Claim
<1>3. EngineQuiet
  BY <1>1 DEF EngineQuiet
<1>4. Stored' = Stored
  BY <1>1, StoredSame
<1> QED BY <1>1, <1>2, <1>3, <1>4, QuietStep DEF SlotStep, SlotQuiet

\* The turn takes the slot. What still runs has lost it to a stop, and is
\* what the turn will wait for.
LEMMA ClaimSlot ==
    ASSUME PlainSlotInv, TypeInv', NEW t \in Turns, Claim(t), ~isGenerating
    PROVE  PlainSlotInv' /\ SlotStep
<1>1. /\ pc[t] = "context" /\ isGenerating = FALSE /\ isGenerating' = TRUE
      /\ generationAttempt' = generationAttempt + 1 /\ generationAttempt \in Nat
      /\ stream' = [for |-> ConvOf[t], text |-> {}]
      /\ Goto(t, "draining")
      /\ UNCHANGED <<abortRequested, tokenBuffer, history, boundTo, busy, active, native,
                     pendingStop, pendings>>
  BY DEF Claim, TakeSlot, PlainSlotInv, TypeInv, ServiceOK, engineVars, runVars, stopVars
<1> DEFINE l == [turn[t] EXCEPT !.attempt = generationAttempt + 1, !.drains = pendingStop]
<1>2. Takes(l, generationAttempt + 1, pendingStop) /\ l.routes = turn[t].routes
  <2>1. turn[t] \in Locals /\ generationAttempt + 1 \in Nat /\ pendingStop \in Presses \cup {None}
    BY DEF PlainSlotInv, TypeInv, TurnOK, ServiceOK, StopOK
  <2> DEFINE o == turn[t]
             n == generationAttempt + 1
  <2>2. o \in Locals /\ n \in Nat /\ pendingStop \in Presses \cup {None}
    BY <2>1
  <2> HIDE DEF o, n
  <2>3. /\ Takes([o EXCEPT !.attempt = n, !.drains = pendingStop], n, pendingStop)
        /\ [o EXCEPT !.attempt = n, !.drains = pendingStop].routes = o.routes
    BY <2>2, LocalsExcept, Zenon
  <2> QED BY <2>3 DEF o, n
<1>3. turn' = [turn EXCEPT ![t] = l]
  BY DEF Claim, TakeSlot
<1> HIDE DEF l
<1>4. /\ turn'[t].attempt = generationAttempt' /\ turn'[t].drains = pendingStop
      /\ turn'[t].routes = turn[t].routes
      /\ \A u \in Turns \ {t} : turn'[u] = turn[u]
  BY <1>1, <1>2, <1>3 DEF PlainSlotInv, TypeInv, TurnOK, Takes
<1>5. \A u \in Turns : pc'[u] = IF u = t THEN "draining" ELSE pc[u]
  BY <1>1, GotoQuiet DEF PlainSlotInv
<1>6. \A u \in Turns : turn[u].attempt \in Nat /\ turn[u].attempt <= generationAttempt
  BY DEF PlainSlotInv, SlotInv, TypeInv, TurnOK, Locals
<1>7. \A u \in Turns : Owns(u)' <=> u = t
  <2>1. Owns(t)'
    BY <1>1, <1>4 DEF Owns
  <2>2. ASSUME NEW u \in Turns \ {t} PROVE ~Owns(u)'
    <3>1. turn'[u].attempt \in Nat /\ turn'[u].attempt <= generationAttempt
      BY <1>4, <1>6
    <3>2. turn'[u].attempt # generationAttempt'
      BY <1>1, <3>1
    <3> QED BY <3>2 DEF Owns
  <2> QED BY <2>1, <2>2
<1>8. stream = NoReply /\ tokenBuffer = {}
  BY <1>1 DEF PlainSlotInv, SlotInv
<1>9. \A u \in Turns : Running(u)' => Running(u) /\ u # t
  BY <1>1, <1>5 DEF Running
<1>10. SlotInv'
  <2>1. \A u \in Turns : turn'[u].attempt <= generationAttempt'
    <3> TAKE u \in Turns
    <3>1. CASE u = t
      BY <1>1, <1>4, <3>1
    <3>2. CASE u # t
      <4>1. turn'[u].attempt = turn[u].attempt
        BY <1>4, <3>2
      <4> QED BY <1>1, <1>6, <4>1
    <3> QED BY <3>1, <3>2
  <2>2. stream'.for = ConvOf[t] /\ Shown' = {}
    BY <1>1, <1>8 DEF Shown
  <2>3. ASSUME NEW u \in Turns, Running(u)'
        PROVE  ~Owns(u)' /\ abortRequested' = TRUE /\ pendingStop' \in pendings'
    <3>1. Running(u) /\ ~Owns(u)
      BY <1>1, <1>9, <2>3 DEF Owns
    <3> QED BY <1>1, <1>7, <1>9, <2>3, <3>1 DEF PlainSlotInv, SlotInv
  <2>4. \A u \in Turns : Owns(u)' => turn'[u].drains = pendingStop'
    BY <1>1, <1>4, <1>7
  <2> QED BY <1>1, <1>7, <2>1, <2>2, <2>3, <2>4 DEF SlotInv
<1>11. PlainInv'
  BY <1>4, <1>5 DEF PlainSlotInv, PlainInv
<1>12. RunInv'
  BY <1>1, <1>5 DEF PlainSlotInv, RunInv, TypeInv, EngineOK
<1>13. Begins
  <2>1. Owner = None
    BY <1>1 DEF Owner
  <2>2. Said = {} /\ Said' = {}
    BY <1>1, <1>8 DEF Said, Shown, NoReply
  <2>3. Owner' = t
    <3>1. Owners' = {t}
      BY <1>1, <1>7 DEF Owners, Owns
    <3>2. isGenerating' /\ Owner' = IF isGenerating' THEN CHOOSE u \in Owners' : TRUE ELSE None
      BY <1>1 DEF Owner
    <3> QED BY <3>1, <3>2
  <2>4. Stored' = Stored
    BY <1>1, StoredSame
  <2> QED BY <2>1, <2>2, <2>3, <2>4 DEF Begins
<1> QED BY <1>10, <1>11, <1>12, <1>13 DEF PlainSlotInv, SlotStep

\* The stop the turn waited for has settled: nothing runs that had the slot.
LEMMA DrainedSlot ==
    ASSUME PlainSlotInv, TypeInv', NEW t \in Turns, Drained(t)
    PROVE  PlainSlotInv' /\ SlotStep
<1>0. UNCHANGED <<busy, active, native, boundTo, pendingStop, pendings>>
  BY DEF Drained, engineVars, runVars, stopVars
<1>1. CASE Quit(t)
  BY <1>0, <1>1, QuitSlot DEF EngineQuiet
<1>2. CASE /\ Mine(t) /\ isGenerating /\ abortRequested' = FALSE /\ Goto(t, "idling")
           /\ UNCHANGED <<isGenerating, generationAttempt, tokenBuffer, queue, timers,
                          storeVars, turn>>
  <2>1. Owns(t)
    BY <1>2 DEF Mine, Owns, PlainSlotInv, TypeInv, ServiceOK
  <2>2. \A u \in Turns : pc'[u] = IF u = t THEN "idling" ELSE pc[u]
    BY <1>2, GotoQuiet DEF PlainSlotInv
  <2>3. \A u \in Turns : Owns(u)' <=> Owns(u)
    BY <1>2 DEF Owns
  <2>4. UNCHANGED <<stream, history>>
    BY <1>2 DEF storeVars
  <2>5. ASSUME NEW u \in Turns, Running(u) PROVE Owns(u)
    <3>1. SUFFICES ASSUME ~Owns(u) PROVE FALSE
      OBVIOUS
    <3>2. pendingStop \in pendings
      BY <2>5, <3>1 DEF PlainSlotInv, SlotInv
    <3>3. turn[t].drains = pendingStop
      BY <2>1, <2>5, <3>1 DEF PlainSlotInv, SlotInv, Drained
    <3>4. pendingStop # None
      BY <3>2, TurnsAssumption DEF PlainSlotInv, TypeInv, StopOK, None
    <3> QED BY <3>2, <3>3, <3>4 DEF Drained
  <2>6. \A u \in Turns : Running(u)' => Running(u)
    BY <1>0, <2>2 DEF Running
  <2>7. SlotInv'
    <3>1. \A u \in Turns : Owns(u)' =>
            /\ stream'.for = ConvOf[u] /\ Shown' \subseteq {u}
            /\ pc'[u] \in {"draining", "idling", "clearing"} => Shown' = {}
      BY <1>2, <2>2, <2>3, <2>4 DEF PlainSlotInv, SlotInv, Shown, Drained
    <3>2. \A u \in Turns : Running(u)' => Owns(u)' /\ abortRequested' = FALSE
      BY <1>2, <2>3, <2>5, <2>6
    <3> QED BY <1>2, <2>3, <2>4, <3>1, <3>2 DEF PlainSlotInv, SlotInv
  <2>8. PlainInv'
    BY <1>2, <2>2 DEF PlainSlotInv, PlainInv
  <2>9. RunInv'
    BY <1>0, <2>2 DEF PlainSlotInv, RunInv, TypeInv, EngineOK
  <2>10. SlotQuiet
    <3>1. Owners' = Owners
      BY <1>2 DEF Owners
    <3>2. UNCHANGED <<Owner, Said>>
      BY <1>2, <2>4, <3>1 DEF Owner, Said, Shown
    <3> QED BY <2>4, <3>2, StoredSame DEF SlotQuiet
  <2> QED BY <2>7, <2>8, <2>9, <2>10 DEF PlainSlotInv, SlotStep
<1> QED BY <1>1, <1>2 DEF Drained

\* A token of the owner, and the timer that shows it.
LEMMA TokenSlot ==
    ASSUME PlainSlotInv, TypeInv', Flush \/ \E t \in Turns : Token(t)
    PROVE  PlainSlotInv' /\ SlotStep
<1>0. UNCHANGED <<isGenerating, abortRequested, generationAttempt, history, busy, active, native,
                  boundTo, pendingStop, pendings, pc, turn>>
  BY DEF Flush, Token, storeVars, engineVars, runVars, stopVars, turnVars
<1>1. /\ \A u \in Turns : (Owns(u)' <=> Owns(u)) /\ (Running(u)' <=> Running(u))
      /\ Owners' = Owners /\ Owner' = Owner
  BY <1>0 DEF Owns, Running, Owners, Owner
<1>2. PlainInv' /\ RunInv'
  BY <1>0 DEF PlainSlotInv, PlainInv, RunInv
<1>3. Stored' = Stored
  BY <1>0, StoredSame
<1>4. CASE Flush
  <2>1. tokenBuffer # {} /\ tokenBuffer' = {} /\ stream' = [stream EXCEPT !.text = Shown]
    BY <1>4 DEF Flush
  <2>2. isGenerating = TRUE
    BY <2>1 DEF PlainSlotInv, SlotInv, TypeInv, ServiceOK
  <2>3. stream'.for = stream.for /\ stream'.text = Shown
    BY <2>1 DEF PlainSlotInv, TypeInv, StoreOK
  <2>4. Shown' = Shown
    BY <2>1, <2>3 DEF Shown
  <2>5. SlotInv'
    BY <1>0, <1>1, <2>2, <2>3, <2>4 DEF PlainSlotInv, SlotInv
  <2>6. Said' = Said
    BY <1>0, <2>2, <2>4 DEF Said
  <2> QED BY <1>1, <1>2, <1>3, <2>5, <2>6 DEF PlainSlotInv, SlotStep, SlotQuiet
<1>5. ASSUME NEW t \in Turns, Token(t) PROVE PlainSlotInv' /\ SlotStep
  <2>1. Running(t) /\ ~abortRequested /\ tokenBuffer' = tokenBuffer \cup {t} /\ stream' = stream
    BY <1>5 DEF Token, storeVars
  <2>2. Owns(t)
    BY <2>1 DEF PlainSlotInv, SlotInv
  <2>3. Shown' = Shown \cup {t} /\ Shown \subseteq {t}
    BY <2>1, <2>2 DEF Shown, PlainSlotInv, SlotInv
  <2>4. isGenerating = TRUE /\ pc[t] = "running"
    BY <2>1, <2>2 DEF Owns, Running
  <2>5. \A u \in Turns : Owns(u) => u = t
    BY <2>2 DEF PlainSlotInv, SlotInv
  <2>6. \A u \in Turns : Owns(u)' =>
            /\ stream'.for = ConvOf[u] /\ Shown' \subseteq {u}
            /\ pc'[u] \in {"draining", "idling", "clearing"} => Shown' = {}
    BY <1>0, <1>1, <2>1, <2>2, <2>3, <2>4, <2>5 DEF PlainSlotInv, SlotInv
  <2>7. SlotInv'
    BY <1>0, <1>1, <2>4, <2>6 DEF PlainSlotInv, SlotInv
  <2>8. Owner = t
    BY <2>2, OwnerIs DEF PlainSlotInv
  <2>9. Said' = {t}
    BY <1>0, <2>3, <2>4 DEF Said
  <2> QED BY <1>1, <1>2, <1>3, <2>7, <2>8, <2>9 DEF PlainSlotInv, SlotStep, Says
<1> QED BY <1>4, <1>5

\* The completion that may end a reply is the owner's.
LEMMA RunnerOwns ==
    ASSUME PlainSlotInv, NEW t \in Turns, Running(t), ~abortRequested
    PROVE  Owns(t)
BY DEF PlainSlotInv, SlotInv

LEMMA FinalizeStored ==
    ASSUME PlainSlotInv, NEW c \in Convs, stream.for = c,
           NEW status \in {"completed", "cancelled", "failed"}, Finalize(c, status)
    PROVE  Stored' = [Stored EXCEPT ![c] = @ \cup Shown]
<1>1. c # None
  BY TurnsAssumption DEF None
<1>2. CASE AddMessage(c, "reply", Shown, status)
  <2>1. [role |-> "reply", text |-> Shown, status |-> status] \in Messages
    BY DEF PlainSlotInv, TypeInv, ServiceOK, StoreOK, Shown, Messages
  <2> QED BY <1>2, <2>1, StoredMessage DEF PlainSlotInv, TypeInv
<1>3. CASE Shown = {} /\ UNCHANGED history
  <2>1. Stored' = Stored
    BY <1>3, StoredSame
  <2>2. Stored = [Stored EXCEPT ![c] = @ \cup {}]
    BY DEF Stored
  <2> QED BY <1>3, <2>1, <2>2
<1> QED BY <1>1, <1>2, <1>3 DEF Finalize

\* The reply of t ends, and its chat keeps what was shown.
LEMMA ReplyEnds ==
    ASSUME PlainSlotInv, TypeInv', NEW t \in Turns, Owns(t),
           SameTurns, PcQuiet, EngineQuiet,
           UNCHANGED <<generationAttempt, abortRequested>>,
           ResetState, stream' = NoReply,
           \A u \in Turns : Running(u)' => ~Owns(u),
           Stored' = [Stored EXCEPT ![ConvOf[t]] = @ \cup Shown]
    PROVE  PlainSlotInv' /\ SlotStep
<1>1. isGenerating' = FALSE /\ tokenBuffer' = {}
  BY DEF ResetState
<1>2. PlainSlotInv' /\ Owner' = None /\ Said' = {}
  BY <1>1, EndStep
<1>3. Owner = t
  BY OwnerIs DEF PlainSlotInv
<1>4. Said = Shown
  BY DEF Said, Owns
<1> QED BY <1>2, <1>3, <1>4 DEF SlotStep, Ends

LEMMA PlainEndsSlot ==
    ASSUME PlainSlotInv, TypeInv', NEW t \in Turns, PlainEnds(t)
    PROVE  PlainSlotInv' /\ SlotStep
<1>1. t \in native /\ EndRun(t, "idle") /\ boundTo' = boundTo
  BY DEF PlainEnds, Running
<1>2. SameTurns /\ PcQuiet /\ pc'[t] # "summarizing"
  <2>1. {"stopped", "answered"} \subseteq Outcomes
    BY DEF Outcomes
  <2>2. \E o \in Outcomes : Finish(t, o)
    BY <2>1 DEF PlainEnds, Quit, Complete
  <2> QED BY <2>2, FinishQuiet DEF PlainSlotInv
<1>3. EngineQuiet /\ native' = {}
  BY <1>1, <1>2, EndRunQuiet
<1>4. CASE Quit(t)
  BY <1>1, <1>3, <1>4, QuitSlot
<1>5. CASE ~abortRequested /\ Complete(t, "answered")
  <2>1. Owns(t) /\ stream.for = ConvOf[t] /\ ConvOf[t] \in Convs
    BY <1>5, RunnerOwns, TurnsAssumption DEF PlainEnds, PlainSlotInv, SlotInv
  <2>2. Stored' = [Stored EXCEPT ![ConvOf[t]] = @ \cup Shown]
    BY <1>5, <2>1, FinalizeStored DEF Complete
  <2>3. stream' = NoReply /\ ResetState /\ UNCHANGED <<generationAttempt, abortRequested>>
    BY <1>5 DEF Complete, Finalize
  <2> QED BY <1>1, <1>2, <1>3, <2>1, <2>2, <2>3, ReplyEnds DEF Running
<1> QED BY <1>4, <1>5 DEF PlainEnds

LEMMA GiveUpStored ==
    ASSUME PlainSlotInv, NEW t \in Turns, Owns(t), GiveUp(t)
    PROVE  Stored' = [Stored EXCEPT ![ConvOf[t]] = @ \cup Shown]
<1> DEFINE a == [role |-> "reply", text |-> Shown, status |-> "failed"]
           b == [role |-> "reply", text |-> {}, status |-> "error"]
           c == ConvOf[t]
           h == history[c]
<1>1. isGenerating /\ stream.for = c /\ c \in Convs /\ h \in Seq(Messages)
  BY TurnsAssumption DEF Owns, PlainSlotInv, SlotInv, TypeInv, StoreOK
<1>2. a \in Messages /\ b \in Messages
  BY DEF PlainSlotInv, TypeInv, ServiceOK, StoreOK, Shown, Messages
<1>3. a.role = "reply" /\ a.text = Shown /\ b.role = "reply" /\ b.text = {}
  OBVIOUS
<1>4. history' = [history EXCEPT ![c] = h \o <<a>> \o <<b>>]
  <2>1. Kept(t, "failed") = <<a>>
    BY <1>1 DEF Kept
  <2> QED BY <1>1, <2>1 DEF GiveUp
<1> HIDE DEF a, b
<1>5. h \o <<a>> \o <<b>> = Append(Append(h, a), b)
  BY <1>1, <1>2
<1>6. WordsOf(Append(h, a)) = WordsOf(h) \cup Shown /\ Append(h, a) \in Seq(Messages)
  BY <1>1, <1>2, <1>3, WordsAppend
<1>7. WordsOf(Append(Append(h, a), b)) = WordsOf(Append(h, a)) \cup {}
  BY <1>2, <1>3, <1>6, WordsAppend
<1>8. \A d \in Convs : WordsOf(history'[d]) = IF d = c THEN WordsOf(h) \cup Shown
                                                       ELSE WordsOf(history[d])
  <2> TAKE d \in Convs
  <2>1. CASE d = c
    <3>1. history'[d] = Append(Append(h, a), b)
      BY <1>4, <1>5, <2>1 DEF PlainSlotInv, TypeInv, StoreOK
    <3> QED BY <1>6, <1>7, <2>1, <3>1
  <2>2. CASE d # c
    <3>1. history'[d] = history[d]
      BY <1>4, <2>2 DEF PlainSlotInv, TypeInv, StoreOK
    <3> QED BY <2>2, <3>1
  <2> QED BY <2>1, <2>2
<1> QED BY <1>8, StoredIs

\* The turn goes from the idle engine to the clearing of its cache.
LEMMA ClearingSlot ==
    ASSUME PlainSlotInv, TypeInv', NEW t \in Turns, Idle(t), Goto(t, "clearing"),
           UNCHANGED <<svcVars, storeVars, turn, runVars, stopVars>>
    PROVE  PlainSlotInv' /\ SlotStep
<1>1. \A u \in Turns : pc'[u] = IF u = t THEN "clearing" ELSE pc[u]
  BY GotoQuiet DEF PlainSlotInv
<1>2. pc[t] = "idling"
  BY DEF Idle
<1>3. UNCHANGED <<isGenerating, generationAttempt, abortRequested, stream, tokenBuffer, history,
                  turn, busy, active, native, pendingStop, pendings>>
  BY DEF svcVars, storeVars, runVars, stopVars
<1>4. \A u \in Turns : (Owns(u)' <=> Owns(u)) /\ (Running(u)' <=> Running(u))
  BY <1>1, <1>2, <1>3 DEF Owns, Running
<1>5. SlotInv'
  <2>1. \A u \in Turns : Owns(u)' =>
            /\ stream'.for = ConvOf[u] /\ Shown' \subseteq {u}
            /\ pc'[u] \in {"draining", "idling", "clearing"} => Shown' = {}
    BY <1>1, <1>2, <1>3, <1>4 DEF PlainSlotInv, SlotInv, Shown
  <2>2. \A u \in Turns : pc'[u] = "draining" => pc[u] = "draining"
    BY <1>1
  <2> QED BY <1>3, <1>4, <2>1, <2>2 DEF PlainSlotInv, SlotInv
<1>6. PlainInv' /\ RunInv'
  BY <1>1, <1>2, <1>3 DEF PlainSlotInv, PlainInv, RunInv
<1>7. SlotQuiet
  BY <1>3, StoredSame DEF SlotQuiet, Owner, Owners, Said, Shown
<1> QED BY <1>5, <1>6, <1>7 DEF PlainSlotInv, SlotStep

\* The turn's completion starts, with nothing shown yet, or is refused.
LEMMA BeginSlot ==
    ASSUME PlainTurns, PlainSlotInv, TypeInv', NEW t \in Turns, Begin(t), StillOwns(t),
           pc[t] \in {"idling", "clearing"}
    PROVE  PlainSlotInv' /\ SlotStep
<1>1. Owns(t) /\ isGenerating = TRUE /\ abortRequested = FALSE
  BY DEF StillOwns, Mine, Owns, PlainSlotInv, TypeInv, ServiceOK
<1>2. Shown = {}
  BY <1>1 DEF PlainSlotInv, SlotInv
<1>3. CASE ~busy
  <2>1. /\ tokenBuffer' = {} /\ StartRun(t) /\ Goto(t, "running")
        /\ UNCHANGED <<isGenerating, abortRequested, generationAttempt, storeVars, turn,
                       stopVars>>
    BY <1>3 DEF Begin, StartToolRun, PlainTurns
  <2>2. \A u \in Turns : pc'[u] = IF u = t THEN "running" ELSE pc[u]
    BY <2>1, GotoQuiet DEF PlainSlotInv
  <2>3. \A u \in Turns : Owns(u)' <=> Owns(u)
    BY <2>1 DEF Owns
  <2>4. UNCHANGED <<stream, history>>
    BY <2>1 DEF storeVars
  <2>5. native' = {t} /\ busy' = TRUE /\ active' = t
    BY <1>3, <2>1 DEF StartRun, PlainSlotInv, RunInv, TypeInv, EngineOK
  <2>6. \A u \in Turns : Running(u)' => u = t
    BY <2>5 DEF Running
  <2>7. Shown' = {}
    BY <1>2, <2>1, <2>4 DEF Shown
  <2>8. SlotInv'
    <3>1. \A u \in Turns : Owns(u)' =>
            /\ stream'.for = ConvOf[u] /\ Shown' \subseteq {u}
            /\ pc'[u] \in {"draining", "idling", "clearing"} => Shown' = {}
      BY <2>3, <2>4, <2>7 DEF PlainSlotInv, SlotInv
    <3>2. \A u \in Turns : Running(u)' => Owns(u)' /\ abortRequested' = FALSE
      BY <1>1, <2>1, <2>3, <2>6
    <3> QED BY <1>1, <2>1, <2>3, <3>1, <3>2 DEF PlainSlotInv, SlotInv
  <2>9. PlainInv'
    BY <2>1, <2>2 DEF PlainSlotInv, PlainInv
  <2>10. RunInv'
    <3>1. native = {}
      BY <1>3 DEF PlainSlotInv, RunInv, TypeInv, EngineOK
    <3> QED BY <2>2, <2>5, <3>1 DEF PlainSlotInv, RunInv
  <2>11. SlotQuiet
    <3>1. Owners' = Owners
      BY <2>1 DEF Owners
    <3>2. UNCHANGED <<Owner, Said>>
      BY <1>2, <2>1, <2>4, <2>7, <3>1 DEF Owner, Said
    <3> QED BY <2>4, <3>2, StoredSame DEF SlotQuiet
  <2> QED BY <2>8, <2>9, <2>10, <2>11 DEF PlainSlotInv, SlotStep
<1>4. CASE busy
  <2>1. Fail(t) /\ UNCHANGED <<runVars, stopVars>>
    BY <1>4 DEF Begin, PlainTurns
  <2>2. GiveUp(t)
    BY <1>1, <2>1 DEF Fail, PlainSlotInv, PlainInv
  <2>3. SameTurns /\ PcQuiet /\ pc'[t] = "done"
    BY <2>2, FinishQuiet DEF GiveUp, PlainSlotInv, Outcomes
  <2>4. EngineQuiet /\ UNCHANGED native
    BY <2>1 DEF EngineQuiet, runVars, stopVars
  <2>5. stream' = NoReply /\ ResetState /\ UNCHANGED <<generationAttempt, abortRequested>>
    BY <1>1, <2>2 DEF GiveUp
  <2>6. Stored' = [Stored EXCEPT ![ConvOf[t]] = @ \cup Shown]
    BY <1>1, <2>2, GiveUpStored
  <2>7. \A u \in Turns : Running(u)' => ~Owns(u)
    <3> SUFFICES ASSUME NEW u \in Turns, Running(u)', Owns(u) PROVE FALSE
      OBVIOUS
    <3>1. u = t
      BY <1>1 DEF PlainSlotInv, SlotInv
    <3> QED BY <2>3, <3>1 DEF Running
  <2> QED BY <1>1, <2>3, <2>4, <2>5, <2>6, <2>7, ReplyEnds
<1> QED BY <1>3, <1>4

LEMMA IdleSlot ==
    ASSUME PlainTurns, PlainSlotInv, TypeInv', NEW t \in Turns, Idle(t) \/ Cleared(t)
    PROVE  PlainSlotInv' /\ SlotStep
<1>1. CASE Quit(t) /\ UNCHANGED <<runVars, stopVars>>
  <2>1. EngineQuiet
    BY <1>1 DEF EngineQuiet, runVars, stopVars
  <2> QED BY <1>1, <2>1, QuitSlot
<1>2. CASE StillOwns(t) /\ Begin(t)
  BY <1>2, BeginSlot DEF Idle, Cleared
<1>3. CASE /\ Idle(t) /\ Goto(t, "clearing")
           /\ UNCHANGED <<svcVars, storeVars, turn, runVars, stopVars>>
  BY <1>3, ClearingSlot
<1> QED BY <1>1, <1>2, <1>3 DEF Idle, Cleared

LEMMA RunFailsSlot ==
    ASSUME PlainTurns, PlainSlotInv, TypeInv', NEW t \in Turns, RunFails(t)
    PROVE  PlainSlotInv' /\ SlotStep
<1>1. t \in native /\ EndRun(t, "idle") /\ boundTo' = boundTo /\ Fail(t)
  BY DEF RunFails, Running, PlainTurns
<1>2. turn[t].routes = 0
  BY DEF PlainSlotInv, PlainInv
<1>3. IF abortRequested THEN Quit(t) ELSE GiveUp(t)
  BY <1>1, <1>2 DEF Fail
<1>4. SameTurns /\ PcQuiet /\ pc'[t] # "summarizing"
  <2>1. {"stopped", "failed"} \subseteq Outcomes
    BY DEF Outcomes
  <2>2. \E o \in Outcomes : Finish(t, o)
    BY <1>3, <2>1 DEF Quit, GiveUp
  <2> QED BY <2>2, FinishQuiet DEF PlainSlotInv
<1>5. EngineQuiet /\ native' = {}
  BY <1>1, <1>4, EndRunQuiet
<1>6. CASE abortRequested
  BY <1>1, <1>3, <1>5, <1>6, QuitSlot
<1>7. CASE ~abortRequested
  <2>1. Owns(t) /\ GiveUp(t)
    BY <1>3, <1>7, RunnerOwns DEF RunFails
  <2>2. stream' = NoReply /\ ResetState /\ UNCHANGED <<generationAttempt, abortRequested>>
    BY <2>1 DEF GiveUp, Owns
  <2>3. Stored' = [Stored EXCEPT ![ConvOf[t]] = @ \cup Shown]
    BY <2>1, GiveUpStored
  <2> QED BY <1>1, <1>4, <1>5, <2>1, <2>2, <2>3, ReplyEnds DEF Running
<1> QED BY <1>6, <1>7

LEMMA ContextFullSlot ==
    ASSUME PlainSlotInv, TypeInv', NEW t \in Turns, ContextFull(t)
    PROVE  PlainSlotInv' /\ SlotStep
<1>1. t \in native /\ boundTo' = boundTo /\ \E mine : EndRun(t, mine)
  BY DEF ContextFull, Running
<1>2. SameTurns /\ PcQuiet /\ pc'[t] # "summarizing"
  <2>1. {"stopped", "failed"} \subseteq Outcomes
    BY DEF Outcomes
  <2>2. CASE \E o \in Outcomes : Finish(t, o)
    BY <2>2, FinishQuiet DEF PlainSlotInv
  <2>3. CASE turn' = [turn EXCEPT ![t].compacted = TRUE] /\ Goto(t, "stopping")
    <3>1. Keeps([turn[t] EXCEPT !.compacted = TRUE], turn[t])
      BY LocalsExcept DEF PlainSlotInv, TypeInv, TurnOK
    <3>2. turn' = [turn EXCEPT ![t] = [turn[t] EXCEPT !.compacted = TRUE]]
      BY <2>3
    <3>3. SameTurns
      BY <3>1, <3>2 DEF SameTurns, PlainSlotInv, TypeInv, TurnOK, Keeps
    <3> QED BY <2>3, <3>3, GotoQuiet DEF PlainSlotInv, Watched
  <2> QED BY <2>1, <2>2, <2>3 DEF ContextFull, Quit
<1>3. EngineQuiet /\ native' = {}
  BY <1>1, <1>2, EndRunQuiet
<1>4. CASE Quit(t)
  BY <1>1, <1>3, <1>4, QuitSlot
<1>5. CASE ~abortRequested /\ Finalize(ConvOf[t], "failed") /\ ResetState
           /\ UNCHANGED <<abortRequested, generationAttempt>>
  <2>1. Owns(t) /\ stream.for = ConvOf[t] /\ ConvOf[t] \in Convs
    BY <1>5, RunnerOwns, TurnsAssumption DEF ContextFull, PlainSlotInv, SlotInv
  <2>2. Stored' = [Stored EXCEPT ![ConvOf[t]] = @ \cup Shown]
    BY <1>5, <2>1, FinalizeStored
  <2>3. stream' = NoReply
    BY <1>5 DEF Finalize
  <2> QED BY <1>1, <1>2, <1>3, <1>5, <2>1, <2>2, <2>3, ReplyEnds DEF Running
<1> QED BY <1>4, <1>5 DEF ContextFull

\* The engine never came free: the slot is given back with nothing in it.
LEMMA NotReadySlot ==
    ASSUME PlainSlotInv, TypeInv', NEW t \in Turns, NotReady(t)
    PROVE  PlainSlotInv' /\ SlotStep
<1>1. /\ pc[t] \in {"idling", "clearing"} /\ PrepareFails(t)
      /\ UNCHANGED <<busy, active, native, boundTo, pendingStop, pendings>>
  BY DEF NotReady, engineVars, runVars, stopVars
<1>2. EngineQuiet
  BY <1>1 DEF EngineQuiet
<1>3. CASE ~Mine(t)
  BY <1>1, <1>2, <1>3, QuitSlot DEF PrepareFails
<1>4. CASE Mine(t)
  <2>1. /\ ResetState /\ stream' = NoReply /\ UNCHANGED <<abortRequested, generationAttempt>>
        /\ AddMessage(ConvOf[t], "reply", {}, "error") /\ Finish(t, "failed")
    BY <1>1, <1>4 DEF PrepareFails, PlainSlotInv, PlainInv
  <2>2. SameTurns /\ PcQuiet /\ pc'[t] = "done"
    BY <2>1, FinishQuiet DEF PlainSlotInv, Outcomes
  <2>3. Stored' = [Stored EXCEPT ![ConvOf[t]] = @ \cup {}]
    <3>1. [role |-> "reply", text |-> {}, status |-> "error"] \in Messages
      BY DEF Messages
    <3> QED BY <2>1, <3>1, TurnsAssumption, StoredMessage DEF PlainSlotInv, TypeInv
  <2>4. CASE isGenerating
    <3>1. Owns(t)
      BY <1>4, <2>4 DEF Mine, Owns, PlainSlotInv, TypeInv, ServiceOK
    <3>2. Shown = {}
      BY <1>1, <3>1 DEF PlainSlotInv, SlotInv
    <3>3. \A u \in Turns : Running(u)' => ~Owns(u)
      <4> SUFFICES ASSUME NEW u \in Turns, Running(u)', Owns(u) PROVE FALSE
        OBVIOUS
      <4>1. u = t
        BY <3>1 DEF PlainSlotInv, SlotInv
      <4> QED BY <2>2, <4>1 DEF Running
    <3> QED BY <1>1, <1>2, <2>1, <2>2, <2>3, <3>1, <3>2, <3>3, ReplyEnds
  <2>5. CASE ~isGenerating
    <3>1. isGenerating = FALSE /\ isGenerating' = FALSE /\ tokenBuffer' = {}
      BY <2>1, <2>5 DEF ResetState, PlainSlotInv, TypeInv, ServiceOK
    <3>2. PlainSlotInv' /\ Owner' = None /\ Said' = {}
      BY <1>1, <1>2, <2>1, <2>2, <3>1, EndStep DEF Owns
    <3>3. Owner = None /\ Said = {}
      BY <3>1 DEF Owner, Said, PlainSlotInv, SlotInv, NoReply
    <3>4. Stored' = Stored
      BY <2>3 DEF Stored
    <3> QED BY <3>2, <3>3, <3>4 DEF SlotStep, SlotQuiet
  <2> QED BY <2>4, <2>5
<1> QED BY <1>3, <1>4

LEMMA CompactedSlot ==
    ASSUME PlainSlotInv, TypeInv', NEW t \in Turns, Compacted(t),
           PcQuiet /\ pc'[t] # "summarizing" => EngineQuiet
    PROVE  PlainSlotInv' /\ SlotStep
<1>1. CASE Quit(t)
  <2>1. SameTurns /\ PcQuiet /\ pc'[t] = "done"
    BY <1>1, FinishQuiet DEF Quit, PlainSlotInv, Outcomes
  <2> QED BY <1>1, <2>1, QuitSlot
<1>2. CASE Goto(t, "context") /\ UNCHANGED <<svcVars, storeVars, turn>>
  <2>1. SameTurns /\ PcQuiet /\ pc'[t] = "context"
    BY <1>2, GotoQuiet DEF PlainSlotInv, Watched
  <2>2. Stored' = Stored
    BY <1>2, StoredSame DEF storeVars
  <2> QED BY <1>2, <2>1, <2>2, QuietStep DEF svcVars, storeVars, SlotStep, SlotQuiet
<1> QED BY <1>1, <1>2 DEF Compacted

LEMMA SummarizeSlot ==
    ASSUME PlainSlotInv, TypeInv', NEW t \in Turns, Summarize(t) \/ Summarized(t)
    PROVE  PlainSlotInv' /\ SlotStep
<1>1. CASE Summarized(t)
  <2>1. t \in native
    BY <1>1 DEF Summarized, PlainSlotInv, RunInv
  <2>2. PcQuiet /\ pc'[t] # "summarizing" => EngineQuiet
    BY <1>1, <2>1, EndRunQuiet DEF Summarized
  <2> QED BY <1>1, <2>2, CompactedSlot DEF Summarized
<1>2. CASE Summarize(t) /\ Compacted(t) /\ UNCHANGED runVars
  <2>1. EngineQuiet
    BY <1>2 DEF Summarize, EngineQuiet, runVars, stopVars
  <2> QED BY <1>2, <2>1, CompactedSlot DEF Summarize
<1>3. CASE /\ Summarize(t) /\ ~busy /\ StartRun(t) /\ Goto(t, "summarizing")
           /\ UNCHANGED <<svcVars, storeVars, turn>>
  <2>1. native = {}
    BY <1>3 DEF PlainSlotInv, RunInv, TypeInv, EngineOK
  <2>2. native' = {t} /\ busy' = TRUE /\ active' = t
    BY <1>3, <2>1 DEF StartRun
  <2>3. \A u \in Turns : pc'[u] = IF u = t THEN "summarizing" ELSE pc[u]
    BY <1>3, GotoQuiet DEF PlainSlotInv
  <2>4. UNCHANGED <<isGenerating, abortRequested, generationAttempt, tokenBuffer, stream, history>>
    BY <1>3 DEF svcVars, storeVars
  <2>5. \A u \in Turns : (Owns(u)' <=> Owns(u)) /\ ~Running(u)'
    BY <1>3, <2>2, <2>3, <2>4 DEF Owns, Running
  <2>6. \A u \in native' : pc'[u] = "summarizing"
    BY <2>2, <2>3
  <2>7. PlainInv'
    BY <1>3, <2>3, <2>6 DEF PlainSlotInv, PlainInv
  <2>8. RunInv'
    BY <2>1, <2>2, <2>3 DEF PlainSlotInv, RunInv
  <2>9. SlotInv'
    <3>1. \A u \in Turns : Owns(u)' =>
            /\ stream'.for = ConvOf[u] /\ Shown' \subseteq {u}
            /\ pc'[u] \in {"draining", "idling", "clearing"} => Shown' = {}
      BY <2>3, <2>4, <2>5 DEF PlainSlotInv, SlotInv, Shown
    <3> QED BY <1>3, <2>4, <2>5, <3>1 DEF PlainSlotInv, SlotInv
  <2>10. SlotQuiet
    <3>1. Owners' = Owners
      BY <1>3, <2>4 DEF Owners
    <3>2. UNCHANGED <<Owner, Said>>
      BY <2>4, <3>1 DEF Owner, Said, Shown
    <3> QED BY <2>4, <3>2, StoredSame DEF SlotQuiet
  <2> QED BY <2>7, <2>8, <2>9, <2>10 DEF PlainSlotInv, SlotStep
<1> QED BY <1>1, <1>2, <1>3 DEF Summarize

\* The user stops: the owner loses the slot, and its completion, if it runs,
\* is what the pending stop waits for.
LEMMA StopSlot ==
    ASSUME PlainSlotInv, TypeInv', NEW i \in Presses, Stop(i)
    PROVE  PlainSlotInv' /\ SlotStep
<1>1. /\ abortRequested' = TRUE /\ generationAttempt' = generationAttempt + 1
      /\ generationAttempt \in Nat
      /\ Finalize(stream.for, "cancelled")
      /\ UNCHANGED <<busy, active, native, boundTo, pc, turn>>
  BY DEF Stop, PlainSlotInv, TypeInv, ServiceOK
<1>2. stream' = NoReply /\ tokenBuffer' = {} /\ isGenerating' = FALSE
  BY <1>1 DEF Stop, Finalize, ResetState, PlainSlotInv, TypeInv, ServiceOK
<1>3. PlainInv' /\ RunInv'
  BY <1>1 DEF PlainSlotInv, PlainInv, RunInv
<1>4. \A t \in Turns : ~Owns(t)' /\ (Running(t)' <=> Running(t))
  BY <1>1, <1>2 DEF Owns, Running
<1>5. \A t \in Turns : turn'[t].attempt <= generationAttempt'
  <2> TAKE t \in Turns
  <2>1. turn[t].attempt \in Nat /\ turn[t].attempt <= generationAttempt /\ turn' = turn
    BY <1>1 DEF PlainSlotInv, SlotInv, TypeInv, TurnOK, Locals
  <2> QED BY <1>1, <2>1
<1>6. ASSUME NEW t \in Turns, Running(t) PROVE pendingStop' \in pendings'
  <2>1. CASE isGenerating
    BY <2>1 DEF Stop
  <2>2. CASE ~isGenerating
    <3>1. pendingStop \in pendings
      BY <1>6, <2>2 DEF PlainSlotInv, SlotInv, Owns
    <3> QED BY <2>2, <3>1 DEF Stop, stopVars
  <2> QED BY <2>1, <2>2
<1>7. SlotInv'
  BY <1>1, <1>2, <1>4, <1>5, <1>6 DEF SlotInv
<1>8. Owner' = None /\ Said' = {}
  BY <1>2 DEF Owner, Said, NoReply
<1>9. CASE isGenerating
  <2>1. PICK t \in Turns : Owns(t) /\ Owner = t
    BY <1>9, OneOwner DEF PlainSlotInv
  <2>2. stream.for = ConvOf[t] /\ ConvOf[t] \in Convs
    BY <2>1, TurnsAssumption DEF PlainSlotInv, SlotInv
  <2>3. Stored' = [Stored EXCEPT ![ConvOf[t]] = @ \cup Shown]
    BY <1>1, <2>2, FinalizeStored
  <2>4. Said = Shown
    BY <1>9 DEF Said
  <2> QED BY <1>3, <1>7, <1>8, <2>1, <2>3, <2>4 DEF PlainSlotInv, SlotStep, Ends
<1>10. CASE ~isGenerating
  <2>1. stream = NoReply
    BY <1>10 DEF PlainSlotInv, SlotInv, TypeInv, ServiceOK
  <2>2. history' = history
    BY <1>1, <2>1 DEF Finalize, NoReply
  <2>3. Owner = None /\ Said = {}
    BY <1>10, <2>1 DEF Owner, Said, NoReply
  <2>4. Stored' = Stored
    BY <2>2, StoredSame
  <2> QED BY <1>3, <1>7, <1>8, <2>3, <2>4 DEF PlainSlotInv, SlotStep, SlotQuiet
<1> QED BY <1>9, <1>10

\* The rest of the steps belong to tool turns and to fallback models.
LEMMA PlainNever ==
    ASSUME PlainTurns, PlainSlotInv, NEW t \in Turns
    PROVE  /\ ~ToolTurnEnds(t) /\ ~ToolCalls(t) /\ ~EmptyAnswer(t) /\ ~ToolsDone(t)
           /\ ~Retry(t) /\ ~Fallback(t) /\ ~Rebound(t) /\ ~FallbackFails(t) /\ ~Unload(t)
BY DEF PlainTurns, PlainSlotInv, PlainInv, ToolTurnEnds, ToolCalls, EmptyAnswer, ToolsDone,
   Retry, Fallback, Rebound, FallbackFails, Unload
-----------------------------------------------------------------------------
LEMMA SlotInit ==
    ASSUME PlainTurns, Init
    PROVE  PlainSlotInv /\ Owner = None /\ Said = {} /\ Stored = [c \in Convs |-> {}]
<1>1. TypeInv
  BY InitType
<1>2. \A t \in Turns : turn[t].routes = 0 /\ turn[t].attempt = 0
  BY DEF Init, FreshTurn, PlainTurns
<1>3. PlainInv /\ RunInv
  BY <1>2 DEF Init, PlainInv, RunInv
<1>4. SlotInv
  BY <1>2 DEF Init, SlotInv, Owns, Running
<1>5. Owner = None /\ Said = {}
  BY DEF Init, Owner, Said, NoReply
<1>6. Stored = [c \in Convs |-> {}]
  <2>1. WordsOf(<<>>) = {}
    BY DEF WordsOf
  <2> QED BY <2>1, StoredIs DEF Init
<1> QED BY <1>1, <1>3, <1>4, <1>5, <1>6 DEF PlainSlotInv

LEMMA SlotNext == PlainTurns /\ PlainSlotInv /\ [Next]_vars => PlainSlotInv' /\ SlotStep
<1> SUFFICES ASSUME PlainTurns, PlainSlotInv, [Next]_vars
             PROVE  PlainSlotInv' /\ SlotStep
  OBVIOUS
<1>1. TypeInv'
  BY NextType DEF PlainSlotInv
<1>2. ASSUME NEW t \in Turns, Step(t) PROVE PlainSlotInv' /\ SlotStep
  BY <1>1, <1>2, AdmitSlot, ReadySlot, ClaimSlot, DrainedSlot, IdleSlot, NotReadySlot, TokenSlot,
     PlainEndsSlot, RunFailsSlot, ContextFullSlot, SummarizeSlot, PlainNever DEF Step
<1>3. CASE \E i \in Presses : Stop(i)
  BY <1>1, <1>3, StopSlot
<1>4. CASE DrainTimer
  <2>1. CASE Turns = {}
    <3>1. UNCHANGED <<isGenerating, generationAttempt, abortRequested, stream, tokenBuffer,
                      boundTo, history, busy, active, native, pendingStop, pendings>>
      BY <1>4 DEF DrainTimer, storeVars, engineVars, runVars, stopVars
    <3>2. SameTurns /\ PcQuiet /\ EngineQuiet /\ Stored' = Stored
      BY <2>1, <3>1, StoredSame DEF SameTurns, PcQuiet, EngineQuiet
    <3> QED BY <1>1, <3>1, <3>2, QuietStep DEF SlotStep, SlotQuiet
  <2>2. CASE Turns # {}
    BY <1>1, <1>4, <2>2, AdmitSlot
  <2> QED BY <2>1, <2>2
<1>5. CASE Flush
  BY <1>1, <1>5, TokenSlot
<1>6. CASE Leave \/ SwitchChat \/ AllDone \/ UNCHANGED vars \/ \E i \in StopIds : Engine(i)
  BY <1>1, <1>6, OtherSlot
<1> QED BY <1>2, <1>3, <1>4, <1>5, <1>6 DEF Next

LEMMA SlotRefines ==
    ASSUME SlotStep
    PROVE  [Slot!Next]_Slot!vars
<1>1. CASE SlotQuiet
  BY <1>1 DEF SlotQuiet, Slot!vars, Owner, Said, Stored
<1>2. CASE Begins
  <2>1. PICK t \in Turns : Owner = None /\ Owner' = t /\ UNCHANGED <<Said, Stored>>
    BY <1>2 DEF Begins
  <2>2. Slot!Begin(t)
    BY <2>1 DEF Slot!Begin, Owner, Said, Stored
  <2> QED BY <2>2 DEF Slot!Next
<1>3. CASE Says
  <2>1. Owner # None
    BY <1>3, TurnsAssumption DEF Says, None
  <2>2. Slot!Say
    BY <1>3, <2>1 DEF Slot!Say, Says, Owner, Said, Stored
  <2> QED BY <2>2 DEF Slot!Next
<1>4. CASE Ends
  <2>1. Owner # None
    BY <1>4, TurnsAssumption DEF Ends, None
  <2>2. Slot!End
    BY <1>4, <2>1 DEF Slot!End, Ends, Owner, Said, Stored
  <2> QED BY <2>2 DEF Slot!Next
<1> QED BY <1>1, <1>2, <1>3, <1>4 DEF SlotStep

LEMMA PlainSlotHolds ==
    ASSUME PlainTurns
    PROVE  Spec => []PlainSlotInv
<1>1. Init => PlainSlotInv
  BY SlotInit
<1>2. PlainSlotInv /\ [Next]_vars => PlainSlotInv'
  BY SlotNext
<1> QED BY <1>1, <1>2, PTL DEF Spec

(* The streaming slot implements ReplySlot for plain turns: one reply forms  *)
(* at a time, it holds the words of its turn only, and what was shown of it  *)
(* is kept in that turn's chat however it ends.                              *)
THEOREM SlotImplements ==
    ASSUME PlainTurns
    PROVE  Spec => SlotSpec
<1>1. Init => PlainSlotInv /\ Slot!Init
  BY SlotInit DEF Slot!Init, Owner, Said, Stored
<1>2. PlainSlotInv /\ [Next]_vars => PlainSlotInv' /\ [Slot!Next]_Slot!vars
  BY SlotNext, SlotRefines
<1> QED BY <1>1, <1>2, PTL DEF Spec, SlotSpec, Slot!Spec
=============================================================================
