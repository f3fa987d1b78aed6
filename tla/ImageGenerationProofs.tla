------------------------ MODULE ImageGenerationProofs ------------------------
(***************************************************************************)
(* Pictures, for every set of requests, every route and any number of      *)
(* presses: the variables stay in their ranges, a request is subscribed to *)
(* progress exactly while its native call is awaited, what the user stopped*)
(* is not stored, and a request alone at work keeps the card.              *)
(***************************************************************************)
EXTENDS ImageGeneration, SequenceTheorems, TLAPS

\* The await a native call belongs to, and the awaits of native calls.
AwaitOf(op) == IF op = "loaded" THEN "asking" ELSE op
Native == {"asking", "cache", "draw"}
Running == {"checking", "opening", "streaming", "encoding"}

\* The places of r in a sequence of calls or replies.
Of(s, r) == {i \in 1 .. Len(s) : s[i].of = r}

\* Nothing of r is under way below the bridge.
Idle(c, p, j, r) == Of(c, r) = {} /\ Of(p, r) = {} /\ j \notin Running

\* One thing at most of r is under way below the bridge, a call, a coroutine
\* or a reply, and it is what r awaits.
Linked(c, p, j, at, r) ==
    /\ \A i, k \in Of(c, r) : i = k
    /\ \A i, k \in Of(p, r) : i = k
    /\ Of(c, r) = {} \/ Of(p, r) = {}
    /\ j \in Running => Of(c, r) = {} /\ Of(p, r) = {} /\ at = "draw"
    /\ \A i \in Of(c, r) : at = AwaitOf(c[i].op)
    /\ \A i \in Of(p, r) : at = AwaitOf(p[i].op)

BridgeInv == \A r \in Requests : Linked(calls, replies, job[r], pc[r], r)

\* What the user stopped, and nothing excuses, is over or will find the flag.
StopInv ==
    \A r \in cancelled :
        /\ pc[r] # "new"
        /\ r \notin excused => /\ pc[r] \notin {"saved", "write"}
                               /\ pc[r] \in Steps => cancelRequested
-----------------------------------------------------------------------------
(* Sequences of messages.                                                  *)

Msg == Op \cup Reply

\* The names of the operations, told apart.
LEMMA Messages ==
    /\ \A m \in Msg : m.op \in {"cancel", "loaded", "cache", "draw"}
    /\ \A m \in Msg : m.op = "cancel" <=> m.of \notin Requests
    /\ \A m \in Msg : m.of \in Requests => AwaitOf(m.op) \in Native
BY ImageAssumption DEF Msg, Op, Reply, AwaitOf, Native

LEMMA OfAppend ==
    ASSUME NEW s \in Seq(Msg), NEW m \in Msg, NEW r
    PROVE  /\ m.of # r => Of(Append(s, m), r) = Of(s, r)
           /\ m.of = r => Of(Append(s, m), r) = Of(s, r) \cup {Len(s) + 1}
           /\ \A i \in Of(s, r) : Append(s, m)[i] = s[i]
           /\ Append(s, m)[Len(s) + 1] = m
<1>1. /\ Len(Append(s, m)) = Len(s) + 1 /\ Len(s) \in Nat
      /\ \A i \in 1 .. Len(s) : Append(s, m)[i] = s[i]
      /\ Append(s, m)[Len(s) + 1] = m
  OBVIOUS
<1>2. 1 .. Len(s) + 1 = (1 .. Len(s)) \cup {Len(s) + 1}  BY <1>1
<1> QED BY <1>1, <1>2 DEF Of

LEMMA OfTail ==
    ASSUME NEW s \in Seq(Msg), s # <<>>, NEW r
    PROVE  /\ Tail(s) \in Seq(Msg) /\ Head(s) \in Msg /\ Head(s) = s[1]
           /\ \A i \in Of(Tail(s), r) : i + 1 \in Of(s, r) /\ Tail(s)[i] = s[i + 1] /\ i \in Nat \ {0}
           /\ Head(s).of = r <=> 1 \in Of(s, r)
<1>1. /\ Tail(s) \in Seq(Msg) /\ Head(s) \in Msg /\ Head(s) = s[1] /\ Len(s) \in Nat \ {0}
      /\ Len(Tail(s)) = Len(s) - 1 /\ \A i \in 1 .. Len(s) - 1 : Tail(s)[i] = s[i + 1]
  BY HeadTailProperties
<1>2. \A i \in 1 .. Len(s) - 1 : i + 1 \in 1 .. Len(s) /\ i \in Nat \ {0}  BY <1>1
<1>3. 1 \in 1 .. Len(s)  BY <1>1
<1> QED BY <1>1, <1>2, <1>3 DEF Of
-----------------------------------------------------------------------------
(* What is under way of a request.                                         *)

LEMMA NotWaiting ==
    ASSUME NEW c \in Seq(Msg), NEW p \in Seq(Msg), NEW j, NEW at, NEW r \in Requests,
           Linked(c, p, j, at, r), at \notin Native
    PROVE  Idle(c, p, j, r)
<1>1. \A i \in Of(c, r) : AwaitOf(c[i].op) \in Native
  BY Messages DEF Of
<1>2. \A i \in Of(p, r) : AwaitOf(p[i].op) \in Native
  BY Messages DEF Of
<1> QED BY <1>1, <1>2 DEF Linked, Idle, Native

LEMMA IdleLinked ==
    ASSUME NEW c, NEW p, NEW j, NEW at, NEW r, Idle(c, p, j, r)
    PROVE  Linked(c, p, j, at, r)
BY DEF Idle, Linked

LEMMA AskedLinked ==
    ASSUME NEW c \in Seq(Msg), NEW p, NEW j, NEW m \in Msg, NEW r \in Requests,
           Idle(c, p, j, r), m.of = r
    PROVE  Linked(Append(c, m), p, j, AwaitOf(m.op), r)
<1>1. Of(Append(c, m), r) = {Len(c) + 1} /\ Append(c, m)[Len(c) + 1] = m
  BY OfAppend DEF Idle
<1> QED BY <1>1 DEF Idle, Linked

LEMMA OthersAsked ==
    ASSUME NEW c \in Seq(Msg), NEW p, NEW j, NEW at, NEW m \in Msg, NEW r,
           Linked(c, p, j, at, r), m.of # r
    PROVE  Linked(Append(c, m), p, j, at, r)
<1>1. Of(Append(c, m), r) = Of(c, r)  BY OfAppend
<1>2. \A i \in Of(c, r) : Append(c, m)[i] = c[i]  BY DEF Of
<1> QED BY <1>1, <1>2 DEF Linked

LEMMA OthersAnswered ==
    ASSUME NEW c, NEW p \in Seq(Msg), NEW j, NEW at, NEW m \in Msg, NEW r,
           Linked(c, p, j, at, r), m.of # r
    PROVE  Linked(c, Append(p, m), j, at, r)
<1>1. Of(Append(p, m), r) = Of(p, r)  BY OfAppend
<1>2. \A i \in Of(p, r) : Append(p, m)[i] = p[i]  BY DEF Of
<1> QED BY <1>1, <1>2 DEF Linked

LEMMA ReplyTaken ==
    ASSUME NEW c, NEW p \in Seq(Msg), p # <<>>, NEW j, NEW at, NEW r, Linked(c, p, j, at, r)
    PROVE  /\ Head(p).of = r => at = AwaitOf(Head(p).op) /\ Idle(c, Tail(p), j, r)
           /\ Linked(c, Tail(p), j, at, r)
<1>1. ASSUME Head(p).of = r
      PROVE  at = AwaitOf(Head(p).op) /\ Idle(c, Tail(p), j, r)
  <2>1. 1 \in Of(p, r)  BY <1>1, OfTail
  <2>2. at = AwaitOf(Head(p).op)  BY <2>1, OfTail DEF Linked
  <2>3. Of(c, r) = {} /\ j \notin Running  BY <2>1 DEF Linked
  <2>4. ASSUME NEW i \in Of(Tail(p), r) PROVE FALSE
    <3>1. i + 1 \in Of(p, r) /\ i \in Nat \ {0}  BY OfTail
    <3>2. i + 1 = 1  BY <2>1, <3>1 DEF Linked
    <3> QED BY <3>1, <3>2
  <2> QED BY <2>2, <2>3, <2>4 DEF Idle
<1>2. /\ \A i \in Of(Tail(p), r) : i + 1 \in Of(p, r) /\ Tail(p)[i] = p[i + 1] /\ i \in Nat \ {0}
  BY OfTail
<1>3. \A i, k \in Of(Tail(p), r) : i = k
  <2> SUFFICES ASSUME NEW i \in Of(Tail(p), r), NEW k \in Of(Tail(p), r) PROVE i = k
    OBVIOUS
  <2>1. i + 1 = k + 1  BY <1>2 DEF Linked
  <2> QED BY <1>2, <2>1
<1>4. Of(p, r) = {} => Of(Tail(p), r) = {}  BY <1>2
<1>5. \A i \in Of(Tail(p), r) : at = AwaitOf(Tail(p)[i].op)  BY <1>2 DEF Linked
<1>6. Linked(c, Tail(p), j, at, r)  BY <1>3, <1>4, <1>5 DEF Linked
<1> QED BY <1>1, <1>6

LEMMA CallTaken ==
    ASSUME NEW c \in Seq(Msg), c # <<>>, NEW p, NEW j, NEW at, NEW r, Linked(c, p, j, at, r)
    PROVE  /\ Head(c).of = r => at = AwaitOf(Head(c).op) /\ Idle(Tail(c), p, j, r)
           /\ Linked(Tail(c), p, j, at, r)
<1>1. Linked(p, c, j, at, r)  BY DEF Linked
<1>2. /\ Head(c).of = r => at = AwaitOf(Head(c).op) /\ Idle(p, Tail(c), j, r)
      /\ Linked(p, Tail(c), j, at, r)
  BY <1>1, ReplyTaken
<1> QED BY <1>2 DEF Linked, Idle

LEMMA AnsweredLinked ==
    ASSUME NEW c, NEW p \in Seq(Msg), NEW j, NEW m \in Msg, NEW r \in Requests,
           Idle(c, p, j, r), m.of = r
    PROVE  Linked(c, Append(p, m), j, AwaitOf(m.op), r)
<1>1. Idle(p, c, j, r)  BY DEF Idle
<1>2. Linked(Append(p, m), c, j, AwaitOf(m.op), r)  BY <1>1, AskedLinked
<1> QED BY <1>2 DEF Linked

\* a coroutine runs: nothing else is under way
LEMMA RunningLinked ==
    ASSUME NEW c, NEW p, NEW j \in Running, NEW at, NEW r, Linked(c, p, j, at, r)
    PROVE  /\ at = "draw"
           /\ \A k \in Running : Linked(c, p, k, at, r)
           /\ \A k : k \notin Running => Idle(c, p, k, r)
BY DEF Linked, Idle
-----------------------------------------------------------------------------
(* Types.                                                                  *)

ShownOK ==
    /\ phase \in Phases
    /\ shown \in Requests \cup {None} /\ card \in Requests \cup {None}
    /\ progress \in Requests \cup {None} /\ remoteRequest \in Requests \cup {None}
    /\ messageId \in [Requests -> Requests \cup {None}]
FlagsOK ==
    /\ cancelRequested \in BOOLEAN /\ generating \in BOOLEAN /\ generationCancelled \in BOOLEAN
WaysOK ==
    /\ calls \in Seq(Op) /\ replies \in Seq(Reply)
    /\ job \in [Requests -> Running \cup {"none", "ended"}]
    /\ cut \subseteq Requests /\ active \in Requests \cup {None}
PlaceOK ==
    /\ pc \in [Requests -> {"new"} \cup Steps \cup Ends]
    /\ listening = {r \in Requests : pc[r] = "draw"}
PastOK ==
    /\ route \in [Requests -> Routes]
    /\ aborted \subseteq Requests /\ cancelled \subseteq Requests
    /\ alone \subseteq Requests /\ excused \subseteq Requests
    /\ cancels \in 0 .. MaxCancels

LEMMA TypeParts == TypeOK <=> ShownOK /\ FlagsOK /\ WaysOK /\ PlaceOK /\ PastOK
<1>1. {"none", "checking", "opening", "streaming", "encoding", "ended"} = Running \cup {"none", "ended"}
  BY DEF Running
<1>2. {cancelRequested, generating, generationCancelled} \subseteq BOOLEAN <=> FlagsOK
  BY Zenon DEF FlagsOK
<1>3. {shown, card, progress, remoteRequest, active} \subseteq Requests \cup {None}
      <=> /\ shown \in Requests \cup {None} /\ card \in Requests \cup {None}
          /\ progress \in Requests \cup {None} /\ remoteRequest \in Requests \cup {None}
          /\ active \in Requests \cup {None}
  OBVIOUS
<1>4. {cut, aborted, cancelled, alone, excused} \subseteq SUBSET Requests
      <=> /\ cut \subseteq Requests /\ aborted \subseteq Requests /\ cancelled \subseteq Requests
          /\ alone \subseteq Requests /\ excused \subseteq Requests
  OBVIOUS
<1> QED BY <1>1, <1>2, <1>3, <1>4, Zenon DEF TypeOK, ShownOK, WaysOK, PlaceOK, PastOK

LEMMA TypePartsNext == TypeOK' <=> ShownOK' /\ FlagsOK' /\ WaysOK' /\ PlaceOK' /\ PastOK'
<1>1. {"none", "checking", "opening", "streaming", "encoding", "ended"} = Running \cup {"none", "ended"}
  BY DEF Running
<1>2. {cancelRequested', generating', generationCancelled'} \subseteq BOOLEAN <=> FlagsOK'
  BY Zenon DEF FlagsOK
<1>3. {shown', card', progress', remoteRequest', active'} \subseteq Requests \cup {None}
      <=> /\ shown' \in Requests \cup {None} /\ card' \in Requests \cup {None}
          /\ progress' \in Requests \cup {None} /\ remoteRequest' \in Requests \cup {None}
          /\ active' \in Requests \cup {None}
  OBVIOUS
<1>4. {cut', aborted', cancelled', alone', excused'} \subseteq SUBSET Requests
      <=> /\ cut' \subseteq Requests /\ aborted' \subseteq Requests /\ cancelled' \subseteq Requests
          /\ alone' \subseteq Requests /\ excused' \subseteq Requests
  OBVIOUS
<1> QED BY <1>1, <1>2, <1>3, <1>4, Zenon DEF TypeOK, ShownOK, WaysOK, PlaceOK, PastOK

LEMMA Ways == TypeOK => calls \in Seq(Msg) /\ replies \in Seq(Msg)
<1>1. \A s \in Seq(Op) : s \in Seq(Msg)
  BY DEF Msg
<1>2. \A s \in Seq(Reply) : s \in Seq(Msg)
  BY DEF Msg
<1> QED BY <1>1, <1>2, TypeParts DEF WaysOK

LEMMA InitInv == Init => TypeOK /\ BridgeInv /\ StopInv
<1> SUFFICES ASSUME Init PROVE TypeOK /\ BridgeInv /\ StopInv
  OBVIOUS
<1>1. ShownOK /\ WaysOK /\ PlaceOK
  BY DEF Init, ShownOK, WaysOK, PlaceOK, Phases, Steps, Ends, Running
<1>2. FlagsOK  BY DEF Init, FlagsOK
<1>3. PastOK  BY ImageAssumption DEF Init, PastOK
<1>4. BridgeInv
  <2>1. \A r : Of(<<>>, r) = {}  BY DEF Of
  <2>2. \A r \in Requests : Idle(calls, replies, job[r], r)
    BY <2>1 DEF Init, Idle, Running
  <2> QED BY <2>2, IdleLinked DEF BridgeInv
<1>5. StopInv  BY DEF Init, StopInv
<1> QED BY <1>1, <1>2, <1>3, <1>4, <1>5, TypeParts
-----------------------------------------------------------------------------
(* What a handler of the service does with a request.                      *)

Asked(op, r) == calls' = Append(calls, [op |-> op, of |-> r])

\* r goes on, with at most one native call, which it then awaits; while the flag
\* is up its picture is neither written nor stored
Moves(r) ==
    \E x \in Steps \cup Ends :
        /\ pc' = [pc EXCEPT ![r] = x]
        /\ cancelRequested => x \notin {"saved", "write"}
        /\ calls' = calls \/ \E op \in {"loaded", "cache", "draw"} : Asked(op, r) /\ x = AwaitOf(op)

LEMMA QuitMoves == ASSUME NEW r, Quit(r), calls' = calls PROVE Moves(r)
BY DEF Quit, Goto, Moves, Ends

LEMMA FailMoves == ASSUME NEW r, Fail(r), calls' = calls PROVE Moves(r)
BY DEF Fail, Goto, Moves, Ends

LEMMA PromptMoves == ASSUME NEW r, Prompted(r) PROVE Moves(r)
<1>1. CASE cancelRequested
  BY <1>1, QuitMoves DEF Prompted
<1>2. CASE ~ cancelRequested /\ route[r] = "remote"
  BY <1>2 DEF Prompted, SendRemote, Goto, Moves, Steps
<1>3. CASE ~ cancelRequested /\ route[r] # "remote"
  BY <1>3 DEF Prompted, AskLoaded, Ask, Goto, Moves, Asked, AwaitOf, Steps
<1> QED BY <1>1, <1>2, <1>3

LEMMA DrawMoves == ASSUME NEW r, Draw(r) PROVE Moves(r)
<1>1. CASE generating
  BY <1>1, FailMoves DEF Draw
<1>2. CASE ~ generating
  BY <1>2 DEF Draw, Ask, Goto, Moves, Asked, AwaitOf, Steps
<1> QED BY <1>1, <1>2

LEMMA LoadedMoves == ASSUME NEW r, Loaded(r) PROVE Moves(r)
<1>1. CASE cancelRequested
  BY <1>1, QuitMoves DEF Loaded
<1>2. CASE Draw(r)
  BY <1>2, DrawMoves
<1>3. CASE ~ cancelRequested /\ Ask("cache", r) /\ Goto(r, "cache")
  BY <1>3 DEF Ask, Goto, Moves, Asked, AwaitOf, Steps
<1> QED BY <1>1, <1>2, <1>3 DEF Loaded

LEMMA KnownMoves == ASSUME NEW r, LoadedKnown(r) PROVE Moves(r)
<1>1. CASE Loaded(r)
  BY <1>1, LoadedMoves
<1>2. CASE Goto(r, "load") /\ calls' = calls
  BY <1>2 DEF Goto, Moves, Steps
<1> QED BY <1>1, <1>2 DEF LoadedKnown

LEMMA DrawnMoves ==
    ASSUME NEW r, NEW said \in {"ok", "cancelled", "error"}, Drawn(r, said)
    PROVE  Moves(r)
<1>1. CASE Quit(r)  BY <1>1, QuitMoves DEF Drawn
<1>2. CASE Fail(r)  BY <1>2, FailMoves DEF Drawn
<1>3. CASE ~ cancelRequested /\ Save(r, card)
  BY <1>3 DEF Drawn, Save, Goto, Moves, Ends
<1> QED BY <1>1, <1>2, <1>3 DEF Drawn

\* a reply moves the request that awaits it, or is a cancel's and moves none
LEMMA ReplyMoves ==
    ASSUME TypeOK, TakeReply
    PROVE  LET a == Head(replies) IN
           /\ replies # <<>> /\ replies' = Tail(replies) /\ a \in Reply
           /\ UNCHANGED <<native, cancelRequested, cancelled, excused>>
           /\ \/ a.op = "cancel" /\ UNCHANGED <<calls, pc>>
              \/ a.of \in Requests /\ Moves(a.of)
<1> DEFINE a == Head(replies)
<1>1. replies # <<>> /\ replies' = Tail(replies) /\ UNCHANGED native /\ UNCHANGED history
  BY DEF TakeReply
<1>2. a \in Reply
  BY <1>1, TypeParts, HeadTailProperties DEF WaysOK
<1>3. CASE a.op = "cancel" /\ CancelDone
  BY <1>1, <1>2, <1>3 DEF CancelDone, history
<1>4. CASE a.op = "loaded" /\ LoadedKnown(a.of)
  <2>1. a.of \in Requests  BY <1>2, <1>4 DEF Reply
  <2>2. cancelRequested' = cancelRequested
    BY <1>4 DEF LoadedKnown, Loaded, Quit, Draw, Fail, svcVars
  <2> QED BY <1>1, <1>2, <1>4, <2>1, <2>2, KnownMoves DEF history
<1>5. CASE a.op = "cache" /\ Draw(a.of)
  <2>1. a.of \in Requests  BY <1>2, <1>5 DEF Reply
  <2>2. cancelRequested' = cancelRequested  BY <1>5 DEF Draw, Fail
  <2> QED BY <1>1, <1>2, <1>5, <2>1, <2>2, DrawMoves DEF history
<1>6. CASE a.op = "draw" /\ Drawn(a.of, a.said)
  <2>1. a.of \in Requests /\ a.said \in {"ok", "cancelled", "error"}
    BY <1>2, <1>6 DEF Reply
  <2>2. cancelRequested' = cancelRequested
    BY <1>6, <2>1 DEF Drawn, Quit, Fail, Save
  <2> QED BY <1>1, <1>2, <1>6, <2>1, <2>2, DrawnMoves DEF history
<1> QED BY <1>3, <1>4, <1>5, <1>6 DEF TakeReply
-----------------------------------------------------------------------------
(* One thing at most is under way of a request.                            *)

LEMMA Asking ==
    ASSUME NEW r \in Requests, NEW op \in {"loaded", "cache", "draw"}
    PROVE  [op |-> op, of |-> r] \in Msg
BY DEF Msg, Op

\* A request of which nothing is under way moves, perhaps to a native call.
LEMMA MoveLinked ==
    ASSUME TypeOK, NEW r \in Requests, NEW p \in Seq(Msg), replies' = p, job' = job,
           \A s \in Requests : Linked(calls, p, job[s], pc[s], s),
           Idle(calls, p, job[r], r), Moves(r)
    PROVE  BridgeInv'
<1>1. calls \in Seq(Msg) /\ pc \in [Requests -> {"new"} \cup Steps \cup Ends]
  BY Ways, TypeParts DEF PlaceOK
<1>2. PICK x \in Steps \cup Ends :
          /\ pc' = [pc EXCEPT ![r] = x]
          /\ calls' = calls \/ \E op \in {"loaded", "cache", "draw"} : Asked(op, r) /\ x = AwaitOf(op)
  BY DEF Moves
<1>3. pc'[r] = x /\ \A s \in Requests \ {r} : pc'[s] = pc[s]
  BY <1>1, <1>2
<1>4. CASE calls' = calls
  <2>1. Linked(calls, p, job[r], x, r)  BY IdleLinked
  <2>2. \A s \in Requests : Linked(calls', replies', job'[s], pc'[s], s)
    BY <1>3, <1>4, <2>1
  <2> QED BY <2>2 DEF BridgeInv
<1>5. ASSUME NEW op \in {"loaded", "cache", "draw"}, Asked(op, r), x = AwaitOf(op)
      PROVE  BridgeInv'
  <2> DEFINE m == [op |-> op, of |-> r]
  <2>1. m \in Msg /\ m.of = r /\ m.op = op  BY Asking
  <2>2. calls' = Append(calls, m)  BY <1>5 DEF Asked
  <2> HIDE DEF m
  <2>3. Linked(calls', p, job[r], x, r)
    BY <1>1, <1>5, <2>1, <2>2, AskedLinked
  <2>4. ASSUME NEW s \in Requests \ {r}
        PROVE  Linked(calls', p, job[s], pc[s], s)
    BY <1>1, <2>1, <2>2, <2>4, OthersAsked
  <2>5. \A s \in Requests : Linked(calls', replies', job'[s], pc'[s], s)
    BY <1>3, <2>3, <2>4
  <2> QED BY <2>5 DEF BridgeInv
<1> QED BY <1>2, <1>4, <1>5

\* A request that awaits no native call moves.
LEMMA QuietLinked ==
    ASSUME TypeOK, BridgeInv, NEW r \in Requests, pc[r] \notin Native,
           UNCHANGED <<replies, job>>, Moves(r)
    PROVE  BridgeInv'
<1>1. replies \in Seq(Msg) /\ calls \in Seq(Msg)  BY Ways
<1>2. Idle(calls, replies, job[r], r)
  BY <1>1, NotWaiting DEF BridgeInv
<1> QED BY <1>1, <1>2, MoveLinked DEF BridgeInv

LEMMA ReplyLinked ==
    ASSUME TypeOK, BridgeInv, TakeReply
    PROVE  BridgeInv'
<1> DEFINE a == Head(replies)
<1>1. /\ replies # <<>> /\ replies' = Tail(replies) /\ job' = job
      /\ (a.op = "cancel" /\ UNCHANGED <<calls, pc>>) \/ (a.of \in Requests /\ Moves(a.of))
  BY ReplyMoves DEF native
<1>2. replies \in Seq(Msg) /\ calls \in Seq(Msg) /\ Tail(replies) \in Seq(Msg)
  BY <1>1, Ways, HeadTailProperties
<1>3. \A s \in Requests : Linked(calls, Tail(replies), job[s], pc[s], s)
  BY <1>1, <1>2, ReplyTaken DEF BridgeInv
<1>4. CASE UNCHANGED <<calls, pc>>
  BY <1>1, <1>3, <1>4 DEF BridgeInv
<1>5. CASE a.of \in Requests /\ Moves(a.of)
  <2>1. Idle(calls, Tail(replies), job[a.of], a.of)
    BY <1>1, <1>2, <1>5, ReplyTaken DEF BridgeInv
  <2> QED BY <1>1, <1>2, <1>3, <1>5, <2>1, MoveLinked
<1> QED BY <1>1, <1>4, <1>5

\* A request that is stopped asks the module for it in nobody's name.
LEMMA CancelLinked ==
    ASSUME TypeOK, BridgeInv, Cancel
    PROVE  BridgeInv'
<1> DEFINE m == [op |-> "cancel", of |-> None]
<1>1. calls' = Append(calls, m) /\ UNCHANGED <<replies, job, pc>>
  BY DEF Cancel, Ask, native
<1>2. calls \in Seq(Msg) /\ m \in Msg /\ m.of \notin Requests
  BY Ways, ImageAssumption DEF Msg, Op
<1> HIDE DEF m
<1>3. ASSUME NEW s \in Requests
      PROVE  Linked(calls', replies, job[s], pc[s], s)
  BY <1>1, <1>2, OthersAsked DEF BridgeInv
<1> QED BY <1>1, <1>3 DEF BridgeInv

\* The module takes a call: it answers, or a coroutine begins.
LEMMA CallLinked ==
    ASSUME TypeOK, BridgeInv, TakeCall
    PROVE  BridgeInv'
<1> DEFINE c == Head(calls)
<1>1. /\ calls # <<>> /\ calls' = Tail(calls) /\ pc' = pc
      /\ \/ c.op \in {"loaded", "cache"} /\ Answer(c.op, c.of, "ok") /\ job' = job
         \/ c.op = "draw" /\ job' = [job EXCEPT ![c.of] = "checking"] /\ replies' = replies
         \/ c.op = "cancel" /\ Answer("cancel", None, "ok") /\ job' = job
  BY DEF TakeCall, native
<1>2. /\ calls \in Seq(Msg) /\ replies \in Seq(Msg) /\ c \in Op /\ Tail(calls) \in Seq(Msg)
      /\ job \in [Requests -> Running \cup {"none", "ended"}]
  BY <1>1, Ways, TypeParts, HeadTailProperties DEF WaysOK
<1>3. \A s \in Requests : Linked(Tail(calls), replies, job[s], pc[s], s)
  BY <1>1, <1>2, CallTaken DEF BridgeInv
<1>4. \A s \in Requests : c.of = s =>
          pc[s] = AwaitOf(c.op) /\ Idle(Tail(calls), replies, job[s], s)
  BY <1>1, <1>2, CallTaken DEF BridgeInv
<1>5. CASE c.op \in {"loaded", "cache"} /\ Answer(c.op, c.of, "ok") /\ job' = job
  <2> DEFINE m == [op |-> c.op, of |-> c.of, said |-> "ok"]
  <2>1. c.of \in Requests  BY <1>2, <1>5 DEF Op
  <2>2. m \in Msg /\ m.of = c.of /\ m.op = c.op  BY <1>5, <2>1 DEF Msg, Reply
  <2>3. replies' = Append(replies, m)  BY <1>5 DEF Answer
  <2> HIDE DEF m
  <2>4. Linked(Tail(calls), replies', job[c.of], pc[c.of], c.of)
    BY <1>2, <1>4, <2>1, <2>2, <2>3, AnsweredLinked
  <2>5. ASSUME NEW s \in Requests \ {c.of}
        PROVE  Linked(Tail(calls), replies', job[s], pc[s], s)
    BY <1>2, <1>3, <2>2, <2>3, <2>5, OthersAnswered
  <2> QED BY <1>1, <1>5, <2>4, <2>5 DEF BridgeInv
<1>6. CASE c.op = "draw" /\ job' = [job EXCEPT ![c.of] = "checking"] /\ replies' = replies
  <2>1. c.of \in Requests  BY <1>2, <1>6 DEF Op
  <2>2. job'[c.of] = "checking" /\ \A s \in Requests \ {c.of} : job'[s] = job[s]
    BY <1>2, <1>6, <2>1
  <2>3. Linked(Tail(calls), replies, "checking", pc[c.of], c.of)
    BY <1>4, <1>6, <2>1 DEF Linked, Idle, AwaitOf
  <2>4. \A s \in Requests : Linked(calls', replies', job'[s], pc'[s], s)
    BY <1>1, <1>3, <1>6, <2>2, <2>3
  <2> QED BY <2>4 DEF BridgeInv
<1>7. CASE c.op = "cancel" /\ Answer("cancel", None, "ok") /\ job' = job
  <2> DEFINE m == [op |-> "cancel", of |-> None, said |-> "ok"]
  <2>1. replies' = Append(replies, m) /\ m \in Msg /\ m.of \notin Requests
    BY <1>7, ImageAssumption DEF Answer, Msg, Reply
  <2> HIDE DEF m
  <2>2. ASSUME NEW s \in Requests
        PROVE  Linked(Tail(calls), replies', job[s], pc[s], s)
    BY <1>2, <1>3, <2>1, OthersAnswered
  <2> QED BY <1>1, <1>7, <2>2 DEF BridgeInv
<1> QED BY <1>1, <1>5, <1>6, <1>7

\* A coroutine goes on, or ends with an answer.
LEMMA JobLinked ==
    ASSUME TypeOK, BridgeInv, NEW r \in Requests, job[r] \in Running, NEW j,
           job' = [job EXCEPT ![r] = j], UNCHANGED <<calls, pc>>,
           \/ j \in Running /\ replies' = replies
           \/ j \notin Running /\ \E said \in {"ok", "cancelled", "error"} : Answer("draw", r, said)
    PROVE  BridgeInv'
<1>1. /\ calls \in Seq(Msg) /\ replies \in Seq(Msg)
      /\ job \in [Requests -> Running \cup {"none", "ended"}]
  BY Ways, TypeParts DEF WaysOK
<1>2. job'[r] = j /\ \A s \in Requests \ {r} : job'[s] = job[s]
  BY <1>1
<1>3. pc[r] = "draw" /\ (j \in Running => Linked(calls, replies, j, pc[r], r))
      /\ (j \notin Running => Idle(calls, replies, j, r))
  BY RunningLinked DEF BridgeInv
<1>4. CASE j \in Running /\ replies' = replies
  BY <1>2, <1>3, <1>4 DEF BridgeInv
<1>5. ASSUME j \notin Running, NEW said \in {"ok", "cancelled", "error"}, Answer("draw", r, said)
      PROVE  BridgeInv'
  <2> DEFINE m == [op |-> "draw", of |-> r, said |-> said]
  <2>1. replies' = Append(replies, m) /\ m \in Msg /\ m.of = r /\ AwaitOf(m.op) = pc[r]
    BY <1>3, <1>5 DEF Answer, Msg, Reply, AwaitOf
  <2> HIDE DEF m
  <2>2. Linked(calls, replies', j, pc[r], r)
    <3>1. Idle(calls, replies, j, r)  BY <1>3, <1>5
    <3>2. Linked(calls, Append(replies, m), j, AwaitOf(m.op), r)
      BY <1>1, <2>1, <3>1, AnsweredLinked
    <3> QED BY <2>1, <3>2
  <2>3. ASSUME NEW s \in Requests \ {r}
        PROVE  Linked(calls, replies', job[s], pc[s], s)
    BY <1>1, <2>1, <2>3, OthersAnswered DEF BridgeInv
  <2> QED BY <1>2, <2>2, <2>3 DEF BridgeInv
<1> QED BY <1>4, <1>5

\* What every action does to the bridge, the coroutines and the requests.
LEMMA BridgeInductive == TypeOK /\ BridgeInv /\ [Next]_vars => BridgeInv'
<1> SUFFICES ASSUME TypeOK, BridgeInv, [Next]_vars PROVE BridgeInv'
  OBVIOUS
<1> USE DEF native
<1>0. pc \in [Requests -> {"new"} \cup Steps \cup Ends]  BY TypeParts DEF PlaceOK
<1>1. ASSUME NEW r \in Requests, Start(r) PROVE BridgeInv'
  <2>1. pc[r] \notin Native /\ UNCHANGED <<replies, job>>
    BY <1>1 DEF Start, Native
  <2>2. CASE Goto(r, "ignored") /\ calls' = calls
    <3>1. Moves(r)  BY <2>2 DEF Goto, Moves, Ends
    <3> QED BY <2>1, <3>1, QuietLinked
  <2>3. CASE Goto(r, "failed") /\ calls' = calls
    <3>1. Moves(r)  BY <2>3 DEF Goto, Moves, Ends
    <3> QED BY <2>1, <3>1, QuietLinked
  <2>4. ASSUME NEW step \in {"textLoad", "enhance"}, Goto(r, step), calls' = calls
        PROVE  BridgeInv'
    <3>1. Moves(r)  BY <2>4 DEF Goto, Moves, Steps
    <3> QED BY <2>1, <3>1, QuietLinked
  <2>5. CASE AskLoaded(r)
    <3>1. Moves(r)  BY <2>5 DEF AskLoaded, Ask, Asked, Goto, Moves, Steps, AwaitOf
    <3> QED BY <2>1, <3>1, QuietLinked
  <2>6. CASE SendRemote(r)
    <3>1. Moves(r)  BY <2>6 DEF SendRemote, Goto, Moves, Steps
    <3> QED BY <2>1, <3>1, QuietLinked
  <2> QED BY <1>1, <2>2, <2>3, <2>4, <2>5, <2>6 DEF Start
<1>2. CASE Cancel  BY <1>2, CancelLinked
<1>3. CASE TakeReply  BY <1>3, ReplyLinked
<1>4. ASSUME NEW r \in Requests, TextLoaded(r) PROVE BridgeInv'
  <2>1. pc[r] \notin Native /\ UNCHANGED <<replies, job>>
    BY <1>4 DEF TextLoaded, Native
  <2>2. CASE Goto(r, "enhance") /\ calls' = calls
    <3>1. Moves(r)  BY <2>2 DEF Goto, Moves, Steps
    <3> QED BY <2>1, <3>1, QuietLinked
  <2>3. CASE Prompted(r)  BY <2>1, <2>3, PromptMoves, QuietLinked
  <2> QED BY <1>4, <2>2, <2>3 DEF TextLoaded
<1>5. ASSUME NEW r \in Requests, Enhanced(r) PROVE BridgeInv'
  <2>1. pc[r] \notin Native /\ UNCHANGED <<replies, job>> /\ Prompted(r)
    BY <1>5 DEF Enhanced, Native
  <2> QED BY <2>1, PromptMoves, QuietLinked
<1>6. ASSUME NEW r \in Requests, LoadDone(r) PROVE BridgeInv'
  <2>1. pc[r] \notin Native /\ UNCHANGED <<replies, job>>
    BY <1>6 DEF LoadDone, Native
  <2>2. Moves(r)  BY <1>6, LoadedMoves, FailMoves DEF LoadDone
  <2> QED BY <2>1, <2>2, QuietLinked
<1>7. CASE TakeCall  BY <1>7, CallLinked
<1>8. ASSUME NEW r \in Requests, JobStarts(r) PROVE BridgeInv'
  <2>1. job[r] \in Running /\ UNCHANGED <<calls, pc>>
    BY <1>8 DEF JobStarts, Running
  <2>2. CASE job' = [job EXCEPT ![r] = "opening"] /\ replies' = replies
    BY <2>1, <2>2, JobLinked DEF Running
  <2>3. CASE job' = [job EXCEPT ![r] = "ended"] /\ Answer("draw", r, "error")
    BY <2>1, <2>3, JobLinked DEF Running
  <2> QED BY <1>8, <2>2, <2>3 DEF JobStarts
<1>8a. ASSUME NEW r \in Requests, JobConnects(r) PROVE BridgeInv'
  <2>1. job[r] \in Running /\ UNCHANGED <<calls, pc>> /\ job' = [job EXCEPT ![r] = "streaming"]
        /\ replies' = replies
    BY <1>8a DEF JobConnects, bridge, Running
  <2> QED BY <2>1, JobLinked DEF Running
<1>9. ASSUME NEW r \in Requests, JobEnds(r) PROVE BridgeInv'
  <2>1. job[r] \in Running /\ UNCHANGED <<calls, pc>>
    BY <1>9 DEF JobEnds, Running
  <2>2. CASE job' = [job EXCEPT ![r] = "encoding"] /\ replies' = replies
    BY <2>1, <2>2, JobLinked DEF Running
  <2>3. ASSUME NEW said \in {"cancelled", "error"}, job' = [job EXCEPT ![r] = "ended"],
               Answer("draw", r, said)
        PROVE  BridgeInv'
    BY <2>1, <2>3, JobLinked DEF Running
  <2> QED BY <1>9, <2>2, <2>3 DEF JobEnds
<1>10. ASSUME NEW r \in Requests, JobSaved(r) PROVE BridgeInv'
  <2>1. job[r] \in Running /\ UNCHANGED <<calls, pc>> /\ job' = [job EXCEPT ![r] = "ended"]
        /\ Answer("draw", r, "ok")
    BY <1>10 DEF JobSaved, Running
  <2> QED BY <2>1, JobLinked DEF Running
<1>11. ASSUME NEW r \in Requests, RemoteAnswered(r) \/ Written(r) PROVE BridgeInv'
  <2>1. pc[r] \notin Native /\ UNCHANGED <<calls, replies, job>>
    BY <1>11 DEF RemoteAnswered, Written, Native, bridge
  <2>2. PICK x \in Steps \cup Ends : pc' = [pc EXCEPT ![r] = x]
    BY <1>11 DEF RemoteAnswered, Written, Save, Fail, Goto, Steps, Ends
  <2>3. Idle(calls, replies, job[r], r)  BY <2>1, Ways, NotWaiting DEF BridgeInv
  <2>4. \A s \in Requests \ {r} : pc'[s] = pc[s]  BY <1>0, <2>2
  <2>5. Linked(calls, replies, job[r], pc'[r], r)  BY <2>3, IdleLinked
  <2> QED BY <2>1, <2>4, <2>5 DEF BridgeInv
<1>12. ASSUME NEW r \in Requests, RemoteProgress(r) \/ JobProgress(r) PROVE BridgeInv'
  BY <1>12 DEF RemoteProgress, JobProgress, BridgeInv, bridge
<1>13. CASE UNCHANGED vars
  BY <1>13 DEF vars, bridge, BridgeInv
<1> QED BY <1>1, <1>2, <1>3, <1>4, <1>5, <1>6, <1>7, <1>8, <1>8a, <1>9, <1>10, <1>11, <1>12, <1>13
    DEF Next, Service, Device, Servers, Disk, Progress
-----------------------------------------------------------------------------
(* What the user stopped.                                                  *)

LEMMA MoveStops ==
    ASSUME TypeOK, StopInv, NEW r \in Requests, pc[r] \in Steps \ {"write"}, Moves(r),
           UNCHANGED <<cancelRequested, cancelled, excused>>
    PROVE  StopInv'
<1>1. PICK x \in Steps \cup Ends :
          pc' = [pc EXCEPT ![r] = x] /\ (cancelRequested => x \notin {"saved", "write"})
  BY DEF Moves
<1>2. pc'[r] = x /\ \A s \in Requests \ {r} : pc'[s] = pc[s]
  BY <1>1, TypeParts DEF PlaceOK
<1>3. cancelled \subseteq Requests  BY TypeParts DEF PastOK
<1>4. SUFFICES ASSUME NEW s \in cancelled
               PROVE  /\ pc'[s] # "new"
                      /\ s \notin excused => /\ pc'[s] \notin {"saved", "write"}
                                             /\ pc'[s] \in Steps => cancelRequested
  BY DEF StopInv
<1>5. CASE s = r
  <2>1. x # "new"  BY DEF Steps, Ends
  <2>2. s \notin excused => cancelRequested  BY <1>5 DEF StopInv
  <2> QED BY <1>1, <1>2, <1>5, <2>1, <2>2
<1>6. CASE s # r
  BY <1>2, <1>3, <1>6 DEF StopInv
<1> QED BY <1>5, <1>6

LEMMA StopInductive == TypeOK /\ BridgeInv /\ StopInv /\ [Next]_vars => StopInv'
<1> SUFFICES ASSUME TypeOK, BridgeInv, StopInv, [Next]_vars PROVE StopInv'
  OBVIOUS
<1>0. pc \in [Requests -> {"new"} \cup Steps \cup Ends] /\ cancelled \subseteq Requests
  BY TypeParts DEF PlaceOK, PastOK
<1>1. ASSUME NEW r \in Requests, Start(r) PROVE StopInv'
  <2>1. pc[r] = "new" /\ cancelled' = cancelled  BY <1>1 DEF Start, history
  <2>2. PICK x \in Steps \cup Ends : pc' = [pc EXCEPT ![r] = x]
    BY <1>1 DEF Start, Goto, AskLoaded, SendRemote, Steps, Ends
  <2>3. \A s \in cancelled : pc'[s] = pc[s]  BY <1>0, <2>1, <2>2 DEF StopInv
  <2>4. CASE InFlight(phase)
    BY <1>1, <2>1, <2>3, <2>4 DEF Start, StopInv, svcVars, history
  <2>5. CASE ~ InFlight(phase)
    <3>1. excused' = excused \cup AtWork  BY <1>1, <2>5 DEF Start
    <3> QED BY <1>0, <2>1, <2>3, <3>1 DEF StopInv, AtWork
  <2> QED BY <2>4, <2>5
<1>2. CASE Cancel
  <2>1. /\ cancelRequested' = TRUE /\ pc' = pc
        /\ cancelled' = cancelled \cup ({shown} \cap AtWork)
        /\ excused' = excused \cup {r \in Requests : pc[r] = "write"}
    BY <1>2 DEF Cancel
  <2>2. \A s \in cancelled' : s \in Requests /\ pc[s] # "new"
                              /\ (s \notin excused => pc[s] # "saved")
    BY <1>0, <2>1 DEF StopInv, AtWork, Steps
  <2> QED BY <2>1, <2>2 DEF StopInv
<1>3. CASE TakeReply
  <2> DEFINE a == Head(replies)
  <2>1. /\ replies # <<>> /\ a \in Reply /\ UNCHANGED <<cancelRequested, cancelled, excused>>
        /\ pc' = pc \/ (a.of \in Requests /\ Moves(a.of))
    BY <1>3, ReplyMoves
  <2>2. CASE pc' = pc  BY <2>1, <2>2 DEF StopInv
  <2>3. CASE a.of \in Requests /\ Moves(a.of)
    <3>1. pc[a.of] = AwaitOf(a.op)  BY <2>1, <2>3, Ways, ReplyTaken DEF BridgeInv
    <3>2. AwaitOf(a.op) \in Native  BY <2>1, <2>3, Messages DEF Msg
    <3>3. pc[a.of] \in Steps \ {"write"}  BY <3>1, <3>2 DEF Native, Steps
    <3> QED BY <2>1, <2>3, <3>3, MoveStops
  <2> QED BY <2>1, <2>2, <2>3
<1>4. ASSUME NEW r \in Requests, TextLoaded(r) PROVE StopInv'
  <2>1. /\ pc[r] \in Steps \ {"write"} /\ UNCHANGED <<cancelled, excused>>
    BY <1>4 DEF TextLoaded, Steps, history
  <2>2. Moves(r) /\ cancelRequested' = cancelRequested
    <3>1. CASE Goto(r, "enhance") /\ calls' = calls /\ cancelRequested' = cancelRequested
      BY <3>1 DEF Goto, Moves, Steps
    <3>2. CASE Prompted(r)
      BY <3>2, PromptMoves DEF Prompted, Quit
    <3> QED BY <1>4, <3>1, <3>2 DEF TextLoaded
  <2> QED BY <2>1, <2>2, MoveStops
<1>5. ASSUME NEW r \in Requests, Enhanced(r) PROVE StopInv'
  <2>1. pc[r] \in Steps \ {"write"} /\ UNCHANGED <<cancelled, excused>> /\ Prompted(r)
    BY <1>5 DEF Enhanced, Steps, history
  <2>2. cancelRequested' = cancelRequested  BY <2>1 DEF Prompted, Quit
  <2> QED BY <2>1, <2>2, PromptMoves, MoveStops
<1>6. ASSUME NEW r \in Requests, LoadDone(r) PROVE StopInv'
  <2>1. pc[r] \in Steps \ {"write"} /\ UNCHANGED <<cancelled, excused>>
    BY <1>6 DEF LoadDone, Steps, history
  <2>2. Moves(r)  BY <1>6, LoadedMoves, FailMoves DEF LoadDone
  <2>3. cancelRequested' = cancelRequested
    BY <1>6 DEF LoadDone, Loaded, Draw, Quit, Fail, svcVars
  <2> QED BY <2>1, <2>2, <2>3, MoveStops
<1>7. ASSUME NEW r \in Requests, RemoteAnswered(r) PROVE StopInv'
  <2>1. pc[r] \in Steps \ {"write"} /\ UNCHANGED <<cancelRequested, cancelled, excused>>
        /\ calls' = calls
    BY <1>7 DEF RemoteAnswered, Steps, history, svcVars, Fail, bridge
  <2>2. Moves(r)
    BY <1>7, <2>1 DEF RemoteAnswered, Fail, Goto, Moves, Steps, Ends
  <2> QED BY <2>1, <2>2, MoveStops
<1>8. ASSUME NEW r \in Requests, Written(r) PROVE StopInv'
  <2>1. pc[r] = "write" /\ UNCHANGED <<cancelRequested, cancelled, excused>>
    BY <1>8 DEF Written, history, Save, Fail, svcVars
  <2>2. PICK x \in Ends : pc' = [pc EXCEPT ![r] = x] /\ x # "ignored"
    BY <1>8 DEF Written, Save, Fail, Goto, Ends
  <2>3. pc'[r] = x /\ \A s \in Requests \ {r} : pc'[s] = pc[s]  BY <1>0, <2>2
  <2>4. x # "new" /\ x \notin Steps  BY DEF Ends, Steps
  <2>5. r \in cancelled => r \in excused  BY <2>1 DEF StopInv
  <2> QED BY <1>0, <2>1, <2>3, <2>4, <2>5 DEF StopInv
<1>9. ASSUME UNCHANGED <<cancelRequested, cancelled, excused, pc>> PROVE StopInv'
  BY <1>9 DEF StopInv
<1>10. CASE TakeCall
  BY <1>9, <1>10 DEF TakeCall, svcVars, history
<1>11. ASSUME NEW r \in Requests,
              JobStarts(r) \/ JobConnects(r) \/ JobEnds(r) \/ JobSaved(r) \/ RemoteProgress(r) \/ JobProgress(r)
       PROVE  StopInv'
  BY <1>9, <1>11 DEF JobStarts, JobConnects, JobEnds, JobSaved, RemoteProgress, JobProgress, svcVars, history
<1>12. CASE UNCHANGED vars
  BY <1>9, <1>12 DEF vars, svcVars, history
<1> QED BY <1>1, <1>2, <1>3, <1>4, <1>5, <1>6, <1>7, <1>8, <1>10, <1>11, <1>12
    DEF Next, Service, Device, Servers, Disk, Progress
-----------------------------------------------------------------------------
(* Types are kept.                                                         *)

\* A request that does not enter or leave the native call of its drawing.
LEMMA PlaceKept ==
    ASSUME TypeOK, NEW r \in Requests, NEW x \in Steps \cup Ends, pc' = [pc EXCEPT ![r] = x],
           \/ pc[r] # "draw" /\ x # "draw" /\ listening' = listening
           \/ x # "draw" /\ listening' = listening \ {r}
           \/ x = "draw" /\ listening' = listening \cup {r}
    PROVE  PlaceOK'
BY TypeParts DEF PlaceOK

\* What Quit, Fail and Save leave: the phase is over, and the request with it.
Over(r) ==
    /\ ShownOK'
    /\ cancelRequested' = cancelRequested
    /\ \E x \in {"quit", "failed", "saved"} : pc' = [pc EXCEPT ![r] = x]

LEMMA EndTypes ==
    ASSUME TypeOK, NEW r \in Requests, remoteRequest' \in {remoteRequest, None},
           Quit(r) \/ Fail(r) \/ \E id \in Requests \cup {None} : Save(r, id)
    PROVE  Over(r)
<1>1. ShownOK  BY TypeParts
<1>2. CASE Quit(r)
  BY <1>1, <1>2 DEF Over, ShownOK, Quit, ResetState, Goto, Phases
<1>3. CASE Fail(r)
  BY <1>1, <1>3 DEF Over, ShownOK, Fail, Goto, Phases
<1>4. ASSUME NEW id \in Requests \cup {None}, Save(r, id) PROVE Over(r)
  BY <1>1, <1>4 DEF Over, ShownOK, Save, Goto, Phases
<1> QED BY <1>2, <1>3, <1>4

LEMMA AskTypes ==
    ASSUME TypeOK, NEW op \in {"loaded", "cache", "draw"}, NEW r \in Requests, Ask(op, r)
    PROVE  calls' \in Seq(Op)
<1>1. [op |-> op, of |-> r] \in Op  BY DEF Op
<1>2. calls \in Seq(Op)  BY TypeParts DEF WaysOK
<1> QED BY <1>1, <1>2 DEF Ask

\* Types of the variables a handler of the service may change.
HandlerOK == ShownOK' /\ cancelRequested' \in BOOLEAN /\ calls' \in Seq(Op) /\ PlaceOK'

LEMMA PromptTypes ==
    ASSUME TypeOK, NEW r \in Requests, pc[r] \in {"textLoad", "enhance"}, Prompted(r),
           listening' = listening
    PROVE  HandlerOK
<1>1. ShownOK /\ WaysOK /\ cancelRequested \in BOOLEAN  BY TypeParts DEF FlagsOK
<1>2. CASE Quit(r) /\ UNCHANGED <<remoteRequest, calls>>
  <2>1. Over(r)  BY <1>2, EndTypes
  <2>2. PlaceOK'
    BY <2>1, PlaceKept DEF Over, Ends
  <2> QED BY <1>1, <1>2, <2>1, <2>2 DEF HandlerOK, Over, WaysOK
<1>3. CASE SendRemote(r) /\ UNCHANGED <<cancelRequested, messageId>>
  <2>1. PlaceOK'  BY <1>3, PlaceKept DEF SendRemote, Goto, Steps
  <2> QED BY <1>1, <1>3, <2>1 DEF HandlerOK, SendRemote, Show, ShownOK, WaysOK, Phases
<1>4. CASE AskLoaded(r) /\ UNCHANGED <<card, cancelRequested, messageId>>
  <2>1. PlaceOK'  BY <1>4, PlaceKept DEF AskLoaded, Goto, Steps
  <2>2. calls' \in Seq(Op)  BY <1>4, AskTypes DEF AskLoaded
  <2> QED BY <1>1, <1>4, <2>1, <2>2 DEF HandlerOK, AskLoaded, Show, ShownOK, Phases
<1> QED BY <1>2, <1>3, <1>4 DEF Prompted

LEMMA DrawTypes ==
    ASSUME TypeOK, NEW r \in Requests, pc[r] # "draw", Draw(r), remoteRequest' = remoteRequest
    PROVE  HandlerOK /\ generating' \in BOOLEAN
<1>1. ShownOK /\ WaysOK /\ cancelRequested \in BOOLEAN /\ generating \in BOOLEAN
  BY TypeParts DEF FlagsOK
<1>2. CASE Fail(r) /\ UNCHANGED <<generating, listening, calls>>
  <2>1. Over(r)  BY <1>2, EndTypes
  <2>2. PlaceOK'  BY <1>2, <2>1, PlaceKept DEF Over, Ends
  <2> QED BY <1>1, <1>2, <2>1, <2>2 DEF HandlerOK, Over, WaysOK
<1>3. CASE /\ phase' = "generating" /\ generating' = TRUE /\ listening' = listening \cup {r}
           /\ Ask("draw", r) /\ Goto(r, "draw")
           /\ UNCHANGED <<shown, card, progress, cancelRequested, messageId>>
  <2>1. PlaceOK'  BY <1>3, PlaceKept DEF Goto, Steps
  <2>2. calls' \in Seq(Op)  BY <1>3, AskTypes
  <2> QED BY <1>1, <1>3, <2>1, <2>2 DEF HandlerOK, ShownOK, Phases
<1> QED BY <1>2, <1>3 DEF Draw

LEMMA LoadedTypes ==
    ASSUME TypeOK, NEW r \in Requests, pc[r] \in {"asking", "load"}, Loaded(r),
           remoteRequest' = remoteRequest
    PROVE  HandlerOK /\ generating' \in BOOLEAN
<1>1. ShownOK /\ WaysOK /\ cancelRequested \in BOOLEAN /\ generating \in BOOLEAN
  BY TypeParts DEF FlagsOK
<1>2. CASE Quit(r) /\ UNCHANGED <<generating, listening, calls>>
  <2>1. Over(r)  BY <1>2, EndTypes
  <2>2. PlaceOK'  BY <1>2, <2>1, PlaceKept DEF Over, Ends
  <2> QED BY <1>1, <1>2, <2>1, <2>2 DEF HandlerOK, Over, WaysOK
<1>3. CASE Draw(r)  BY <1>3, DrawTypes
<1>4. CASE /\ Ask("cache", r) /\ Goto(r, "cache")
           /\ UNCHANGED <<svcVars, generating, listening, messageId>>
  <2>1. PlaceOK'  BY <1>4, PlaceKept DEF Goto, Steps
  <2>2. calls' \in Seq(Op)  BY <1>4, AskTypes
  <2> QED BY <1>1, <1>4, <2>1, <2>2 DEF HandlerOK, ShownOK, svcVars
<1> QED BY <1>2, <1>3, <1>4 DEF Loaded

LEMMA DrawnTypes ==
    ASSUME TypeOK, NEW r \in Requests, NEW said \in {"ok", "cancelled", "error"}, Drawn(r, said),
           remoteRequest' = remoteRequest
    PROVE  HandlerOK /\ generating' \in BOOLEAN
<1>1. ShownOK /\ WaysOK /\ cancelRequested \in BOOLEAN  BY TypeParts DEF FlagsOK
<1>2. Quit(r) \/ Fail(r) \/ Save(r, card)  BY DEF Drawn
<1>3. card \in Requests \cup {None}  BY <1>1 DEF ShownOK
<1>4. Over(r)  BY <1>2, <1>3, EndTypes
<1>5. listening' = listening \ {r} /\ calls' = calls /\ generating' = FALSE  BY DEF Drawn
<1>6. PlaceOK'  BY <1>4, <1>5, PlaceKept DEF Over, Ends
<1> QED BY <1>1, <1>4, <1>5, <1>6 DEF HandlerOK, Over, WaysOK

LEMMA TypesInductive == TypeOK /\ BridgeInv /\ [Next]_vars => TypeOK'
<1> SUFFICES ASSUME TypeOK, BridgeInv, [Next]_vars PROVE TypeOK'
  OBVIOUS
<1> USE DEF native
<1>0. ShownOK /\ FlagsOK /\ WaysOK /\ PlaceOK /\ PastOK  BY TypeParts
<1>1. ASSUME NEW r \in Requests, Start(r) PROVE TypeOK'
  <2>1. /\ pc[r] = "new" /\ replies' = replies /\ UNCHANGED native
        /\ UNCHANGED <<generating, listening, route, aborted, messageId>>
    BY <1>1 DEF Start
  <2>2. PastOK'
    <3>1. CASE UNCHANGED history
      BY <1>0, <2>1, <3>1 DEF PastOK, history
    <3>2. CASE /\ excused' = excused \cup AtWork
               /\ alone' = IF AtWork = {} /\ calls = <<>> /\ replies = <<>>
                           THEN alone \cup {r} ELSE alone
               /\ UNCHANGED <<cancels, cancelled>>
      BY <1>0, <2>1, <3>2 DEF PastOK, AtWork
    <3> QED BY <1>1, <3>1, <3>2 DEF Start
  <2>3. cancelRequested' \in BOOLEAN
    BY <1>0, <1>1 DEF Start, svcVars, FlagsOK
  <2>4. FlagsOK'  BY <1>0, <2>1, <2>3 DEF FlagsOK
  <2>5. /\ calls' \in Seq(Op) /\ ShownOK'
        /\ \E x \in (Steps \cup Ends) \ {"draw"} : pc' = [pc EXCEPT ![r] = x]
    <3>1. CASE Goto(r, "ignored") /\ UNCHANGED <<svcVars, remoteRequest, calls>>
      BY <1>0, <2>1, <3>1 DEF Goto, ShownOK, WaysOK, svcVars, Ends, Steps
    <3>2. CASE /\ Goto(r, "failed") /\ phase' = "error" /\ progress' = None
               /\ UNCHANGED <<shown, card, remoteRequest, calls>>
      BY <1>0, <2>1, <3>2 DEF Goto, ShownOK, WaysOK, Ends, Steps, Phases
    <3>3. ASSUME NEW step \in {"textLoad", "enhance"}, Show(r, "enhancing"), Goto(r, step),
                 card' \in {r, card}, UNCHANGED <<remoteRequest, calls>>
          PROVE  /\ calls' \in Seq(Op) /\ ShownOK'
                 /\ \E x \in (Steps \cup Ends) \ {"draw"} : pc' = [pc EXCEPT ![r] = x]
      BY <1>0, <2>1, <3>3 DEF Goto, Show, ShownOK, WaysOK, Steps, Phases
    <3>4. CASE AskLoaded(r) /\ card' = r
      <4>1. calls' \in Seq(Op)  BY <3>4, AskTypes DEF AskLoaded
      <4> QED BY <1>0, <2>1, <3>4, <4>1 DEF AskLoaded, Goto, Show, ShownOK, Steps, Phases
    <3>5. CASE SendRemote(r)
      BY <1>0, <2>1, <3>5 DEF SendRemote, Goto, Show, ShownOK, WaysOK, Steps, Phases
    <3> QED BY <1>1, <3>1, <3>2, <3>3, <3>4, <3>5 DEF Start
  <2>6. PlaceOK'
    <3>1. PICK x \in (Steps \cup Ends) \ {"draw"} : pc' = [pc EXCEPT ![r] = x]
      BY <2>5
    <3> QED BY <2>1, <3>1, PlaceKept
  <2>7. WaysOK'  BY <1>0, <2>1, <2>5 DEF WaysOK
  <2> QED BY <2>2, <2>4, <2>5, <2>6, <2>7, TypePartsNext
<1>2. CASE Cancel
  <2> DEFINE m == [op |-> "cancel", of |-> None]
  <2>1. calls' = Append(calls, m) /\ m \in Op  BY <1>2 DEF Cancel, Ask, Op
  <2>2. ShownOK' /\ PlaceOK'
    BY <1>0, <1>2 DEF Cancel, ShownOK, PlaceOK, Phases
  <2>3. WaysOK'
    <3> HIDE DEF m
    <3> QED BY <1>0, <1>2, <2>1 DEF Cancel, WaysOK
  <2>4. FlagsOK'  BY <1>0, <1>2 DEF Cancel, FlagsOK
  <2>5. PastOK'
    <3>1. cancels' \in 0 .. MaxCancels
      <4>1. PICK x \in 0 .. MaxCancels : x = cancels  BY <1>0 DEF PastOK
      <4>2. x < MaxCancels /\ cancels' = x + 1  BY <1>2, <4>1 DEF Cancel
      <4>3. x + 1 \in 0 .. MaxCancels  BY <4>2, ImageAssumption
      <4> QED BY <4>2, <4>3
    <3> QED BY <1>0, <1>2, <3>1 DEF Cancel, PastOK, ShownOK, AtWork
  <2> QED BY <2>2, <2>3, <2>4, <2>5, TypePartsNext
<1>3. ASSUME NEW r \in Requests, HandlerOK, generating' \in BOOLEAN,
             UNCHANGED <<native, route, aborted, history>>, replies' \in Seq(Reply)
      PROVE  TypeOK'
  BY <1>0, <1>3, TypePartsNext DEF HandlerOK, WaysOK, FlagsOK, PastOK, history
<1>4. CASE TakeReply
  <2> DEFINE a == Head(replies)
  <2>1. /\ replies # <<>> /\ replies' = Tail(replies) /\ a \in Reply
        /\ UNCHANGED <<remoteRequest, native, route, aborted, history>>
    BY <1>4, ReplyMoves DEF TakeReply
  <2>2. replies' \in Seq(Reply)  BY <1>0, <2>1, HeadTailProperties DEF WaysOK
  <2>3. CASE a.op = "cancel" /\ CancelDone
    <3>1. ShownOK'  BY <1>0, <2>1, <2>3 DEF CancelDone, ResetState, ShownOK, Phases
    <3>2. PlaceOK' /\ calls' \in Seq(Op)  BY <1>0, <2>3 DEF CancelDone, PlaceOK, WaysOK
    <3>3. cancelRequested' \in BOOLEAN /\ generating' \in BOOLEAN
      BY <1>0, <2>3 DEF CancelDone, FlagsOK
    <3> QED BY <1>0, <2>1, <2>2, <3>1, <3>2, <3>3, TypePartsNext
        DEF WaysOK, FlagsOK, PastOK, history
  <2>4. a.op # "cancel" => a.of \in Requests /\ pc[a.of] = AwaitOf(a.op)
    <3>1. a.op # "cancel" => a.of \in Requests  BY <2>1 DEF Reply
    <3> QED BY <2>1, <3>1, Ways, ReplyTaken DEF BridgeInv
  <2>5. CASE a.op = "loaded" /\ LoadedKnown(a.of)
    <3>1. a.of \in Requests /\ pc[a.of] = "asking"  BY <2>4, <2>5 DEF AwaitOf
    <3>2. CASE Loaded(a.of)
      BY <1>3, <2>1, <2>2, <3>1, <3>2, LoadedTypes
    <3>3. CASE /\ phase' = "loading" /\ Goto(a.of, "load")
               /\ UNCHANGED <<shown, card, progress, cancelRequested, generating, listening,
                              calls, messageId>>
      <4>1. PlaceOK'  BY <3>1, <3>3, PlaceKept DEF Goto, Steps
      <4>2. ShownOK' /\ calls' \in Seq(Op)
        BY <1>0, <2>1, <3>3 DEF ShownOK, WaysOK, Phases
      <4>3. cancelRequested' \in BOOLEAN /\ generating' \in BOOLEAN
        BY <1>0, <3>3 DEF FlagsOK
      <4> QED BY <1>3, <2>1, <2>2, <3>1, <4>1, <4>2, <4>3 DEF HandlerOK
    <3> QED BY <2>5, <3>2, <3>3 DEF LoadedKnown
  <2>6. CASE a.op = "cache" /\ Draw(a.of)
    <3>1. a.of \in Requests /\ pc[a.of] # "draw"  BY <2>4, <2>6 DEF AwaitOf
    <3> QED BY <1>3, <2>1, <2>2, <2>6, <3>1, DrawTypes
  <2>7. CASE a.op = "draw" /\ Drawn(a.of, a.said)
    <3>1. a.of \in Requests /\ a.said \in {"ok", "cancelled", "error"}
      BY <2>1, <2>4, <2>7 DEF Reply
    <3> QED BY <1>3, <2>1, <2>2, <2>7, <3>1, DrawnTypes
  <2> QED BY <1>4, <2>3, <2>5, <2>6, <2>7 DEF TakeReply
<1>5. ASSUME NEW r \in Requests, TextLoaded(r) \/ Enhanced(r) PROVE TypeOK'
  <2>1. /\ pc[r] \in {"textLoad", "enhance"}
        /\ UNCHANGED <<generating, listening, replies, native, route, aborted, history>>
    BY <1>5 DEF TextLoaded, Enhanced
  <2>2. generating' \in BOOLEAN /\ replies' \in Seq(Reply)
    BY <1>0, <2>1 DEF FlagsOK, WaysOK
  <2>3. CASE Prompted(r)
    BY <1>3, <2>1, <2>2, <2>3, PromptTypes
  <2>4. CASE /\ Show(r, "enhancing") /\ Goto(r, "enhance")
             /\ UNCHANGED <<card, cancelRequested, remoteRequest, calls, messageId>>
    <3>1. PlaceOK'  BY <2>1, <2>4, PlaceKept DEF Goto, Steps
    <3>2. ShownOK' /\ calls' \in Seq(Op)
      BY <1>0, <2>4 DEF Show, ShownOK, WaysOK, Phases
    <3>3. cancelRequested' \in BOOLEAN  BY <1>0, <2>4 DEF FlagsOK
    <3> QED BY <1>3, <2>1, <2>2, <3>1, <3>2, <3>3 DEF HandlerOK
  <2> QED BY <1>5, <2>3, <2>4 DEF TextLoaded, Enhanced
<1>6. ASSUME NEW r \in Requests, LoadDone(r) PROVE TypeOK'
  <2>1. pc[r] = "load" /\ UNCHANGED <<remoteRequest, replies, native, route, aborted, history>>
    BY <1>6 DEF LoadDone
  <2>2. replies' \in Seq(Reply)  BY <1>0, <2>1 DEF WaysOK
  <2>3. CASE Loaded(r)  BY <1>3, <2>1, <2>2, <2>3, LoadedTypes
  <2>4. CASE Fail(r) /\ UNCHANGED <<generating, listening, calls>>
    <3>1. Over(r)  BY <2>1, <2>4, EndTypes
    <3>2. PlaceOK'  BY <2>1, <2>4, <3>1, PlaceKept DEF Over, Ends
    <3>3. cancelRequested' \in BOOLEAN /\ generating' \in BOOLEAN
      BY <1>0, <2>4, <3>1 DEF Over, FlagsOK
    <3>4. calls' \in Seq(Op)  BY <1>0, <2>4 DEF WaysOK
    <3> QED BY <1>3, <2>1, <2>2, <3>1, <3>2, <3>3, <3>4 DEF HandlerOK, Over
  <2> QED BY <1>6, <2>3, <2>4 DEF LoadDone
<1>7. CASE TakeCall
  <2> DEFINE c == Head(calls)
  <2>1. /\ calls # <<>> /\ calls' = Tail(calls)
        /\ UNCHANGED <<svcVars, remoteRequest, generating, listening, pc, route, aborted,
                       messageId, history>>
    BY <1>7 DEF TakeCall
  <2>2. c \in Op /\ calls' \in Seq(Op)  BY <1>0, <2>1, HeadTailProperties DEF WaysOK
  <2>3. ShownOK' /\ PlaceOK' /\ PastOK'
    BY <1>0, <2>1 DEF ShownOK, PlaceOK, PastOK, svcVars, history
  <2>4. ASSUME NEW op \in {"cancel", "loaded", "cache"}, NEW of,
               op = "cancel" => of = None, op # "cancel" => of \in Requests,
               Answer(op, of, "ok")
        PROVE  replies' \in Seq(Reply)
    <3>1. [op |-> op, of |-> of, said |-> "ok"] \in Reply  BY <2>4 DEF Reply
    <3> QED BY <1>0, <2>4, <3>1 DEF Answer, WaysOK
  <2>5. replies' \in Seq(Reply) /\ job' \in [Requests -> Running \cup {"none", "ended"}]
        /\ cut' \subseteq Requests /\ active' \in Requests \cup {None}
        /\ generationCancelled' \in BOOLEAN
    <3>1. CASE c.op \in {"loaded", "cache"} /\ Answer(c.op, c.of, "ok") /\ UNCHANGED native
      <4>1. c.of \in Requests  BY <2>2, <3>1 DEF Op
      <4>2. replies' \in Seq(Reply)  BY <2>4, <3>1, <4>1
      <4> QED BY <1>0, <3>1, <4>2 DEF WaysOK, FlagsOK
    <3>2. CASE c.op = "draw" /\ job' = [job EXCEPT ![c.of] = "checking"]
               /\ UNCHANGED <<replies, cut, active, generationCancelled>>
      <4>1. generationCancelled' \in BOOLEAN  BY <1>0, <3>2 DEF FlagsOK
      <4> QED BY <1>0, <3>2, <4>1 DEF WaysOK, Running
    <3>3. CASE /\ c.op = "cancel" /\ generationCancelled' = TRUE
               /\ cut' = cut \cup ({active} \ {None}) /\ active' = None
               /\ Answer("cancel", None, "ok") /\ UNCHANGED job
      <4>1. replies' \in Seq(Reply)  BY <2>4, <3>3
      <4> QED BY <1>0, <3>3, <4>1 DEF WaysOK
    <3> QED BY <1>7, <3>1, <3>2, <3>3 DEF TakeCall
  <2>6. FlagsOK'  BY <1>0, <2>1, <2>5 DEF FlagsOK, svcVars
  <2> QED BY <2>2, <2>3, <2>5, <2>6, TypePartsNext DEF WaysOK
<1>8. ASSUME NEW r \in Requests, JobStarts(r) \/ JobConnects(r) \/ JobEnds(r) \/ JobSaved(r) PROVE TypeOK'
  <2>1. UNCHANGED <<svcVars, remoteRequest, generating, listening, calls, cut, pc, route,
                    aborted, messageId, history>>
    BY <1>8 DEF JobStarts, JobConnects, JobEnds, JobSaved, bridge
  <2>2. ShownOK' /\ PlaceOK' /\ PastOK'
    BY <1>0, <2>1 DEF ShownOK, PlaceOK, PastOK, svcVars, history
  <2>3. ASSUME NEW said \in {"ok", "cancelled", "error"}, Answer("draw", r, said)
        PROVE  replies' \in Seq(Reply)
    <3>1. [op |-> "draw", of |-> r, said |-> said] \in Reply  BY <2>3 DEF Reply
    <3> QED BY <1>0, <2>3, <3>1 DEF Answer, WaysOK
  <2>4. replies' \in Seq(Reply)
    BY <1>0, <1>8, <2>3 DEF JobStarts, JobConnects, JobEnds, JobSaved, bridge, WaysOK
  <2>5. job' \in [Requests -> Running \cup {"none", "ended"}] /\ active' \in Requests \cup {None}
    BY <1>0, <1>8 DEF JobStarts, JobConnects, JobEnds, JobSaved, WaysOK, Running
  <2>6. FlagsOK'
    BY <1>0, <1>8, <2>1 DEF JobStarts, JobConnects, JobEnds, JobSaved, FlagsOK, svcVars
  <2> QED BY <1>0, <2>1, <2>2, <2>4, <2>5, <2>6, TypePartsNext DEF WaysOK
<1>9. ASSUME NEW r \in Requests, RemoteAnswered(r) \/ Written(r) PROVE TypeOK'
  <2>1. /\ pc[r] \in {"remote", "write"} /\ UNCHANGED <<calls, replies>> /\ UNCHANGED native
        /\ UNCHANGED <<generating, listening, route, aborted, history>>
        /\ remoteRequest' \in {remoteRequest, None}
    BY <1>9 DEF RemoteAnswered, Written, bridge
  <2>2. ShownOK' /\ cancelRequested' = cancelRequested
        /\ \E x \in {"write", "quit", "failed", "saved"} : pc' = [pc EXCEPT ![r] = x]
    <3>1. CASE UNCHANGED <<svcVars, messageId>> /\ (Goto(r, "write") \/ Goto(r, "quit"))
      BY <1>0, <2>1, <3>1 DEF ShownOK, svcVars, Goto
    <3>2. CASE Fail(r) \/ Save(r, r)
      <4>1. Over(r)  BY <2>1, <3>2, EndTypes
      <4> QED BY <4>1 DEF Over
    <3> QED BY <1>9, <3>1, <3>2 DEF RemoteAnswered, Written
  <2>3. PlaceOK'
    <3>1. PICK x \in {"write", "quit", "failed", "saved"} : pc' = [pc EXCEPT ![r] = x]  BY <2>2
    <3> QED BY <2>1, <3>1, PlaceKept DEF Steps, Ends
  <2>4. FlagsOK'  BY <1>0, <2>1, <2>2 DEF FlagsOK
  <2> QED BY <1>0, <2>1, <2>2, <2>3, <2>4, TypePartsNext DEF WaysOK, PastOK, history
<1>10. ASSUME NEW r \in Requests, RemoteProgress(r) \/ JobProgress(r) PROVE TypeOK'
  <2>1. progress' = r /\ UNCHANGED <<phase, shown, card, cancelRequested, remoteRequest,
                   generating, listening, bridge, native, pc, route, aborted, messageId, history>>
    BY <1>10 DEF RemoteProgress, JobProgress
  <2>2. FlagsOK'  BY <1>0, <2>1 DEF FlagsOK
  <2>3. ShownOK' /\ PlaceOK' /\ WaysOK' /\ PastOK'
    BY <1>0, <2>1 DEF ShownOK, PlaceOK, WaysOK, PastOK, bridge, history
  <2> QED BY <2>2, <2>3, TypePartsNext
<1>11. CASE UNCHANGED vars
  <2>1. FlagsOK'  BY <1>0, <1>11 DEF FlagsOK, vars, svcVars
  <2>2. ShownOK' /\ PlaceOK' /\ WaysOK' /\ PastOK'
    BY <1>0, <1>11 DEF ShownOK, PlaceOK, WaysOK, PastOK, vars, svcVars, bridge, history
  <2> QED BY <2>1, <2>2, TypePartsNext
<1> QED BY <1>1, <1>2, <1>4, <1>5, <1>6, <1>7, <1>8, <1>9, <1>10, <1>11
    DEF Next, Service, Device, Servers, Disk, Progress
-----------------------------------------------------------------------------
(* A request that is alone at work.                                        *)

\* What is under way at the bridge is all for r.
OnlyFor(s, r) == \A i \in 1 .. Len(s) : s[i].of = r

\* The card is about r.
Shows(r) == InFlight(phase) /\ shown = r /\ progress \in {None, r}

\* r has the service and the bridge for itself. Nobody else may move the phase or
\* the card then: a start finds the phase in flight, and a reset could only come
\* from another request or from the answer to a cancel.
Sole(r) ==
    /\ Shows(r)
    /\ \A q \in Requests : pc[q] \in Steps => q = r
    /\ OnlyFor(calls, r) /\ OnlyFor(replies, r)

AloneInv ==
    \A r \in alone :
        /\ pc[r] # "new"
        /\ pc[r] \in Steps /\ r \notin cancelled => Sole(r)

\* r goes on, with at most one native call.
Goes(r) ==
    \E x \in Steps \cup Ends :
        /\ pc' = [pc EXCEPT ![r] = x]
        /\ calls' = calls \/ \E op \in {"loaded", "cache", "draw"} : Asked(op, r)

LEMMA MovesGoes == ASSUME NEW r, Moves(r) PROVE Goes(r)
BY DEF Moves, Goes

LEMMA OnlyAppend ==
    ASSUME NEW s \in Seq(Msg), NEW r, NEW m \in Msg, OnlyFor(s, r), m.of = r
    PROVE  OnlyFor(Append(s, m), r)
<1>1. /\ Len(Append(s, m)) = Len(s) + 1 /\ Len(s) \in Nat
      /\ \A i \in 1 .. Len(s) : Append(s, m)[i] = s[i]
      /\ Append(s, m)[Len(s) + 1] = m
  OBVIOUS
<1>2. \A i \in 1 .. Len(s) + 1 : i \in 1 .. Len(s) \/ i = Len(s) + 1  BY <1>1
<1> QED BY <1>1, <1>2 DEF OnlyFor

LEMMA OnlyTail ==
    ASSUME NEW s \in Seq(Msg), s # <<>>, NEW r, OnlyFor(s, r)
    PROVE  OnlyFor(Tail(s), r) /\ Head(s).of = r
<1>1. /\ Head(s) = s[1] /\ Len(s) \in Nat \ {0} /\ Len(Tail(s)) = Len(s) - 1
      /\ \A i \in 1 .. Len(s) - 1 : Tail(s)[i] = s[i + 1]
  BY HeadTailProperties
<1>2. 1 \in 1 .. Len(s) /\ \A i \in 1 .. Len(s) - 1 : i + 1 \in 1 .. Len(s)  BY <1>1
<1> QED BY <1>1, <1>2 DEF OnlyFor

\* The handlers of r leave the card on r, or end r.
LEMMA QuitEnds == ASSUME TypeOK, NEW r \in Requests, Quit(r) \/ Fail(r) PROVE pc'[r] \notin Steps
BY TypeParts DEF PlaceOK, Quit, Fail, Goto, Steps

LEMMA PromptShows ==
    ASSUME TypeOK, NEW r \in Requests, Prompted(r)
    PROVE  pc'[r] \in Steps => Shows(r)'
<1>1. CASE Quit(r)  BY <1>1, QuitEnds
<1>2. CASE SendRemote(r) \/ AskLoaded(r)
  BY <1>2 DEF SendRemote, AskLoaded, Show, Shows, InFlight
<1> QED BY <1>1, <1>2 DEF Prompted

LEMMA DrawShows ==
    ASSUME TypeOK, NEW r \in Requests, Shows(r), Draw(r)
    PROVE  pc'[r] \in Steps => Shows(r)'
<1>1. CASE Fail(r)  BY <1>1, QuitEnds
<1>2. CASE phase' = "generating" /\ UNCHANGED <<shown, progress>>
  BY <1>2 DEF Shows, InFlight
<1> QED BY <1>1, <1>2 DEF Draw

LEMMA LoadedShows ==
    ASSUME TypeOK, NEW r \in Requests, Shows(r), Loaded(r)
    PROVE  pc'[r] \in Steps => Shows(r)'
<1>1. CASE Quit(r)  BY <1>1, QuitEnds
<1>2. CASE Draw(r)  BY <1>2, DrawShows
<1>3. CASE UNCHANGED svcVars  BY <1>3 DEF svcVars, Shows, InFlight
<1> QED BY <1>1, <1>2, <1>3 DEF Loaded

LEMMA KnownShows ==
    ASSUME TypeOK, NEW r \in Requests, Shows(r), LoadedKnown(r)
    PROVE  pc'[r] \in Steps => Shows(r)'
<1>1. CASE Loaded(r)  BY <1>1, LoadedShows
<1>2. CASE phase' = "loading" /\ UNCHANGED <<shown, progress>>
  BY <1>2 DEF Shows, InFlight
<1> QED BY <1>1, <1>2 DEF LoadedKnown

LEMMA DrawnEnds ==
    ASSUME TypeOK, NEW r \in Requests, NEW said \in {"ok", "cancelled", "error"}, Drawn(r, said)
    PROVE  pc'[r] \notin Steps
<1>1. CASE Quit(r) \/ Fail(r)  BY <1>1, QuitEnds
<1>2. CASE Save(r, card)  BY <1>2, TypeParts DEF Save, Goto, PlaceOK, Steps
<1> QED BY <1>1, <1>2 DEF Drawn

\* A handler of a request at work: if another one is alone it cannot be at work.
LEMMA GoesAlone ==
    ASSUME TypeOK, AloneInv, NEW r \in Requests, pc[r] \in Steps, Goes(r),
           UNCHANGED <<alone, cancelled>>,
           replies' = replies \/ (replies # <<>> /\ replies' = Tail(replies)),
           Shows(r) => (pc'[r] \in Steps => Shows(r)')
    PROVE  AloneInv'
<1>1. /\ pc \in [Requests -> {"new"} \cup Steps \cup Ends] /\ alone \subseteq Requests
      /\ calls \in Seq(Msg) /\ replies \in Seq(Msg)
  BY Ways, TypeParts DEF PlaceOK, PastOK
<1>2. PICK x \in Steps \cup Ends :
          /\ pc' = [pc EXCEPT ![r] = x]
          /\ calls' = calls \/ \E op \in {"loaded", "cache", "draw"} : Asked(op, r)
  BY DEF Goes
<1>3. pc'[r] = x /\ x # "new" /\ \A q \in Requests \ {r} : pc'[q] = pc[q]
  BY <1>1, <1>2 DEF Steps, Ends
<1> SUFFICES ASSUME NEW s \in alone
             PROVE  /\ pc'[s] # "new"
                    /\ pc'[s] \in Steps /\ s \notin cancelled => Sole(s)'
  BY DEF AloneInv
<1>4. pc'[s] # "new"  BY <1>1, <1>3 DEF AloneInv
<1>5. ASSUME pc'[s] \in Steps, s \notin cancelled PROVE Sole(s)'
  <2>1. Sole(s) /\ s = r
    <3>1. pc[s] \in Steps  BY <1>1, <1>3, <1>5
    <3> QED BY <1>5, <3>1 DEF AloneInv, Sole
  <2>2. Shows(r)'  BY <1>5, <2>1 DEF Sole
  <2>3. \A q \in Requests : pc'[q] \in Steps => q = r  BY <1>3, <2>1 DEF Sole
  <2>4. OnlyFor(calls', r)
    <3>1. CASE calls' = calls  BY <2>1, <3>1 DEF Sole
    <3>2. ASSUME NEW op \in {"loaded", "cache", "draw"}, Asked(op, r) PROVE OnlyFor(calls', r)
      <4> DEFINE m == [op |-> op, of |-> r]
      <4>1. m \in Msg /\ m.of = r /\ calls' = Append(calls, m)  BY <3>2, Asking DEF Asked
      <4> HIDE DEF m
      <4> QED BY <1>1, <2>1, <4>1, OnlyAppend DEF Sole
    <3> QED BY <1>2, <3>1, <3>2
  <2>5. OnlyFor(replies', r)  BY <1>1, <2>1, OnlyTail DEF Sole
  <2> QED BY <2>1, <2>2, <2>3, <2>4, <2>5 DEF Sole
<1> QED BY <1>4, <1>5

\* The first request after a quiet moment has everything for itself.
LEMMA StartAlone ==
    ASSUME TypeOK, AloneInv, NEW r \in Requests, Start(r)
    PROVE  AloneInv'
<1>1. /\ pc \in [Requests -> {"new"} \cup Steps \cup Ends] /\ alone \subseteq Requests
      /\ calls \in Seq(Msg) /\ pc[r] = "new" /\ replies' = replies
  BY Ways, TypeParts DEF PlaceOK, PastOK, Start
<1>2. CASE InFlight(phase)
  <2>1. Goto(r, "ignored") /\ UNCHANGED <<svcVars, calls, history>>  BY <1>2 DEF Start
  <2>2. pc'[r] = "ignored" /\ \A q \in Requests \ {r} : pc'[q] = pc[q]  BY <1>1, <2>1 DEF Goto
  <2>3. "ignored" # "new" /\ "ignored" \notin Steps  BY DEF Steps
  <2>4. UNCHANGED <<phase, shown, progress, calls, replies, alone, cancelled>>
    BY <1>1, <2>1 DEF svcVars, history
  <2> QED BY <1>1, <2>2, <2>3, <2>4 DEF AloneInv, Sole, Shows, InFlight, OnlyFor
<1>3. CASE ~ InFlight(phase)
  <2>1. /\ cancelled' = cancelled
        /\ alone' = IF AtWork = {} /\ calls = <<>> /\ replies = <<>>
                    THEN alone \cup {r} ELSE alone
    BY <1>3 DEF Start
  <2>2. \A s \in alone : pc[s] \in Steps => s \in cancelled
    BY <1>3 DEF AloneInv, Sole, Shows
  <2>3. /\ pc'[r] # "new" /\ \A q \in Requests \ {r} : pc'[q] = pc[q]
        /\ calls' = calls \/ Ask("loaded", r)
        /\ pc'[r] \in Steps => Shows(r)'
    <3>1. CASE /\ Goto(r, "failed") /\ calls' = calls
      BY <1>1, <3>1 DEF Goto, Steps
    <3>2. ASSUME NEW step \in {"textLoad", "enhance"}, Show(r, "enhancing"), Goto(r, step),
                 calls' = calls
          PROVE  /\ pc'[r] # "new" /\ \A q \in Requests \ {r} : pc'[q] = pc[q]
                 /\ Shows(r)'
      BY <1>1, <3>2 DEF Goto, Show, Shows, InFlight
    <3>3. CASE AskLoaded(r)
      BY <1>1, <3>3 DEF AskLoaded, Goto, Show, Shows, InFlight
    <3>4. CASE SendRemote(r)
      BY <1>1, <3>4 DEF SendRemote, Goto, Show, Shows, InFlight
    <3> QED BY <1>3, <3>1, <3>2, <3>3, <3>4 DEF Start
  <2> SUFFICES ASSUME NEW s \in alone'
               PROVE  /\ pc'[s] # "new"
                      /\ pc'[s] \in Steps /\ s \notin cancelled' => Sole(s)'
    BY DEF AloneInv
  <2>4. CASE s # r
    BY <1>1, <2>1, <2>2, <2>3, <2>4 DEF AloneInv
  <2>5. CASE s = r
    <3>1. AtWork = {} /\ calls = <<>> /\ replies = <<>>
      BY <1>1, <2>1, <2>5 DEF AloneInv
    <3>2. \A q \in Requests : pc'[q] \in Steps => q = r
      BY <2>3, <3>1 DEF AtWork
    <3>3. OnlyFor(replies', r) /\ OnlyFor(calls, r)
      <4>1. \A e : e = <<>> => OnlyFor(e, r)  BY DEF OnlyFor
      <4> QED BY <1>1, <3>1, <4>1
    <3>4. OnlyFor(calls', r)
      <4> DEFINE m == [op |-> "loaded", of |-> r]
      <4>1. m \in Msg /\ m.of = r  BY Asking
      <4>2. calls' = calls \/ calls' = Append(calls, m)  BY <2>3 DEF Ask
      <4> HIDE DEF m
      <4> QED BY <1>1, <3>3, <4>1, <4>2, OnlyAppend
    <3> QED BY <2>3, <2>5, <3>2, <3>3, <3>4 DEF Sole
  <2> QED BY <2>4, <2>5
<1> QED BY <1>2, <1>3

\* The bridge and the module answer in the name of those who asked.
LEMMA DeviceAlone ==
    ASSUME TypeOK, AloneInv, NEW r \in Requests \cup {None}, NEW m \in Msg, m.of = r,
           UNCHANGED <<phase, shown, progress, pc, alone, cancelled>>,
           \A s \in alone : Sole(s) => r = s /\ OnlyFor(calls', s),
           replies' = replies \/ replies' = Append(replies, m)
    PROVE  AloneInv'
<1>1. replies \in Seq(Msg)  BY Ways
<1> SUFFICES ASSUME NEW s \in alone, pc[s] \in Steps, s \notin cancelled
             PROVE  Sole(s)'
  BY DEF AloneInv
<1>2. Sole(s) /\ r = s /\ OnlyFor(calls', s)  BY DEF AloneInv
<1>3. OnlyFor(replies', s)  BY <1>1, <1>2, OnlyAppend DEF Sole
<1> QED BY <1>2, <1>3 DEF Sole, Shows, InFlight

LEMMA AloneInductive == TypeOK /\ BridgeInv /\ AloneInv /\ [Next]_vars => AloneInv'
<1> SUFFICES ASSUME TypeOK, BridgeInv, AloneInv, [Next]_vars PROVE AloneInv'
  OBVIOUS
<1>0. /\ pc \in [Requests -> {"new"} \cup Steps \cup Ends] /\ alone \subseteq Requests
      /\ calls \in Seq(Msg) /\ replies \in Seq(Msg)
      /\ shown \in Requests \cup {None}
  BY Ways, TypeParts DEF PlaceOK, PastOK, ShownOK
<1>1. ASSUME NEW r \in Requests, Start(r) PROVE AloneInv'
  BY <1>1, StartAlone
<1>2. CASE Cancel
  <2>1. /\ UNCHANGED <<pc, shown, alone>>
        /\ cancelled' = cancelled \cup ({shown} \cap AtWork)
    BY <1>2 DEF Cancel
  <2>2. ASSUME NEW s \in alone, pc[s] \in Steps, s \notin cancelled'
        PROVE  FALSE
    <3>1. shown = s  BY <2>1, <2>2 DEF AloneInv, Sole, Shows
    <3>2. s \in AtWork  BY <1>0, <2>2 DEF AtWork
    <3> QED BY <2>1, <2>2, <3>1, <3>2
  <2> QED BY <2>1, <2>2 DEF AloneInv
<1>3. CASE TakeReply
  <2> DEFINE a == Head(replies)
  <2>1. /\ replies # <<>> /\ replies' = Tail(replies) /\ a \in Reply
        /\ UNCHANGED <<alone, cancelled>>
        /\ (a.op = "cancel" /\ UNCHANGED <<calls, pc>>) \/ (a.of \in Requests /\ Moves(a.of))
    <3>1. UNCHANGED <<alone, cancelled>>  BY <1>3 DEF TakeReply, history
    <3> QED BY <1>3, <3>1, ReplyMoves
  <2>2. CASE a.op = "cancel"
    <3>1. a.of \notin Requests /\ UNCHANGED <<calls, pc>>
      <4>1. a.op \notin {"loaded", "cache", "draw"}  BY <2>2
      <4> QED BY <2>1, <4>1, ImageAssumption DEF Reply
    <3>2. \A s \in alone : ~ OnlyFor(replies, s)  BY <1>0, <2>1, <3>1, OnlyTail
    <3> QED BY <2>1, <3>1, <3>2 DEF AloneInv, Sole
  <2>3. CASE a.op # "cancel"
    <3>1. PICK r \in Requests : r = a.of  BY <2>1, <2>3
    <3>2. Goes(r)  BY <2>1, <2>3, <3>1, MovesGoes
    <3>3. a.op \in {"loaded", "cache", "draw"}  BY <2>1, <2>3 DEF Reply
    <3>4. pc[r] \in Steps
      <4>1. pc[r] = AwaitOf(a.op)  BY <1>0, <2>1, <3>1, ReplyTaken DEF BridgeInv
      <4> QED BY <3>3, <4>1 DEF AwaitOf, Steps
    <3>5. Shows(r) => (pc'[r] \in Steps => Shows(r)')
      <4>1. a.op = "draw" => a.said \in {"ok", "cancelled", "error"}  BY <2>1 DEF Reply
      <4>2. CASE LoadedKnown(r)  BY <4>2, KnownShows
      <4>3. CASE Draw(r)  BY <4>3, DrawShows
      <4>4. CASE a.op = "draw" /\ Drawn(r, a.said)  BY <4>1, <4>4, DrawnEnds
      <4> QED BY <1>3, <2>3, <3>1, <4>2, <4>3, <4>4 DEF TakeReply
    <3> QED BY <2>1, <3>2, <3>4, <3>5, GoesAlone
  <2> QED BY <2>2, <2>3
<1>4. ASSUME NEW r \in Requests, TextLoaded(r) \/ Enhanced(r) PROVE AloneInv'
  <2>1. pc[r] \in Steps /\ replies' = replies /\ UNCHANGED <<alone, cancelled>>
    BY <1>4 DEF TextLoaded, Enhanced, Steps, history
  <2>2. CASE Prompted(r)
    BY <2>1, <2>2, PromptMoves, MovesGoes, PromptShows, GoesAlone
  <2>3. CASE Show(r, "enhancing") /\ Goto(r, "enhance") /\ calls' = calls
    <3>1. Goes(r)  BY <2>3 DEF Goto, Goes, Steps
    <3>2. Shows(r)'  BY <2>3 DEF Show, Shows, InFlight
    <3> QED BY <2>1, <3>1, <3>2, GoesAlone
  <2> QED BY <1>4, <2>2, <2>3 DEF TextLoaded, Enhanced
<1>5. ASSUME NEW r \in Requests, LoadDone(r) PROVE AloneInv'
  <2>1. pc[r] \in Steps /\ replies' = replies /\ UNCHANGED <<alone, cancelled>>
    BY <1>5 DEF LoadDone, Steps, history
  <2>2. CASE Loaded(r)
    BY <2>1, <2>2, LoadedMoves, MovesGoes, LoadedShows, GoesAlone
  <2>3. CASE Fail(r) /\ calls' = calls
    BY <2>1, <2>3, FailMoves, MovesGoes, QuitEnds, GoesAlone
  <2> QED BY <1>5, <2>2, <2>3 DEF LoadDone
<1>6. CASE TakeCall
  <2> DEFINE c == Head(calls)
  <2>1. /\ calls # <<>> /\ calls' = Tail(calls) /\ c \in Op
        /\ UNCHANGED <<phase, shown, progress, pc, alone, cancelled>>
    BY <1>6, TypeParts, HeadTailProperties DEF TakeCall, WaysOK, svcVars, history
  <2>2. \A s \in alone : Sole(s) => c.of = s /\ OnlyFor(calls', s)
    BY <1>0, <2>1, OnlyTail DEF Sole
  <2>3. c.of \in Requests \cup {None}  BY <2>1 DEF Op
  <2>4. ASSUME NEW m \in Msg, m.of = c.of, replies' = replies \/ replies' = Append(replies, m)
        PROVE  AloneInv'
    BY <2>1, <2>2, <2>3, <2>4, DeviceAlone
  <2>5. CASE c.op \in {"loaded", "cache"} /\ Answer(c.op, c.of, "ok")
    <3> DEFINE m == [op |-> c.op, of |-> c.of, said |-> "ok"]
    <3>1. c.of \in Requests  BY <2>1, <2>5 DEF Op
    <3>2. m \in Msg /\ m.of = c.of /\ replies' = Append(replies, m)
      BY <2>5, <3>1 DEF Answer, Msg, Reply
    <3> HIDE DEF m
    <3> QED BY <2>4, <3>2
  <2>6. CASE c.op = "draw" /\ replies' = replies
    <3> DEFINE m == [op |-> "loaded", of |-> c.of]
    <3>1. c.of \in Requests  BY <2>1, <2>6 DEF Op
    <3>2. m \in Msg /\ m.of = c.of  BY <3>1, Asking
    <3> HIDE DEF m
    <3> QED BY <2>4, <2>6, <3>2
  <2>7. CASE c.op = "cancel" /\ Answer("cancel", None, "ok")
    <3> DEFINE m == [op |-> "cancel", of |-> None, said |-> "ok"]
    <3>1. c.of = None  BY <2>1, <2>7 DEF Op
    <3>2. m \in Msg /\ m.of = c.of /\ replies' = Append(replies, m)
      BY <2>7, <3>1 DEF Answer, Msg, Reply
    <3> HIDE DEF m
    <3> QED BY <2>4, <3>2
  <2> QED BY <1>6, <2>5, <2>6, <2>7 DEF TakeCall
<1>7. ASSUME NEW r \in Requests, JobStarts(r) \/ JobConnects(r) \/ JobEnds(r) \/ JobSaved(r) PROVE AloneInv'
  <2>1. /\ job[r] \in Running /\ calls' = calls
        /\ UNCHANGED <<phase, shown, progress, pc, alone, cancelled>>
    BY <1>7 DEF JobStarts, JobConnects, JobEnds, JobSaved, bridge, Running, svcVars, history
  <2>2. pc[r] \in Steps  BY <2>1 DEF BridgeInv, Linked, Steps
  <2>3. \A s \in alone : Sole(s) => r = s /\ OnlyFor(calls', s)
    BY <2>1, <2>2 DEF Sole
  <2>4. ASSUME NEW m \in Msg, m.of = r, replies' = replies \/ replies' = Append(replies, m)
        PROVE  AloneInv'
    BY <2>1, <2>3, <2>4, DeviceAlone
  <2>5. ASSUME NEW said \in {"ok", "cancelled", "error"},
               replies' = replies \/ Answer("draw", r, said)
        PROVE  AloneInv'
    <3> DEFINE m == [op |-> "draw", of |-> r, said |-> said]
    <3>1. /\ m \in Msg /\ m.of = r
          /\ replies' = replies \/ replies' = Append(replies, m)
      BY <2>5 DEF Answer, Msg, Reply
    <3> HIDE DEF m
    <3> QED BY <2>4, <3>1
  <2> QED BY <1>7, <2>5 DEF JobStarts, JobConnects, JobEnds, JobSaved, bridge
<1>8. ASSUME NEW r \in Requests, RemoteAnswered(r) \/ Written(r) PROVE AloneInv'
  <2>1. /\ pc[r] \in Steps /\ UNCHANGED <<calls, replies, alone, cancelled>>
    BY <1>8 DEF RemoteAnswered, Written, Steps, bridge, history
  <2>2. Goes(r)
    BY <1>8, <2>1 DEF RemoteAnswered, Written, Save, Fail, Goto, Steps, Ends, Goes
  <2>3. Shows(r) => (pc'[r] \in Steps => Shows(r)')
    <3>1. CASE UNCHANGED svcVars  BY <3>1 DEF svcVars, Shows, InFlight
    <3>2. CASE Fail(r)  BY <3>2, QuitEnds
    <3>3. CASE Save(r, r)  BY <1>0, <3>3 DEF Save, Goto, Steps
    <3> QED BY <1>8, <3>1, <3>2, <3>3 DEF RemoteAnswered, Written
  <2> QED BY <2>1, <2>2, <2>3, GoesAlone
<1>9. ASSUME NEW r \in Requests, RemoteProgress(r) \/ JobProgress(r) PROVE AloneInv'
  <2>1. /\ progress' = r
        /\ UNCHANGED <<phase, shown, calls, replies, pc, alone, cancelled>>
    BY <1>9 DEF RemoteProgress, JobProgress, bridge, history
  <2>2. pc[r] \in Steps
    BY <1>9 DEF RemoteProgress, JobProgress, BridgeInv, Linked, Running, Steps
  <2>3. \A s \in alone : Sole(s) => r = s  BY <2>2 DEF Sole
  <2> QED BY <2>1, <2>3 DEF AloneInv, Sole, Shows, InFlight, OnlyFor
<1>10. CASE UNCHANGED vars
  BY <1>10 DEF vars, svcVars, bridge, history, AloneInv, Sole, Shows, InFlight, OnlyFor
<1> QED BY <1>1, <1>2, <1>3, <1>4, <1>5, <1>6, <1>7, <1>8, <1>9, <1>10
    DEF Next, Service, Device, Servers, Disk, Progress
-----------------------------------------------------------------------------
\* Every variable of the pictures stays in its range, and a request listens to the
\* progress of the native module exactly while it awaits its native call.
THEOREM TypeCorrect == Spec => []TypeOK
<1>1. Init => TypeOK /\ BridgeInv  BY InitInv
<1>2. TypeOK /\ BridgeInv /\ [Next]_vars => TypeOK' /\ BridgeInv'
  BY TypesInductive, BridgeInductive
<1> QED BY <1>1, <1>2, PTL DEF Spec

\* A picture the user stopped is not stored, at whichever of its awaits the stop
\* finds it, unless its file was being written or a later request cleared the flag.
THEOREM StopHolds == Spec => []StopIsKept
<1>1. Init => TypeOK /\ BridgeInv /\ StopInv  BY InitInv
<1>2. TypeOK /\ BridgeInv /\ StopInv /\ [Next]_vars => TypeOK' /\ BridgeInv' /\ StopInv'
  BY TypesInductive, BridgeInductive, StopInductive
<1>3. StopInv => StopIsKept  BY DEF StopInv, StopIsKept
<1> QED BY <1>1, <1>2, <1>3, PTL DEF Spec

\* A request that started with nothing at work, and that nobody stopped, is what the
\* card shows until it ends: no other request, no late answer of the module and no
\* reset after a cancel takes the phase, the card or the progress from it.
THEOREM CardIsItsOwn == Spec => []AloneIsShown
<1>1. Init => TypeOK /\ BridgeInv /\ AloneInv  BY InitInv DEF Init, AloneInv
<1>2. TypeOK /\ BridgeInv /\ AloneInv /\ [Next]_vars => TypeOK' /\ BridgeInv' /\ AloneInv'
  BY TypesInductive, BridgeInductive, AloneInductive
<1>3. AloneInv => AloneIsShown
  BY DEF AloneInv, Sole, Shows, AloneIsShown, AtWork
<1> QED BY <1>1, <1>2, <1>3, PTL DEF Spec
=============================================================================
