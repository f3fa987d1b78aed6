----------------------- MODULE DownloadAdmissionProofs -----------------------
(***************************************************************************)
(* DownloadAdmission, for every value of its constants.                    *)
(*                                                                         *)
(* First the types and the cap on admission.                               *)
(*                                                                         *)
(* Then: the slots and the start queue implement a first-come first-served *)
(* semaphore, as long as the process is not killed and nothing is          *)
(* restored: every step is a step of FifoSemaphore or leaves its variables *)
(* alone, and no start waits next to a free slot.  The step that could     *)
(* break it is OnStarted: it exchanges a token for an id and does not      *)
(* pump, which keeps the number of slots only if the token was there and   *)
(* the id was not.  ApartInv says the second (the first is StartsInv): an  *)
(* id gets a slot only after its start was answered.                       *)
(*                                                                         *)
(* The last part counts the transfers themselves.  LifeInv follows each    *)
(* start from the token to the end of its row: at every moment a slot that *)
(* is taken is on its way to being given back, and a transfer the native   *)
(* layer runs has one.  Its premise (NoRetakes) leaves out the three paths *)
(* that take or give up a slot on the word of an older record: a retry, a  *)
(* reconcile of the poller and a restore.                                  *)
(***************************************************************************)
EXTENDS DownloadAdmission, FiniteSetTheorems, SequenceTheorems, TLAPS

\* Slots are counted in natural numbers, and a part of a finite set of slots counts
\* no more than the whole.
LEMMA TakenNat ==
  ASSUME NEW S, NEW T, IsFiniteSet(S), IsFiniteSet(T)
  PROVE  Taken(S, T) \in Nat
BY FS_CardinalityType DEF Taken

\* Fewer slots, in either set, never count more.
LEMMA TakenMonotone ==
  ASSUME NEW S, NEW T, NEW S1 \in SUBSET S, NEW T1 \in SUBSET T,
         IsFiniteSet(S), IsFiniteSet(T)
  PROVE  /\ IsFiniteSet(S1) /\ IsFiniteSet(T1)
         /\ Taken(S1, T1) <= Taken(S, T)
<1>1. IsFiniteSet(S1) /\ Cardinality(S1) <= Cardinality(S)  BY FS_Subset
<1>2. IsFiniteSet(T1) /\ Cardinality(T1) <= Cardinality(T)  BY FS_Subset
<1>3. /\ Cardinality(S) \in Nat /\ Cardinality(T) \in Nat
      /\ Cardinality(S1) \in Nat /\ Cardinality(T1) \in Nat
  BY <1>1, <1>2, FS_CardinalityType
<1> QED BY <1>1, <1>2, <1>3 DEF Taken

\* One more token or one more id counts at most one more slot.
LEMMA TakenPlusOne ==
  ASSUME NEW S, NEW T, NEW x, IsFiniteSet(S), IsFiniteSet(T)
  PROVE  /\ IsFiniteSet(S \cup {x}) /\ IsFiniteSet(T \cup {x})
         /\ Taken(S \cup {x}, T) <= Taken(S, T) + 1
         /\ Taken(S, T \cup {x}) <= Taken(S, T) + 1
<1>1. /\ IsFiniteSet(S \cup {x})
      /\ Cardinality(S \cup {x}) \in {Cardinality(S), Cardinality(S) + 1}
  BY FS_AddElement, Zenon
<1>2. /\ IsFiniteSet(T \cup {x})
      /\ Cardinality(T \cup {x}) \in {Cardinality(T), Cardinality(T) + 1}
  BY FS_AddElement, Zenon
<1>3. Cardinality(S) \in Nat /\ Cardinality(T) \in Nat  BY FS_CardinalityType
<1> QED BY <1>1, <1>2, <1>3 DEF Taken

\* pump() admits no more starts than there are free slots, and none if there is none.
LEMMA AdmissibleFits ==
  ASSUME NEW taken \in Nat, startQueue \in Seq(ModelKey)
  PROVE  /\ Admissible(taken) \in 0 .. Len(startQueue)
         /\ Admissible(taken) = 0 \/ taken + Admissible(taken) <= MaxConcurrent
<1>1. MaxConcurrent \in Nat  BY BoundsAssumption
<1>2. Len(startQueue) \in Nat  OBVIOUS
<1> QED BY <1>1, <1>2 DEF Admissible

-----------------------------------------------------------------------------
(* Type correctness *)

\* Sets of starts are finite, so slots can be counted.
LEMMA IdsFinite ==
  ASSUME NEW S \in SUBSET Id
  PROVE  IsFiniteSet(S)
<1>1. IsFiniteSet(Id)  BY FS_Interval, BoundsAssumption DEF Id
<1> QED BY <1>1, FS_Subset

\* pump() takes its starts from the head of the queue, numbers them with unused
\* numbers, and asks the native layer to start them.
LEMMA PumpTypes ==
  ASSUME SlotsOK, NEW tokens \in SUBSET Id, NEW ids \in SUBSET Id, NEW more \in SUBSET Call,
         calls \subseteq Call, Pump(tokens, ids, more)
  PROVE  /\ reserved' \subseteq Id /\ activeIds' = ids
         /\ startQueue' \in Seq(ModelKey)
         /\ \A i, j \in 1 .. Len(startQueue') : startQueue'[i] = startQueue'[j] => i = j
         /\ startSeq' \in Nat /\ startSeq' + Len(startQueue') <= MaxStarts
         /\ calls' \subseteq Call
<1> DEFINE n == Admissible(Taken(tokens, ids))
           new == (startSeq + 1) .. (startSeq + n)
<1>1. n \in 0 .. Len(startQueue)
  BY IdsFinite, TakenNat, AdmissibleFits DEF SlotsOK
<1>2. /\ reserved' = tokens \cup new /\ activeIds' = ids
      /\ startQueue' = SubSeq(startQueue, n + 1, Len(startQueue))
      /\ startSeq' = startSeq + n
      /\ calls' = calls \cup more \cup [op : {"start"}, id : new]
  BY DEF Pump
<1> HIDE DEF n
<1>3. /\ Len(startQueue) \in Nat /\ n \in Nat /\ startSeq \in Nat /\ MaxStarts \in Nat
  BY <1>1, BoundsAssumption DEF SlotsOK
<1>4. new \subseteq Id
  BY <1>1, <1>3 DEF Id, SlotsOK
<1>5. /\ startQueue' \in Seq(ModelKey)
      /\ Len(startQueue') = Len(startQueue) - n
      /\ \A i \in 1 .. Len(startQueue') : startQueue'[i] = startQueue[i + n]
  <2>1. startQueue \in Seq(ModelKey)  BY DEF SlotsOK
  <2> QED BY <2>1, <1>1, <1>2, <1>3
<1>6. \A i, j \in 1 .. Len(startQueue') : startQueue'[i] = startQueue'[j] => i = j
  <2> SUFFICES ASSUME NEW i \in 1 .. Len(startQueue'), NEW j \in 1 .. Len(startQueue'),
                      startQueue'[i] = startQueue'[j]
               PROVE  i = j
    OBVIOUS
  <2>1. startQueue[i + n] = startQueue[j + n]  BY <1>5
  <2>2. i + n \in 1 .. Len(startQueue) /\ j + n \in 1 .. Len(startQueue)  BY <1>3, <1>5
  <2> QED BY <2>1, <2>2, <1>3 DEF SlotsOK
<1>7. startSeq' \in Nat /\ startSeq' + Len(startQueue') <= MaxStarts
  <2> HIDE DEF new
  <2>1. startSeq' = startSeq + n /\ startSeq' \in Nat  BY <1>2, <1>3
  <2>2. startSeq + Len(startQueue) <= MaxStarts  BY DEF SlotsOK
  <2>3. Len(startQueue') = Len(startQueue) - n  BY <1>5
  <2> QED BY <2>1, <2>2, <2>3, <1>3
<1>8. calls' \subseteq Call
  BY <1>2, <1>4 DEF Call, CallOp
<1> QED BY <1>2, <1>4, <1>5, <1>6, <1>7, <1>8

\* A release leaves the slots and the calls well-formed.
LEMMA ReleaseTypes ==
  ASSUME SlotsOK, calls \subseteq Call, NEW id, NEW more \in SUBSET Call, Release(id, more)
  PROVE  SlotsOK' /\ calls' \subseteq Call
<1>1. CASE id \in activeIds /\ Pump(reserved, activeIds \ {id}, more)
             /\ uncapped' = uncapped \ {id}
  <2>1. reserved \in SUBSET Id /\ activeIds \ {id} \in SUBSET Id  BY DEF SlotsOK
  <2>2. uncapped' \subseteq activeIds \ {id}  BY <1>1 DEF SlotsOK
  <2> DEFINE ids == activeIds \ {id}
  <2>3. Pump(reserved, ids, more) /\ ids \in SUBSET Id /\ uncapped' \subseteq ids
    BY <1>1, <2>1, <2>2
  <2>4. ids \subseteq activeIds  OBVIOUS
  <2> HIDE DEF ids
  <2>5. /\ reserved' \subseteq Id /\ activeIds' = ids
        /\ startQueue' \in Seq(ModelKey)
        /\ \A i, j \in 1 .. Len(startQueue') : startQueue'[i] = startQueue'[j] => i = j
        /\ startSeq' \in Nat /\ startSeq' + Len(startQueue') <= MaxStarts
        /\ calls' \subseteq Call
    BY <2>1, <2>3, PumpTypes
  <2> QED BY <2>3, <2>5 DEF SlotsOK
<1>2. CASE calls' = calls \cup more /\ UNCHANGED slots
  BY <1>2 DEF SlotsOK, slots
<1> QED BY <1>1, <1>2 DEF Release

\* StoreOK is inductive, given the types of what the handlers read.
LEMMA StoreOKInductive ==
  ASSUME TypeOK, [Next]_vars
  PROVE  StoreOK'
<1> USE DEF TypeOK, StoreOK, EntryStatus, RowStatus, Rows, NoRows
<1>1. CASE User
  <2>1. CASE \E k \in ModelKey : Enqueue(k) \/ CancelQueued(k)
    BY <2>1 DEF Enqueue, CancelQueued, store, nativeVars
  <2>2. CASE StartNow \/ StartReconcile \/ StartRestore
    BY <2>2 DEF StartNow, StartReconcile, StartRestore, store, nativeVars
  <2>3. CASE StartSidecar
    BY <2>3, BoundsAssumption DEF StartSidecar, Fresh, SlotsOK, store, nativeVars, Id
  <2>4. CASE \E id \in Id : PauseDownload(id) \/ ResumeDownload(id) \/ RetryDownload(id)
                            \/ CancelDownload(id)
    BY <2>4 DEF PauseDownload, ResumeDownload, RetryDownload, CancelDownload, Control, Ask,
                store, nativeVars
  <2> QED BY <1>1, <2>1, <2>2, <2>3, <2>4 DEF User
<1>2. CASE Cleanup
  BY <1>2 DEF Cleanup, store, nativeVars
<1>3. ASSUME NEW id \in Id, Native(id)
      PROVE  StoreOK'
  <2>1. CASE NativeInsert(id) \/ NativeEnqueue(id) \/ NativeStartFails(id)
    BY <2>1 DEF NativeInsert, NativeEnqueue, NativeStartFails, SetRow, serviceVars, store, nativeVars
  <2>2. CASE NativePause(id) \/ NativeResume(id)
    BY <2>2 DEF NativePause, NativeResume, SetRow, serviceVars, store, nativeVars
  <2>3. CASE NativeRetry(id) \/ NativeRetryFails(id)
    BY <2>3 DEF NativeRetry, NativeRetryFails, SetRow, serviceVars, store, nativeVars
  <2>4. CASE NativeCancel(id) \/ NativeMove(id)
    BY <2>4 DEF NativeCancel, NativeMove, SetRow, serviceVars, store, nativeVars
  <2> QED BY <1>3, <2>1, <2>2, <2>3, <2>4 DEF Native
<1>4. ASSUME NEW id \in Id, Transfer(id) \/ EchoError(id)
      PROVE  StoreOK'
  BY <1>4 DEF Transfer, TransferComplete, TransferFail, EchoError, SetRow, serviceVars, store
<1>5. CASE Reads
  BY <1>5 DEF Reads, ReadRows, PostRows, NativeObserve, PollVars, InFlight, store, nativeVars
<1>6. CASE AdoptActive
  BY <1>6 DEF AdoptActive, store, nativeVars
<1>7. CASE Kill
  <2>1. used' \in [controls : Nat, retries : Nat, reconciles : Nat, restores : Nat,
                   kills : Nat, cleanups : Nat]
    <3>1. used.kills + 1 \in Nat  OBVIOUS
    <3>2. used' = [used EXCEPT !.kills = used.kills + 1]  BY <1>7 DEF Kill
    <3> QED BY <3>1, <3>2
  <2>2. entry' \in [Id -> EntryStatus]
    <3>1. entry' = [i \in Id |-> "none"]  BY <1>7 DEF Kill
    <3> QED BY <3>1
  <2>3. /\ shutDown' = FALSE /\ watched' = {} /\ echo' = {} /\ observed' = {}
        /\ row' = row /\ sidecar' = sidecar
    BY <1>7 DEF Kill
  <2> QED BY <2>1, <2>2, <2>3
<1>8. ASSUME NEW id \in Id,
             \/ OnStarted(id) \/ OnStartFailed(id) \/ OnComplete(id) \/ OnError(id)
             \/ OnPaused(id) \/ OnPauseFailed(id) \/ OnResumed(id) \/ OnResumeFailed(id)
             \/ OnRetried(id) \/ OnRetryFailed(id)
             \/ OnCancelled(id) \/ OnPurged(id) \/ OnMoveFailed(id)
      PROVE  StoreOK'
  <2> USE DEF otherVars, store, nativeVars
  <2>1. ASSUME NEW s \in EntryStatus, SetStatus(id, s)
        PROVE  entry' \in [Id -> EntryStatus]
    BY <2>1 DEF SetStatus
  <2>2. CASE OnStarted(id)  BY <2>2 DEF OnStarted
  <2>3. CASE OnStartFailed(id)  BY <2>3 DEF OnStartFailed
  <2>4. CASE OnComplete(id)  BY <2>1, <2>4 DEF OnComplete
  <2>5. CASE OnError(id)  BY <2>1, <2>5 DEF OnError
  <2>6. CASE OnPaused(id) \/ OnPauseFailed(id)  BY <2>1, <2>6 DEF OnPaused, OnPauseFailed
  <2>7. CASE OnResumed(id) \/ OnResumeFailed(id)  BY <2>1, <2>7 DEF OnResumed, OnResumeFailed
  <2>8. CASE OnRetried(id) \/ OnRetryFailed(id)  BY <2>1, <2>8 DEF OnRetried, OnRetryFailed
  <2>9. CASE OnCancelled(id) \/ OnPurged(id) \/ OnMoveFailed(id)
    BY <2>1, <2>9 DEF OnCancelled, OnPurged, OnMoveFailed
  <2> QED BY <1>8, <2>2, <2>3, <2>4, <2>5, <2>6, <2>7, <2>8, <2>9
<1>9. CASE OnReconcile
  BY <1>9 DEF OnReconcile, store, nativeVars
<1>10. CASE OnRestore
  <2> DEFINE seen == Head(inbox).seen
             found == Restorable(seen) \ (sidecar \cup watched)
             done == {i \in found : seen[i] = "completed"}
  <2>1. found \subseteq Id  BY DEF Restorable
  <2>2. /\ entry' = [i \in Id |-> Hydrated(entry[i], seen[i])]
        /\ watched' = watched \cup (found \ done)
        /\ UNCHANGED <<shutDown, sidecar, row, echo, observed, used>>
    BY <1>10 DEF OnRestore, nativeVars
  <2>3. \A shown \in EntryStatus : \A st : Hydrated(shown, st) \in EntryStatus
    BY DEF Hydrated, EntryStatus
  <2> HIDE DEF found, done, seen
  <2> QED BY <2>1, <2>2, <2>3
<1>11. CASE UNCHANGED vars
  BY <1>11 DEF vars, store, nativeVars
<1> QED BY <1>1, <1>2, <1>3, <1>4, <1>5, <1>6, <1>7, <1>8, <1>9, <1>10, <1>11
        DEF Next, JavaScript

\* Calls, messages and reads stay well-formed.
LEMMA BridgeOKInductive ==
  ASSUME TypeOK, [Next]_vars
  PROVE  BridgeOK'
<1> USE DEF TypeOK, BridgeOK
<1>0. /\ \A id \in Id, what \in Outcome : [what |-> what, id |-> id] \in Message
      /\ \A id \in Id, op \in CallOp : [op |-> op, id |-> id] \in Call
      /\ \A r \in Reader, seen \in Rows : [what |-> r, seen |-> seen] \in Message
      /\ NoRows \in Rows
  BY DEF Message, Call, Rows, NoRows, RowStatus
<1>a. ASSUME inbox # <<>>, inbox' = Tail(inbox)
      PROVE  inbox' \in Seq(Message)
  BY <1>a
<1>b. ASSUME NEW id \in Id, NEW what \in Outcome, Post(what, id)
      PROVE  inbox' \in Seq(Message)
  BY <1>b, <1>0 DEF Post
<1>c. ASSUME NEW id \in Id, NEW op \in CallOp, Serve(op, id) \/ ServeControl(op, id)
      PROVE  calls' \subseteq Call
  BY <1>c DEF Serve, ServeControl
<1>d. CallOp = {"start", "enqueue", "pause", "resume", "retry", "cancel", "move", "purge", "discard"}
  BY DEF CallOp
<1>e. Outcome = {"started", "startFailed", "paused", "pauseFailed", "resumed", "resumeFailed",
                 "retried", "retryFailed", "cancelled", "moveFailed", "purged", "complete", "error"}
  BY DEF Outcome
<1>1. CASE User
  <2>1. CASE \E k \in ModelKey : Enqueue(k) \/ CancelQueued(k)
    BY <2>1 DEF Enqueue, CancelQueued
  <2>2. CASE StartNow \/ StartSidecar
    <3>1. startSeq + 1 \in Id
      BY <2>2, BoundsAssumption DEF StartNow, StartSidecar, Fresh, SlotsOK, Id
    <3> QED BY <2>2, <3>1, <1>0, <1>d DEF StartNow, StartSidecar
  <2>3. CASE StartReconcile \/ StartRestore
    <3>1. UNCHANGED <<calls, inbox>>  BY <2>3 DEF StartReconcile, StartRestore
    <3>2. PICK r \in Reader : poll' = [poll EXCEPT ![r].stage = "asked"]
      BY <2>3 DEF StartReconcile, StartRestore, Reader
    <3>3. [poll[r] EXCEPT !.stage = "asked"] \in PollState
      BY DEF PollState, Stage
    <3>4. poll' = [poll EXCEPT ![r] = [poll[r] EXCEPT !.stage = "asked"]]
      BY <3>2
    <3> QED BY <3>1, <3>3, <3>4
  <2>4. ASSUME NEW id \in Id,
               PauseDownload(id) \/ ResumeDownload(id) \/ RetryDownload(id) \/ CancelDownload(id)
        PROVE  BridgeOK'
    <3>1. PICK op \in CallOp : calls' = calls \cup {[op |-> op, id |-> id]}
      BY <2>4, <1>d DEF PauseDownload, ResumeDownload, RetryDownload, CancelDownload, Control, Ask
    <3>2. UNCHANGED <<inbox, poll>>
      BY <2>4 DEF PauseDownload, ResumeDownload, RetryDownload, CancelDownload
    <3> QED BY <3>1, <3>2, <1>0
  <2> QED BY <1>1, <2>1, <2>2, <2>3, <2>4 DEF User
<1>2. CASE Cleanup
  BY <1>2 DEF Cleanup
<1>3. ASSUME NEW id \in Id, Native(id)
      PROVE  BridgeOK'
  <2>1. poll' = poll
    BY <1>3 DEF Native, NativeInsert, NativeEnqueue, NativeStartFails, NativePause, NativeResume,
            NativeRetry, NativeRetryFails, NativeCancel, NativeMove, serviceVars
  <2>2. CASE NativeInsert(id)
    BY <2>1, <2>2, <1>0, <1>d DEF NativeInsert
  <2>3. CASE ~ NativeInsert(id)
    <3>1. \E op \in CallOp : Serve(op, id) \/ ServeControl(op, id)
      BY <1>3, <2>3, <1>d DEF Native, NativeEnqueue, NativeStartFails, NativePause, NativeResume,
            NativeRetry, NativeRetryFails, NativeCancel, NativeMove
    <3>2. (\E what \in Outcome : Post(what, id)) \/ inbox' = inbox
      BY <1>3, <2>3, <1>e DEF Native, NativeEnqueue, NativeStartFails, NativePause, NativeResume,
            NativeRetry, NativeRetryFails, NativeCancel, NativeMove
    <3> QED BY <2>1, <3>1, <3>2, <1>b, <1>c
  <2> QED BY <2>2, <2>3
<1>4. ASSUME NEW id \in Id, Transfer(id) \/ EchoError(id)
      PROVE  BridgeOK'
  <2>1. (\E what \in Outcome : Post(what, id)) \/ inbox' = inbox
    BY <1>4, <1>e DEF Transfer, TransferComplete, TransferFail, EchoError
  <2>2. UNCHANGED <<calls, poll>>
    BY <1>4 DEF Transfer, TransferComplete, TransferFail, EchoError, serviceVars
  <2> QED BY <2>1, <2>2, <1>b
<1>5. CASE Reads
  <2>1. ASSUME NEW r \in Reader, ReadRows(r)
        PROVE  BridgeOK'
    <3>1. [stage |-> "read", seen |-> row] \in PollState
      BY DEF PollState, Stage, StoreOK
    <3> QED BY <2>1, <3>1 DEF ReadRows, PollVars
  <2>2. ASSUME NEW r \in Reader, PostRows(r)
        PROVE  BridgeOK'
    <3>1. [Idle EXCEPT !.stage = "posted"] \in PollState
      BY <1>0 DEF PollState, Stage, Idle
    <3>2. poll[r].seen \in Rows  BY DEF PollState
    <3>3. inbox' \in Seq(Message)  BY <2>2, <3>2, <1>0 DEF PostRows
    <3> QED BY <2>2, <3>1, <3>3 DEF PostRows, PollVars
  <2>3. CASE NativeObserve
    <3>1. Idle \in PollState /\ "restore" \in Reader
      BY <1>0 DEF PollState, Stage, Idle, Reader
    <3> QED BY <2>3, <3>1 DEF NativeObserve
  <2> QED BY <1>5, <2>1, <2>2, <2>3 DEF Reads
<1>6. CASE AdoptActive
  <2>1. [Idle EXCEPT !.stage = "adopted"] \in PollState /\ "restore" \in Reader
    BY <1>0 DEF PollState, Stage, Idle, Reader
  <2> QED BY <1>6, <2>1 DEF AdoptActive
<1>7. CASE Kill
  <2>1. Idle \in PollState /\ [Idle EXCEPT !.stage = "asked"] \in PollState
    BY <1>0 DEF PollState, Stage, Idle
  <2>2. calls' = {} /\ inbox' = <<>>  BY <1>7 DEF Kill
  <2>3. poll' \in [Reader -> PollState]
    BY <1>7, <2>1 DEF Kill, Reader
  <2> QED BY <2>2, <2>3
<1>8. ASSUME NEW id \in Id,
             \/ OnStarted(id) \/ OnStartFailed(id) \/ OnComplete(id) \/ OnError(id)
             \/ OnPaused(id) \/ OnPauseFailed(id) \/ OnResumed(id) \/ OnResumeFailed(id)
             \/ OnRetried(id) \/ OnRetryFailed(id)
             \/ OnCancelled(id) \/ OnPurged(id) \/ OnMoveFailed(id)
      PROVE  BridgeOK'
  <2>1. inbox # <<>> /\ inbox' = Tail(inbox)
    BY <1>8 DEF OnStarted, OnStartFailed, OnComplete, OnError, OnPaused, OnPauseFailed,
            OnResumed, OnResumeFailed, OnRetried, OnRetryFailed, OnCancelled, OnPurged,
            OnMoveFailed, Take
  <2>2. poll' = poll
    BY <1>8 DEF OnStarted, OnStartFailed, OnComplete, OnError, OnPaused, OnPauseFailed,
            OnResumed, OnResumeFailed, OnRetried, OnRetryFailed, OnCancelled, OnPurged,
            OnMoveFailed, otherVars
  <2>3. calls' \subseteq Call
    <3>1. CASE OnStarted(id) \/ OnMoveFailed(id)
      <4>1. [op |-> "discard", id |-> id] \in Call /\ [op |-> "purge", id |-> id] \in Call
        BY <1>0, <1>d
      <4>2. \/ calls' = calls
            \/ calls' = calls \cup {[op |-> "discard", id |-> id]}
            \/ calls' = calls \cup {[op |-> "purge", id |-> id]}
        BY <3>1 DEF OnStarted, OnMoveFailed
      <4> QED BY <4>1, <4>2
    <3>2. CASE OnPauseFailed(id) \/ OnResumed(id) \/ OnRetried(id) \/ OnRetryFailed(id)
      BY <3>2 DEF OnPauseFailed, OnResumed, OnRetried, OnRetryFailed
    <3>3. CASE OnStartFailed(id)
      <4>1. reserved \ {id} \in SUBSET Id /\ activeIds \in SUBSET Id /\ {} \in SUBSET Call
        BY DEF SlotsOK
      <4> QED BY <3>3, <4>1, PumpTypes DEF OnStartFailed
    <3>4. CASE OnComplete(id)
      <4>1. {[op |-> "move", id |-> id]} \in SUBSET Call /\ {} \in SUBSET Call
        BY <1>0, <1>d
      <4> QED BY <3>4, <4>1, ReleaseTypes DEF OnComplete
    <3>5. CASE OnError(id) \/ OnPaused(id) \/ OnResumeFailed(id) \/ OnCancelled(id) \/ OnPurged(id)
      <4>1. Release(id, {}) \/ UNCHANGED calls
        BY <3>5 DEF OnError, OnPaused, OnResumeFailed, OnCancelled, OnPurged
      <4> QED BY <4>1, ReleaseTypes
    <3> QED BY <1>8, <3>1, <3>2, <3>3, <3>4, <3>5
  <2> QED BY <2>1, <2>2, <2>3, <1>a
<1>9. CASE OnReconcile
  <2> DEFINE kept == activeIds \cap Known(Head(inbox).seen)
  <2>1. inbox' \in Seq(Message)  BY <1>9, <1>a DEF OnReconcile, TakeRows
  <2>2. poll' \in [Reader -> PollState]
    <3>1. Idle \in PollState /\ "reconcile" \in Reader
      BY <1>0 DEF PollState, Stage, Idle, Reader
    <3> QED BY <1>9, <3>1 DEF OnReconcile
  <2>3. calls' \subseteq Call
    <3>1. Pump(reserved, kept, {}) \/ UNCHANGED calls  BY <1>9 DEF OnReconcile
    <3>2. reserved \in SUBSET Id /\ kept \in SUBSET Id /\ {} \in SUBSET Call  BY DEF SlotsOK
    <3> HIDE DEF kept
    <3> QED BY <3>1, <3>2, PumpTypes
  <2> QED BY <2>1, <2>2, <2>3
<1>10. CASE OnRestore
  <2> DEFINE seen == Head(inbox).seen
             found == Restorable(seen) \ (sidecar \cup watched)
             done == {i \in found : seen[i] = "completed"}
             rest == [i \in Id |-> IF i \in found THEN seen[i] ELSE "none"]
  <2>1. inbox # <<>> /\ Head(inbox).what = "restore" /\ inbox' = Tail(inbox)
    BY <1>10 DEF OnRestore, TakeRows
  <2>2. seen \in Rows
    <3>1. Head(inbox) \in Message  BY <2>1
    <3>2. "restore" \notin Outcome  BY DEF Outcome
    <3> QED BY <3>1, <3>2, <2>1 DEF Message
  <2>3. found \subseteq Id /\ done \subseteq Id  BY DEF Restorable
  <2>4. /\ calls' = calls \cup [op : {"move"}, id : done]
        /\ poll' = [poll EXCEPT !["restore"] = [stage |-> "scanned", seen |-> rest]]
    BY <1>10 DEF OnRestore
  <2>5. rest \in Rows  BY <2>2 DEF Rows, RowStatus
  <2> HIDE DEF seen, found, done, rest
  <2>6. calls' \subseteq Call  BY <2>3, <2>4 DEF Call, CallOp
  <2>7. [stage |-> "scanned", seen |-> rest] \in PollState  BY <2>5 DEF PollState, Stage
  <2> QED BY <2>1, <2>4, <2>6, <2>7, <1>a DEF Reader
<1>11. CASE UNCHANGED vars
  BY <1>11 DEF vars
<1> QED BY <1>1, <1>2, <1>3, <1>4, <1>5, <1>6, <1>7, <1>8, <1>9, <1>10, <1>11
        DEF Next, JavaScript

\* Taking element `i' out of a sequence moves the later ones down by one.
LEMMA WithoutProperties ==
  ASSUME NEW S, NEW s \in Seq(S), NEW i \in 1 .. Len(s)
  PROVE  LET r == SubSeq(s, 1, i - 1) \o SubSeq(s, i + 1, Len(s)) IN
         /\ r \in Seq(S) /\ Len(r) = Len(s) - 1
         /\ \A m \in 1 .. Len(s) - 1 : r[m] = s[IF m < i THEN m ELSE m + 1]
<1> DEFINE n == Len(s)
           before == SubSeq(s, 1, i - 1)
           after  == SubSeq(s, i + 1, n)
           r == before \o after
<1>1. n \in Nat /\ i \in 1 .. n /\ \A m \in 1 .. n : s[m] \in S  OBVIOUS
<1>2. /\ before \in Seq(S) /\ Len(before) = i - 1
      /\ \A m \in 1 .. i - 1 : before[m] = s[m]
  BY <1>1
<1>3. /\ after \in Seq(S)
      /\ Len(after) = IF i + 1 <= n THEN n - (i + 1) + 1 ELSE 0
      /\ \A m \in 1 .. n - (i + 1) + 1 : after[m] = s[(i + 1) + m - 1]
  <2>1. i + 1 \in Int /\ n \in Int /\ \A m \in i + 1 .. n : s[m] \in S  BY <1>1
  <2> HIDE DEF n
  <2> QED BY <2>1, SubSeqProperties
<1> HIDE DEF before, after, n
<1>4. Len(after) = n - i /\ \A m \in 1 .. n - i : after[m] = s[m + i]
  <2>1. (i + 1 <= n \/ n = i) /\ i \in Nat  BY <1>1
  <2>2. Len(after) = n - i  BY <1>1, <1>3, <2>1
  <2>3. ASSUME NEW m \in 1 .. n - i
        PROVE  after[m] = s[m + i]
    <3>1. m \in 1 .. n - (i + 1) + 1 /\ (i + 1) + m - 1 = m + i  BY <1>1, <2>1
    <3>2. after[m] = s[(i + 1) + m - 1]  BY <1>3, <3>1
    <3> QED BY <3>1, <3>2
  <2> QED BY <2>2, <2>3
<1>5. /\ r \in Seq(S) /\ Len(r) = n - 1
      /\ \A m \in 1 .. n - 1 : r[m] = IF m <= i - 1 THEN before[m] ELSE after[m - (i - 1)]
  <2>1. /\ r \in Seq(S) /\ Len(r) = Len(before) + Len(after)
        /\ \A m \in 1 .. Len(before) + Len(after) :
             r[m] = IF m <= Len(before) THEN before[m] ELSE after[m - Len(before)]
    BY <1>2, <1>3, ConcatProperties
  <2> HIDE DEF r
  <2>2. Len(before) + Len(after) = n - 1  BY <1>1, <1>2, <1>4
  <2> QED BY <1>2, <2>1, <2>2
<1> HIDE DEF r
<1>6. ASSUME NEW m \in 1 .. n - 1
      PROVE  r[m] = s[IF m < i THEN m ELSE m + 1]
  <2>1. CASE m < i
    BY <1>1, <1>2, <1>5, <2>1
  <2>2. CASE ~ (m < i)
    <3>1. m - (i - 1) \in 1 .. n - i /\ (m - (i - 1)) + i = m + 1
      BY <1>1, <2>2
    <3>2. r[m] = after[m - (i - 1)]  BY <1>1, <1>5, <2>2
    <3> QED BY <1>4, <2>2, <3>1, <3>2
  <2> QED BY <2>1, <2>2
<1> QED BY <1>5, <1>6 DEF r, before, after, n

\* SlotsOK is inductive: a key is queued only if it is not queued yet, and a start
\* gets a number that is left.
LEMMA SlotsOKInductive ==
  ASSUME TypeOK, [Next]_vars
  PROVE  SlotsOK'
<1> USE DEF TypeOK
<1>0. MaxStarts \in Nat /\ MaxConcurrent \in Nat  BY BoundsAssumption
<1>a. ASSUME UNCHANGED slots
      PROVE  SlotsOK'
  BY <1>a DEF SlotsOK, slots
<1>1. CASE User
  <2>1. ASSUME NEW k \in ModelKey, Enqueue(k)
        PROVE  SlotsOK'
    <3>1. /\ startSeq + Len(startQueue) < MaxStarts /\ ~ Queued(k)
          /\ startQueue' = Append(startQueue, k)
          /\ UNCHANGED <<reserved, activeIds, startSeq, uncapped>>
      BY <2>1 DEF Enqueue, Fresh
    <3>2. startQueue' \in Seq(ModelKey) /\ Len(startQueue') = Len(startQueue) + 1
      BY <3>1 DEF SlotsOK
    <3>3. \A i, j \in 1 .. Len(startQueue') : startQueue'[i] = startQueue'[j] => i = j
      BY <3>1, <3>2 DEF SlotsOK, Queued
    <3>4. startSeq' + Len(startQueue') <= MaxStarts
      BY <1>0, <3>1, <3>2 DEF SlotsOK
    <3> QED BY <3>1, <3>2, <3>3, <3>4 DEF SlotsOK
  <2>2. ASSUME NEW k \in ModelKey, CancelQueued(k)
        PROVE  SlotsOK'
    <3>1. PICK i \in 1 .. Len(startQueue) :
            startQueue' = SubSeq(startQueue, 1, i - 1)
                            \o SubSeq(startQueue, i + 1, Len(startQueue))
      BY <2>2 DEF CancelQueued
    <3> DEFINE n == Len(startQueue)
               at(m) == IF m < i THEN m ELSE m + 1
    <3>2. startQueue \in Seq(ModelKey) /\ n \in Nat /\ i \in 1 .. n  BY DEF SlotsOK
    <3>3. /\ startQueue' \in Seq(ModelKey) /\ Len(startQueue') = n - 1
          /\ \A m \in 1 .. n - 1 : startQueue'[m] = startQueue[at(m)]
      BY <3>1, <3>2, WithoutProperties
    <3>4. \A l, m \in 1 .. n - 1 : startQueue'[l] = startQueue'[m] => l = m
      <4> SUFFICES ASSUME NEW l \in 1 .. n - 1, NEW m \in 1 .. n - 1,
                          startQueue'[l] = startQueue'[m]
                   PROVE  l = m
        OBVIOUS
      <4>1. at(l) \in 1 .. n /\ at(m) \in 1 .. n  BY <3>2
      <4>2. startQueue[at(l)] = startQueue[at(m)]  BY <3>3
      <4>3. at(l) = at(m)  BY <4>1, <4>2 DEF SlotsOK
      <4> QED BY <3>2, <4>3
    <3>5. UNCHANGED <<reserved, activeIds, startSeq, uncapped>>
      BY <2>2 DEF CancelQueued
    <3>6. startSeq + Len(startQueue') <= MaxStarts
      BY <1>0, <3>2, <3>3 DEF SlotsOK
    <3> QED BY <3>3, <3>4, <3>5, <3>6 DEF SlotsOK
  <2>3. CASE StartNow
    <3>1. startSeq + Len(startQueue) < MaxStarts /\ startSeq' = startSeq + 1
      BY <2>3 DEF StartNow, Fresh
    <3>2. startSeq' \in Id /\ startSeq' + Len(startQueue) <= MaxStarts
      BY <1>0, <3>1 DEF SlotsOK, Id
    <3> QED BY <2>3, <3>1, <3>2 DEF StartNow, SlotsOK
  <2>4. CASE StartSidecar
    <3>1. startSeq + Len(startQueue) < MaxStarts /\ startSeq' = startSeq + 1
      BY <2>4 DEF StartSidecar, Fresh
    <3>2. startSeq' \in Nat /\ startSeq' + Len(startQueue) <= MaxStarts
      BY <1>0, <3>1 DEF SlotsOK
    <3> QED BY <2>4, <3>1, <3>2 DEF StartSidecar, SlotsOK
  <2>5. ASSUME NEW id \in Id, ResumeDownload(id)
        PROVE  SlotsOK'
    BY <2>5 DEF ResumeDownload, SlotsOK
  <2>6. CASE \E id \in Id : PauseDownload(id) \/ RetryDownload(id) \/ CancelDownload(id)
    BY <2>6, <1>a DEF PauseDownload, RetryDownload, CancelDownload
  <2>7. CASE StartReconcile \/ StartRestore
    BY <2>7, <1>a DEF StartReconcile, StartRestore
  <2> QED BY <1>1, <2>1, <2>2, <2>3, <2>4, <2>5, <2>6, <2>7 DEF User
<1>2. CASE Cleanup
  <2>1. /\ reserved' = {} /\ activeIds' = {} /\ startQueue' = <<>> /\ uncapped' = {}
        /\ startSeq' = startSeq
    BY <1>2 DEF Cleanup
  <2>2. startQueue' \in Seq(ModelKey) /\ Len(startQueue') = 0  BY <2>1
  <2> QED BY <1>0, <2>1, <2>2 DEF SlotsOK
<1>3. CASE \E id \in Id : Native(id) \/ Transfer(id) \/ EchoError(id)
  BY <1>3, <1>a DEF Native, NativeInsert, NativeEnqueue, NativeStartFails, NativePause,
       NativeResume, NativeRetry, NativeRetryFails, NativeCancel, NativeMove, Transfer,
       TransferComplete, TransferFail, EchoError, serviceVars
<1>5. CASE Reads
  BY <1>5, <1>a DEF Reads, ReadRows, PostRows, NativeObserve, PollVars
<1>6. CASE AdoptActive
  <2>1. InFlight(poll["restore"].seen) \subseteq Id  BY DEF InFlight
  <2> QED BY <1>6, <2>1 DEF AdoptActive, SlotsOK
<1>7. CASE Kill
  <2>1. /\ reserved' = {} /\ activeIds' = {} /\ startQueue' = <<>> /\ uncapped' = {}
        /\ startSeq' = startSeq
    BY <1>7 DEF Kill
  <2>2. startQueue' \in Seq(ModelKey) /\ Len(startQueue') = 0  BY <2>1
  <2> QED BY <1>0, <2>1, <2>2 DEF SlotsOK
<1>8. ASSUME NEW id \in Id,
             \/ OnStarted(id) \/ OnStartFailed(id) \/ OnComplete(id) \/ OnError(id)
             \/ OnPaused(id) \/ OnPauseFailed(id) \/ OnResumed(id) \/ OnResumeFailed(id)
             \/ OnRetried(id) \/ OnRetryFailed(id)
             \/ OnCancelled(id) \/ OnPurged(id) \/ OnMoveFailed(id)
      PROVE  SlotsOK'
  <2>0. calls \subseteq Call  BY DEF BridgeOK
  <2>1. CASE OnStarted(id)
    <3>1. /\ reserved' \subseteq reserved /\ activeIds \subseteq activeIds'
          /\ activeIds' \subseteq activeIds \cup {id}
          /\ UNCHANGED <<startQueue, startSeq, uncapped>>
      BY <2>1 DEF OnStarted
    <3> QED BY <3>1 DEF SlotsOK
  <2>2. CASE OnStartFailed(id)
    <3>1. uncapped' = uncapped  BY <2>2 DEF OnStartFailed
    <3>2. CASE Pump(reserved \ {id}, activeIds, {})
      <4>1. reserved \ {id} \in SUBSET Id /\ activeIds \in SUBSET Id /\ {} \in SUBSET Call
        BY DEF SlotsOK
      <4> DEFINE tokens == reserved \ {id}
      <4>2. Pump(tokens, activeIds, {}) /\ tokens \in SUBSET Id  BY <3>2, <4>1
      <4> HIDE DEF tokens
      <4>3. /\ reserved' \subseteq Id /\ activeIds' = activeIds
            /\ startQueue' \in Seq(ModelKey)
            /\ \A i, j \in 1 .. Len(startQueue') : startQueue'[i] = startQueue'[j] => i = j
            /\ startSeq' \in Nat /\ startSeq' + Len(startQueue') <= MaxStarts
        BY <2>0, <4>1, <4>2, PumpTypes
      <4> QED BY <3>1, <4>3 DEF SlotsOK
    <3>3. CASE UNCHANGED <<reserved, activeIds, startQueue, startSeq, calls>>
      BY <3>1, <3>3 DEF SlotsOK
    <3> QED BY <2>2, <3>2, <3>3 DEF OnStartFailed
  <2>3. CASE OnComplete(id)
    <3>1. {[op |-> "move", id |-> id]} \in SUBSET Call /\ {} \in SUBSET Call
      BY DEF Call, CallOp
    <3> QED BY <2>0, <2>3, <3>1, <1>a, ReleaseTypes DEF OnComplete
  <2>4. CASE OnError(id) \/ OnPaused(id) \/ OnResumeFailed(id) \/ OnCancelled(id) \/ OnPurged(id)
    <3>1. Release(id, {}) \/ UNCHANGED slots
      BY <2>4 DEF OnError, OnPaused, OnResumeFailed, OnCancelled, OnPurged
    <3> QED BY <2>0, <3>1, <1>a, ReleaseTypes
  <2>5. CASE OnRetried(id)
    BY <2>5 DEF OnRetried, SlotsOK
  <2>6. CASE OnPauseFailed(id) \/ OnResumed(id) \/ OnRetryFailed(id) \/ OnMoveFailed(id)
    BY <2>6, <1>a DEF OnPauseFailed, OnResumed, OnRetryFailed, OnMoveFailed
  <2> QED BY <1>8, <2>1, <2>2, <2>3, <2>4, <2>5, <2>6
<1>9. CASE OnReconcile
  <2> DEFINE kept == activeIds \cap Known(Head(inbox).seen)
  <2>1. CASE Pump(reserved, kept, {}) /\ uncapped' = uncapped \cap kept
    <3>1. reserved \in SUBSET Id /\ kept \in SUBSET Id /\ {} \in SUBSET Call  BY DEF SlotsOK
    <3>2. uncapped' \subseteq kept /\ calls \subseteq Call  BY <2>1 DEF BridgeOK
    <3> HIDE DEF kept
    <3>3. /\ reserved' \subseteq Id /\ activeIds' = kept
          /\ startQueue' \in Seq(ModelKey)
          /\ \A i, j \in 1 .. Len(startQueue') : startQueue'[i] = startQueue'[j] => i = j
          /\ startSeq' \in Nat /\ startSeq' + Len(startQueue') <= MaxStarts
      BY <2>1, <3>1, <3>2, PumpTypes
    <3> QED BY <3>1, <3>2, <3>3 DEF SlotsOK
  <2> QED BY <1>9, <2>1, <1>a DEF OnReconcile
<1>10. CASE OnRestore
  BY <1>10, <1>a DEF OnRestore
<1>11. CASE UNCHANGED vars
  BY <1>11, <1>a DEF vars
<1> QED BY <1>1, <1>2, <1>3, <1>5, <1>6, <1>7, <1>8, <1>9, <1>10, <1>11
        DEF Next, JavaScript

\* Nothing holds a slot when the app is installed.
LEMMA RepeatsOKInductive ==
  ASSUME TypeOK, [Next]_vars
  PROVE  RepeatsOK'
<1> USE DEF TypeOK, RepeatsOK
<1>1. ASSUME NEW op \in {"pause", "resume", "retry", "cancel"}, NEW id \in Id, NEW shown,
             NEW answers, Ask(op, id, shown, answers)
      PROVE  RepeatsOK'
  <2>1. [op |-> op, id |-> id] \in Repeatable  BY DEF Repeatable
  <2>2. /\ again' \subseteq again \cup {[op |-> op, id |-> id]}
        /\ doubled' \subseteq doubled \cup {id}
    BY <1>1 DEF Ask
  <2> QED BY <2>1, <2>2
<1>2. CASE User
  <2>1. CASE \E id \in Id : PauseDownload(id) \/ ResumeDownload(id) \/ RetryDownload(id)
                           \/ CancelDownload(id)
    BY <1>1, <2>1 DEF PauseDownload, ResumeDownload, RetryDownload, CancelDownload, Control
  <2>2. CASE \/ StartNow \/ StartSidecar \/ StartReconcile \/ StartRestore
             \/ \E k \in ModelKey : Enqueue(k) \/ CancelQueued(k)
    BY <2>2 DEF StartNow, StartSidecar, StartReconcile, StartRestore, Enqueue, CancelQueued,
       repeats
  <2> QED BY <1>2, <2>1, <2>2 DEF User
<1>3. CASE Cleanup \/ Kill \/ Reads \/ AdoptActive \/ UNCHANGED vars
  BY <1>3 DEF Cleanup, Kill, Reads, ReadRows, PostRows, NativeObserve, AdoptActive, PollVars,
     repeats, vars
<1>4. ASSUME NEW id \in Id, Native(id) \/ Transfer(id) \/ EchoError(id)
      PROVE  RepeatsOK'
  <2>1. again' \subseteq again /\ doubled' = doubled
    <3>1. doubled' = doubled
      BY <1>4 DEF Native, NativeInsert, NativeEnqueue, NativeStartFails, NativePause,
         NativeResume, NativeRetry, NativeRetryFails, NativeCancel, NativeMove, Transfer,
         TransferComplete, TransferFail, EchoError, serviceVars
    <3>2. again' = again \/ \E op \in CallOp : ServeControl(op, id)
      BY <1>4 DEF Native, NativeInsert, NativeEnqueue, NativeStartFails, NativePause,
         NativeResume, NativeRetry, NativeRetryFails, NativeCancel, NativeMove, Transfer,
         TransferComplete, TransferFail, EchoError, Serve, CallOp
    <3> QED BY <3>1, <3>2 DEF ServeControl
  <2> QED BY <2>1
<1>5. CASE JavaScript
  <2>1. UNCHANGED repeats
    BY <1>5 DEF JavaScript, OnStarted, OnStartFailed, OnComplete, OnError, OnPaused,
       OnPauseFailed, OnResumed, OnResumeFailed, OnRetried, OnRetryFailed, OnCancelled,
       OnPurged, OnMoveFailed, OnReconcile, OnRestore, otherVars
  <2> QED BY <2>1 DEF repeats
<1> QED BY <1>2, <1>3, <1>4, <1>5 DEF Next

LEMMA InitTypes == Init => TypeOK
<1> SUFFICES ASSUME Init PROVE TypeOK
  OBVIOUS
<1>1. SlotsOK
  BY BoundsAssumption DEF Init, SlotsOK
<1>2. StoreOK
  BY DEF Init, StoreOK, EntryStatus, RowStatus, Rows, NoRows
<1>3. BridgeOK
  BY DEF Init, BridgeOK, Idle, PollState, Stage, NoRows, Rows, RowStatus
<1> QED BY <1>1, <1>2, <1>3 DEF TypeOK, Init, RepeatsOK

LEMMA TypesInductive == TypeOK /\ [Next]_vars => TypeOK'
BY SlotsOKInductive, StoreOKInductive, BridgeOKInductive, RepeatsOKInductive DEF TypeOK

\* In every reachable state each variable is in its range, slots belong to starts
\* that were made, and no key waits twice: a double tap is coalesced.
THEOREM TypeCorrect == Spec => []TypeOK
BY InitTypes, TypesInductive, PTL DEF Spec

-----------------------------------------------------------------------------
(***************************************************************************)
(* The cap on concurrent downloads, for every value of the constants: the  *)
(* slots that were taken by comparing with MaxConcurrent never exceed it.  *)
(*                                                                         *)
(* CapOnAdmission alone is not inductive: when a native start resolves, the *)
(* id is added to activeIds without a comparison, which is safe only       *)
(* because a token leaves `reserved' in the same step.  StartsInv says that *)
(* the token is there, and that no second answer will look for it.         *)
(***************************************************************************)

StartCalls   == {"start", "enqueue"}
StartAnswers == {"started", "startFailed"}

\* The native start of `id' has not been answered, or its answer not been handled.
Starting(id) == CallFor(StartCalls, id) \/ InInbox(StartAnswers, id)

\* A start is made once, is answered once, and holds a token until then.
StartsInv ==
  /\ \A id \in Id : ~ (/\ [op |-> "start", id |-> id] \in calls
                       /\ [op |-> "enqueue", id |-> id] \in calls)
  /\ \A id \in Id : ~ (CallFor(StartCalls, id) /\ InInbox(StartAnswers, id))
  /\ \A i, j \in 1 .. Len(inbox) :
       /\ inbox[i].what \in StartAnswers /\ inbox[j].what \in StartAnswers
       /\ inbox[i].id = inbox[j].id
       => i = j
  /\ \A id \in Id : Starting(id) => id <= startSeq
  /\ ~ shutDown => \A id \in Mains : Starting(id) => id \in reserved

\* The inductive invariant.
CapInv == TypeOK /\ StartsInv /\ CapOnAdmission

-----------------------------------------------------------------------------
(* Starts *)

\* A step of the JavaScript thread, of a user, or of the native layer that leaves
\* starts alone.  It may make starts (`new', with tokens or as sidecars), it may
\* append or take a message, and it gives up a token only when it takes the answer
\* to that start (or when the service is shut down).
LEMMA StartsStep ==
  ASSUME TypeOK, StartsInv, TypeOK', NEW new \in SUBSET Id,
         \A id \in new : startSeq < id /\ id <= startSeq',
         startSeq <= startSeq',
         \A id \in Id : [op |-> "start", id |-> id] \in calls'
                          => [op |-> "start", id |-> id] \in calls \/ id \in new,
         \A id \in Id : [op |-> "enqueue", id |-> id] \in calls'
                          => [op |-> "enqueue", id |-> id] \in calls,
         \/ inbox' = inbox
         \/ \E m \in Message : m.what \notin StartAnswers /\ inbox' = Append(inbox, m)
         \/ inbox # <<>> /\ inbox' = Tail(inbox),
         sidecar \subseteq sidecar', shutDown => shutDown',
         ~ shutDown' =>
           /\ new \subseteq reserved' \cup sidecar'
           /\ \A id \in reserved \ reserved' :
                /\ inbox # <<>> /\ inbox' = Tail(inbox)
                /\ Head(inbox).what \in StartAnswers /\ Head(inbox).id = id
  PROVE  StartsInv'
<1>0. /\ startSeq \in Nat /\ startSeq' \in Nat /\ inbox \in Seq(Message) /\ Id \subseteq Nat
      /\ StartCalls = {"start", "enqueue"}
  BY DEF TypeOK, SlotsOK, BridgeOK, Id, StartCalls
<1>1. ASSUME NEW id \in Id, CallFor(StartCalls, id)'
      PROVE  CallFor(StartCalls, id) \/ id \in new
  BY <1>0, <1>1 DEF CallFor
<1>2. \E d \in {0, 1} :
        /\ d = 1 => inbox # <<>> /\ inbox' = Tail(inbox)
        /\ \A i \in 1 .. Len(inbox') : inbox'[i].what \in StartAnswers =>
             i + d \in 1 .. Len(inbox) /\ inbox'[i] = inbox[i + d]
  <2>1. CASE inbox' = inbox
    <3>1. \A i \in 1 .. Len(inbox') : i + 0 \in 1 .. Len(inbox) /\ inbox'[i] = inbox[i + 0]
      BY <1>0, <2>1
    <3> QED BY <3>1
  <2>2. CASE \E m \in Message : m.what \notin StartAnswers /\ inbox' = Append(inbox, m)
    <3>1. PICK m \in Message : m.what \notin StartAnswers /\ inbox' = Append(inbox, m)
      BY <2>2
    <3>2. /\ Len(inbox) \in Nat /\ Len(inbox') = Len(inbox) + 1
          /\ inbox'[Len(inbox) + 1] = m
          /\ \A i \in 1 .. Len(inbox) : inbox'[i] = inbox[i]
      BY <1>0, <3>1
    <3>3. \A i \in 1 .. Len(inbox') : inbox'[i].what \in StartAnswers =>
            i + 0 \in 1 .. Len(inbox) /\ inbox'[i] = inbox[i + 0]
      BY <3>1, <3>2
    <3> QED BY <3>3
  <2>3. CASE inbox # <<>> /\ inbox' = Tail(inbox)
    <3>1. \A i \in 1 .. Len(inbox') : i + 1 \in 1 .. Len(inbox) /\ inbox'[i] = inbox[i + 1]
      BY <1>0, <2>3
    <3> QED BY <2>3, <3>1
  <2> QED BY <2>1, <2>2, <2>3
<1>3. PICK d \in {0, 1} :
        /\ d = 1 => inbox # <<>> /\ inbox' = Tail(inbox)
        /\ \A i \in 1 .. Len(inbox') : inbox'[i].what \in StartAnswers =>
             i + d \in 1 .. Len(inbox) /\ inbox'[i] = inbox[i + d]
  BY <1>2
<1>4. ASSUME NEW id \in Id, InInbox(StartAnswers, id)'
      PROVE  InInbox(StartAnswers, id)
  BY <1>3, <1>4 DEF InInbox
<1>5. \A id \in new : ~ Starting(id)
  BY <1>0 DEF StartsInv
<1>6. \A id \in Id : Starting(id)' => Starting(id) \/ id \in new
  BY <1>1, <1>4 DEF Starting
<1>7. \A id \in Id : ~ (/\ [op |-> "start", id |-> id] \in calls'
                        /\ [op |-> "enqueue", id |-> id] \in calls')
  <2>1. \A id \in new : [op |-> "enqueue", id |-> id] \notin calls
    BY <1>0, <1>5 DEF Starting, CallFor
  <2> QED BY <2>1 DEF StartsInv
<1>8. \A id \in Id : ~ (CallFor(StartCalls, id)' /\ InInbox(StartAnswers, id)')
  BY <1>1, <1>4, <1>5 DEF StartsInv, Starting
<1>9. ASSUME NEW i \in 1 .. Len(inbox'), NEW j \in 1 .. Len(inbox'),
             inbox'[i].what \in StartAnswers, inbox'[j].what \in StartAnswers,
             inbox'[i].id = inbox'[j].id
      PROVE  i = j
  <2>1. i + d = j + d  BY <1>3, <1>9 DEF StartsInv
  <2> QED BY <2>1
<1>10. \A id \in Id : Starting(id)' => id <= startSeq'
  BY <1>0, <1>6 DEF StartsInv
<1>11. ASSUME ~ shutDown', NEW id \in Mains', Starting(id)'
       PROVE  id \in reserved'
  <2>1. id \in Id /\ id \notin sidecar' /\ id \in Mains /\ ~ shutDown  BY <1>11 DEF Mains
  <2>2. CASE id \in new  BY <1>11, <2>1, <2>2
  <2>3. CASE id \notin new
    <3>1. id \in reserved  BY <1>6, <1>11, <2>1, <2>3 DEF StartsInv
    <3>2. SUFFICES ASSUME id \notin reserved'
                   PROVE  FALSE
      OBVIOUS
    <3>3. /\ inbox # <<>> /\ inbox' = Tail(inbox)
          /\ Head(inbox).what \in StartAnswers /\ Head(inbox).id = id
      BY <1>11, <3>1, <3>2
    <3>4. /\ 1 \in 1 .. Len(inbox) /\ inbox[1] = Head(inbox) /\ Len(inbox') = Len(inbox) - 1
          /\ \A i \in 1 .. Len(inbox') : i + 1 \in 1 .. Len(inbox) /\ inbox'[i] = inbox[i + 1]
      BY <1>0, <3>3
    <3>5. InInbox(StartAnswers, id)  BY <3>3, <3>4 DEF InInbox
    <3>6. ~ CallFor(StartCalls, id)'  BY <1>1, <2>1, <2>3, <3>5 DEF StartsInv
    <3>7. ~ InInbox(StartAnswers, id)'
      <4> SUFFICES ASSUME NEW i \in 1 .. Len(inbox'), inbox'[i].what \in StartAnswers,
                          inbox'[i].id = id
                   PROVE  FALSE
        BY DEF InInbox
      <4>1. i + 1 \in 1 .. Len(inbox) /\ inbox[i + 1].what \in StartAnswers /\ inbox[i + 1].id = id
        BY <3>4
      <4>2. i + 1 = 1  BY <3>3, <3>4, <4>1 DEF StartsInv
      <4> QED BY <4>2
    <3> QED BY <1>11, <3>6, <3>7 DEF Starting
  <2> QED BY <2>2, <2>3
<1> QED BY <1>7, <1>8, <1>9, <1>10, <1>11 DEF StartsInv, StartAnswers, StartCalls

\* The native calls that are not starts.
OtherCall == [op : CallOp \ StartCalls, id : Id]

\* A step that makes no start and gives up no token.
LEMMA QuietStep ==
  ASSUME TypeOK, StartsInv, TypeOK',
         calls' \subseteq calls \cup OtherCall,
         \/ inbox' = inbox
         \/ \E m \in Message : m.what \notin StartAnswers /\ inbox' = Append(inbox, m)
         \/ inbox # <<>> /\ inbox' = Tail(inbox),
         startSeq' = startSeq, sidecar' = sidecar,
         shutDown' \/ (reserved \subseteq reserved' /\ shutDown' = shutDown)
  PROVE  StartsInv'
<1>1. \A id \in Id : /\ [op |-> "start", id |-> id] \notin OtherCall
                     /\ [op |-> "enqueue", id |-> id] \notin OtherCall
  BY DEF OtherCall, StartCalls
<1>2. startSeq <= startSeq'  BY DEF TypeOK, SlotsOK
<1>3. shutDown \in BOOLEAN /\ shutDown' \in BOOLEAN  BY DEF TypeOK, StoreOK
<1> DEFINE new == {}
<1>4. /\ new \in SUBSET Id
      /\ \A id \in new : startSeq < id /\ id <= startSeq'
      /\ ~ shutDown' => new \subseteq reserved' \cup sidecar'
  OBVIOUS
<1>5. \A id \in Id : /\ [op |-> "start", id |-> id] \in calls'
                         => [op |-> "start", id |-> id] \in calls \/ id \in new
                     /\ [op |-> "enqueue", id |-> id] \in calls'
                         => [op |-> "enqueue", id |-> id] \in calls
  BY <1>1
<1>6. ~ shutDown' => \A id \in reserved \ reserved' :
         /\ inbox # <<>> /\ inbox' = Tail(inbox)
         /\ Head(inbox).what \in StartAnswers /\ Head(inbox).id = id
  OBVIOUS
<1> HIDE DEF new
<1> QED BY <1>2, <1>3, <1>4, <1>5, <1>6, StartsStep

\* A handler that takes a message and pumps.  It gives up no token but that of the
\* start it handles the answer of.
LEMMA PumpStep ==
  ASSUME TypeOK, StartsInv, TypeOK', NEW tokens \in SUBSET Id, NEW ids \in SUBSET Id,
         NEW more \in SUBSET OtherCall, Pump(tokens, ids, more),
         inbox # <<>>, inbox' = Tail(inbox), UNCHANGED <<sidecar, shutDown>>,
         \A id \in reserved \ tokens : Head(inbox).what \in StartAnswers /\ Head(inbox).id = id
  PROVE  StartsInv'
<1> DEFINE n   == Admissible(Taken(tokens, ids))
           new == (startSeq + 1) .. (startSeq + n)
<1>1. n \in 0 .. Len(startQueue) /\ Len(startQueue) \in Nat /\ startSeq \in Nat
  <2>1. startQueue \in Seq(ModelKey) /\ startSeq \in Nat  BY DEF TypeOK, SlotsOK
  <2>2. Taken(tokens, ids) \in Nat  BY IdsFinite, TakenNat
  <2> QED BY <2>1, <2>2, AdmissibleFits
<1>2. /\ reserved' = tokens \cup new
      /\ startSeq' = startSeq + n
      /\ calls' = calls \cup more \cup [op : {"start"}, id : new]
  BY DEF Pump
<1> HIDE DEF n
<1>3. /\ startSeq <= startSeq' /\ \A id \in new : startSeq < id /\ id <= startSeq'
  BY <1>1, <1>2
<1>4. new \subseteq Id  BY <1>2 DEF TypeOK, SlotsOK
<1> HIDE DEF new
<1>5. \A id \in Id : /\ [op |-> "start", id |-> id] \in calls'
                         => [op |-> "start", id |-> id] \in calls \/ id \in new
                     /\ [op |-> "enqueue", id |-> id] \in calls'
                         => [op |-> "enqueue", id |-> id] \in calls
  BY <1>2 DEF OtherCall, StartCalls
<1>6. shutDown \in BOOLEAN /\ shutDown' \in BOOLEAN  BY DEF TypeOK, StoreOK
<1> QED BY <1>2, <1>3, <1>4, <1>5, <1>6, StartsStep

\* release() as a step of the JavaScript thread.
LEMMA ReleaseStep ==
  ASSUME TypeOK, StartsInv, TypeOK', NEW id \in Id, NEW more \in SUBSET OtherCall,
         Release(id, more), inbox # <<>>, inbox' = Tail(inbox), UNCHANGED <<sidecar, shutDown>>
  PROVE  StartsInv'
<1>1. CASE Pump(reserved, activeIds \ {id}, more)
  <2> DEFINE ids == activeIds \ {id}
  <2>1. reserved \in SUBSET Id /\ ids \in SUBSET Id /\ Pump(reserved, ids, more)
    BY <1>1 DEF TypeOK, SlotsOK
  <2> HIDE DEF ids
  <2>2. \A i \in reserved \ reserved : Head(inbox).what \in StartAnswers /\ Head(inbox).id = i
    OBVIOUS
  <2> QED BY <2>1, <2>2, PumpStep
<1>2. CASE calls' = calls \cup more /\ UNCHANGED slots
  <2>1. calls' \subseteq calls \cup OtherCall /\ startSeq' = startSeq /\ reserved' = reserved
    BY <1>2 DEF slots
  <2> QED BY <2>1, QuietStep
<1> QED BY <1>1, <1>2 DEF Release

\* The native half of a start: one call becomes the next one, or an answer.
LEMMA NativeStartStep ==
  ASSUME TypeOK, StartsInv, NEW id \in Id,
         NativeInsert(id) \/ NativeEnqueue(id) \/ NativeStartFails(id),
         UNCHANGED <<startSeq, sidecar, reserved, shutDown>>
  PROVE  StartsInv'
<1>0. StartCalls = {"start", "enqueue"} /\ inbox \in Seq(Message) /\ Mains' = Mains
  BY DEF StartCalls, Mains, TypeOK, BridgeOK
<1>1. CASE NativeInsert(id)
  <2>1. /\ [op |-> "start", id |-> id] \in calls /\ inbox' = inbox
        /\ calls' = (calls \ {[op |-> "start", id |-> id]}) \cup {[op |-> "enqueue", id |-> id]}
    BY <1>1 DEF NativeInsert
  <2>2. \A i \in Id : CallFor(StartCalls, i)' <=> CallFor(StartCalls, i)
    BY <1>0, <2>1 DEF CallFor
  <2>3. \A i \in Id : InInbox(StartAnswers, i)' <=> InInbox(StartAnswers, i)
    BY <2>1 DEF InInbox
  <2>4. \A i \in Id : Starting(i)' <=> Starting(i)
    BY <2>2, <2>3 DEF Starting
  <2>5. \A i \in Id : ~ (/\ [op |-> "start", id |-> i] \in calls'
                         /\ [op |-> "enqueue", id |-> i] \in calls')
    BY <2>1 DEF StartsInv
  <2>6. \A i, j \in 1 .. Len(inbox') :
          /\ inbox'[i].what \in StartAnswers /\ inbox'[j].what \in StartAnswers
          /\ inbox'[i].id = inbox'[j].id
          => i = j
    BY <2>1 DEF StartsInv
  <2>7. \A i \in Id : ~ (CallFor(StartCalls, i)' /\ InInbox(StartAnswers, i)')
    BY <2>2, <2>3 DEF StartsInv
  <2>8. (\A i \in Id : Starting(i)' => i <= startSeq')
         /\ (~ shutDown' => \A i \in Mains' : Starting(i)' => i \in reserved')
    <3>1. Mains \subseteq Id  BY DEF Mains
    <3> QED BY <1>0, <2>4, <3>1 DEF StartsInv
  <2> QED BY <2>5, <2>6, <2>7, <2>8 DEF StartsInv, StartAnswers, StartCalls
<1>2. CASE NativeEnqueue(id) \/ NativeStartFails(id)
  <2>1. PICK op \in StartCalls, what \in StartAnswers :
          /\ [op |-> op, id |-> id] \in calls
          /\ calls' = calls \ {[op |-> op, id |-> id]}
          /\ inbox' = Append(inbox, [what |-> what, id |-> id])
    BY <1>2 DEF NativeEnqueue, NativeStartFails, Serve, Post, StartCalls, StartAnswers
  <2>2. CallFor(StartCalls, id) /\ ~ InInbox(StartAnswers, id)
    BY <2>1 DEF CallFor, StartsInv
  <2>3. ~ CallFor(StartCalls, id)'
    BY <1>0, <2>1 DEF CallFor, StartsInv
  <2>4. \A i \in Id : CallFor(StartCalls, i)' => CallFor(StartCalls, i)
    BY <2>1 DEF CallFor
  <2> DEFINE n == Len(inbox)
  <2>5. /\ n \in Nat /\ Len(inbox') = n + 1
        /\ inbox'[n + 1] = [what |-> what, id |-> id]
        /\ \A i \in 1 .. n : inbox'[i] = inbox[i]
    BY <1>0, <2>1
  <2>6. \A i \in Id : InInbox(StartAnswers, i)' => InInbox(StartAnswers, i) \/ i = id
    <3> SUFFICES ASSUME NEW i \in Id, NEW m \in 1 .. Len(inbox'),
                        inbox'[m].what \in StartAnswers, inbox'[m].id = i
                 PROVE  InInbox(StartAnswers, i) \/ i = id
      BY DEF InInbox, StartAnswers
    <3>1. m \in 1 .. n \/ m = n + 1  BY <2>5
    <3>2. CASE m \in 1 .. n  BY <2>5, <3>2 DEF InInbox
    <3>3. CASE m = n + 1  BY <2>5, <3>3
    <3> QED BY <3>1, <3>2, <3>3
  <2>7. \A i \in Id : Starting(i)' => Starting(i)
    BY <2>2, <2>4, <2>6 DEF Starting
  <2>8. \A i \in Id : ~ (/\ [op |-> "start", id |-> i] \in calls'
                         /\ [op |-> "enqueue", id |-> i] \in calls')
    BY <2>1 DEF StartsInv
  <2>9. \A i \in Id : ~ (CallFor(StartCalls, i)' /\ InInbox(StartAnswers, i)')
    BY <2>3, <2>4, <2>6 DEF StartsInv
  <2>10. ASSUME NEW i \in 1 .. Len(inbox'), NEW j \in 1 .. Len(inbox'),
                inbox'[i].what \in StartAnswers, inbox'[j].what \in StartAnswers,
                inbox'[i].id = inbox'[j].id
         PROVE  i = j
    <3>1. \A m \in 1 .. n : inbox[m].what \in StartAnswers => inbox[m].id # id
      BY <2>2 DEF InInbox
    <3>2. (i \in 1 .. n \/ i = n + 1) /\ (j \in 1 .. n \/ j = n + 1)  BY <2>5
    <3>3. CASE i \in 1 .. n /\ j \in 1 .. n
      BY <2>5, <2>10, <3>3 DEF StartsInv
    <3>4. CASE i = n + 1 /\ j \in 1 .. n
      BY <2>5, <2>10, <3>1, <3>4
    <3>5. CASE j = n + 1 /\ i \in 1 .. n
      BY <2>5, <2>10, <3>1, <3>5
    <3> QED BY <3>2, <3>3, <3>4, <3>5
  <2>11. (\A i \in Id : Starting(i)' => i <= startSeq')
         /\ (~ shutDown' => \A i \in Mains' : Starting(i)' => i \in reserved')
    <3>1. Mains \subseteq Id  BY DEF Mains
    <3> QED BY <1>0, <2>7, <3>1 DEF StartsInv
  <2> QED BY <2>8, <2>9, <2>10, <2>11 DEF StartsInv, StartAnswers, StartCalls
<1> QED BY <1>1, <1>2

\* StartsInv is inductive, given the types.
LEMMA StartsInvInductive ==
  ASSUME TypeOK, StartsInv, TypeOK', [Next]_vars
  PROVE  StartsInv'
<1>0. /\ \A id \in Id, op \in CallOp \ StartCalls : [op |-> op, id |-> id] \in OtherCall
      /\ \A id \in Id, what \in Outcome : [what |-> what, id |-> id] \in Message
      /\ calls \subseteq Call /\ shutDown \in BOOLEAN /\ startSeq \in Nat
      /\ inbox \in Seq(Message) /\ poll \in [Reader -> PollState]
  BY DEF OtherCall, Message, TypeOK, SlotsOK, StoreOK, BridgeOK
<1>d. CallOp \ StartCalls = {"pause", "resume", "retry", "cancel", "move", "purge", "discard"}
  BY DEF CallOp, StartCalls
<1>e. /\ Outcome \ StartAnswers
           = {"paused", "pauseFailed", "resumed", "resumeFailed", "retried", "retryFailed",
              "cancelled", "moveFailed", "purged", "complete", "error"}
      /\ \A r \in Reader : r \notin StartAnswers
  BY DEF Outcome, StartAnswers, Reader
<1>a. ASSUME UNCHANGED <<calls, inbox, startSeq, sidecar, reserved, shutDown>>
      PROVE  StartsInv'
  BY <1>a, QuietStep
<1>b. ASSUME NEW id \in Id, NEW what \in Outcome \ StartAnswers, Post(what, id)
      PROVE  \E m \in Message : m.what \notin StartAnswers /\ inbox' = Append(inbox, m)
  BY <1>0, <1>b DEF Post
<1>1. CASE User
  <2>1. CASE \E k \in ModelKey : Enqueue(k) \/ CancelQueued(k)
    BY <2>1, <1>a DEF Enqueue, CancelQueued
  <2>2. CASE StartNow \/ StartSidecar
    <3> DEFINE new == {startSeq + 1}
    <3>1. /\ startSeq' = startSeq + 1 /\ inbox' = inbox /\ shutDown' = shutDown
          /\ calls' = calls \cup {[op |-> "start", id |-> startSeq + 1]}
          /\ sidecar \subseteq sidecar' /\ reserved \subseteq reserved'
          /\ new \subseteq reserved' \cup sidecar'
      BY <2>2 DEF StartNow, StartSidecar
    <3>2. new \in SUBSET Id
      BY <2>2, BoundsAssumption DEF StartNow, StartSidecar, Fresh, TypeOK, SlotsOK, Id
    <3>3. startSeq <= startSeq' /\ \A id \in new : startSeq < id /\ id <= startSeq'
      BY <1>0, <3>1
    <3>4. \A id \in Id : /\ [op |-> "start", id |-> id] \in calls'
                             => [op |-> "start", id |-> id] \in calls \/ id \in new
                         /\ [op |-> "enqueue", id |-> id] \in calls'
                             => [op |-> "enqueue", id |-> id] \in calls
      BY <3>1
    <3>5. \A id \in reserved \ reserved' :
             /\ inbox # <<>> /\ inbox' = Tail(inbox)
             /\ Head(inbox).what \in StartAnswers /\ Head(inbox).id = id
      BY <3>1
    <3> HIDE DEF new
    <3> QED BY <1>0, <3>1, <3>2, <3>3, <3>4, <3>5, StartsStep
  <2>3. CASE StartReconcile \/ StartRestore
    BY <2>3, <1>a DEF StartReconcile, StartRestore, slots
  <2>4. ASSUME NEW id \in Id,
               PauseDownload(id) \/ ResumeDownload(id) \/ RetryDownload(id) \/ CancelDownload(id)
        PROVE  StartsInv'
    <3>1. PICK op \in CallOp \ StartCalls : calls' = calls \cup {[op |-> op, id |-> id]}
      BY <2>4, <1>d DEF PauseDownload, ResumeDownload, RetryDownload, CancelDownload, Control, Ask
    <3>2. UNCHANGED <<inbox, startSeq, sidecar, reserved, shutDown>>
      BY <2>4 DEF PauseDownload, ResumeDownload, RetryDownload, CancelDownload, slots
    <3> QED BY <1>0, <3>1, <3>2, QuietStep
  <2> QED BY <1>1, <2>1, <2>2, <2>3, <2>4 DEF User
<1>2. CASE Cleanup
  <2>1. shutDown' /\ UNCHANGED <<calls, inbox, startSeq, sidecar>>
    BY <1>2 DEF Cleanup
  <2> QED BY <2>1, QuietStep
<1>3. ASSUME NEW id \in Id, Native(id)
      PROVE  StartsInv'
  <2>1. UNCHANGED <<startSeq, sidecar, reserved, shutDown>>
    BY <1>3 DEF Native, NativeInsert, NativeEnqueue, NativeStartFails, NativePause, NativeResume,
         NativeRetry, NativeRetryFails, NativeCancel, NativeMove, serviceVars, slots
  <2>2. CASE NativeInsert(id) \/ NativeEnqueue(id) \/ NativeStartFails(id)
    BY <2>1, <2>2, NativeStartStep
  <2>3. CASE NativePause(id) \/ NativeResume(id) \/ NativeRetry(id) \/ NativeRetryFails(id)
             \/ NativeCancel(id) \/ NativeMove(id)
    <3>1. calls' \subseteq calls
      BY <2>3 DEF NativePause, NativeResume, NativeRetry, NativeRetryFails, NativeCancel,
           NativeMove, Serve, ServeControl
    <3>2. inbox' = inbox \/ \E what \in Outcome \ StartAnswers : Post(what, id)
      BY <2>3, <1>e DEF NativePause, NativeResume, NativeRetry, NativeRetryFails, NativeCancel,
           NativeMove
    <3> QED BY <1>b, <2>1, <3>1, <3>2, QuietStep
  <2> QED BY <1>3, <2>2, <2>3 DEF Native
<1>4. ASSUME NEW id \in Id, Transfer(id) \/ EchoError(id)
      PROVE  StartsInv'
  <2>1. inbox' = inbox \/ \E what \in Outcome \ StartAnswers : Post(what, id)
    BY <1>4, <1>e DEF Transfer, TransferComplete, TransferFail, EchoError
  <2>2. UNCHANGED <<calls, startSeq, sidecar, reserved, shutDown>>
    BY <1>4 DEF Transfer, TransferComplete, TransferFail, EchoError, serviceVars, slots
  <2> QED BY <1>b, <2>1, <2>2, QuietStep
<1>5. CASE Reads
  <2>1. UNCHANGED <<calls, startSeq, sidecar, reserved, shutDown>>
    BY <1>5 DEF Reads, ReadRows, PostRows, NativeObserve, PollVars, slots
  <2>2. inbox' = inbox \/ \E m \in Message : m.what \notin StartAnswers /\ inbox' = Append(inbox, m)
    <3>1. CASE \E r \in Reader : PostRows(r)
      <4>1. PICK r \in Reader : PostRows(r)  BY <3>1
      <4>2. [what |-> r, seen |-> poll[r].seen] \in Message
        BY <1>0 DEF PollState, Message
      <4> QED BY <1>e, <4>1, <4>2 DEF PostRows
    <3>2. CASE (\E r \in Reader : ReadRows(r)) \/ NativeObserve
      BY <3>2 DEF ReadRows, NativeObserve
    <3> QED BY <1>5, <3>1, <3>2 DEF Reads
  <2> QED BY <2>1, <2>2, QuietStep
<1>6. CASE AdoptActive
  BY <1>6, <1>a DEF AdoptActive
<1>7. CASE Kill
  <2>1. calls' = {} /\ inbox' = <<>>  BY <1>7 DEF Kill
  <2>2. \A id \in Id : ~ Starting(id)' /\ ~ CallFor(StartCalls, id)'
    BY <2>1 DEF Starting, CallFor, InInbox
  <2> QED BY <2>1, <2>2 DEF StartsInv, Mains
<1>8. ASSUME NEW id \in Id,
             \/ OnStarted(id) \/ OnStartFailed(id) \/ OnComplete(id) \/ OnError(id)
             \/ OnPaused(id) \/ OnPauseFailed(id) \/ OnResumed(id) \/ OnResumeFailed(id)
             \/ OnRetried(id) \/ OnRetryFailed(id)
             \/ OnCancelled(id) \/ OnPurged(id) \/ OnMoveFailed(id)
      PROVE  StartsInv'
  <2>1. inbox # <<>> /\ inbox' = Tail(inbox)
    BY <1>8 DEF OnStarted, OnStartFailed, OnComplete, OnError, OnPaused, OnPauseFailed,
            OnResumed, OnResumeFailed, OnRetried, OnRetryFailed, OnCancelled, OnPurged,
            OnMoveFailed, Take
  <2>2. UNCHANGED <<sidecar, shutDown>>
    BY <1>8 DEF OnStarted, OnStartFailed, OnComplete, OnError, OnPaused, OnPauseFailed,
            OnResumed, OnResumeFailed, OnRetried, OnRetryFailed, OnCancelled, OnPurged,
            OnMoveFailed, otherVars
  <2>3. CASE OnStarted(id)
    <3> DEFINE new == {}
    <3>1. /\ reserved' = reserved \ {id} /\ startSeq' = startSeq
          /\ Head(inbox).what = "started" /\ Head(inbox).id = id
          /\ calls' \subseteq calls \cup {[op |-> "discard", id |-> id]}
      BY <2>3 DEF OnStarted, Take
    <3>2. /\ new \in SUBSET Id
          /\ \A i \in new : startSeq < i /\ i <= startSeq'
          /\ new \subseteq reserved' \cup sidecar'
      OBVIOUS
    <3>3. \A i \in Id : /\ [op |-> "start", id |-> i] \in calls'
                            => [op |-> "start", id |-> i] \in calls \/ i \in new
                        /\ [op |-> "enqueue", id |-> i] \in calls'
                            => [op |-> "enqueue", id |-> i] \in calls
      BY <3>1
    <3>4. \A i \in reserved \ reserved' :
             /\ inbox # <<>> /\ inbox' = Tail(inbox)
             /\ Head(inbox).what \in StartAnswers /\ Head(inbox).id = i
      BY <2>1, <3>1 DEF StartAnswers
    <3>5. startSeq <= startSeq'  BY <1>0, <3>1
    <3> HIDE DEF new
    <3> QED BY <1>0, <2>1, <2>2, <3>2, <3>3, <3>4, <3>5, StartsStep
  <2>4. CASE OnStartFailed(id)
    <3>1. CASE UNCHANGED <<reserved, activeIds, startQueue, startSeq, calls>>
      BY <2>1, <2>2, <3>1, QuietStep
    <3>2. CASE Pump(reserved \ {id}, activeIds, {})
      <4> DEFINE tokens == reserved \ {id}
      <4>1. tokens \in SUBSET Id /\ activeIds \in SUBSET Id /\ {} \in SUBSET OtherCall
        BY DEF TypeOK, SlotsOK
      <4>2. \A i \in reserved \ tokens : Head(inbox).what \in StartAnswers /\ Head(inbox).id = i
        BY <2>4 DEF OnStartFailed, Take, StartAnswers
      <4>3. Pump(tokens, activeIds, {})  BY <3>2
      <4> HIDE DEF tokens
      <4> QED BY <2>1, <2>2, <4>1, <4>2, <4>3, PumpStep
    <3> QED BY <2>4, <3>1, <3>2 DEF OnStartFailed
  <2>5. CASE OnComplete(id)
    <3>1. {[op |-> "move", id |-> id]} \in SUBSET OtherCall /\ {} \in SUBSET OtherCall
      BY <1>0, <1>d
    <3>2. CASE UNCHANGED <<slots, calls>>
      BY <2>1, <2>2, <3>2, QuietStep DEF slots
    <3>3. CASE \E more \in SUBSET OtherCall : Release(id, more)
      BY <2>1, <2>2, <3>3, ReleaseStep
    <3> QED BY <2>5, <3>1, <3>2, <3>3 DEF OnComplete, slots
  <2>6. CASE OnError(id) \/ OnPaused(id) \/ OnResumeFailed(id) \/ OnCancelled(id) \/ OnPurged(id)
    <3>1. Release(id, {}) \/ UNCHANGED <<slots, calls>>
      BY <2>6 DEF OnError, OnPaused, OnResumeFailed, OnCancelled, OnPurged, slots
    <3>2. CASE UNCHANGED <<slots, calls>>
      BY <2>1, <2>2, <3>2, QuietStep DEF slots
    <3>3. {} \in SUBSET OtherCall  OBVIOUS
    <3> QED BY <2>1, <2>2, <3>1, <3>2, <3>3, ReleaseStep
  <2>7. CASE OnPauseFailed(id) \/ OnResumed(id) \/ OnRetried(id) \/ OnRetryFailed(id)
             \/ OnMoveFailed(id)
    <3>1. [op |-> "purge", id |-> id] \in OtherCall  BY <1>0, <1>d
    <3>2. calls' \subseteq calls \cup OtherCall /\ UNCHANGED <<startSeq, reserved>>
      BY <2>7, <3>1 DEF OnPauseFailed, OnResumed, OnRetried, OnRetryFailed, OnMoveFailed, slots
    <3> QED BY <2>1, <2>2, <3>2, QuietStep
  <2> QED BY <1>8, <2>3, <2>4, <2>5, <2>6, <2>7
<1>9. CASE OnReconcile
  <2> DEFINE kept == activeIds \cap Known(Head(inbox).seen)
  <2>1. inbox # <<>> /\ inbox' = Tail(inbox) /\ UNCHANGED <<sidecar, shutDown>>
    BY <1>9 DEF OnReconcile, TakeRows
  <2>2. CASE Pump(reserved, kept, {})
    <3>1. reserved \in SUBSET Id /\ kept \in SUBSET Id /\ {} \in SUBSET OtherCall
      BY DEF TypeOK, SlotsOK
    <3> HIDE DEF kept
    <3> DEFINE tokens == reserved
    <3>2. \A id \in reserved \ tokens : Head(inbox).what \in StartAnswers /\ Head(inbox).id = id
      OBVIOUS
    <3> QED BY <2>1, <2>2, <3>1, <3>2, PumpStep
  <2>3. CASE UNCHANGED <<slots, calls>>
    BY <2>1, <2>3, QuietStep DEF slots
  <2> QED BY <1>9, <2>2, <2>3 DEF OnReconcile
<1>10. CASE OnRestore
  <2> DEFINE done == {i \in Restorable(Head(inbox).seen) \ (sidecar \cup watched) :
                        Head(inbox).seen[i] = "completed"}
  <2>1. inbox # <<>> /\ inbox' = Tail(inbox) /\ UNCHANGED <<startSeq, reserved, sidecar, shutDown>>
        /\ calls' = calls \cup [op : {"move"}, id : done]
    BY <1>10 DEF OnRestore, TakeRows, slots
  <2>2. done \subseteq Id  BY DEF Restorable
  <2> HIDE DEF done
  <2>3. calls' \subseteq calls \cup OtherCall
    BY <1>d, <2>1, <2>2 DEF OtherCall
  <2> QED BY <2>1, <2>3, QuietStep
<1>11. CASE UNCHANGED vars
  BY <1>11, <1>a DEF vars, slots
<1> QED BY <1>1, <1>2, <1>3, <1>4, <1>5, <1>6, <1>7, <1>8, <1>9, <1>10, <1>11
        DEF Next, JavaScript

-----------------------------------------------------------------------------
(* The cap *)

\* What the slots are, counted.
LEMMA SlotsCounted ==
  ASSUME TypeOK
  PROVE  /\ IsFiniteSet(reserved) /\ IsFiniteSet(activeIds) /\ IsFiniteSet(activeIds \ uncapped)
         /\ Taken(reserved, activeIds) \in Nat /\ Taken(reserved, activeIds \ uncapped) \in Nat
         /\ MaxConcurrent \in Nat
<1>1. reserved \in SUBSET Id /\ activeIds \in SUBSET Id /\ activeIds \ uncapped \in SUBSET Id
  BY DEF TypeOK, SlotsOK
<1> QED BY <1>1, IdsFinite, TakenNat, BoundsAssumption

\* pump() fills free slots only: it keeps the cap whatever was freed before.
LEMMA PumpKeepsCap ==
  ASSUME NEW tokens, NEW ids, NEW free, NEW more,
         IsFiniteSet(tokens), IsFiniteSet(ids), free \subseteq ids,
         startQueue \in Seq(ModelKey), startSeq \in Nat,
         Taken(tokens, ids \ free) <= MaxConcurrent,
         Pump(tokens, ids, more), uncapped' = free
  PROVE  CapOnAdmission'
<1> DEFINE n   == Admissible(Taken(tokens, ids))
           new == (startSeq + 1) .. (startSeq + n)
<1>1. Taken(tokens, ids) \in Nat  BY TakenNat
<1>2. /\ n \in 0 .. Len(startQueue)
      /\ n = 0 \/ Taken(tokens, ids) + n <= MaxConcurrent
  BY <1>1, AdmissibleFits
<1>3. n \in Nat /\ Len(startQueue) \in Nat  BY <1>2
<1> HIDE DEF n
<1>4. IsFiniteSet(new) /\ Cardinality(new) = n
  <2>1. startSeq + 1 \in Int /\ startSeq + n \in Int  BY <1>3
  <2>2. /\ IsFiniteSet(new)
        /\ Cardinality(new) = IF startSeq + 1 > startSeq + n THEN 0
                              ELSE (startSeq + n) - (startSeq + 1) + 1
    BY <2>1, FS_Interval
  <2> QED BY <2>2, <1>3
<1>5. /\ reserved' = tokens \cup new
      /\ activeIds' = ids
      /\ startQueue' = SubSeq(startQueue, n + 1, Len(startQueue))
      /\ startSeq' = startSeq + n
  BY DEF Pump, n
<1>6. Taken(tokens \cup new, ids \ free) <= MaxConcurrent
  <2>1. /\ Cardinality(tokens) \in Nat /\ Cardinality(ids \ free) \in Nat
        /\ Cardinality(ids) \in Nat /\ Cardinality(ids \ free) <= Cardinality(ids)
    BY FS_CardinalityType, FS_Subset
  <2>2. /\ Cardinality(tokens \cup new) \in Nat
        /\ Cardinality(tokens \cup new) <= Cardinality(tokens) + n
    <3>1. Cardinality(tokens \cup new)
            = Cardinality(tokens) + Cardinality(new) - Cardinality(tokens \cap new)
      BY <1>4, FS_Union
    <3>2. Cardinality(tokens \cap new) \in Nat
      BY <1>4, FS_Intersection, FS_CardinalityType
    <3>3. Cardinality(tokens \cup new) \in Nat
      BY <1>4, FS_Union, FS_CardinalityType
    <3> QED BY <3>1, <3>2, <3>3, <2>1, <1>4, <1>3
  <2>3. CASE n = 0
    <3>1. new = {}  BY <2>3, <1>3
    <3>2. tokens \cup new = tokens  BY <3>1
    <3> QED BY <3>2
  <2>4. CASE Taken(tokens, ids) + n <= MaxConcurrent
    <3>1. MaxConcurrent \in Nat  BY BoundsAssumption
    <3> QED BY <3>1, <2>1, <2>2, <2>4, <1>3 DEF Taken
  <2> QED BY <2>3, <2>4, <1>2
<1> QED BY <1>5, <1>6 DEF CapOnAdmission

\* Giving slots back keeps the cap.
LEMMA FewerKeepsCap ==
  ASSUME TypeOK, CapOnAdmission, NEW S \in SUBSET reserved, NEW T \in SUBSET (activeIds \ uncapped)
  PROVE  IsFiniteSet(S) /\ IsFiniteSet(T) /\ Taken(S, T) <= MaxConcurrent
<1>1. /\ IsFiniteSet(S) /\ IsFiniteSet(T)
      /\ Taken(S, T) <= Taken(reserved, activeIds \ uncapped)
  BY SlotsCounted, TakenMonotone
<1>2. Taken(S, T) \in Nat  BY <1>1, TakenNat
<1> QED BY <1>1, <1>2, SlotsCounted DEF CapOnAdmission

\* release() keeps the cap, whether or not the id holds a slot.
LEMMA ReleaseKeepsCap ==
  ASSUME TypeOK, CapOnAdmission, NEW id, NEW more, Release(id, more)
  PROVE  CapOnAdmission'
<1>1. CASE Pump(reserved, activeIds \ {id}, more) /\ uncapped' = uncapped \ {id}
  <2> DEFINE ids == activeIds \ {id}
             free == uncapped \ {id}
  <2>1. /\ free \subseteq ids /\ ids \ free \in SUBSET (activeIds \ uncapped)
        /\ ids \in SUBSET Id
    BY DEF TypeOK, SlotsOK
  <2>2. Pump(reserved, ids, more) /\ uncapped' = free  BY <1>1
  <2> HIDE DEF ids, free
  <2>3. Taken(reserved, ids \ free) <= MaxConcurrent /\ IsFiniteSet(ids) /\ IsFiniteSet(reserved)
    BY <2>1, FewerKeepsCap, IdsFinite, SlotsCounted
  <2> QED BY <2>1, <2>2, <2>3, PumpKeepsCap DEF TypeOK, SlotsOK
<1>2. CASE UNCHANGED slots
  BY <1>2 DEF CapOnAdmission, slots
<1> QED BY <1>1, <1>2 DEF Release

\* The cap is kept by every step from a state of the inductive invariant.
LEMMA CapInductive ==
  ASSUME TypeOK, StartsInv, CapOnAdmission, TypeOK', [Next]_vars
  PROVE  CapOnAdmission'
<1>0. /\ uncapped \subseteq activeIds /\ startQueue \in Seq(ModelKey) /\ startSeq \in Nat
      /\ reserved \subseteq Id /\ activeIds \subseteq Id
  BY DEF TypeOK, SlotsOK
<1>a. ASSUME UNCHANGED <<reserved, activeIds, uncapped>>
      PROVE  CapOnAdmission'
  BY <1>a DEF CapOnAdmission
<1>1. CASE StartNow
  <2> DEFINE tokens == reserved \cup {startSeq + 1}
  <2>1. /\ reserved' = tokens /\ activeIds' = activeIds /\ uncapped' = uncapped
        /\ Taken(reserved, activeIds) < MaxConcurrent
    BY <1>1 DEF StartNow
  <2>2. IsFiniteSet(tokens) /\ Taken(tokens, activeIds) <= Taken(reserved, activeIds) + 1
    BY SlotsCounted, TakenPlusOne
  <2>3. Taken(tokens, activeIds \ uncapped) <= Taken(tokens, activeIds)
    BY <2>2, SlotsCounted, TakenMonotone
  <2> HIDE DEF tokens
  <2>4. Taken(tokens, activeIds) \in Nat /\ Taken(tokens, activeIds \ uncapped) \in Nat
    BY <2>2, SlotsCounted, TakenNat
  <2>5. Taken(tokens, activeIds \ uncapped) <= MaxConcurrent
    BY <2>1, <2>2, <2>3, <2>4, SlotsCounted
  <2> QED BY <2>1, <2>5 DEF CapOnAdmission
<1>2. ASSUME NEW id \in Id, ResumeDownload(id)
      PROVE  CapOnAdmission'
  <2> DEFINE ids == activeIds \cup {id}
  <2>1. /\ reserved' = reserved /\ activeIds' = ids /\ uncapped' = uncapped
        /\ id \in activeIds \/ Taken(reserved, activeIds) < MaxConcurrent
    BY <1>2 DEF ResumeDownload
  <2>2. CASE id \in activeIds
    <3>1. activeIds' = activeIds  BY <2>1, <2>2
    <3> QED BY <1>a, <2>1, <3>1
  <2>3. CASE Taken(reserved, activeIds) < MaxConcurrent
    <3>1. IsFiniteSet(ids) /\ Taken(reserved, ids) <= Taken(reserved, activeIds) + 1
      BY SlotsCounted, TakenPlusOne
    <3>2. ids \ uncapped \in SUBSET ids /\ reserved \in SUBSET reserved  OBVIOUS
    <3> HIDE DEF ids
    <3>3. IsFiniteSet(ids \ uncapped) /\ Taken(reserved, ids \ uncapped) <= Taken(reserved, ids)
      BY <3>1, <3>2, SlotsCounted, TakenMonotone
    <3>4. Taken(reserved, ids) \in Nat /\ Taken(reserved, ids \ uncapped) \in Nat
      BY <3>1, <3>3, SlotsCounted, TakenNat
    <3>5. Taken(reserved, ids \ uncapped) <= MaxConcurrent
      BY <2>3, <3>1, <3>3, <3>4, SlotsCounted
    <3> QED BY <2>1, <3>5 DEF CapOnAdmission
  <2> QED BY <2>1, <2>2, <2>3
<1>3. CASE User /\ ~ StartNow /\ ~ \E id \in Id : ResumeDownload(id)
  BY <1>3, <1>a DEF User, Enqueue, CancelQueued, StartSidecar, PauseDownload, RetryDownload,
       CancelDownload, StartReconcile, StartRestore, slots
<1>4. CASE Cleanup \/ Kill
  <2>1. reserved' = {} /\ activeIds' = {} /\ uncapped' = {}  BY <1>4 DEF Cleanup, Kill
  <2>2. {} \in SUBSET reserved /\ {} \in SUBSET (activeIds \ uncapped) /\ {} \ {} = {}  OBVIOUS
  <2>3. Taken({}, {}) <= MaxConcurrent  BY <2>2, FewerKeepsCap
  <2> QED BY <2>1, <2>2, <2>3 DEF CapOnAdmission
<1>5. CASE \E id \in Id : Native(id) \/ Transfer(id) \/ EchoError(id)
  BY <1>5, <1>a DEF Native, NativeInsert, NativeEnqueue, NativeStartFails, NativePause,
       NativeResume, NativeRetry, NativeRetryFails, NativeCancel, NativeMove, Transfer,
       TransferComplete, TransferFail, EchoError, serviceVars, slots
<1>6. CASE Reads
  BY <1>6, <1>a DEF Reads, ReadRows, PostRows, NativeObserve, PollVars, slots
<1>7. CASE AdoptActive
  <2>1. PICK ids \in SUBSET Id : /\ activeIds' = activeIds \cup ids /\ reserved' = reserved
                                /\ uncapped' = uncapped \cup (ids \ activeIds)
    BY <1>7 DEF AdoptActive, InFlight
  <2>2. activeIds' \ uncapped' = activeIds \ uncapped  BY <2>1, <1>0
  <2> QED BY <2>1, <2>2 DEF CapOnAdmission
<1>8. ASSUME NEW id \in Id,
             \/ OnStarted(id) \/ OnStartFailed(id) \/ OnComplete(id) \/ OnError(id)
             \/ OnPaused(id) \/ OnPauseFailed(id) \/ OnResumed(id) \/ OnResumeFailed(id)
             \/ OnRetried(id) \/ OnRetryFailed(id)
             \/ OnCancelled(id) \/ OnPurged(id) \/ OnMoveFailed(id)
      PROVE  CapOnAdmission'
  <2>1. CASE OnStarted(id)
    <3> DEFINE tokens == reserved \ {id}
    <3>0. reserved' = tokens /\ uncapped' = uncapped  BY <2>1 DEF OnStarted
    <3>1. CASE activeIds' = activeIds
      <4>1. tokens \in SUBSET reserved /\ activeIds \ uncapped \in SUBSET (activeIds \ uncapped)
        OBVIOUS
      <4> HIDE DEF tokens
      <4>2. Taken(tokens, activeIds \ uncapped) <= MaxConcurrent  BY <4>1, FewerKeepsCap
      <4> QED BY <3>0, <3>1, <4>2 DEF CapOnAdmission
    <3>2. CASE activeIds' # activeIds
      <4> DEFINE capped == activeIds \ uncapped
      <4>1. activeIds' = activeIds \cup {id} /\ id \in Mains /\ ~ shutDown
        BY <2>1, <3>2 DEF OnStarted, Mains
      <4>2. InInbox(StartAnswers, id)
        <5>1. inbox # <<>> /\ Head(inbox).what = "started" /\ Head(inbox).id = id
          BY <2>1 DEF OnStarted, Take
        <5>2. 1 \in 1 .. Len(inbox) /\ inbox[1] = Head(inbox)
          BY <5>1 DEF TypeOK, BridgeOK
        <5> QED BY <5>1, <5>2 DEF InInbox, StartAnswers
      <4>3. id \in reserved  BY <4>1, <4>2 DEF StartsInv, Starting
      <4>4. IsFiniteSet(tokens) /\ Cardinality(tokens) = Cardinality(reserved) - 1
        BY <4>3, SlotsCounted, FS_RemoveElement
      <4>5. /\ IsFiniteSet(capped) /\ IsFiniteSet(capped \cup {id})
            /\ Taken(tokens, capped \cup {id}) <= Taken(tokens, capped) + 1
        BY <4>4, SlotsCounted, TakenPlusOne
      <4>6. activeIds' \ uncapped' \in SUBSET (capped \cup {id})  BY <3>0, <4>1
      <4> HIDE DEF tokens, capped
      <4>7. /\ IsFiniteSet(activeIds' \ uncapped')
            /\ Taken(tokens, activeIds' \ uncapped') <= Taken(tokens, capped \cup {id})
        BY <4>4, <4>5, <4>6, TakenMonotone
      <4>8. /\ Cardinality(reserved) \in Nat /\ Cardinality(tokens) \in Nat
            /\ Cardinality(capped) \in Nat
            /\ Taken(tokens, capped \cup {id}) \in Nat
            /\ Taken(tokens, activeIds' \ uncapped') \in Nat
        BY <4>4, <4>5, <4>7, SlotsCounted, TakenNat, FS_CardinalityType
      <4>9. Taken(tokens, capped) + 1 = Taken(reserved, capped)
        BY <4>4, <4>8 DEF Taken
      <4>10. Taken(reserved, capped) <= MaxConcurrent  BY DEF CapOnAdmission, capped
      <4>11. Taken(tokens, activeIds' \ uncapped') <= MaxConcurrent
        <5>1. Taken(tokens, capped) \in Nat /\ Taken(reserved, capped) \in Nat
          BY <4>4, <4>5, SlotsCounted, TakenNat
        <5> QED BY <5>1, <4>5, <4>7, <4>8, <4>9, <4>10, SlotsCounted
      <4> QED BY <3>0, <4>11 DEF CapOnAdmission
    <3> QED BY <3>1, <3>2
  <2>2. CASE OnStartFailed(id)
    <3>1. CASE UNCHANGED <<reserved, activeIds>> /\ uncapped' = uncapped
      BY <1>a, <3>1
    <3>2. CASE Pump(reserved \ {id}, activeIds, {}) /\ uncapped' = uncapped
      <4> DEFINE tokens == reserved \ {id}
      <4>1. tokens \in SUBSET reserved /\ activeIds \ uncapped \in SUBSET (activeIds \ uncapped)
        OBVIOUS
      <4>2. Pump(tokens, activeIds, {}) /\ uncapped' = uncapped  BY <3>2
      <4> HIDE DEF tokens
      <4>3. Taken(tokens, activeIds \ uncapped) <= MaxConcurrent /\ IsFiniteSet(tokens)
        BY <4>1, FewerKeepsCap
      <4> QED BY <1>0, <4>2, <4>3, SlotsCounted, PumpKeepsCap
    <3> QED BY <2>2, <3>1, <3>2 DEF OnStartFailed
  <2>3. CASE OnRetried(id)
    <3>1. activeIds' \ uncapped' = activeIds \ uncapped /\ reserved' = reserved
      BY <1>0, <2>3 DEF OnRetried
    <3> QED BY <3>1 DEF CapOnAdmission
  <2>4. CASE OnComplete(id) \/ OnError(id) \/ OnPaused(id) \/ OnResumeFailed(id)
             \/ OnCancelled(id) \/ OnPurged(id)
    <3>1. (\E more : Release(id, more)) \/ UNCHANGED slots
      BY <2>4 DEF OnComplete, OnError, OnPaused, OnResumeFailed, OnCancelled, OnPurged
    <3> QED BY <3>1, <1>a, ReleaseKeepsCap DEF slots
  <2>5. CASE OnPauseFailed(id) \/ OnResumed(id) \/ OnRetryFailed(id) \/ OnMoveFailed(id)
    BY <2>5, <1>a DEF OnPauseFailed, OnResumed, OnRetryFailed, OnMoveFailed, slots
  <2> QED BY <1>8, <2>1, <2>2, <2>3, <2>4, <2>5
<1>9. CASE OnReconcile
  <2> DEFINE kept == activeIds \cap Known(Head(inbox).seen)
             free == uncapped \cap kept
  <2>1. CASE Pump(reserved, kept, {}) /\ uncapped' = free
    <3>1. /\ reserved \in SUBSET reserved /\ kept \ free \in SUBSET (activeIds \ uncapped)
          /\ free \subseteq kept /\ kept \in SUBSET Id
      BY <1>0
    <3> HIDE DEF kept, free
    <3>2. Taken(reserved, kept \ free) <= MaxConcurrent /\ IsFiniteSet(kept)
      BY <3>1, FewerKeepsCap, IdsFinite
    <3> QED BY <1>0, <2>1, <3>1, <3>2, SlotsCounted, PumpKeepsCap
  <2>2. CASE UNCHANGED slots
    BY <1>a, <2>2 DEF slots
  <2> QED BY <1>9, <2>1, <2>2 DEF OnReconcile
<1>10. CASE OnRestore
  BY <1>10, <1>a DEF OnRestore, slots
<1>11. CASE UNCHANGED vars
  BY <1>11, <1>a DEF vars, slots
<1> QED BY <1>1, <1>2, <1>3, <1>4, <1>5, <1>6, <1>7, <1>8, <1>9, <1>10, <1>11
        DEF Next, JavaScript

LEMMA CapInit == Init => CapInv
<1> SUFFICES ASSUME Init PROVE CapInv
  OBVIOUS
<1>1. TypeOK  BY InitTypes
<1>2. StartsInv
  BY DEF Init, StartsInv, Starting, CallFor, InInbox
<1>3. CapOnAdmission
  <2>1. Cardinality({}) = 0  BY FS_EmptySet
  <2> QED BY <2>1, BoundsAssumption DEF Init, CapOnAdmission, Taken
<1> QED BY <1>1, <1>2, <1>3 DEF CapInv

\* However starts, resumes, answers, events, polls and restores interleave, the slots
\* taken by comparing with MaxConcurrent never exceed it.
THEOREM CapHolds == Spec => []CapOnAdmission
<1>1. Init => CapInv  BY CapInit
<1>2. CapInv /\ [Next]_vars => CapInv'
  BY TypesInductive, StartsInvInductive, CapInductive DEF CapInv
<1>3. CapInv => CapOnAdmission
  BY DEF CapInv
<1> QED BY <1>1, <1>2, <1>3, PTL DEF Spec

-----------------------------------------------------------------------------
(* A first-come first-served semaphore.                                    *)

\* Adopting what the native layer resumed by itself is outside the semaphore.
NoRelaunch == MaxRestores = 0 /\ MaxKills = 0

\* The service has had the native id of this start.
Begun(id) ==
  \/ entry[id] # "none" \/ id \in activeIds
  \/ CallFor({"retry"}, id) \/ InInbox({"retried"}, id)

\* A start whose native half is pending has no id yet; tokens belong to starts that
\* are not sidecars; no restore is in progress.
ApartInv ==
  /\ \A id \in Id : Begun(id) => id <= startSeq /\ ~ Starting(id)
  /\ reserved \subseteq 1 .. startSeq /\ sidecar \subseteq 1 .. startSeq
  /\ reserved \cap sidecar = {}
  /\ poll["restore"].stage = "idle"
  /\ \A i \in 1 .. Len(inbox) : inbox[i].what # "restore"

\* The inductive invariant.
FifoInv == TypeOK /\ StartsInv /\ ApartInv /\ WorkConserving
-----------------------------------------------------------------------------
(* Messages                                                                *)

\* Taking a message leaves the others.
LEMMA TakenMessage ==
  ASSUME inbox \in Seq(Message), inbox # <<>>, inbox' = Tail(inbox)
  PROVE  /\ \A what, id : InInbox(what, id)' => InInbox(what, id)
         /\ \A i \in 1 .. Len(inbox') : \E j \in 1 .. Len(inbox) : inbox'[i] = inbox[j]
         /\ 1 \in 1 .. Len(inbox) /\ inbox[1] = Head(inbox)
<1>1. /\ Len(inbox') = Len(inbox) - 1 /\ Len(inbox) \in Nat \ {0} /\ inbox[1] = Head(inbox)
      /\ \A i \in 1 .. Len(inbox') : i + 1 \in 1 .. Len(inbox) /\ inbox'[i] = inbox[i + 1]
  OBVIOUS
<1> QED BY <1>1 DEF InInbox

\* Posting a message adds that one.
LEMMA PostedMessage ==
  ASSUME inbox \in Seq(Message), NEW m \in Message, inbox' = Append(inbox, m)
  PROVE  /\ \A what, id : InInbox(what, id)' =>
              InInbox(what, id) \/ (m.what \in what /\ m.id = id)
         /\ \A i \in 1 .. Len(inbox') :
              inbox'[i] = m \/ \E j \in 1 .. Len(inbox) : inbox'[i] = inbox[j]
<1>1. /\ Len(inbox') = Len(inbox) + 1 /\ Len(inbox) \in Nat
      /\ inbox'[Len(inbox) + 1] = m
      /\ \A i \in 1 .. Len(inbox) : inbox'[i] = inbox[i]
  OBVIOUS
<1>2. \A i \in 1 .. Len(inbox') : i \in 1 .. Len(inbox) \/ i = Len(inbox) + 1
  BY <1>1
<1>3. \A i \in 1 .. Len(inbox') :
        inbox'[i] = m \/ (i \in 1 .. Len(inbox) /\ inbox'[i] = inbox[i])
  BY <1>1, <1>2
<1> QED BY <1>3 DEF InInbox

-----------------------------------------------------------------------------
(* Starts and ids                                                          *)

\* This step takes the answer to the start of `id'.
Answered(id) ==
  /\ inbox # <<>> /\ inbox' = Tail(inbox)
  /\ Head(inbox).what = "started" /\ Head(inbox).id = id

\* What every step does to a start: it may be made, under an unused number, and its
\* id becomes known only with the answer.
Careful(id) ==
  /\ Starting(id)' => Starting(id) \/ (startSeq < id /\ id <= startSeq')
  /\ CallFor(StartCalls, id)' => CallFor(StartCalls, id) \/ startSeq < id
  /\ Begun(id)' => Begun(id) \/ Answered(id)

\* A step that starts nothing and gives nobody an id.
LEMMA CarefulQuiet ==
  ASSUME NEW id,
         CallFor(StartCalls, id)' => CallFor(StartCalls, id),
         CallFor({"retry"}, id)' => CallFor({"retry"}, id),
         InInbox(StartAnswers, id)' => InInbox(StartAnswers, id),
         InInbox({"retried"}, id)' => InInbox({"retried"}, id),
         entry'[id] # "none" => entry[id] # "none",
         id \in activeIds' => id \in activeIds
  PROVE  Careful(id)
BY DEF Careful, Starting, Begun, StartCalls, StartAnswers, CallFor, InInbox

\* The calls of a step: what it adds besides starts is no retry.
LEMMA CallsKept ==
  ASSUME NEW id \in Id, NEW new \in SUBSET Nat, NEW more,
         \A c \in more : c.op \notin {"start", "enqueue", "retry"},
         calls' \subseteq calls \cup more \cup [op : {"start"}, id : new]
  PROVE  /\ CallFor(StartCalls, id)' => CallFor(StartCalls, id) \/ id \in new
         /\ CallFor({"retry"}, id)' => CallFor({"retry"}, id)
BY DEF CallFor, StartCalls

\* pump() makes starts under unused numbers and gives nobody an id.
LEMMA CarefulPump ==
  ASSUME TypeOK, NEW id \in Id, NEW tokens \in SUBSET Id, NEW ids \in SUBSET activeIds, NEW more,
         \A c \in more : c.op \notin {"start", "enqueue", "retry"},
         Pump(tokens, ids, more), inbox # <<>>, inbox' = Tail(inbox),
         entry'[id] # "none" => entry[id] # "none"
  PROVE  Careful(id)
<1> DEFINE n   == Admissible(Taken(tokens, ids))
           new == (startSeq + 1) .. (startSeq + n)
<1>1. n \in Nat /\ startSeq \in Nat /\ inbox \in Seq(Message)
  <2>1. startQueue \in Seq(ModelKey) /\ ids \in SUBSET Id /\ startSeq \in Nat
        /\ inbox \in Seq(Message)
    BY DEF TypeOK, SlotsOK, BridgeOK
  <2>2. Taken(tokens, ids) \in Nat  BY <2>1, IdsFinite, TakenNat
  <2>3. n \in 0 .. Len(startQueue)  BY <2>1, <2>2, AdmissibleFits
  <2> QED BY <2>1, <2>3
<1>2. /\ activeIds' = ids /\ startSeq' = startSeq + n
      /\ calls' = calls \cup more \cup [op : {"start"}, id : new]
  BY DEF Pump
<1> HIDE DEF n
<1>3. new \in SUBSET Nat /\ \A i \in new : startSeq < i /\ i <= startSeq'
  BY <1>1, <1>2
<1> HIDE DEF new
<1>4. /\ CallFor(StartCalls, id)' => CallFor(StartCalls, id) \/ id \in new
      /\ CallFor({"retry"}, id)' => CallFor({"retry"}, id)
  BY <1>2, <1>3, CallsKept
<1>5. \A what : InInbox(what, id)' => InInbox(what, id)
  BY <1>1, TakenMessage
<1>6. /\ InInbox(StartAnswers, id)' => InInbox(StartAnswers, id)
      /\ InInbox({"retried"}, id)' => InInbox({"retried"}, id)
  BY <1>5 DEF StartAnswers, InInbox
<1> QED BY <1>2, <1>3, <1>4, <1>6
        DEF Careful, Starting, Begun, StartCalls, StartAnswers, CallFor, InInbox

\* release() gives nobody an id.
LEMMA CarefulRelease ==
  ASSUME TypeOK, NEW id \in Id, NEW other \in Id, NEW more,
         \A c \in more : c.op \notin {"start", "enqueue", "retry"},
         Release(other, more), inbox # <<>>, inbox' = Tail(inbox),
         entry'[id] # "none" => entry[id] # "none"
  PROVE  Careful(id)
<1>1. CASE Pump(reserved, activeIds \ {other}, more)
  <2> DEFINE ids == activeIds \ {other}
  <2>1. reserved \in SUBSET Id /\ ids \in SUBSET activeIds /\ Pump(reserved, ids, more)
    BY <1>1 DEF TypeOK, SlotsOK
  <2> HIDE DEF ids
  <2> QED BY <2>1, CarefulPump
<1>2. CASE calls' = calls \cup more /\ activeIds' = activeIds
  <2> DEFINE new == {}
  <2>1. new \in SUBSET Nat /\ calls' \subseteq calls \cup more \cup [op : {"start"}, id : new]
    BY <1>2
  <2> HIDE DEF new
  <2>2. /\ CallFor(StartCalls, id)' => CallFor(StartCalls, id) \/ id \in new
        /\ CallFor({"retry"}, id)' => CallFor({"retry"}, id)
    BY <2>1, CallsKept
  <2>3. inbox \in Seq(Message)  BY DEF TypeOK, BridgeOK
  <2>4. \A what : InInbox(what, id)' => InInbox(what, id)
    BY <2>3, TakenMessage
  <2>5. /\ InInbox(StartAnswers, id)' => InInbox(StartAnswers, id)
        /\ InInbox({"retried"}, id)' => InInbox({"retried"}, id)
    BY <2>4 DEF StartAnswers, InInbox
  <2>6. id \notin new  BY DEF new
  <2> QED BY <1>2, <2>2, <2>5, <2>6, CarefulQuiet
<1> QED BY <1>1, <1>2 DEF Release, slots

\* A step that takes a message, and makes no start, no retry and no id known.
LEMMA CarefulTake ==
  ASSUME TypeOK, NEW id \in Id, NEW more,
         \A c \in more : c.op \notin {"start", "enqueue", "retry"},
         inbox # <<>>, inbox' = Tail(inbox), calls' \subseteq calls \cup more,
         entry'[id] # "none" => entry[id] # "none", activeIds' \subseteq activeIds
  PROVE  Careful(id)
<1> DEFINE new == {}
<1>1. new \in SUBSET Nat /\ calls' \subseteq calls \cup more \cup [op : {"start"}, id : new]
  OBVIOUS
<1>2. id \notin new  OBVIOUS
<1> HIDE DEF new
<1>3. /\ CallFor(StartCalls, id)' => CallFor(StartCalls, id) \/ id \in new
      /\ CallFor({"retry"}, id)' => CallFor({"retry"}, id)
  BY <1>1, CallsKept
<1>4. inbox \in Seq(Message)  BY DEF TypeOK, BridgeOK
<1>5. \A what : InInbox(what, id)' => InInbox(what, id)
  BY <1>4, TakenMessage
<1>6. /\ InInbox(StartAnswers, id)' => InInbox(StartAnswers, id)
      /\ InInbox({"retried"}, id)' => InInbox({"retried"}, id)
  BY <1>5 DEF StartAnswers, InInbox
<1> QED BY <1>2, <1>3, <1>6, CarefulQuiet

\* A step of the native layer that posts nothing about starts and retries, and takes
\* at most calls away.
LEMMA CarefulPost ==
  ASSUME TypeOK, NEW id \in Id, calls' \subseteq calls,
         UNCHANGED <<entry, activeIds>>,
         \/ inbox' = inbox
         \/ \E m \in Message : /\ inbox' = Append(inbox, m)
                               /\ m.what \notin StartAnswers \cup {"retried"}
  PROVE  Careful(id)
<1>1. inbox \in Seq(Message)  BY DEF TypeOK, BridgeOK
<1>2. ASSUME NEW what, what \subseteq StartAnswers \cup {"retried"}, InInbox(what, id)'
      PROVE  InInbox(what, id)
  <2>1. CASE inbox' = inbox  BY <1>2, <2>1 DEF InInbox
  <2>2. ASSUME NEW m \in Message, inbox' = Append(inbox, m),
               m.what \notin StartAnswers \cup {"retried"}
        PROVE  InInbox(what, id)
    <3>1. \A w, i : InInbox(w, i)' => InInbox(w, i) \/ (m.what \in w /\ m.id = i)
      BY <1>1, <2>2, PostedMessage
    <3>2. InInbox(what, id)' => InInbox(what, id) \/ m.what \in what  BY <3>1 DEF InInbox
    <3> QED BY <1>2, <2>2, <3>2
  <2> QED BY <2>1, <2>2
<1>3. /\ InInbox(StartAnswers, id)' => InInbox(StartAnswers, id)
      /\ InInbox({"retried"}, id)' => InInbox({"retried"}, id)
  <2>1. StartAnswers \subseteq StartAnswers \cup {"retried"}
        /\ {"retried"} \subseteq StartAnswers \cup {"retried"}
    OBVIOUS
  <2>2. InInbox(StartAnswers, id)' => InInbox(StartAnswers, id)
    BY <1>2, <2>1 DEF StartAnswers, InInbox
  <2> QED BY <1>2, <2>1, <2>2 DEF InInbox
<1>4. /\ CallFor(StartCalls, id)' => CallFor(StartCalls, id)
      /\ CallFor({"retry"}, id)' => CallFor({"retry"}, id)
  BY DEF CallFor, StartCalls
<1> QED BY <1>3, <1>4, CarefulQuiet

\* The native half of a start, and of a retry.
LEMMA CarefulNative ==
  ASSUME TypeOK, NEW id \in Id, NEW other \in Id,
         \/ NativeInsert(other) \/ NativeEnqueue(other) \/ NativeStartFails(other)
         \/ NativeRetry(other)
  PROVE  Careful(id)
<1>0. inbox \in Seq(Message)  BY DEF TypeOK, BridgeOK
<1>1. entry' = entry /\ activeIds' = activeIds
  BY DEF NativeInsert, NativeEnqueue, NativeStartFails, NativeRetry, serviceVars, slots, store
<1>2. CASE NativeInsert(other)
  <2>1. /\ [op |-> "start", id |-> other] \in calls /\ inbox' = inbox
        /\ calls' = (calls \ {[op |-> "start", id |-> other]})
                      \cup {[op |-> "enqueue", id |-> other]}
    BY <1>2 DEF NativeInsert
  <2>2. /\ CallFor(StartCalls, id)' => CallFor(StartCalls, id)
        /\ CallFor({"retry"}, id)' => CallFor({"retry"}, id)
    BY <2>1 DEF CallFor, StartCalls
  <2>3. /\ InInbox(StartAnswers, id)' => InInbox(StartAnswers, id)
        /\ InInbox({"retried"}, id)' => InInbox({"retried"}, id)
    BY <2>1 DEF InInbox, StartAnswers
  <2> QED BY <1>1, <2>2, <2>3, CarefulQuiet
<1>3. CASE NativeEnqueue(other) \/ NativeStartFails(other)
  <2>1. PICK op \in StartCalls, what \in StartAnswers :
          /\ [op |-> op, id |-> other] \in calls
          /\ calls' = calls \ {[op |-> op, id |-> other]}
          /\ inbox' = Append(inbox, [what |-> what, id |-> other])
    BY <1>3 DEF NativeEnqueue, NativeStartFails, Serve, Post, StartCalls, StartAnswers
  <2>2. [what |-> what, id |-> other] \in Message
    BY DEF Message, Outcome, StartAnswers
  <2>3. \A w, i : InInbox(w, i)' => InInbox(w, i) \/ (what \in w /\ other = i)
    BY <1>0, <2>1, <2>2, PostedMessage
  <2>4. InInbox({"retried"}, id)' => InInbox({"retried"}, id)
    BY <2>3 DEF StartAnswers
  <2>5. InInbox(StartAnswers, id)' => InInbox(StartAnswers, id) \/ other = id
    BY <2>3 DEF StartAnswers, InInbox
  <2>6. CallFor(StartCalls, other)  BY <2>1 DEF CallFor
  <2>7. /\ CallFor(StartCalls, id)' => CallFor(StartCalls, id)
        /\ CallFor({"retry"}, id)' => CallFor({"retry"}, id)
    BY <2>1 DEF CallFor, StartCalls
  <2>8. Starting(id)' => Starting(id)
    BY <2>5, <2>6, <2>7 DEF Starting, StartCalls, StartAnswers, CallFor, InInbox
  <2>9. Begun(id)' => Begun(id)
    BY <1>1, <2>4, <2>7 DEF Begun
  <2> QED BY <2>7, <2>8, <2>9 DEF Careful, CallFor, StartCalls
<1>4. CASE NativeRetry(other)
  <2>1. /\ [op |-> "retry", id |-> other] \in calls /\ calls' \subseteq calls
        /\ inbox' = Append(inbox, [what |-> "retried", id |-> other])
    BY <1>4 DEF NativeRetry, ServeControl, Post
  <2>2. [what |-> "retried", id |-> other] \in Message
    BY DEF Message, Outcome
  <2>3. \A w, i : InInbox(w, i)' => InInbox(w, i) \/ ("retried" \in w /\ other = i)
    BY <1>0, <2>1, <2>2, PostedMessage
  <2>4. InInbox(StartAnswers, id)' => InInbox(StartAnswers, id)
    <3>1. InInbox({"started", "startFailed"}, id)' => InInbox({"started", "startFailed"}, id)
      BY <2>3
    <3> QED BY <3>1 DEF StartAnswers, InInbox
  <2>5. InInbox({"retried"}, id)' => InInbox({"retried"}, id) \/ CallFor({"retry"}, id)
    BY <2>1, <2>3 DEF CallFor
  <2>6. /\ CallFor(StartCalls, id)' => CallFor(StartCalls, id)
        /\ CallFor({"retry"}, id)' => CallFor({"retry"}, id)
    BY <2>1 DEF CallFor, StartCalls
  <2>7. Starting(id)' => Starting(id)
    BY <2>4, <2>6 DEF Starting, StartCalls, StartAnswers, CallFor, InInbox
  <2>8. Begun(id)' => Begun(id)
    BY <1>1, <2>5, <2>6 DEF Begun
  <2> QED BY <2>6, <2>7, <2>8 DEF Careful, CallFor, StartCalls
<1> QED BY <1>2, <1>3, <1>4

\* Every handler keeps starts and ids apart.
LEMMA CarefulHandler ==
  ASSUME TypeOK, NEW id \in Id, NEW other \in Id,
         \/ OnStarted(other) \/ OnStartFailed(other) \/ OnComplete(other) \/ OnError(other)
         \/ OnPaused(other) \/ OnPauseFailed(other) \/ OnResumed(other) \/ OnResumeFailed(other)
         \/ OnRetried(other) \/ OnRetryFailed(other)
         \/ OnCancelled(other) \/ OnPurged(other) \/ OnMoveFailed(other)
  PROVE  Careful(id)
<1>0. /\ inbox \in Seq(Message) /\ entry \in [Id -> EntryStatus]
      /\ reserved \subseteq Id /\ activeIds \subseteq Id
  BY DEF TypeOK, SlotsOK, StoreOK, BridgeOK
<1>1. inbox # <<>> /\ inbox' = Tail(inbox) /\ Head(inbox).id = other
  BY DEF OnStarted, OnStartFailed, OnComplete, OnError, OnPaused, OnPauseFailed,
         OnResumed, OnResumeFailed, OnRetried, OnRetryFailed, OnCancelled, OnPurged,
         OnMoveFailed, Take
<1>2. ASSUME NEW s, SetStatus(other, s)
      PROVE  entry'[id] # "none" => entry[id] # "none"
  BY <1>0, <1>2 DEF SetStatus
<1>3. \A what : InInbox(what, id)' => InInbox(what, id)
  BY <1>0, <1>1, TakenMessage
<1>4. /\ InInbox(StartAnswers, id)' => InInbox(StartAnswers, id)
      /\ InInbox({"retried"}, id)' => InInbox({"retried"}, id)
  BY <1>3 DEF StartAnswers, InInbox
<1> DEFINE none == {}
<1>5. \A c \in none : c.op \notin {"start", "enqueue", "retry"}
  OBVIOUS
<1>6. CASE OnStarted(other)
  <2>1. CASE shutDown /\ other \notin sidecar
    <3> DEFINE more == {[op |-> "discard", id |-> other]}
    <3>1. /\ calls' \subseteq calls \cup more /\ activeIds' \subseteq activeIds
          /\ entry' = entry
      BY <1>6, <2>1 DEF OnStarted, store
    <3>2. \A c \in more : c.op \notin {"start", "enqueue", "retry"}
      OBVIOUS
    <3> HIDE DEF more
    <3> QED BY <1>1, <3>1, <3>2, CarefulTake
  <2>2. CASE ~ (shutDown /\ other \notin sidecar)
    <3>1. /\ calls' = calls /\ activeIds' \subseteq activeIds \cup {other}
          /\ entry' = [entry EXCEPT ![other] = "active"]
          /\ Head(inbox).what = "started"
      BY <1>6, <2>2 DEF OnStarted, Take
    <3>2. /\ CallFor(StartCalls, id)' => CallFor(StartCalls, id)
          /\ CallFor({"retry"}, id)' => CallFor({"retry"}, id)
      BY <3>1 DEF CallFor, StartCalls
    <3>3. CASE id = other
      <4>1. Answered(id)  BY <1>1, <3>1, <3>3 DEF Answered
      <4> QED BY <1>4, <3>2, <4>1
              DEF Careful, Starting, StartCalls, StartAnswers, CallFor, InInbox
    <3>4. CASE id # other
      <4>1. entry'[id] = entry[id] /\ (id \in activeIds' => id \in activeIds)
        BY <1>0, <3>1, <3>4
      <4> QED BY <1>4, <3>2, <4>1, CarefulQuiet
    <3> QED BY <3>3, <3>4
  <2> QED BY <2>1, <2>2
<1>7. CASE OnStartFailed(other)
  <2>1. entry' = entry  BY <1>7 DEF OnStartFailed, store
  <2>2. CASE Pump(reserved \ {other}, activeIds, {})
    <3> DEFINE tokens == reserved \ {other}
               ids == activeIds
    <3>1. tokens \in SUBSET Id /\ ids \in SUBSET activeIds /\ Pump(tokens, ids, none)
      BY <1>0, <2>2
    <3> HIDE DEF tokens, ids, none
    <3> QED BY <1>1, <1>5, <2>1, <3>1, CarefulPump
  <2>3. CASE UNCHANGED <<reserved, activeIds, startQueue, startSeq, calls>>
    <3>1. calls' \subseteq calls \cup none /\ activeIds' \subseteq activeIds  BY <2>3
    <3> HIDE DEF none
    <3> QED BY <1>1, <1>5, <2>1, <3>1, CarefulTake
  <2> QED BY <1>7, <2>2, <2>3 DEF OnStartFailed
<1>8. CASE \/ OnComplete(other) \/ OnError(other) \/ OnPaused(other) \/ OnResumeFailed(other)
           \/ OnCancelled(other) \/ OnPurged(other)
  <2>1. entry'[id] # "none" => entry[id] # "none"
    BY <1>2, <1>8 DEF OnComplete, OnError, OnPaused, OnResumeFailed, OnCancelled, OnPurged, store
  <2>2. \/ \E more \in {{}, {[op |-> "move", id |-> other]}} : Release(other, more)
        \/ calls' = calls /\ activeIds' = activeIds
    BY <1>8 DEF OnComplete, OnError, OnPaused, OnResumeFailed, OnCancelled, OnPurged, slots
  <2>3. ASSUME NEW more \in {{}, {[op |-> "move", id |-> other]}}, Release(other, more)
        PROVE  Careful(id)
    <3>1. \A c \in more : c.op \notin {"start", "enqueue", "retry"}  BY <2>3
    <3> QED BY <1>1, <2>1, <2>3, <3>1, CarefulRelease
  <2>4. CASE calls' = calls /\ activeIds' = activeIds
    <3>1. calls' \subseteq calls \cup none /\ activeIds' \subseteq activeIds  BY <2>4
    <3> HIDE DEF none
    <3> QED BY <1>1, <1>5, <2>1, <3>1, CarefulTake
  <2> QED BY <2>2, <2>3, <2>4
<1>9. CASE OnPauseFailed(other) \/ OnResumed(other) \/ OnRetryFailed(other) \/ OnMoveFailed(other)
  <2> DEFINE more == {[op |-> "purge", id |-> other]}
  <2>1. /\ calls' \subseteq calls \cup more /\ activeIds' \subseteq activeIds
    BY <1>9 DEF OnPauseFailed, OnResumed, OnRetryFailed, OnMoveFailed, slots
  <2>2. entry'[id] # "none" => entry[id] # "none"
    BY <1>2, <1>9 DEF OnPauseFailed, OnResumed, OnRetryFailed, OnMoveFailed, store
  <2>3. \A c \in more : c.op \notin {"start", "enqueue", "retry"}
    OBVIOUS
  <2> HIDE DEF more
  <2> QED BY <1>1, <2>1, <2>2, <2>3, CarefulTake
<1>10. CASE OnRetried(other)
  <2>1. /\ calls' = calls /\ activeIds' = activeIds \cup {other} /\ entry' = entry
        /\ Head(inbox).what = "retried"
    BY <1>10 DEF OnRetried, Take, store
  <2>2. /\ CallFor(StartCalls, id)' => CallFor(StartCalls, id)
        /\ CallFor({"retry"}, id)' => CallFor({"retry"}, id)
    BY <2>1 DEF CallFor, StartCalls
  <2>3. InInbox({"retried"}, other)
    <3>1. 1 \in 1 .. Len(inbox) /\ inbox[1] = Head(inbox)  BY <1>0, <1>1, TakenMessage
    <3> QED BY <1>1, <2>1, <3>1 DEF InInbox
  <2>4. Begun(id)' => Begun(id)
    BY <1>4, <2>1, <2>2, <2>3 DEF Begun
  <2>5. Starting(id)' => Starting(id)
    BY <1>4, <2>2 DEF Starting, StartCalls, StartAnswers, CallFor, InInbox
  <2> QED BY <2>2, <2>4, <2>5 DEF Careful, CallFor, StartCalls
<1> QED BY <1>6, <1>7, <1>8, <1>9, <1>10

\* What a user asks for keeps starts and ids apart.
LEMMA CarefulUser ==
  ASSUME TypeOK, NEW id \in Id, User
  PROVE  Careful(id)
<1>0. /\ inbox' = inbox /\ startSeq \in Nat /\ entry \in [Id -> EntryStatus]
  BY DEF User, Enqueue, CancelQueued, StartNow, StartSidecar, PauseDownload, ResumeDownload,
         RetryDownload, CancelDownload, StartReconcile, StartRestore, TypeOK, SlotsOK, StoreOK
<1>1. \A what : InInbox(what, id)' => InInbox(what, id)
  BY <1>0 DEF InInbox
<1>2. /\ InInbox(StartAnswers, id)' => InInbox(StartAnswers, id)
      /\ InInbox({"retried"}, id)' => InInbox({"retried"}, id)
  BY <1>0 DEF StartAnswers, InInbox
<1>3. CASE StartNow \/ StartSidecar
  <2>1. /\ calls' = calls \cup {[op |-> "start", id |-> startSeq + 1]}
        /\ startSeq' = startSeq + 1 /\ UNCHANGED <<entry, activeIds>>
    BY <1>3 DEF StartNow, StartSidecar, store
  <2>2. /\ CallFor(StartCalls, id)' => CallFor(StartCalls, id) \/ id = startSeq + 1
        /\ CallFor({"retry"}, id)' => CallFor({"retry"}, id)
    BY <2>1 DEF CallFor, StartCalls
  <2>3. id = startSeq + 1 => startSeq < id /\ id <= startSeq'
    BY <1>0, <2>1
  <2>4. Begun(id)' => Begun(id)
    BY <1>2, <2>1, <2>2 DEF Begun
  <2>5. Starting(id)' => Starting(id) \/ id = startSeq + 1
    BY <1>2, <2>2 DEF Starting, StartCalls, StartAnswers, CallFor, InInbox
  <2> QED BY <2>2, <2>3, <2>4, <2>5 DEF Careful, CallFor, StartCalls
<1>4. ASSUME NEW other \in Id, ResumeDownload(other) \/ RetryDownload(other)
      PROVE  Careful(id)
  <2>1. PICK op \in {"resume", "retry"} : calls' = calls \cup {[op |-> op, id |-> other]}
    BY <1>4 DEF ResumeDownload, RetryDownload, Control, Ask
  <2>2. /\ entry[other] # "none" /\ \A i \in Id : entry'[i] # "none" => entry[i] # "none" \/ i = other
        /\ activeIds' \subseteq activeIds \cup {other}
    BY <1>0, <1>4 DEF ResumeDownload, RetryDownload, Control, Ask, slots, store
  <2>3. /\ CallFor(StartCalls, id)' => CallFor(StartCalls, id)
        /\ CallFor({"retry"}, id)' => CallFor({"retry"}, id) \/ id = other
    BY <2>1 DEF CallFor, StartCalls
  <2>4. Begun(id)' => Begun(id)
    BY <1>2, <2>2, <2>3 DEF Begun
  <2>5. Starting(id)' => Starting(id)
    BY <1>2, <2>3 DEF Starting, StartCalls, StartAnswers, CallFor, InInbox
  <2> QED BY <2>3, <2>4, <2>5 DEF Careful, CallFor, StartCalls
<1>5. ASSUME NEW other \in Id, PauseDownload(other) \/ CancelDownload(other)
      PROVE  Careful(id)
  <2>1. PICK op \in {"pause", "cancel"} : calls' = calls \cup {[op |-> op, id |-> other]}
    BY <1>5 DEF PauseDownload, CancelDownload, Control, Ask
  <2>2. UNCHANGED <<entry, activeIds>>
    BY <1>5 DEF PauseDownload, CancelDownload, slots, store
  <2>3. /\ CallFor(StartCalls, id)' => CallFor(StartCalls, id)
        /\ CallFor({"retry"}, id)' => CallFor({"retry"}, id)
    BY <2>1 DEF CallFor, StartCalls
  <2> QED BY <1>2, <2>2, <2>3, CarefulQuiet
<1>6. CASE (\E k \in ModelKey : Enqueue(k) \/ CancelQueued(k)) \/ StartReconcile \/ StartRestore
  <2>1. UNCHANGED <<entry, activeIds, calls>>
    BY <1>6 DEF Enqueue, CancelQueued, StartReconcile, StartRestore, slots, store
  <2>2. /\ CallFor(StartCalls, id)' => CallFor(StartCalls, id)
        /\ CallFor({"retry"}, id)' => CallFor({"retry"}, id)
    BY <2>1 DEF CallFor, StartCalls
  <2> QED BY <1>2, <2>1, <2>2, CarefulQuiet
<1> QED BY <1>3, <1>4, <1>5, <1>6 DEF User

\* Every step keeps starts and ids apart, where nothing is restored.
LEMMA CarefulStep ==
  ASSUME NoRelaunch, TypeOK, ApartInv, [Next]_vars, NEW id \in Id
  PROVE  Careful(id)
<1>0. /\ used.restores \in Nat /\ used.kills \in Nat /\ poll \in [Reader -> PollState]
      /\ inbox \in Seq(Message) /\ row \in Rows /\ activeIds \subseteq Id /\ reserved \subseteq Id
  BY DEF TypeOK, SlotsOK, StoreOK, BridgeOK
<1>a. \A what \in Outcome, i \in Id : [what |-> what, id |-> i] \in Message
  BY DEF Message
<1>b. ASSUME NEW what \in Outcome, NEW other \in Id, Post(what, other),
             what \notin StartAnswers \cup {"retried"}
      PROVE  \E m \in Message : /\ inbox' = Append(inbox, m)
                                /\ m.what \notin StartAnswers \cup {"retried"}
  BY <1>a, <1>b DEF Post
<1>c. Outcome \ (StartAnswers \cup {"retried"})
        = {"paused", "pauseFailed", "resumed", "resumeFailed", "retryFailed",
           "cancelled", "moveFailed", "purged", "complete", "error"}
  BY DEF Outcome, StartAnswers
<1>1. CASE User  BY <1>1, CarefulUser
<1>2. CASE Cleanup \/ UNCHANGED vars
  <2>1. /\ UNCHANGED <<calls, inbox, entry>> /\ activeIds' \subseteq activeIds
    BY <1>2 DEF Cleanup, vars, slots, store
  <2> QED BY <2>1, CarefulQuiet DEF CallFor, InInbox, StartCalls, StartAnswers
<1>3. ASSUME NEW other \in Id, Native(other)
      PROVE  Careful(id)
  <2>1. CASE \/ NativeInsert(other) \/ NativeEnqueue(other) \/ NativeStartFails(other)
             \/ NativeRetry(other)
    BY <2>1, CarefulNative
  <2>2. CASE \/ NativePause(other) \/ NativeResume(other) \/ NativeRetryFails(other)
             \/ NativeCancel(other) \/ NativeMove(other)
    <3>1. calls' \subseteq calls /\ UNCHANGED <<entry, activeIds>>
      BY <2>2 DEF NativePause, NativeResume, NativeRetryFails, NativeCancel, NativeMove, Serve,
           ServeControl, serviceVars, slots, store
    <3>2. inbox' = inbox \/ \E what \in Outcome \ (StartAnswers \cup {"retried"}) : Post(what, other)
      BY <2>2, <1>c DEF NativePause, NativeResume, NativeRetryFails, NativeCancel, NativeMove
    <3> QED BY <1>b, <3>1, <3>2, CarefulPost
  <2> QED BY <1>3, <2>1, <2>2 DEF Native
<1>4. ASSUME NEW other \in Id, Transfer(other) \/ EchoError(other)
      PROVE  Careful(id)
  <2>1. UNCHANGED <<calls, entry, activeIds>>
    BY <1>4 DEF Transfer, TransferComplete, TransferFail, EchoError, serviceVars, slots, store
  <2>2. inbox' = inbox \/ \E what \in Outcome \ (StartAnswers \cup {"retried"}) : Post(what, other)
    BY <1>4, <1>c DEF Transfer, TransferComplete, TransferFail, EchoError
  <2> QED BY <1>b, <2>1, <2>2, CarefulPost
<1>5. CASE Reads
  <2>1. UNCHANGED <<calls, entry, activeIds>>
    BY <1>5 DEF Reads, ReadRows, PostRows, NativeObserve, PollVars, slots, store
  <2>2. inbox' = inbox \/ \E m \in Message : /\ inbox' = Append(inbox, m)
                                             /\ m.what \notin StartAnswers \cup {"retried"}
    <3>1. CASE \E r \in Reader : PostRows(r)
      <4>1. PICK r \in Reader : PostRows(r)  BY <3>1
      <4>2. [what |-> r, seen |-> poll[r].seen] \in Message
        BY <1>0 DEF PollState, Message
      <4>3. r \notin StartAnswers \cup {"retried"}  BY DEF Reader, StartAnswers
      <4> QED BY <4>1, <4>2, <4>3 DEF PostRows
    <3>2. CASE (\E r \in Reader : ReadRows(r)) \/ NativeObserve
      BY <3>2 DEF ReadRows, NativeObserve
    <3> QED BY <1>5, <3>1, <3>2 DEF Reads
  <2> QED BY <2>1, <2>2, CarefulPost
<1>6. CASE AdoptActive \/ Kill
  BY <1>0, <1>6 DEF AdoptActive, Kill, ApartInv, NoRelaunch
<1>7. ASSUME NEW other \in Id,
             \/ OnStarted(other) \/ OnStartFailed(other) \/ OnComplete(other) \/ OnError(other)
             \/ OnPaused(other) \/ OnPauseFailed(other) \/ OnResumed(other) \/ OnResumeFailed(other)
             \/ OnRetried(other) \/ OnRetryFailed(other)
             \/ OnCancelled(other) \/ OnPurged(other) \/ OnMoveFailed(other)
      PROVE  Careful(id)
  BY <1>7, CarefulHandler
<1>8. CASE OnReconcile
  <2> DEFINE none == {}
             ids == activeIds \cap Known(Head(inbox).seen)
             tokens == reserved
  <2>1. \A c \in none : c.op \notin {"start", "enqueue", "retry"}
    OBVIOUS
  <2>2. inbox # <<>> /\ inbox' = Tail(inbox) /\ entry' = entry
    BY <1>8 DEF OnReconcile, TakeRows, store
  <2>3. CASE Pump(reserved, ids, {})
    <3>1. tokens \in SUBSET Id /\ ids \in SUBSET activeIds /\ Pump(tokens, ids, none)
      BY <1>0, <2>3
    <3> HIDE DEF none, ids, tokens
    <3> QED BY <2>1, <2>2, <3>1, CarefulPump
  <2>4. CASE UNCHANGED <<slots, calls>>
    <3>1. calls' \subseteq calls \cup none /\ activeIds' \subseteq activeIds
      BY <2>4 DEF slots
    <3> HIDE DEF none
    <3> QED BY <2>1, <2>2, <3>1, CarefulTake
  <2> QED BY <1>8, <2>3, <2>4 DEF OnReconcile
<1>9. CASE OnRestore
  <2>1. inbox # <<>> /\ Head(inbox).what = "restore"  BY <1>9 DEF OnRestore, TakeRows
  <2>2. 1 \in 1 .. Len(inbox) /\ inbox[1] = Head(inbox)  BY <1>0, <2>1
  <2> QED BY <2>1, <2>2 DEF ApartInv
<1> QED BY <1>1, <1>2, <1>3, <1>4, <1>5, <1>6, <1>7, <1>8, <1>9 DEF Next, JavaScript

-----------------------------------------------------------------------------
(* Tokens                                                                  *)

\* What every step does to tokens and sidecars: the new ones have unused numbers,
\* and a start becomes one or the other.
Tokens ==
  /\ startSeq <= startSeq'
  /\ reserved' \subseteq reserved \cup ((startSeq + 1) .. startSeq')
  /\ \/ sidecar' = sidecar
     \/ /\ reserved' = reserved
        /\ sidecar' = sidecar \cup {startSeq + 1} /\ startSeq' = startSeq + 1

\* pump() gives tokens to the starts it makes.
LEMMA PumpTokens ==
  ASSUME TypeOK, NEW tokens \in SUBSET reserved, NEW ids \in SUBSET Id, NEW more,
         Pump(tokens, ids, more), sidecar' = sidecar
  PROVE  Tokens
<1> DEFINE n == Admissible(Taken(tokens, ids))
<1>1. n \in Nat /\ startSeq \in Nat
  <2>1. startQueue \in Seq(ModelKey) /\ tokens \in SUBSET Id /\ startSeq \in Nat
    BY DEF TypeOK, SlotsOK
  <2>2. Taken(tokens, ids) \in Nat  BY <2>1, IdsFinite, TakenNat
  <2>3. n \in 0 .. Len(startQueue)  BY <2>1, <2>2, AdmissibleFits
  <2> QED BY <2>1, <2>3
<1>2. reserved' = tokens \cup ((startSeq + 1) .. (startSeq + n)) /\ startSeq' = startSeq + n
  BY DEF Pump
<1> HIDE DEF n
<1>3. startSeq <= startSeq'  BY <1>1, <1>2
<1> QED BY <1>2, <1>3 DEF Tokens

\* Every step of the model.
LEMMA TokensStep ==
  ASSUME TypeOK, [Next]_vars
  PROVE  Tokens
<1>0. /\ startSeq \in Nat /\ reserved \in SUBSET Id /\ activeIds \in SUBSET Id
  BY DEF TypeOK, SlotsOK
<1>a. ASSUME reserved' \subseteq reserved, startSeq' = startSeq, sidecar' = sidecar
      PROVE  Tokens
  BY <1>0, <1>a DEF Tokens
<1>1. CASE StartNow
  <2>1. /\ reserved' = reserved \cup {startSeq + 1} /\ startSeq' = startSeq + 1
        /\ sidecar' = sidecar
    BY <1>1 DEF StartNow
  <2> QED BY <1>0, <2>1 DEF Tokens
<1>2. CASE StartSidecar
  <2>1. /\ reserved' = reserved /\ startSeq' = startSeq + 1
        /\ sidecar' = sidecar \cup {startSeq + 1}
    BY <1>2 DEF StartSidecar
  <2> QED BY <1>0, <2>1 DEF Tokens
<1>3. CASE User /\ ~ StartNow /\ ~ StartSidecar
  BY <1>3, <1>a DEF User, Enqueue, CancelQueued, PauseDownload, ResumeDownload, RetryDownload,
       CancelDownload, Control, StartReconcile, StartRestore, slots
<1>4. CASE Cleanup \/ Kill
  BY <1>4, <1>a DEF Cleanup, Kill
<1>5. CASE \E id \in Id : Native(id) \/ Transfer(id) \/ EchoError(id)
  BY <1>5, <1>a DEF Native, NativeInsert, NativeEnqueue, NativeStartFails, NativePause,
       NativeResume, NativeRetry, NativeRetryFails, NativeCancel, NativeMove, Transfer,
       TransferComplete, TransferFail, EchoError, serviceVars, slots
<1>6. CASE Reads \/ AdoptActive
  BY <1>6, <1>a DEF Reads, ReadRows, PostRows, NativeObserve, PollVars, AdoptActive, slots
<1>7. ASSUME NEW id \in Id,
             \/ OnStarted(id) \/ OnStartFailed(id) \/ OnComplete(id) \/ OnError(id)
             \/ OnPaused(id) \/ OnPauseFailed(id) \/ OnResumed(id) \/ OnResumeFailed(id)
             \/ OnRetried(id) \/ OnRetryFailed(id)
             \/ OnCancelled(id) \/ OnPurged(id) \/ OnMoveFailed(id)
      PROVE  Tokens
  <2>0. sidecar' = sidecar
    BY <1>7 DEF OnStarted, OnStartFailed, OnComplete, OnError, OnPaused, OnPauseFailed,
            OnResumed, OnResumeFailed, OnRetried, OnRetryFailed, OnCancelled, OnPurged,
            OnMoveFailed, otherVars
  <2>1. CASE \/ OnStarted(id) \/ OnRetried(id) \/ OnPauseFailed(id) \/ OnResumed(id)
             \/ OnRetryFailed(id) \/ OnMoveFailed(id)
    BY <1>a, <2>0, <2>1 DEF OnStarted, OnRetried, OnPauseFailed, OnResumed, OnRetryFailed,
         OnMoveFailed, slots
  <2>2. CASE OnStartFailed(id)
    <3>1. CASE Pump(reserved \ {id}, activeIds, {})
      <4> DEFINE tokens == reserved \ {id}
      <4>1. tokens \in SUBSET reserved /\ Pump(tokens, activeIds, {})  BY <3>1
      <4> HIDE DEF tokens
      <4> QED BY <1>0, <2>0, <4>1, PumpTokens
    <3>2. CASE UNCHANGED <<reserved, startSeq>>
      BY <1>a, <2>0, <3>2
    <3> QED BY <2>2, <3>1, <3>2 DEF OnStartFailed
  <2>3. CASE \/ OnComplete(id) \/ OnError(id) \/ OnPaused(id) \/ OnResumeFailed(id)
             \/ OnCancelled(id) \/ OnPurged(id)
    <3>1. (\E more : Pump(reserved, activeIds \ {id}, more)) \/ UNCHANGED slots
      BY <2>3 DEF OnComplete, OnError, OnPaused, OnResumeFailed, OnCancelled, OnPurged, Release
    <3>2. ASSUME NEW more, Pump(reserved, activeIds \ {id}, more)
          PROVE  Tokens
      <4> DEFINE ids == activeIds \ {id}
                 tokens == reserved
      <4>1. ids \in SUBSET Id /\ tokens \in SUBSET reserved /\ Pump(tokens, ids, more)
        BY <1>0, <3>2
      <4> HIDE DEF ids, tokens
      <4> QED BY <2>0, <4>1, PumpTokens
    <3> QED BY <1>a, <2>0, <3>1, <3>2 DEF slots
  <2> QED BY <1>7, <2>1, <2>2, <2>3
<1>8. CASE OnReconcile
  <2> DEFINE ids == activeIds \cap Known(Head(inbox).seen)
             tokens == reserved
  <2>0. sidecar' = sidecar  BY <1>8 DEF OnReconcile
  <2>1. CASE Pump(reserved, ids, {})
    <3>1. ids \in SUBSET Id /\ tokens \in SUBSET reserved /\ Pump(tokens, ids, {})
      BY <1>0, <2>1
    <3> HIDE DEF ids, tokens
    <3> QED BY <2>0, <3>1, PumpTokens
  <2> QED BY <1>8, <1>a, <2>0, <2>1 DEF OnReconcile, slots
<1>9. CASE OnRestore \/ UNCHANGED vars
  BY <1>9, <1>a DEF OnRestore, vars, slots
<1> QED BY <1>1, <1>2, <1>3, <1>4, <1>5, <1>6, <1>7, <1>8, <1>9 DEF Next, JavaScript

\* No restore is ever asked for.
LEMMA NoRestore ==
  ASSUME NoRelaunch, TypeOK, ApartInv, [Next]_vars
  PROVE  /\ poll'["restore"].stage = "idle"
         /\ \A i \in 1 .. Len(inbox') : inbox'[i].what # "restore"
<1>0. /\ used.restores \in Nat /\ used.kills \in Nat /\ poll \in [Reader -> PollState]
      /\ inbox \in Seq(Message) /\ "restore" \in Reader /\ "reconcile" \in Reader
  BY DEF TypeOK, StoreOK, BridgeOK, Reader
<1>1. ~ StartRestore /\ ~ Kill /\ ~ AdoptActive /\ ~ NativeObserve
  BY <1>0 DEF StartRestore, Kill, AdoptActive, NativeObserve, ApartInv, NoRelaunch
<1>2. ~ OnRestore /\ ~ ReadRows("restore") /\ ~ PostRows("restore")
  <2>1. inbox # <<>> => 1 \in 1 .. Len(inbox) /\ inbox[1] = Head(inbox)  BY <1>0
  <2> QED BY <2>1 DEF OnRestore, TakeRows, ReadRows, PostRows, ApartInv
<1>3. poll'["restore"].stage = "idle"
  <2>1. poll' = poll \/ \E p : poll' = [poll EXCEPT !["reconcile"] = p]
    <3>1. CASE User
      BY <1>1, <3>1 DEF User, Enqueue, CancelQueued, StartNow, StartSidecar, PauseDownload,
           ResumeDownload, RetryDownload, CancelDownload, StartReconcile
    <3>2. ASSUME NEW id \in Id, Native(id) \/ Transfer(id) \/ EchoError(id)
          PROVE  poll' = poll
      BY <3>2 DEF Native, NativeInsert, NativeEnqueue, NativeStartFails, NativePause,
           NativeResume, NativeRetry, NativeRetryFails, NativeCancel, NativeMove, Transfer,
           TransferComplete, TransferFail, EchoError, serviceVars
    <3>3. CASE Reads
      BY <1>1, <1>2, <3>3 DEF Reads, Reader, ReadRows, PostRows
    <3>4. CASE JavaScript
      BY <1>2, <3>4 DEF JavaScript, OnStarted, OnStartFailed, OnComplete, OnError, OnPaused,
           OnPauseFailed, OnResumed, OnResumeFailed, OnRetried, OnRetryFailed, OnCancelled,
           OnPurged, OnMoveFailed, OnReconcile, otherVars
    <3>5. CASE Cleanup \/ UNCHANGED vars
      BY <3>5 DEF Cleanup, vars
    <3> QED BY <1>1, <3>1, <3>2, <3>3, <3>4, <3>5 DEF Next
  <2> QED BY <1>0, <2>1 DEF ApartInv
<1>4. \/ inbox' = inbox \/ (inbox # <<>> /\ inbox' = Tail(inbox))
      \/ \E m \in Message : m.what # "restore" /\ inbox' = Append(inbox, m)
  <2>0. \A id \in Id, what \in Outcome :
          [what |-> what, id |-> id] \in Message /\ what # "restore"
    BY DEF Message, Outcome
  <2>1. CASE User \/ Cleanup \/ UNCHANGED vars
    BY <2>1 DEF User, Enqueue, CancelQueued, StartNow, StartSidecar, PauseDownload,
         ResumeDownload, RetryDownload, CancelDownload, StartReconcile, StartRestore, Cleanup, vars
  <2>2. ASSUME NEW id \in Id, Native(id) \/ Transfer(id) \/ EchoError(id)
        PROVE  inbox' = inbox \/ \E what \in Outcome : Post(what, id)
    BY <2>2 DEF Native, NativeInsert, NativeEnqueue, NativeStartFails, NativePause,
         NativeResume, NativeRetry, NativeRetryFails, NativeCancel, NativeMove, Transfer,
         TransferComplete, TransferFail, EchoError, Outcome
  <2>3. CASE Reads
    <3>1. [what |-> "reconcile", seen |-> poll["reconcile"].seen] \in Message
      BY <1>0 DEF PollState, Message
    <3> QED BY <1>1, <1>2, <2>3, <3>1 DEF Reads, Reader, ReadRows, PostRows
  <2>4. CASE JavaScript
    BY <1>2, <2>4 DEF JavaScript, OnStarted, OnStartFailed, OnComplete, OnError, OnPaused,
         OnPauseFailed, OnResumed, OnResumeFailed, OnRetried, OnRetryFailed, OnCancelled,
         OnPurged, OnMoveFailed, OnReconcile, Take, TakeRows
  <2> QED BY <1>1, <2>0, <2>1, <2>2, <2>3, <2>4 DEF Next, Post
<1>5. \A i \in 1 .. Len(inbox') : inbox'[i].what # "restore"
  <2>1. CASE inbox' = inbox  BY <2>1 DEF ApartInv
  <2>2. CASE inbox # <<>> /\ inbox' = Tail(inbox)
    BY <1>0, <2>2, TakenMessage DEF ApartInv
  <2>3. ASSUME NEW m \in Message, m.what # "restore", inbox' = Append(inbox, m)
        PROVE  \A i \in 1 .. Len(inbox') : inbox'[i].what # "restore"
    <3>1. \A i \in 1 .. Len(inbox') :
            inbox'[i] = m \/ \E j \in 1 .. Len(inbox) : inbox'[i] = inbox[j]
      BY <1>0, <2>3, PostedMessage
    <3> QED BY <2>3, <3>1 DEF ApartInv
  <2> QED BY <1>4, <2>1, <2>2, <2>3
<1> QED BY <1>3, <1>5

\* ApartInv is inductive, given the types and StartsInv.
LEMMA ApartInductive ==
  ASSUME NoRelaunch, TypeOK, StartsInv, ApartInv, TypeOK', [Next]_vars
  PROVE  ApartInv'
<1>0. /\ startSeq \in Nat /\ startSeq' \in Nat /\ Id \subseteq Nat /\ inbox \in Seq(Message)
  BY DEF TypeOK, SlotsOK, BridgeOK, Id
<1>1. Tokens  BY TokensStep
<1>2. ASSUME NEW id \in Id, Begun(id)'
      PROVE  id <= startSeq' /\ ~ Starting(id)'
  <2>1. Careful(id)  BY CarefulStep
  <2>2. CASE Begun(id)
    <3>1. id <= startSeq /\ ~ Starting(id)  BY <2>2 DEF ApartInv
    <3> QED BY <1>0, <1>1, <2>1, <3>1 DEF Careful, Tokens
  <2>3. CASE Answered(id)
    <3>1. 1 \in 1 .. Len(inbox) /\ inbox[1] = Head(inbox)
      BY <1>0, <2>3, TakenMessage DEF Answered
    <3>2. InInbox(StartAnswers, id)  BY <2>3, <3>1 DEF Answered, InInbox, StartAnswers
    <3>3. id <= startSeq /\ ~ CallFor(StartCalls, id)
      BY <3>2 DEF StartsInv, Starting
    <3>4. ~ CallFor(StartCalls, id)'
      BY <1>0, <2>1, <3>3 DEF Careful
    <3>5. ~ InInbox(StartAnswers, id)'
      <4> SUFFICES ASSUME NEW i \in 1 .. Len(inbox'), inbox'[i].what \in StartAnswers,
                          inbox'[i].id = id
                   PROVE  FALSE
        BY DEF InInbox, StartAnswers
      <4>1. i + 1 \in 1 .. Len(inbox) /\ inbox'[i] = inbox[i + 1]
        BY <1>0, <2>3 DEF Answered
      <4>2. Head(inbox).what \in StartAnswers /\ Head(inbox).id = id
        BY <2>3 DEF Answered, StartAnswers
      <4>3. i + 1 = 1  BY <3>1, <4>1, <4>2 DEF StartsInv
      <4> QED BY <4>3
    <3> QED BY <1>0, <1>1, <3>3, <3>4, <3>5
            DEF Tokens, Starting, StartCalls, StartAnswers, CallFor, InInbox
  <2> QED BY <1>2, <2>1, <2>2, <2>3 DEF Careful
<1>3. /\ reserved' \subseteq 1 .. startSeq' /\ sidecar' \subseteq 1 .. startSeq'
      /\ reserved' \cap sidecar' = {}
  <2>1. /\ reserved \subseteq 1 .. startSeq /\ sidecar \subseteq 1 .. startSeq
        /\ reserved \cap sidecar = {}
    BY DEF ApartInv
  <2>2. /\ startSeq <= startSeq'
        /\ \A i \in reserved' : i \in reserved \/ i \in (startSeq + 1) .. startSeq'
    BY <1>1 DEF Tokens
  <2>3. ASSUME NEW i \in reserved'
        PROVE  i \in 1 .. startSeq' /\ (i \in 1 .. startSeq => i \in reserved)
    <3>1. CASE i \in reserved
      <4>1. i \in 1 .. startSeq  BY <2>1, <3>1
      <4> QED BY <1>0, <2>2, <3>1, <4>1
    <3>2. CASE i \in (startSeq + 1) .. startSeq'
      BY <1>0, <3>2
    <3> QED BY <2>2, <3>1, <3>2
  <2>4. CASE sidecar' = sidecar
    BY <1>0, <2>1, <2>2, <2>3, <2>4
  <2>5. CASE /\ reserved' = reserved
             /\ sidecar' = sidecar \cup {startSeq + 1} /\ startSeq' = startSeq + 1
    <3>1. startSeq + 1 \notin reserved  BY <1>0, <2>1
    <3> QED BY <1>0, <2>1, <2>3, <2>5, <3>1
  <2> QED BY <1>1, <2>4, <2>5 DEF Tokens
<1> QED BY <1>2, <1>3, NoRestore DEF ApartInv

-----------------------------------------------------------------------------
(* Steps of the semaphore                                                  *)

Held == Taken(reserved, activeIds)

\* Slots are counted as the semaphore counts its permits.
LEMMA HeldCounted ==
  ASSUME TypeOK
  PROVE  /\ IsFiniteSet(reserved) /\ IsFiniteSet(activeIds) /\ IsFiniteSet(sidecar)
         /\ Held \in Nat /\ MaxConcurrent \in Nat /\ startSeq \in Nat
         /\ startQueue \in Seq(ModelKey) /\ Len(startQueue) \in Nat
         /\ Cardinality(sidecar) \in Nat
<1>1. sidecar \in SUBSET Id  BY DEF TypeOK, StoreOK
<1>2. IsFiniteSet(sidecar) /\ Cardinality(sidecar) \in Nat
  BY <1>1, IdsFinite, FS_CardinalityType
<1> QED BY <1>2, SlotsCounted DEF Held, TypeOK, SlotsOK

\* The pump's loop stops at a full semaphore or an empty queue.
LEMMA PumpExhausts ==
  ASSUME NEW taken \in Nat, startQueue \in Seq(ModelKey)
  PROVE  Admissible(taken) = Len(startQueue) \/ taken + Admissible(taken) >= MaxConcurrent
<1>1. MaxConcurrent \in Nat /\ Len(startQueue) \in Nat  BY BoundsAssumption
<1> QED BY <1>1 DEF Admissible

\* pump(), after slots were given back, is a return of permits.
LEMMA PumpReturns ==
  ASSUME TypeOK, ApartInv, NEW tokens \in SUBSET reserved, NEW ids \in SUBSET activeIds, NEW more,
         Pump(tokens, ids, more), UNCHANGED <<sidecar, shutDown>>
  PROVE  Semaphore!Next
<1> DEFINE n     == Admissible(Taken(tokens, ids))
           new   == (startSeq + 1) .. (startSeq + n)
           freed == Held - Taken(tokens, ids)
<1>0. /\ Held \in Nat /\ MaxConcurrent \in Nat /\ startSeq \in Nat /\ Cardinality(sidecar) \in Nat
      /\ startQueue \in Seq(ModelKey) /\ Len(startQueue) \in Nat
  BY HeldCounted
<1>1. /\ IsFiniteSet(tokens) /\ IsFiniteSet(ids)
      /\ Taken(tokens, ids) \in Nat /\ Taken(tokens, ids) <= Held
  BY HeldCounted, TakenMonotone, TakenNat DEF Held
<1>2. /\ n \in 0 .. Len(startQueue)
      /\ n = 0 \/ Taken(tokens, ids) + n <= MaxConcurrent
      /\ n = Len(startQueue) \/ Taken(tokens, ids) + n >= MaxConcurrent
  BY <1>0, <1>1, AdmissibleFits, PumpExhausts
<1>3. /\ reserved' = tokens \cup new /\ activeIds' = ids
      /\ startQueue' = SubSeq(startQueue, n + 1, Len(startQueue))
      /\ startSeq' = startSeq + n
  BY DEF Pump
<1> HIDE DEF n
<1>4. Held' = Taken(tokens, ids) + n
  <2>1. /\ IsFiniteSet(new)
        /\ Cardinality(new) = IF startSeq + 1 > startSeq + n THEN 0
                              ELSE (startSeq + n) - (startSeq + 1) + 1
    <3>1. startSeq + 1 \in Int /\ startSeq + n \in Int  BY <1>0, <1>2
    <3> QED BY <3>1, FS_Interval
  <2>2. Cardinality(new) = n  BY <2>1, <1>0, <1>2
  <2>3. tokens \cap new = {}
    <3>1. tokens \subseteq 1 .. startSeq  BY DEF ApartInv
    <3> QED BY <3>1, <1>0, <1>2
  <2>4. Cardinality(tokens \cup new) = Cardinality(tokens) + Cardinality(new)
    <3>1. Cardinality(tokens \cup new)
            = Cardinality(tokens) + Cardinality(new) - Cardinality(tokens \cap new)
      BY <1>1, <2>1, FS_Union
    <3>2. Cardinality(tokens) \in Nat /\ Cardinality(new) \in Nat /\ Cardinality({}) = 0
      BY <1>1, <2>1, FS_CardinalityType, FS_EmptySet
    <3> HIDE DEF new
    <3>3. Cardinality(tokens \cap new) = 0  BY <2>3, <3>2
    <3> QED BY <3>1, <3>2, <3>3
  <2>5. Cardinality(tokens) \in Nat /\ Cardinality(ids) \in Nat
    BY <1>1, FS_CardinalityType
  <2>6. Held' = Cardinality(tokens \cup new) + Cardinality(ids)
    BY <1>3 DEF Held, Taken
  <2> HIDE DEF new
  <2> QED BY <2>2, <2>4, <2>5, <2>6, <1>2 DEF Taken
<1> HIDE DEF new
<1>5. freed \in 0 .. Held /\ Held' = Held - freed + n
  BY <1>0, <1>1, <1>2, <1>4
<1>6. n > 0 => Held' <= MaxConcurrent
  BY <1>0, <1>1, <1>2, <1>4
<1>7. startQueue' = <<>> \/ Held' >= MaxConcurrent
  <2>1. CASE n = Len(startQueue)
    <3>1. startQueue' = <<>>  BY <1>0, <1>3, <2>1
    <3> QED BY <3>1
  <2> QED BY <1>2, <1>4, <2>1
<1>8. startSeq' - Cardinality(sidecar') = startSeq - Cardinality(sidecar) + n
  BY <1>0, <1>2, <1>3
<1> HIDE DEF freed
<1>9. Semaphore!Return(freed, n)
  BY <1>3, <1>5, <1>6, <1>7, <1>8 DEF Semaphore!Return, Semaphore!Fair, Held
<1> QED BY <1>2, <1>5, <1>9 DEF Semaphore!Next, Held

\* A slot more, with the queue as it is, is a permit taken by force, or nothing.
LEMMA MoreHeld ==
  ASSUME TypeOK, NEW id, activeIds' = activeIds \cup {id},
         UNCHANGED <<reserved, startQueue, startSeq, sidecar, shutDown>>
  PROVE  [Semaphore!Next]_Semaphore!vars
<1>1. CASE id \in activeIds
  <2>1. activeIds' = activeIds  BY <1>1
  <2> QED BY <2>1 DEF Semaphore!vars
<1>2. CASE id \notin activeIds
  <2>1. Cardinality(activeIds') = Cardinality(activeIds) + 1
    BY <1>2, HeldCounted, FS_AddElement
  <2>2. Cardinality(reserved) \in Nat /\ Cardinality(activeIds) \in Nat
    BY HeldCounted, FS_CardinalityType
  <2>3. Held' = Held + 1  BY <2>1, <2>2 DEF Held, Taken
  <2>4. Semaphore!Seize  BY <2>3 DEF Semaphore!Seize, Held
  <2> QED BY <2>4 DEF Semaphore!Next
<1> QED BY <1>1, <1>2

\* A token given up without a pump, when the service is shut down, is a return.
LEMMA TokenDropped ==
  ASSUME TypeOK, shutDown, NEW id, reserved' = reserved \ {id},
         UNCHANGED <<activeIds, startQueue, startSeq, sidecar, shutDown>>
  PROVE  [Semaphore!Next]_Semaphore!vars
<1>0. /\ IsFiniteSet(reserved) /\ Held \in Nat /\ Cardinality(activeIds) \in Nat
      /\ Cardinality(reserved) \in Nat
      /\ startQueue \in Seq(ModelKey) /\ Len(startQueue) \in Nat
      /\ startSeq \in Nat /\ Cardinality(sidecar) \in Nat
  BY HeldCounted, FS_CardinalityType
<1>1. CASE id \notin reserved
  <2>1. reserved' = reserved  BY <1>1
  <2> QED BY <2>1 DEF Semaphore!vars
<1>2. CASE id \in reserved
  <2>1. Cardinality(reserved') = Cardinality(reserved) - 1
    BY <1>0, <1>2, FS_RemoveElement
  <2>2. Held' = Held - 1  BY <1>0, <2>1 DEF Held, Taken
  <2>3. Cardinality(reserved) \in Nat \ {0}
    <3>1. reserved # {}  BY <1>2
    <3> QED BY <1>0, <3>1, FS_EmptySet
  <2>4. 1 \in 0 .. Held /\ Held' = Held - 1 + 0
    BY <1>0, <2>2, <2>3 DEF Held, Taken
  <2>5. startQueue' = SubSeq(startQueue, 0 + 1, Len(startQueue))
    BY <1>0
  <2>6. startSeq' - Cardinality(sidecar') = startSeq - Cardinality(sidecar) + 0
    BY <1>0
  <2>7. Semaphore!Return(1, 0)
    BY <2>4, <2>5, <2>6 DEF Semaphore!Return, Semaphore!Fair, Held
  <2>8. 0 \in 0 .. Len(startQueue)  BY <1>0
  <2> QED BY <2>4, <2>7, <2>8 DEF Semaphore!Next, Held
<1> QED BY <1>1, <1>2

\* beginDownload() resumes: the token becomes the id, and nothing changes for the
\* semaphore.
LEMMA StartedStutters ==
  ASSUME TypeOK, StartsInv, ApartInv, NEW id \in Id, OnStarted(id)
  PROVE  [Semaphore!Next]_Semaphore!vars
<1>0. /\ inbox # <<>> /\ Head(inbox).what = "started" /\ Head(inbox).id = id
      /\ inbox \in Seq(Message) /\ inbox' = Tail(inbox)
      /\ reserved' = reserved \ {id}
      /\ UNCHANGED <<startQueue, startSeq, sidecar, shutDown>>
  BY DEF OnStarted, Take, TypeOK, BridgeOK, otherVars
<1>1. Starting(id)
  <2>1. 1 \in 1 .. Len(inbox) /\ inbox[1] = Head(inbox)  BY <1>0, TakenMessage
  <2> QED BY <1>0, <2>1 DEF Starting, InInbox, StartAnswers
<1>2. id \notin activeIds  BY <1>1 DEF ApartInv, Begun
<1>3. CASE id \in sidecar
  <2>1. reserved' = reserved /\ activeIds' = activeIds
    BY <1>0, <1>3 DEF OnStarted, ApartInv
  <2> QED BY <1>0, <2>1 DEF Semaphore!vars
<1>4. CASE id \notin sidecar /\ shutDown
  <2>1. activeIds' = activeIds  BY <1>4 DEF OnStarted
  <2> QED BY <1>0, <1>4, <2>1, TokenDropped
<1>5. CASE id \notin sidecar /\ ~ shutDown
  <2>1. id \in reserved  BY <1>1, <1>5 DEF StartsInv, Mains
  <2>2. activeIds' = activeIds \cup {id}  BY <1>5 DEF OnStarted
  <2>3. /\ Cardinality(reserved') = Cardinality(reserved) - 1
        /\ Cardinality(activeIds') = Cardinality(activeIds) + 1
    BY <1>0, <1>2, <2>1, <2>2, HeldCounted, FS_AddElement, FS_RemoveElement
  <2>4. Cardinality(reserved) \in Nat /\ Cardinality(activeIds) \in Nat
    BY HeldCounted, FS_CardinalityType
  <2>5. Held' = Held  BY <2>3, <2>4 DEF Held, Taken
  <2> QED BY <1>0, <2>5 DEF Semaphore!vars, Held
<1> QED BY <1>3, <1>4, <1>5

\* release() is a return of permits, or nothing.
LEMMA ReleaseReturns ==
  ASSUME TypeOK, ApartInv, NEW id, NEW more, Release(id, more), UNCHANGED <<sidecar, shutDown>>
  PROVE  [Semaphore!Next]_Semaphore!vars
<1>1. CASE Pump(reserved, activeIds \ {id}, more)
  <2> DEFINE ids == activeIds \ {id}
             tokens == reserved
  <2>1. ids \in SUBSET activeIds /\ tokens \in SUBSET reserved /\ Pump(tokens, ids, more)
    BY <1>1
  <2> HIDE DEF ids, tokens
  <2> QED BY <2>1, PumpReturns
<1>2. CASE UNCHANGED slots
  BY <1>2 DEF slots, Semaphore!vars
<1> QED BY <1>1, <1>2 DEF Release

\* Every step is a step of the semaphore, or nothing to it.
LEMMA Simulation ==
  ASSUME NoRelaunch, TypeOK, StartsInv, ApartInv, WorkConserving, [Next]_vars
  PROVE  [Semaphore!Next]_Semaphore!vars
<1>0. /\ used.restores \in Nat /\ used.kills \in Nat /\ inbox \in Seq(Message)
      /\ startSeq \in Nat /\ reserved \in SUBSET Id /\ activeIds \in SUBSET Id
  BY DEF TypeOK, SlotsOK, StoreOK, BridgeOK
<1>a. ASSUME UNCHANGED <<startQueue, reserved, activeIds, startSeq, sidecar, shutDown>>
      PROVE  [Semaphore!Next]_Semaphore!vars
  BY <1>a DEF Semaphore!vars
<1>1. CASE StartNow
  <2>1. /\ reserved' = reserved \cup {startSeq + 1} /\ Held < MaxConcurrent
        /\ startSeq' = startSeq + 1
        /\ UNCHANGED <<activeIds, startQueue, sidecar, shutDown>>
    BY <1>1 DEF StartNow, Held
  <2>2. startSeq + 1 \notin reserved  BY <1>0 DEF ApartInv
  <2>3. Cardinality(reserved') = Cardinality(reserved) + 1
    BY <2>1, <2>2, HeldCounted, FS_AddElement
  <2>4. Cardinality(reserved) \in Nat /\ Cardinality(activeIds) \in Nat
    BY HeldCounted, FS_CardinalityType
  <2>5. Held' = Held + 1  BY <2>1, <2>3, <2>4 DEF Held, Taken
  <2>6. ~ shutDown => startQueue = <<>>
    BY <2>1, HeldCounted DEF WorkConserving, Held
  <2>7. startSeq' - Cardinality(sidecar') = startSeq - Cardinality(sidecar) + 1
    BY <2>1, HeldCounted
  <2>8. Semaphore!Acquire
    BY <2>1, <2>5, <2>6, <2>7 DEF Semaphore!Acquire, Held
  <2> QED BY <2>8 DEF Semaphore!Next
<1>2. CASE StartSidecar
  <2>1. /\ sidecar' = sidecar \cup {startSeq + 1} /\ startSeq' = startSeq + 1
        /\ UNCHANGED <<reserved, activeIds, startQueue, shutDown>>
    BY <1>2 DEF StartSidecar
  <2>2. startSeq + 1 \notin sidecar  BY <1>0 DEF ApartInv
  <2>3. Cardinality(sidecar') = Cardinality(sidecar) + 1
    BY <2>1, <2>2, HeldCounted, FS_AddElement
  <2>4. startSeq' - Cardinality(sidecar') = startSeq - Cardinality(sidecar)
    BY <2>1, <2>3, HeldCounted
  <2> QED BY <2>1, <2>4 DEF Semaphore!vars
<1>3. ASSUME NEW k \in ModelKey, Enqueue(k) \/ CancelQueued(k)
      PROVE  [Semaphore!Next]_Semaphore!vars
  <2>1. UNCHANGED <<reserved, activeIds, startSeq, sidecar, shutDown>>
    BY <1>3 DEF Enqueue, CancelQueued
  <2>2. CASE Enqueue(k)
    <3>1. Semaphore!Wait(k)  BY <2>1, <2>2 DEF Enqueue, Semaphore!Wait
    <3> QED BY <3>1 DEF Semaphore!Next
  <2>3. CASE CancelQueued(k)
    <3>1. Semaphore!Leave(k)
      <4>1. PICK i \in 1 .. Len(startQueue) :
              /\ startQueue[i] = k
              /\ startQueue' = SubSeq(startQueue, 1, i - 1)
                                \o SubSeq(startQueue, i + 1, Len(startQueue))
        BY <2>3 DEF CancelQueued
      <4>2. UNCHANGED <<Held, startSeq - Cardinality(sidecar), ~ shutDown>>
        BY <2>1 DEF Held
      <4> QED BY <4>1, <4>2 DEF Semaphore!Leave, Held
    <3> QED BY <3>1 DEF Semaphore!Next
  <2> QED BY <1>3, <2>2, <2>3
<1>4. ASSUME NEW id \in Id, ResumeDownload(id)
      PROVE  [Semaphore!Next]_Semaphore!vars
  BY <1>4, MoreHeld DEF ResumeDownload
<1>5. CASE \/ StartReconcile \/ StartRestore
           \/ \E id \in Id : PauseDownload(id) \/ RetryDownload(id) \/ CancelDownload(id)
  BY <1>5, <1>a DEF StartReconcile, StartRestore, PauseDownload, RetryDownload, CancelDownload,
       Control, slots
<1>6. CASE Cleanup
  <2>1. /\ shutDown' = TRUE /\ startQueue' = <<>> /\ reserved' = {} /\ activeIds' = {}
        /\ UNCHANGED <<startSeq, sidecar>>
    BY <1>6 DEF Cleanup
  <2>2. Taken({}, {}) = 0  BY FS_EmptySet DEF Taken
  <2>3. Held' = 0  BY <2>1, <2>2 DEF Held
  <2>4. Semaphore!Close  BY <2>1, <2>3 DEF Semaphore!Close, Held
  <2> QED BY <2>4 DEF Semaphore!Next
<1>7. CASE \E id \in Id : Native(id) \/ Transfer(id) \/ EchoError(id)
  BY <1>7, <1>a DEF Native, NativeInsert, NativeEnqueue, NativeStartFails, NativePause,
       NativeResume, NativeRetry, NativeRetryFails, NativeCancel, NativeMove, Transfer,
       TransferComplete, TransferFail, EchoError, serviceVars, slots
<1>8. CASE Reads
  BY <1>8, <1>a DEF Reads, ReadRows, PostRows, NativeObserve, PollVars, slots
<1>9. CASE AdoptActive \/ Kill
  BY <1>0, <1>9 DEF AdoptActive, Kill, ApartInv, NoRelaunch
<1>10. ASSUME NEW id \in Id,
              \/ OnStarted(id) \/ OnStartFailed(id) \/ OnComplete(id) \/ OnError(id)
              \/ OnPaused(id) \/ OnPauseFailed(id) \/ OnResumed(id) \/ OnResumeFailed(id)
              \/ OnRetried(id) \/ OnRetryFailed(id)
              \/ OnCancelled(id) \/ OnPurged(id) \/ OnMoveFailed(id)
       PROVE  [Semaphore!Next]_Semaphore!vars
  <2>0. UNCHANGED <<sidecar, shutDown>>
    BY <1>10 DEF OnStarted, OnStartFailed, OnComplete, OnError, OnPaused, OnPauseFailed,
            OnResumed, OnResumeFailed, OnRetried, OnRetryFailed, OnCancelled, OnPurged,
            OnMoveFailed, otherVars
  <2>1. CASE OnStarted(id)  BY <2>1, StartedStutters
  <2>2. CASE OnStartFailed(id)
    <3>1. CASE Pump(reserved \ {id}, activeIds, {})
      <4> DEFINE tokens == reserved \ {id}
                 ids == activeIds
      <4>1. tokens \in SUBSET reserved /\ ids \in SUBSET activeIds /\ Pump(tokens, ids, {})
        BY <3>1
      <4> HIDE DEF tokens, ids
      <4> QED BY <2>0, <4>1, PumpReturns
    <3>2. CASE UNCHANGED <<reserved, activeIds, startQueue, startSeq>>
      BY <1>a, <2>0, <3>2
    <3> QED BY <2>2, <3>1, <3>2 DEF OnStartFailed
  <2>3. CASE OnRetried(id)
    BY <2>0, <2>3, MoreHeld DEF OnRetried
  <2>4. CASE \/ OnComplete(id) \/ OnError(id) \/ OnPaused(id) \/ OnResumeFailed(id)
             \/ OnCancelled(id) \/ OnPurged(id)
    <3>1. (\E more : Release(id, more)) \/ UNCHANGED slots
      BY <2>4 DEF OnComplete, OnError, OnPaused, OnResumeFailed, OnCancelled, OnPurged
    <3> QED BY <1>a, <2>0, <3>1, ReleaseReturns DEF slots
  <2>5. CASE OnPauseFailed(id) \/ OnResumed(id) \/ OnRetryFailed(id) \/ OnMoveFailed(id)
    BY <1>a, <2>0, <2>5 DEF OnPauseFailed, OnResumed, OnRetryFailed, OnMoveFailed, slots
  <2> QED BY <1>10, <2>1, <2>2, <2>3, <2>4, <2>5
<1>11. CASE OnReconcile
  <2> DEFINE ids == activeIds \cap Known(Head(inbox).seen)
             tokens == reserved
  <2>0. UNCHANGED <<sidecar, shutDown>>  BY <1>11 DEF OnReconcile
  <2>1. CASE Pump(reserved, ids, {})
    <3>1. ids \in SUBSET activeIds /\ tokens \in SUBSET reserved /\ Pump(tokens, ids, {})
      BY <2>1
    <3> HIDE DEF ids, tokens
    <3> QED BY <2>0, <3>1, PumpReturns
  <2> QED BY <1>11, <1>a, <2>0, <2>1 DEF OnReconcile, slots
<1>12. CASE OnRestore \/ UNCHANGED vars
  BY <1>12, <1>a DEF OnRestore, vars, slots
<1> QED BY <1>1, <1>2, <1>3, <1>4, <1>5, <1>6, <1>7, <1>8, <1>9, <1>10, <1>11, <1>12
        DEF Next, User, JavaScript

\* A step of the semaphore leaves nobody waiting next to a free permit.
LEMMA NobodyWaits ==
  ASSUME TypeOK, TypeOK', WorkConserving, [Semaphore!Next]_Semaphore!vars
  PROVE  WorkConserving'
<1>0. /\ Held \in Nat /\ Held' \in Nat /\ MaxConcurrent \in Nat
      /\ startQueue \in Seq(ModelKey) /\ shutDown \in BOOLEAN /\ shutDown' \in BOOLEAN
  <2>1. Held \in Nat /\ MaxConcurrent \in Nat  BY HeldCounted
  <2>2. Held' = Taken(reserved', activeIds')  BY DEF Held
  <2>3. reserved' \in SUBSET Id /\ activeIds' \in SUBSET Id
    BY DEF TypeOK, SlotsOK
  <2>4. Taken(reserved', activeIds') \in Nat  BY <2>3, IdsFinite, TakenNat
  <2> QED BY <2>1, <2>2, <2>4 DEF TypeOK, SlotsOK, StoreOK
<1>1. WorkConserving <=> (startQueue # <<>> /\ ~ shutDown => Held >= MaxConcurrent)
  BY DEF WorkConserving, Held
<1>2. WorkConserving' <=> (startQueue' # <<>> /\ ~ shutDown' => Held' >= MaxConcurrent)
  BY DEF WorkConserving, Held
<1>3. CASE Semaphore!Acquire
  BY <1>0, <1>1, <1>2, <1>3 DEF Semaphore!Acquire, Held
<1>4. CASE Semaphore!Seize
  BY <1>0, <1>1, <1>2, <1>4 DEF Semaphore!Seize, Held
<1>5. CASE Semaphore!Close
  BY <1>2, <1>5 DEF Semaphore!Close
<1>6. ASSUME NEW k \in ModelKey, Semaphore!Wait(k) \/ Semaphore!Leave(k)
      PROVE  WorkConserving'
  <2>1. Held' = Held /\ shutDown' = shutDown
    BY <1>0, <1>6 DEF Semaphore!Wait, Semaphore!Leave, Held
  <2>2. CASE Semaphore!Wait(k)
    BY <1>2, <2>1, <2>2 DEF Semaphore!Wait, Held
  <2>3. CASE Semaphore!Leave(k)
    <3>1. startQueue # <<>>
      <4>1. PICK i \in 1 .. Len(startQueue) : startQueue[i] = k
        BY <2>3 DEF Semaphore!Leave
      <4> QED BY <1>0, <4>1
    <3> QED BY <1>1, <1>2, <2>1, <3>1
  <2> QED BY <1>6, <2>2, <2>3
<1>7. ASSUME NEW freed, NEW n, Semaphore!Return(freed, n)
      PROVE  WorkConserving'
  BY <1>2, <1>7 DEF Semaphore!Return, Semaphore!Fair, Held
<1>8. CASE UNCHANGED Semaphore!vars
  BY <1>1, <1>2, <1>8 DEF Semaphore!vars, Held
<1> QED BY <1>3, <1>4, <1>5, <1>6, <1>7, <1>8 DEF Semaphore!Next
-----------------------------------------------------------------------------
(* The theorems                                                            *)

LEMMA FifoInit == Init => FifoInv /\ Semaphore!Init
<1> SUFFICES ASSUME Init PROVE FifoInv /\ Semaphore!Init
  OBVIOUS
<1>1. TypeOK  BY InitTypes
<1>2. StartsInv
  BY DEF Init, StartsInv, Starting, CallFor, InInbox
<1>3. ApartInv
  BY DEF Init, ApartInv, Begun, Starting, CallFor, InInbox, Idle, Reader
<1>4. WorkConserving  BY DEF Init, WorkConserving
<1>5. Cardinality({}) = 0  BY FS_EmptySet
<1>6. Semaphore!Init
  BY <1>5 DEF Init, Semaphore!Init, Taken
<1> QED BY <1>1, <1>2, <1>3, <1>4, <1>6 DEF FifoInv

LEMMA FifoInductive ==
  NoRelaunch /\ FifoInv /\ [Next]_vars => FifoInv' /\ [Semaphore!Next]_Semaphore!vars
BY TypesInductive, StartsInvInductive, ApartInductive, Simulation, NobodyWaits DEF FifoInv

\* No start waits while a slot is free: every path that frees a slot pumps (release,
\* a failed start, reconcile), whatever starts, answers, events, controls, retries and
\* polls interleave, until cleanup().  Restores are excluded: adopting a start that is
\* still to be answered counts it twice for a while, and the answer does not pump.
THEOREM NobodyWaitsInVain ==
  ASSUME NoRelaunch
  PROVE  Spec => []WorkConserving
<1>1. Init => FifoInv  BY FifoInit
<1>2. FifoInv /\ [Next]_vars => FifoInv'
  BY FifoInductive
<1>3. FifoInv => WorkConserving  BY DEF FifoInv
<1> QED BY <1>1, <1>2, <1>3, PTL DEF Spec

\* The service's slots and queue implement the semaphore: starts get their slots in
\* the order they were asked for, each freed slot goes to the head of the queue in the
\* step that frees it, and only a resume or a retry takes a slot out of turn.
THEOREM ServedInOrder ==
  ASSUME NoRelaunch
  PROVE  Spec => FirstComeFirstServed
<1>1. Init => FifoInv /\ Semaphore!Init  BY FifoInit
<1>2. FifoInv /\ [Next]_vars => FifoInv' /\ [Semaphore!Next]_Semaphore!vars
  BY FifoInductive
<1> QED BY <1>1, <1>2, PTL DEF Spec, FirstComeFirstServed, Semaphore!Spec

-----------------------------------------------------------------------------
(* The life of a start                                                   *)

\* No slot is taken or kept on the word of an older record: no retries, no reconciles, no
\* restores and no process deaths.
NoRetakes == MaxRetries = 0 /\ MaxReconciles = 0 /\ NoRelaunch

\* The native calls that are pending for a start, and what waits in the inbox about it.
Ops(id)  == {op \in CallOp : [op |-> op, id |-> id] \in calls}
CallsOf(ops, id) == {[op |-> op, id |-> id] : op \in ops}
Msgs(id) == {what \in Outcome :
               \E i \in 1 .. Len(inbox) : inbox[i].what = what /\ inbox[i].id = id}

\* Answers to pauses and resumes, and messages after which a transfer is over.
Talk == {"paused", "pauseFailed", "resumed", "resumeFailed"}
Over == {"complete", "error", "cancelled", "purged"}
Freeing == Over \cup {"paused", "resumeFailed"}

\* A slot will be freed: the transfer is observed, or a call or a message will free it.
Due(id) ==
  \/ row[id] = "live" /\ id \in observed
  \/ Ops(id) \cap {"resume", "cancel", "purge"} # {}
  \/ Msgs(id) \cap Freeing # {}

\* A number no start has yet.
Unasked(id) ==
  /\ Ops(id) = {} /\ Msgs(id) = {}
  /\ row[id] = "none" /\ entry[id] = "none" /\ id \notin echo
  /\ id \notin activeIds /\ id \notin reserved

\* The start: while its native half is pending nothing else is, and its answer finds what
\* the slot needs.
StartLife(id) ==
  /\ startSeq < id => Unasked(id)
  /\ Ops(id) \cap StartCalls # {} =>
       /\ Ops(id) \in {{"start"}, {"enqueue"}} /\ Msgs(id) = {} /\ id \notin echo
       /\ row[id] = IF "start" \in Ops(id) THEN "none" ELSE "inserted"
  /\ "started" \in Msgs(id) => Due(id)
  /\ "startFailed" \in Msgs(id) => row[id] # "live"
  /\ id \in reserved => Ops(id) \cap StartCalls # {} \/ Msgs(id) \cap StartAnswers # {}
  /\ "discard" \notin Ops(id)

\* Nothing is asked about an entry there is not.
KnownLife(id) ==
  entry[id] = "none" =>
    Ops(id) \cap {"pause", "resume", "cancel"} = {} /\ Msgs(id) \cap Talk = {}

\* The native record: what is over does not run, and what runs is observed.
RowLife(id) ==
  /\ id \in echo \/ Msgs(id) \cap Over # {} => row[id] \notin {"inserted", "live", "paused"}
  /\ row[id] = "live" => id \in observed

\* The slot will be freed.
SlotLife(id) == id \in activeIds => Due(id)

\* Pauses and resumes of which none was asked again: one at a time, and the entry shows
\* which.
TalkLife(id) ==
  /\ ~ ("pause" \in Ops(id) /\ "resume" \in Ops(id))
  /\ Ops(id) \cap {"pause", "resume"} # {} => Msgs(id) \cap Talk = {}
  /\ "pause" \in Ops(id) \/ Msgs(id) \cap {"paused", "pauseFailed"} # {}
       => entry[id] # "paused"
  /\ "resume" \in Ops(id) \/ Msgs(id) \cap {"resumed", "resumeFailed"} # {}
       => entry[id] # "active"

\* Then what is paused runs only when it was resumed, and what runs has a slot.
RunLife(id) ==
  /\ "resume" \in Ops(id) \/ Msgs(id) \cap {"paused", "resumeFailed"} # {} => row[id] # "live"
  /\ entry[id] = "paused" /\ row[id] = "live" => "resumed" \in Msgs(id)
  /\ row[id] = "live" /\ id \notin sidecar => id \in reserved \/ id \in activeIds
  /\ row[id] = "paused" /\ "resume" \in Ops(id) => id \in activeIds

Life(id) ==
  /\ StartLife(id) /\ KnownLife(id) /\ RowLife(id) /\ SlotLife(id)
  /\ id \notin doubled => TalkLife(id) /\ RunLife(id)

\* One answer at a time to the pauses and resumes of a download, and the answer to its
\* start comes first.
InOrder ==
  /\ \A i, j \in 1 .. Len(inbox) :
       inbox[i].what \in Talk /\ inbox[j].what \in Talk /\ inbox[i].id = inbox[j].id
         => i = j \/ inbox[i].id \in doubled
  /\ \A i, j \in 1 .. Len(inbox) :
       inbox[i].what \in StartAnswers /\ inbox[j].what \in Outcome /\ inbox[i].id = inbox[j].id
         => i <= j

\* Without retries, reads and restores.
Still ==
  /\ \A r \in Reader : poll[r].stage = "idle"
  /\ \A i \in 1 .. Len(inbox) : inbox[i].what \in Outcome \ {"retried", "retryFailed"}
  /\ \A id \in Id : [op |-> "retry", id |-> id] \notin calls
  /\ uncapped = {}

\* A call that is pending twice was asked again.
Twice == \A op \in CallOp, id \in Id : [op |-> op, id |-> id] \in again => id \in doubled

LifeInv == Still /\ Twice /\ (~ shutDown => InOrder /\ \A id \in Id : Life(id))

-----------------------------------------------------------------------------
(* Lives *)

\* Nothing about the start has changed, on the side of the service and on the native one.
ServiceSame(id) ==
  /\ entry'[id] = entry[id] /\ (id \in activeIds' <=> id \in activeIds)
  /\ (id \in reserved' <=> id \in reserved) /\ (id \in sidecar' <=> id \in sidecar)
  /\ startSeq' < id => startSeq < id
  /\ (id \in doubled' <=> id \in doubled)
NativeSame(id) ==
  /\ row'[id] = row[id] /\ (id \in echo' <=> id \in echo)
  /\ (id \in observed' <=> id \in observed)
Same(id) == ServiceSame(id) /\ NativeSame(id) /\ Ops(id)' = Ops(id) /\ Msgs(id)' = Msgs(id)

\* A number that a start gets in this step.
New(id) ==
  /\ startSeq < id /\ id <= startSeq'
  /\ Ops(id)' = Ops(id) \cup {"start"} /\ Msgs(id)' = Msgs(id) /\ NativeSame(id)
  /\ entry'[id] = entry[id] /\ (id \in activeIds' <=> id \in activeIds)
  /\ id \in reserved' \/ id \in sidecar'

LEMMA SameLives ==
  ASSUME NEW id \in Id, Life(id), Same(id)
  PROVE  Life(id)'
<1> USE DEF Same, ServiceSame, NativeSame, Life
<1>1. Due(id)' <=> Due(id)  BY DEF Due
<1>2. Unasked(id) => Unasked(id)'  BY DEF Unasked
<1>3. StartLife(id)'  BY <1>1, <1>2 DEF StartLife
<1>4. KnownLife(id)' /\ RowLife(id)' /\ SlotLife(id)'
  BY <1>1 DEF KnownLife, RowLife, SlotLife
<1>5. id \notin doubled' => TalkLife(id)'  BY DEF TalkLife
<1>6. id \notin doubled' => RunLife(id)'  BY DEF RunLife
<1> QED BY <1>3, <1>4, <1>5, <1>6

LEMMA NewLives ==
  ASSUME NEW id \in Id, startSeq \in Nat, startSeq' \in Nat, Life(id), New(id)
  PROVE  Life(id)'
<1>1. Unasked(id)  BY DEF New, Life, StartLife
<1>2. /\ Ops(id)' = {"start"} /\ Msgs(id)' = {} /\ id \notin echo'
      /\ row'[id] = "none" /\ entry'[id] = "none" /\ id \notin activeIds'
      /\ (id \in reserved' \/ id \in sidecar') /\ ~ (startSeq' < id)
  BY <1>1 DEF Unasked, New, NativeSame, Id
<1>3. StartLife(id)'  BY <1>2 DEF StartLife, StartCalls
<1>4. KnownLife(id)' /\ TalkLife(id)'  BY <1>2 DEF KnownLife, TalkLife
<1>5. RowLife(id)'  BY <1>2 DEF RowLife
<1>6. SlotLife(id)' /\ RunLife(id)'  BY <1>2 DEF SlotLife, RunLife
<1> QED BY <1>3, <1>4, <1>5, <1>6 DEF Life

-----------------------------------------------------------------------------
(* Calls and messages *)

\* A control that was served is gone, unless it was asked again.
LEMMA OpsServedControl ==
  ASSUME Twice, NEW id \in Id, NEW op \in CallOp, ServeControl(op, id)
  PROVE  /\ op \in Ops(id) /\ Ops(id)' \subseteq Ops(id) /\ Ops(id) \subseteq Ops(id)' \cup {op}
         /\ id \notin doubled => Ops(id)' = Ops(id) \ {op}
         /\ \A other \in Id \ {id} : Ops(other)' = Ops(other)
<1>1. /\ [op |-> op, id |-> id] \in calls
      /\ calls' = calls \/ calls' = calls \ {[op |-> op, id |-> id]}
      /\ id \notin doubled => calls' = calls \ {[op |-> op, id |-> id]}
  BY DEF ServeControl, Twice
<1> QED BY <1>1 DEF Ops

LEMMA OpsServed ==
  ASSUME NEW id \in Id, NEW op \in CallOp, Serve(op, id)
  PROVE  /\ op \in Ops(id) /\ Ops(id)' = Ops(id) \ {op}
         /\ \A other \in Id \ {id} : Ops(other)' = Ops(other)
BY DEF Serve, Ops

LEMMA OpsCalled ==
  ASSUME NEW id \in Id, NEW more \in SUBSET CallOp,
         calls' = calls \cup CallsOf(more, id)
  PROVE  /\ Ops(id)' = Ops(id) \cup more
         /\ \A other \in Id \ {id} : Ops(other)' = Ops(other)
BY DEF Ops, CallsOf

LEMMA OpsSame ==
  ASSUME calls' = calls
  PROVE  \A id : Ops(id)' = Ops(id)
BY DEF Ops

LEMMA MsgsSame ==
  ASSUME inbox' = inbox, doubled \subseteq doubled'
  PROVE  (\A id : Msgs(id)' = Msgs(id)) /\ (InOrder => InOrder')
BY DEF Msgs, InOrder

\* A message that may be posted: a second answer to a pause or resume may not, nor an
\* answer to a start of which something waits.
Postable(what, id) ==
  /\ what \in Talk => Msgs(id) \cap Talk = {} \/ id \in doubled
  /\ what \in StartAnswers => Msgs(id) = {}

LEMMA MsgsPosted ==
  ASSUME NEW id \in Id, NEW what \in Outcome, inbox \in Seq(Message), Post(what, id),
         doubled' = doubled
  PROVE  /\ Msgs(id)' = Msgs(id) \cup {what}
         /\ \A other \in Id \ {id} : Msgs(other)' = Msgs(other)
         /\ (InOrder /\ Postable(what, id) => InOrder')
<1> DEFINE m == [what |-> what, id |-> id]
           n == Len(inbox) + 1
<1>1. /\ n \in Nat /\ Len(inbox) \in Nat /\ Len(inbox') = n
      /\ inbox'[n].what = what /\ inbox'[n].id = id
      /\ \A i \in 1 .. Len(inbox) : inbox'[i] = inbox[i]
  <2>1. m \in Message  BY DEF Message
  <2> HIDE DEF m
  <2>2. inbox' = Append(inbox, m)  BY DEF Post, m
  <2>3. /\ n \in Nat /\ Len(inbox) \in Nat /\ Len(inbox') = n /\ inbox'[n] = m
        /\ \A i \in 1 .. Len(inbox) : inbox'[i] = inbox[i]
    BY <2>1, <2>2
  <2> QED BY <2>3 DEF m
<1>2. \A i : i \in 1 .. Len(inbox') <=> i \in 1 .. Len(inbox) \/ i = n
  BY <1>1
<1>3. \A other : Msgs(other)' = Msgs(other) \cup (IF other = id THEN {what} ELSE {})
  <2> TAKE other
  <2>1. ASSUME NEW w \in Outcome
        PROVE  w \in Msgs(other)' <=> w \in Msgs(other) \/ (w = what /\ other = id)
    BY <1>1, <1>2 DEF Msgs
  <2> QED BY <2>1 DEF Msgs
<1>4. ASSUME InOrder, Postable(what, id)
      PROVE  InOrder'
  <2>1. ASSUME NEW i \in 1 .. Len(inbox'), NEW j \in 1 .. Len(inbox'),
               inbox'[i].what \in Talk, inbox'[j].what \in Talk, inbox'[i].id = inbox'[j].id,
               inbox'[i].id \notin doubled
        PROVE  i = j
    <3>1. ASSUME NEW k \in 1 .. Len(inbox), inbox[k].id = id, id \notin doubled
          PROVE  ~ (inbox[k].what \in Talk /\ what \in Talk)
      <4>1. inbox[k].what \in Talk => inbox[k].what \in Msgs(id)
        BY <3>1 DEF Msgs, Talk, Outcome
      <4> QED BY <1>4, <3>1, <4>1 DEF Postable
    <3> QED BY <1>1, <1>2, <1>4, <2>1, <3>1 DEF InOrder
  <2>2. ASSUME NEW i \in 1 .. Len(inbox'), NEW j \in 1 .. Len(inbox'),
               inbox'[i].what \in StartAnswers, inbox'[j].what \in Outcome,
               inbox'[i].id = inbox'[j].id
        PROVE  i <= j
    <3>1. CASE i = n
      <4>1. what \in StartAnswers /\ inbox'[j].id = id  BY <1>1, <2>2, <3>1
      <4>2. j \notin 1 .. Len(inbox)
        <5> SUFFICES ASSUME j \in 1 .. Len(inbox) PROVE FALSE
          OBVIOUS
        <5>1. inbox[j].what \in Outcome /\ inbox[j].id = id  BY <1>1, <2>2, <4>1
        <5>2. inbox[j].what \in Msgs(id)  BY <5>1 DEF Msgs
        <5> QED BY <1>4, <4>1, <5>2 DEF Postable
      <4> QED BY <1>1, <1>2, <3>1, <4>2
    <3>2. CASE i # n /\ j # n
      <4>1. i \in 1 .. Len(inbox) /\ j \in 1 .. Len(inbox)  BY <1>2, <3>2
      <4> QED BY <1>1, <1>4, <2>2, <4>1 DEF InOrder
    <3>3. CASE i # n /\ j = n
      BY <1>1, <1>2, <3>3
    <3> QED BY <3>1, <3>2, <3>3
  <2> QED BY <2>1, <2>2 DEF InOrder
<1> QED BY <1>3, <1>4

\* Taking a message: the others wait on, and of those that come once none is left.
LEMMA MsgsTaken ==
  ASSUME NEW id \in Id, NEW what \in Outcome, inbox \in Seq(Message), InOrder, Take(what, id),
         doubled' = doubled
  PROVE  /\ what \in Msgs(id)
         /\ Msgs(id)' \subseteq Msgs(id) /\ Msgs(id) \subseteq Msgs(id)' \cup {what}
         /\ \A other \in Id \ {id} : Msgs(other)' = Msgs(other)
         /\ what \in Talk => Msgs(id)' \cap Talk = {} \/ id \in doubled
         /\ what \in StartAnswers => Msgs(id)' \cap StartAnswers = {}
         /\ what \notin StartAnswers => Msgs(id) \cap StartAnswers = {}
         /\ InOrder'
<1>1. /\ Len(inbox') = Len(inbox) - 1 /\ Len(inbox) \in Nat \ {0}
      /\ inbox[1].what = what /\ inbox[1].id = id
      /\ \A i \in 1 .. Len(inbox') : i + 1 \in 1 .. Len(inbox) /\ inbox'[i] = inbox[i + 1]
  <2>1. /\ Len(inbox') = Len(inbox) - 1 /\ Len(inbox) \in Nat \ {0}
        /\ inbox[1] = Head(inbox)
        /\ \A i \in 1 .. Len(inbox') : i + 1 \in 1 .. Len(inbox) /\ inbox'[i] = inbox[i + 1]
    BY DEF Take
  <2> QED BY <2>1 DEF Take
<1>2. \A i \in 1 .. Len(inbox) : i = 1 \/ (i - 1 \in 1 .. Len(inbox') /\ inbox'[i - 1] = inbox[i])
  BY <1>1
<1>3. \A other : Msgs(other)' \subseteq Msgs(other)
  BY <1>1 DEF Msgs
<1>4. \A other : Msgs(other) \subseteq Msgs(other)' \cup (IF other = id THEN {what} ELSE {})
  <2> TAKE other
  <2>1. ASSUME NEW w \in Msgs(other)
        PROVE  w \in Msgs(other)' \/ (w = what /\ other = id)
    <3>1. w \in Outcome /\ \E i \in 1 .. Len(inbox) : inbox[i].what = w /\ inbox[i].id = other
      BY DEF Msgs
    <3>2. PICK i \in 1 .. Len(inbox) : inbox[i].what = w /\ inbox[i].id = other
      BY <3>1
    <3>3. CASE i = 1  BY <1>1, <3>2, <3>3
    <3>4. CASE i # 1
      <4>1. i - 1 \in 1 .. Len(inbox') /\ inbox'[i - 1] = inbox[i]  BY <1>2, <3>4
      <4> QED BY <3>1, <3>2, <4>1 DEF Msgs
    <3> QED BY <3>3, <3>4
  <2> QED BY <2>1
<1>5. what \in Msgs(id)  BY <1>1 DEF Msgs
<1>6. ASSUME what \in Talk, id \notin doubled, NEW w \in Talk, w \in Msgs(id)'
      PROVE  FALSE
  <2>1. PICK i \in 1 .. Len(inbox') : inbox'[i].what = w /\ inbox'[i].id = id
    BY <1>6 DEF Msgs
  <2>2. i + 1 \in 1 .. Len(inbox) /\ inbox[i + 1].what = w /\ inbox[i + 1].id = id
    BY <1>1, <2>1
  <2>3. i + 1 = 1  BY <1>1, <1>6, <2>2 DEF InOrder
  <2> QED BY <2>3
<1>7. ASSUME NEW w \in StartAnswers, w \in Msgs(id)'
      PROVE  FALSE
  <2>1. PICK i \in 1 .. Len(inbox') : inbox'[i].what = w /\ inbox'[i].id = id
    BY <1>7 DEF Msgs
  <2>2. i + 1 \in 1 .. Len(inbox) /\ inbox[i + 1].what = w /\ inbox[i + 1].id = id
    BY <1>1, <2>1
  <2>3. i + 1 <= 1  BY <1>1, <1>7, <2>2 DEF InOrder
  <2> QED BY <2>3
<1>8. ASSUME what \notin StartAnswers, NEW w \in StartAnswers, w \in Msgs(id)
      PROVE  FALSE
  BY <1>4, <1>7, <1>8
<1>9. InOrder'
  <2>1. ASSUME NEW i \in 1 .. Len(inbox'), NEW j \in 1 .. Len(inbox'),
               inbox'[i].what \in Talk, inbox'[j].what \in Talk, inbox'[i].id = inbox'[j].id,
               inbox'[i].id \notin doubled
        PROVE  i = j
    <3>1. i + 1 = j + 1  BY <1>1, <2>1 DEF InOrder
    <3> QED BY <3>1
  <2>2. ASSUME NEW i \in 1 .. Len(inbox'), NEW j \in 1 .. Len(inbox'),
               inbox'[i].what \in StartAnswers, inbox'[j].what \in Outcome,
               inbox'[i].id = inbox'[j].id
        PROVE  i <= j
    <3>1. i + 1 <= j + 1  BY <1>1, <2>2 DEF InOrder
    <3> QED BY <3>1
  <2> QED BY <2>1, <2>2 DEF InOrder
<1>10. \A other \in Id \ {id} : Msgs(other)' = Msgs(other)
  <2> TAKE other \in Id \ {id}
  <2>1. Msgs(other)' \subseteq Msgs(other)  BY <1>3
  <2>2. Msgs(other) \subseteq Msgs(other)'  BY <1>4
  <2> QED BY <2>1, <2>2
<1>11. Msgs(id)' \subseteq Msgs(id) /\ Msgs(id) \subseteq Msgs(id)' \cup {what}
  BY <1>3, <1>4
<1>12. /\ what \in Talk => Msgs(id)' \cap Talk = {} \/ id \in doubled
       /\ Msgs(id)' \cap StartAnswers = {}
       /\ what \notin StartAnswers => Msgs(id) \cap StartAnswers = {}
  BY <1>6, <1>7, <1>8
<1> QED BY <1>5, <1>9, <1>10, <1>11, <1>12

-----------------------------------------------------------------------------
(* The native layer                                                        *)

\* A start whose native half is pending is nowhere in the service but in its token.
LEMMA StartingUnknown ==
  ASSUME ApartInv, NEW id \in Id, (Ops(id) \cap StartCalls # {}) \/ (Msgs(id) \cap StartAnswers # {})
  PROVE  entry[id] = "none" /\ id \notin activeIds
<1>1. Starting(id)
  BY DEF Starting, Ops, Msgs, CallFor, InInbox
<1>2. ~ Begun(id)  BY <1>1 DEF ApartInv
<1> QED BY <1>1, <1>2 DEF Begun

\* The native layer works on one transfer and leaves the service alone.
LEMMA NativeBeside ==
  ASSUME TypeOK, Twice, NEW id \in Id, Native(id) \/ Transfer(id) \/ EchoError(id)
  PROVE  /\ ServiceSame(id) /\ shutDown' = shutDown /\ doubled' = doubled
         /\ \A other \in Id \ {id} : Same(other)
<1>0. inbox \in Seq(Message) /\ row \in [Id -> RowStatus]
  BY DEF TypeOK, StoreOK, BridgeOK, Rows
<1> USE DEF Native, Transfer, NativeInsert, NativeEnqueue, NativeStartFails, NativePause,
    NativeResume, NativeRetry, NativeRetryFails, NativeCancel, NativeMove,
    TransferComplete, TransferFail, EchoError
<1>1. UNCHANGED <<slots, shutDown, entry, sidecar, doubled>>
  BY DEF serviceVars, store
<1>2. \A other : ServiceSame(other)
  BY <1>1 DEF ServiceSame, slots
<1>3. /\ row' = row \/ \E s : row' = [row EXCEPT ![id] = s]
      /\ echo' \in {echo, echo \cup {id}, echo \ {id}}
      /\ observed' \in {observed, observed \cup {id}, observed \ {id}}
  <2>1. CASE Native(id)
    BY <2>1 DEF SetRow, nativeVars
  <2>2. CASE Transfer(id) \/ EchoError(id)
    BY <2>2 DEF SetRow, nativeVars
  <2> QED BY <2>1, <2>2
<1>4. \A other \in Id \ {id} : NativeSame(other)
  BY <1>0, <1>3 DEF NativeSame
<1>5. \/ calls' = calls \/ \E op \in CallOp : Serve(op, id) \/ ServeControl(op, id)
      \/ calls' = (calls \ {[op |-> "start", id |-> id]}) \cup {[op |-> "enqueue", id |-> id]}
  BY DEF CallOp
<1>6. \A other \in Id \ {id} : Ops(other)' = Ops(other)
  <2>1. CASE calls' = calls \/ \E op \in CallOp : Serve(op, id) \/ ServeControl(op, id)
    BY <2>1, OpsSame, OpsServed, OpsServedControl
  <2>2. CASE calls' = (calls \ {[op |-> "start", id |-> id]})
                        \cup {[op |-> "enqueue", id |-> id]}
    BY <2>2 DEF Ops
  <2> QED BY <1>5, <2>1, <2>2
<1>7. inbox' = inbox \/ \E what \in Outcome : Post(what, id)
  BY DEF Outcome
<1>8. \A other \in Id \ {id} : Msgs(other)' = Msgs(other)
  BY <1>0, <1>1, <1>7, MsgsSame, MsgsPosted
<1> QED BY <1>1, <1>2, <1>4, <1>6, <1>8 DEF Same

\* The start: inserted, registered, rejected.
LEMMA StartedLives ==
  ASSUME TypeOK, Twice, StartsInv, ApartInv, ~ shutDown, InOrder, NEW id \in Id, Life(id),
         NativeInsert(id) \/ NativeEnqueue(id) \/ NativeStartFails(id)
  PROVE  Life(id)' /\ InOrder'
<1>0. inbox \in Seq(Message) /\ row \in [Id -> RowStatus] /\ startSeq \in Nat /\ id \in Nat
  BY DEF TypeOK, SlotsOK, StoreOK, BridgeOK, Rows, Id
<1>a. ServiceSame(id) /\ doubled' = doubled  BY NativeBeside DEF Native
<1>1. Ops(id) \cap StartCalls # {}
  BY DEF NativeInsert, NativeEnqueue, NativeStartFails, Serve, Ops, StartCalls, CallOp
<1>2. entry[id] = "none" /\ id \notin activeIds  BY <1>1, StartingUnknown
<1>3. /\ Ops(id) \in {{"start"}, {"enqueue"}} /\ Msgs(id) = {} /\ id \notin echo
      /\ row[id] = (IF "start" \in Ops(id) THEN "none" ELSE "inserted")
      /\ ~ (startSeq' < id)
  BY <1>1, <1>a DEF Life, StartLife, Unasked, ServiceSame
<1>4. CASE NativeInsert(id)
  <2>1. /\ calls' = (calls \ {[op |-> "start", id |-> id]}) \cup {[op |-> "enqueue", id |-> id]}
        /\ [op |-> "start", id |-> id] \in calls
        /\ row'[id] = "inserted" /\ inbox' = inbox /\ echo' = echo
    BY <1>0, <1>4 DEF NativeInsert, SetRow
  <2>2. Ops(id)' = {"enqueue"} /\ Msgs(id)' = {} /\ InOrder'
    <3>1. Ops(id)' = (Ops(id) \ {"start"}) \cup {"enqueue"}  BY <2>1 DEF Ops, CallOp
    <3>2. "start" \in Ops(id)  BY <2>1 DEF Ops, CallOp
    <3> QED BY <1>3, <2>1, <3>1, <3>2, <1>a, MsgsSame
  <2>3. StartLife(id)'  BY <1>3, <2>1, <2>2 DEF StartLife, StartCalls
  <2>4. KnownLife(id)' /\ TalkLife(id)' /\ RowLife(id)' /\ SlotLife(id)' /\ RunLife(id)'
    BY <1>2, <1>3, <1>a, <2>1, <2>2 DEF KnownLife, TalkLife, RowLife, SlotLife, RunLife, ServiceSame
  <2> QED BY <2>2, <2>3, <2>4 DEF Life
<1>5. CASE NativeEnqueue(id)
  <2>1. /\ Serve("enqueue", id) /\ Post("started", id)
        /\ row'[id] = "live" /\ id \in observed' /\ echo' = echo
    BY <1>0, <1>5 DEF NativeEnqueue, SetRow
  <2>2. Ops(id)' = {} /\ Msgs(id)' = {"started"} /\ InOrder'
    <3>1. "enqueue" \in Ops(id) /\ Ops(id)' = Ops(id) \ {"enqueue"}
      BY <2>1, OpsServed DEF CallOp
    <3>2. Msgs(id)' = Msgs(id) \cup {"started"} /\ (Postable("started", id) => InOrder')
      BY <1>0, <1>a, <2>1, MsgsPosted DEF Outcome
    <3> QED BY <1>3, <3>1, <3>2 DEF Postable
  <2>3. id \notin sidecar => id \in reserved
    BY <1>1 DEF StartsInv, Starting, Mains, Ops, CallFor
  <2>4. StartLife(id)'  BY <1>3, <2>1, <2>2 DEF StartLife, StartCalls, StartAnswers, Due
  <2>5. KnownLife(id)' /\ TalkLife(id)' /\ RowLife(id)' /\ SlotLife(id)' /\ RunLife(id)'
    BY <1>2, <1>3, <1>a, <2>1, <2>2, <2>3 DEF KnownLife, TalkLife, RowLife, SlotLife, RunLife, ServiceSame,
       Talk, Over
  <2> QED BY <2>2, <2>4, <2>5 DEF Life
<1>6. CASE NativeStartFails(id)
  <2>1. /\ Serve("start", id) \/ Serve("enqueue", id)
        /\ Post("startFailed", id) /\ UNCHANGED <<row, echo, observed>>
    BY <1>6 DEF NativeStartFails, nativeVars
  <2>2. Ops(id)' = {} /\ Msgs(id)' = {"startFailed"} /\ InOrder'
    <3>1. \E op \in StartCalls : op \in Ops(id) /\ Ops(id)' = Ops(id) \ {op}
      BY <2>1, OpsServed DEF CallOp, StartCalls
    <3>2. Msgs(id)' = Msgs(id) \cup {"startFailed"} /\ (Postable("startFailed", id) => InOrder')
      BY <1>0, <1>a, <2>1, MsgsPosted DEF Outcome
    <3> QED BY <1>3, <3>1, <3>2 DEF Postable
  <2>3. StartLife(id)'  BY <1>3, <2>1, <2>2 DEF StartLife, StartCalls, StartAnswers
  <2>4. KnownLife(id)' /\ TalkLife(id)' /\ RowLife(id)' /\ SlotLife(id)' /\ RunLife(id)'
    BY <1>2, <1>3, <1>a, <2>1, <2>2 DEF KnownLife, TalkLife, RowLife, SlotLife, RunLife, ServiceSame, Talk, Over
  <2> QED BY <2>2, <2>3, <2>4 DEF Life
<1> QED BY <1>4, <1>5, <1>6

\* The answer to a pause or a resume, and what the row is then.
LEMMA PausedLives ==
  ASSUME TypeOK, Twice, ApartInv, InOrder, NEW id \in Id, Life(id), NativePause(id)
  PROVE  Life(id)' /\ InOrder'
<1>0. inbox \in Seq(Message) /\ row \in [Id -> RowStatus]
  BY DEF TypeOK, StoreOK, BridgeOK, Rows
<1>a. ServiceSame(id) /\ doubled' = doubled  BY NativeBeside DEF Native
<1>1. /\ "pause" \in Ops(id) /\ echo' = echo
      /\ Ops(id)' \subseteq Ops(id) /\ Ops(id) \subseteq Ops(id)' \cup {"pause"}
      /\ id \notin doubled => Ops(id)' = Ops(id) \ {"pause"}
  BY OpsServedControl DEF NativePause, CallOp
<1>2. /\ entry[id] # "none" /\ Ops(id) \cap StartCalls = {} /\ ~ (startSeq < id)
      /\ id \notin doubled => /\ entry[id] # "paused" /\ "resume" \notin Ops(id)
                             /\ Msgs(id) \cap Talk = {}
  BY <1>1 DEF Life, KnownLife, TalkLife, StartLife, Unasked, StartCalls
<1>3. Msgs(id) \cap StartAnswers = {}  BY <1>2, StartingUnknown
<1>4. \E what \in {"paused", "pauseFailed"} :
        /\ Msgs(id)' = Msgs(id) \cup {what} /\ InOrder'
        /\ what = "paused" => /\ row[id] \in {"inserted", "live"} /\ row'[id] = "paused"
        /\ what = "pauseFailed" => row'[id] = row[id] /\ observed' = observed
  <2>1. \E what \in {"paused", "pauseFailed"} :
          /\ Post(what, id)
          /\ what = "paused" => /\ row[id] \in {"inserted", "live"} /\ row'[id] = "paused"
          /\ what = "pauseFailed" => row'[id] = row[id] /\ observed' = observed
    BY <1>0 DEF NativePause, SetRow
  <2>2. ASSUME NEW what \in {"paused", "pauseFailed"}, Post(what, id)
        PROVE  Msgs(id)' = Msgs(id) \cup {what} /\ InOrder'
    <3>1. what \in Outcome /\ Postable(what, id)
      BY <1>2 DEF Outcome, Postable, StartAnswers
    <3> QED BY <1>0, <1>a, <2>2, <3>1, MsgsPosted
  <2> QED BY <2>1, <2>2
<1>5. PICK what \in {"paused", "pauseFailed"} :
        /\ Msgs(id)' = Msgs(id) \cup {what} /\ InOrder'
        /\ what = "paused" => /\ row[id] \in {"inserted", "live"} /\ row'[id] = "paused"
        /\ what = "pauseFailed" => row'[id] = row[id] /\ observed' = observed
  BY <1>4
<1>6. Due(id) => Due(id)'
  BY <1>1, <1>5 DEF Due, Freeing
<1> USE DEF Life, ServiceSame
<1>7. StartLife(id)'  BY <1>a, <1>1, <1>2, <1>3, <1>5 DEF StartLife, StartCalls, StartAnswers
<1>8. KnownLife(id)' /\ SlotLife(id)'
  BY <1>a, <1>2, <1>6 DEF KnownLife, SlotLife
<1>9. RowLife(id)'
  <2>1. CASE what = "paused"
    BY <1>a, <1>1, <1>5, <2>1 DEF RowLife, Over
  <2>2. CASE what = "pauseFailed"
    BY <1>a, <1>1, <1>5, <2>2 DEF RowLife, Over
  <2> QED BY <2>1, <2>2
<1>10. ASSUME id \notin doubled
       PROVE  TalkLife(id)' /\ RunLife(id)'
  <2>1. TalkLife(id)'  BY <1>a, <1>1, <1>2, <1>5, <1>10 DEF TalkLife, Talk
  <2>2. RunLife(id)'
    <3>1. CASE what = "paused"
      BY <1>a, <1>1, <1>2, <1>5, <1>10, <3>1 DEF RunLife, Talk
    <3>2. CASE what = "pauseFailed"
      BY <1>a, <1>1, <1>2, <1>5, <1>10, <3>2 DEF RunLife, Talk
    <3> QED BY <3>1, <3>2
  <2> QED BY <2>1, <2>2
<1> QED BY <1>a, <1>5, <1>7, <1>8, <1>9, <1>10

LEMMA ResumedLives ==
  ASSUME TypeOK, Twice, ApartInv, InOrder, NEW id \in Id, Life(id), NativeResume(id)
  PROVE  Life(id)' /\ InOrder'
<1>0. inbox \in Seq(Message) /\ row \in [Id -> RowStatus]
  BY DEF TypeOK, StoreOK, BridgeOK, Rows
<1>a. ServiceSame(id) /\ doubled' = doubled  BY NativeBeside DEF Native
<1>1. /\ "resume" \in Ops(id) /\ echo' = echo
      /\ Ops(id)' \subseteq Ops(id) /\ Ops(id) \subseteq Ops(id)' \cup {"resume"}
      /\ id \notin doubled => Ops(id)' = Ops(id) \ {"resume"}
  BY OpsServedControl DEF NativeResume, CallOp
<1>2. /\ entry[id] # "none" /\ Ops(id) \cap StartCalls = {} /\ ~ (startSeq < id)
      /\ id \notin doubled => /\ entry[id] # "active" /\ "pause" \notin Ops(id)
                             /\ Msgs(id) \cap Talk = {} /\ row[id] # "live"
  BY <1>1 DEF Life, KnownLife, TalkLife, RunLife, StartLife, Unasked, StartCalls
<1>3. Msgs(id) \cap StartAnswers = {}  BY <1>2, StartingUnknown
<1>4. \E what \in {"resumed", "resumeFailed"} :
        /\ Msgs(id)' = Msgs(id) \cup {what} /\ InOrder'
        /\ what = "resumed" => row[id] = "paused" /\ row'[id] = "live" /\ id \in observed'
        /\ what = "resumeFailed" => row'[id] = row[id] /\ observed' = observed
  <2>1. \E what \in {"resumed", "resumeFailed"} :
          /\ Post(what, id)
          /\ what = "resumed" => row[id] = "paused" /\ row'[id] = "live" /\ id \in observed'
          /\ what = "resumeFailed" => row'[id] = row[id] /\ observed' = observed
    BY <1>0 DEF NativeResume, SetRow
  <2>2. ASSUME NEW what \in {"resumed", "resumeFailed"}, Post(what, id)
        PROVE  Msgs(id)' = Msgs(id) \cup {what} /\ InOrder'
    <3>1. what \in Outcome /\ Postable(what, id)
      BY <1>2 DEF Outcome, Postable, StartAnswers
    <3> QED BY <1>0, <1>a, <2>2, <3>1, MsgsPosted
  <2> QED BY <2>1, <2>2
<1>5. PICK what \in {"resumed", "resumeFailed"} :
        /\ Msgs(id)' = Msgs(id) \cup {what} /\ InOrder'
        /\ what = "resumed" => row[id] = "paused" /\ row'[id] = "live" /\ id \in observed'
        /\ what = "resumeFailed" => row'[id] = row[id] /\ observed' = observed
  BY <1>4
<1> USE DEF Life, ServiceSame
<1>6. Due(id)'
  BY <1>1, <1>5 DEF Due, Freeing
<1>7. StartLife(id)'  BY <1>a, <1>1, <1>2, <1>3, <1>5 DEF StartLife, StartCalls, StartAnswers
<1>8. KnownLife(id)' /\ SlotLife(id)'
  BY <1>a, <1>2, <1>6 DEF KnownLife, SlotLife
<1>9. RowLife(id)'
  <2>1. CASE what = "resumed"
    BY <1>a, <1>1, <1>5, <2>1 DEF RowLife, Over
  <2>2. CASE what = "resumeFailed"
    BY <1>a, <1>1, <1>5, <2>2 DEF RowLife, Over
  <2> QED BY <2>1, <2>2
<1>10. ASSUME id \notin doubled
       PROVE  TalkLife(id)' /\ RunLife(id)'
  <2>1. TalkLife(id)'  BY <1>a, <1>1, <1>2, <1>5, <1>10 DEF TalkLife, Talk
  <2>2. RunLife(id)'
    <3>1. CASE what = "resumed"
      BY <1>a, <1>1, <1>2, <1>5, <1>10, <3>1 DEF RunLife, Talk
    <3>2. CASE what = "resumeFailed"
      BY <1>a, <1>1, <1>2, <1>5, <1>10, <3>2 DEF RunLife, Talk
    <3> QED BY <3>1, <3>2
  <2> QED BY <2>1, <2>2
<1> QED BY <1>a, <1>5, <1>7, <1>8, <1>9, <1>10

\* A cancelled transfer is over, whatever it was.
LEMMA CancelledLives ==
  ASSUME TypeOK, Twice, ApartInv, InOrder, NEW id \in Id, Life(id), NativeCancel(id)
  PROVE  Life(id)' /\ InOrder'
<1>0. inbox \in Seq(Message) /\ row \in [Id -> RowStatus]
  BY DEF TypeOK, StoreOK, BridgeOK, Rows
<1>a. ServiceSame(id) /\ doubled' = doubled  BY NativeBeside DEF Native
<1>1. PICK op \in {"cancel", "purge"}, what \in {"cancelled", "purged"} :
        (Serve(op, id) \/ ServeControl(op, id)) /\ Post(what, id)
  <2>1. ~ Serve("discard", id)
    BY DEF Serve, Life, StartLife, Ops, CallOp
  <2> QED BY <2>1 DEF NativeCancel
<1>2. op \in Ops(id) /\ Ops(id)' \subseteq Ops(id) /\ Ops(id) \subseteq Ops(id)' \cup {op}
      /\ echo' = echo
  BY <1>1, OpsServed, OpsServedControl DEF NativeCancel, CallOp
<1>3. Ops(id) \cap StartCalls = {} /\ ~ (startSeq < id)
  BY <1>2 DEF Life, StartLife, Unasked, StartCalls
<1>4. Msgs(id)' = Msgs(id) \cup {what} /\ InOrder'
  <2>1. what \in Outcome /\ Postable(what, id)
    BY DEF Outcome, Postable, StartAnswers, Talk
  <2> QED BY <1>0, <1>1, <1>a, <2>1, MsgsPosted
<1>5. row'[id] \notin {"inserted", "live", "paused"}
  BY <1>0 DEF NativeCancel, SetRow
<1> USE DEF Life, ServiceSame
<1>6. Due(id)'  BY <1>4 DEF Due, Freeing, Over
<1>7. StartLife(id)'
  BY <1>a, <1>2, <1>3, <1>4, <1>5, <1>6 DEF StartLife, StartCalls, StartAnswers
<1>8. KnownLife(id)' /\ (id \notin doubled => TalkLife(id)')
  BY <1>a, <1>2, <1>4 DEF KnownLife, TalkLife, Talk
<1>9. RowLife(id)'  BY <1>a, <1>2, <1>4, <1>5 DEF RowLife, Over
<1>10. SlotLife(id)' /\ (id \notin doubled => RunLife(id)')
  BY <1>a, <1>5, <1>6 DEF SlotLife, RunLife
<1> QED BY <1>a, <1>4, <1>7, <1>8, <1>9, <1>10

\* The record of a finished download is deleted, or stays.
LEMMA MovedLives ==
  ASSUME TypeOK, Twice, ApartInv, InOrder, NEW id \in Id, Life(id), NativeMove(id)
  PROVE  Life(id)' /\ InOrder'
<1>0. inbox \in Seq(Message) /\ row \in [Id -> RowStatus]
  BY DEF TypeOK, StoreOK, BridgeOK, Rows
<1>a. ServiceSame(id) /\ doubled' = doubled  BY NativeBeside DEF Native
<1>1. "move" \in Ops(id) /\ Ops(id)' = Ops(id) \ {"move"} /\ UNCHANGED <<echo, observed>>
  BY OpsServed DEF NativeMove, CallOp
<1>2. Ops(id) \cap StartCalls = {} /\ ~ (startSeq < id)
  BY <1>1 DEF Life, StartLife, Unasked, StartCalls
<1>3. Msgs(id)' \in {Msgs(id), Msgs(id) \cup {"moveFailed"}} /\ InOrder'
  <2>1. "moveFailed" \in Outcome /\ Postable("moveFailed", id)
    BY DEF Outcome, Postable, StartAnswers, Talk
  <2>2. CASE inbox' = inbox  BY <1>a, <2>2, MsgsSame
  <2>3. CASE Post("moveFailed", id)  BY <1>0, <1>a, <2>1, <2>3, MsgsPosted
  <2> QED BY <2>2, <2>3 DEF NativeMove
<1>4. row'[id] = row[id] \/ (row[id] = "completed" /\ row'[id] = "moved")
  BY <1>0 DEF NativeMove, SetRow
<1> USE DEF Life, ServiceSame
<1>6. Due(id) => Due(id)'  BY <1>1, <1>3, <1>4 DEF Due, Freeing, Over
<1>7. StartLife(id)'
  BY <1>a, <1>1, <1>2, <1>3, <1>4, <1>6 DEF StartLife, StartCalls, StartAnswers
<1>8. KnownLife(id)' /\ (id \notin doubled => TalkLife(id)')
  BY <1>a, <1>1, <1>3 DEF KnownLife, TalkLife, Talk
<1>9. RowLife(id)'  BY <1>a, <1>1, <1>3, <1>4 DEF RowLife, Over
<1>10. SlotLife(id)' /\ (id \notin doubled => RunLife(id)')
  BY <1>a, <1>1, <1>3, <1>4, <1>6 DEF SlotLife, RunLife
<1> QED BY <1>a, <1>3, <1>7, <1>8, <1>9, <1>10

\* The end of a transfer, and the second report of a failure.
LEMMA EndedLives ==
  ASSUME TypeOK, Twice, ApartInv, InOrder, NEW id \in Id, Life(id), Transfer(id) \/ EchoError(id)
  PROVE  Life(id)' /\ InOrder'
<1>0. inbox \in Seq(Message) /\ row \in [Id -> RowStatus]
  BY DEF TypeOK, StoreOK, BridgeOK, Rows
<1>a. ServiceSame(id) /\ doubled' = doubled  BY NativeBeside
<1>b. Ops(id)' = Ops(id)
  BY OpsSame DEF Transfer, TransferComplete, TransferFail, EchoError
<1>1. \E what \in {"complete", "error"} : Post(what, id)
  BY DEF Transfer, TransferComplete, TransferFail, EchoError, Life, RowLife
<1>2. PICK what \in {"complete", "error"} : Post(what, id)
  BY <1>1
<1>3. Msgs(id)' = Msgs(id) \cup {what} /\ InOrder'
  <2>1. what \in Outcome /\ Postable(what, id)
    BY DEF Outcome, Postable, StartAnswers, Talk
  <2> QED BY <1>0, <1>2, <1>a, <2>1, MsgsPosted
<1>4. row'[id] \notin {"inserted", "live", "paused"}
  <2>1. CASE Transfer(id)
    BY <1>0, <2>1 DEF Transfer, TransferComplete, TransferFail, SetRow
  <2>2. CASE EchoError(id)
    BY <2>2 DEF EchoError, Life, RowLife
  <2> QED BY <2>1, <2>2
<1>5. Ops(id) \cap StartCalls = {} /\ ~ (startSeq < id)
  BY DEF Transfer, TransferComplete, TransferFail, EchoError, Life, StartLife, Unasked
<1> USE DEF Life, ServiceSame
<1>6. Due(id)'  BY <1>3 DEF Due, Freeing, Over
<1>7. StartLife(id)'
  BY <1>a, <1>b, <1>3, <1>4, <1>5, <1>6 DEF StartLife, StartCalls, StartAnswers
<1>8. KnownLife(id)' /\ (id \notin doubled => TalkLife(id)')
  BY <1>a, <1>b, <1>3 DEF KnownLife, TalkLife, Talk
<1>9. RowLife(id)'  BY <1>a, <1>b, <1>3, <1>4 DEF RowLife, Over
<1>10. SlotLife(id)' /\ (id \notin doubled => RunLife(id)')
  BY <1>a, <1>4, <1>6 DEF SlotLife, RunLife
<1> QED BY <1>a, <1>3, <1>7, <1>8, <1>9, <1>10

LEMMA NativeLives ==
  ASSUME TypeOK, StartsInv, ApartInv, Still, Twice, ~ shutDown, InOrder,
         \A id \in Id : Life(id), NEW id \in Id, Native(id) \/ Transfer(id) \/ EchoError(id)
  PROVE  InOrder' /\ \A other \in Id : Life(other)'
<1>1. \A other \in Id \ {id} : Life(other)'
  BY NativeBeside, SameLives
<1>2. ~ NativeRetry(id) /\ ~ NativeRetryFails(id)
  BY DEF Still, NativeRetry, NativeRetryFails, ServeControl
<1>3. Life(id)  OBVIOUS
<1>4. CASE NativeInsert(id) \/ NativeEnqueue(id) \/ NativeStartFails(id)
  BY <1>1, <1>3, <1>4, StartedLives
<1>5. CASE NativePause(id)  BY <1>1, <1>3, <1>5, PausedLives
<1>6. CASE NativeResume(id)  BY <1>1, <1>3, <1>6, ResumedLives
<1>7. CASE NativeCancel(id)  BY <1>1, <1>3, <1>7, CancelledLives
<1>8. CASE NativeMove(id)  BY <1>1, <1>3, <1>8, MovedLives
<1>9. CASE Transfer(id) \/ EchoError(id)  BY <1>1, <1>3, <1>9, EndedLives
<1> QED BY <1>2, <1>4, <1>5, <1>6, <1>7, <1>8, <1>9 DEF Native

-----------------------------------------------------------------------------
(* The service                                                             *)

\* What a handler of a message about `id' leaves alone.
Handles(id) ==
  /\ UNCHANGED <<row, echo, observed, sidecar>>
  /\ \A other \in Id \ {id} : /\ entry'[other] = entry[other] /\ Msgs(other)' = Msgs(other)
                              /\ other \in doubled' <=> other \in doubled
Beside(id) == \A other \in Id \ {id} : Same(other) \/ New(other)

\* pump(): the others keep what they have or are started.
LEMMA PumpBeside ==
  ASSUME TypeOK, NEW id \in Id, ~ (startSeq < id), Handles(id),
         NEW tokens \in SUBSET reserved, NEW ids \in SUBSET activeIds, NEW more \in SUBSET CallOp,
         reserved \ tokens \subseteq {id}, activeIds \ ids \subseteq {id},
         Pump(tokens, ids, CallsOf(more, id))
  PROVE  /\ Ops(id)' = Ops(id) \cup more
         /\ id \in reserved' <=> id \in tokens
         /\ id \in activeIds' <=> id \in ids
         /\ ~ (startSeq' < id)
         /\ Beside(id)
<1> DEFINE n   == Admissible(Taken(tokens, ids))
           new == (startSeq + 1) .. (startSeq + n)
<1>1. n \in Nat /\ startSeq \in Nat /\ Id \subseteq Nat
  <2>1. startQueue \in Seq(ModelKey) /\ ids \in SUBSET Id /\ tokens \in SUBSET Id /\ startSeq \in Nat
    BY DEF TypeOK, SlotsOK
  <2>2. Taken(tokens, ids) \in Nat  BY <2>1, IdsFinite, TakenNat
  <2>3. n \in 0 .. Len(startQueue)  BY <2>1, <2>2, AdmissibleFits
  <2> QED BY <2>1, <2>3 DEF Id
<1>2. /\ reserved' = tokens \cup new /\ activeIds' = ids /\ startSeq' = startSeq + n
      /\ calls' = calls \cup CallsOf(more, id) \cup [op : {"start"}, id : new]
  BY DEF Pump
<1> HIDE DEF n
<1>3. /\ \A i \in Id : i \in new <=> startSeq < i /\ i <= startSeq'
      /\ startSeq <= startSeq' /\ startSeq' \in Nat
  BY <1>1, <1>2
<1> HIDE DEF new
<1>4. id \notin new /\ ~ (startSeq' < id)
  BY <1>1, <1>3
<1>5. Ops(id)' = Ops(id) \cup more
  BY <1>2, <1>4 DEF Ops, CallOp, CallsOf
<1>6. ASSUME NEW other \in Id \ {id}, other \in new
      PROVE  New(other)
  <2>1. Ops(other)' = Ops(other) \cup {"start"}
    BY <1>2, <1>6 DEF Ops, CallOp, CallsOf
  <2> QED BY <1>2, <1>3, <1>6, <2>1 DEF New, NativeSame, Handles
<1>7. ASSUME NEW other \in Id \ {id}, other \notin new
      PROVE  Same(other)
  <2>1. Ops(other)' = Ops(other)
    BY <1>2, <1>7 DEF Ops, CallOp, CallsOf
  <2>2. startSeq' < other => startSeq < other  BY <1>1, <1>3
  <2>3. (other \in activeIds' <=> other \in activeIds) /\ (other \in reserved' <=> other \in reserved)
    BY <1>2, <1>7
  <2> QED BY <2>1, <2>2, <2>3 DEF Same, NativeSame, ServiceSame, Handles
<1> QED BY <1>2, <1>4, <1>5, <1>6, <1>7 DEF Beside

\* A handler that does not pump.
LEMMA CalmBeside ==
  ASSUME TypeOK, NEW id \in Id, Handles(id), NEW more \in SUBSET CallOp,
         calls' = calls \cup CallsOf(more, id), startSeq' = startSeq,
         \A other \in Id \ {id} : /\ other \in activeIds' <=> other \in activeIds
                                  /\ other \in reserved' <=> other \in reserved
  PROVE  Ops(id)' = Ops(id) \cup more /\ Beside(id)
<1>1. Ops(id)' = Ops(id) \cup more /\ \A other \in Id \ {id} : Ops(other)' = Ops(other)
  BY OpsCalled
<1> QED BY <1>1 DEF Beside, Same, ServiceSame, NativeSame, Handles

\* release(): the slot is free, tokens stay.
LEMMA ReleaseBeside ==
  ASSUME TypeOK, NEW id \in Id, ~ (startSeq < id), Handles(id), NEW more \in SUBSET CallOp,
         Release(id, CallsOf(more, id))
  PROVE  /\ Ops(id)' = Ops(id) \cup more
         /\ id \in reserved' <=> id \in reserved
         /\ id \notin activeIds'
         /\ ~ (startSeq' < id)
         /\ Beside(id)
<1>1. CASE Pump(reserved, activeIds \ {id}, CallsOf(more, id))
  <2> DEFINE ids == activeIds \ {id}
             tokens == reserved
  <2>1. /\ tokens \in SUBSET reserved /\ ids \in SUBSET activeIds /\ Pump(tokens, ids, CallsOf(more, id))
        /\ reserved \ tokens \subseteq {id} /\ activeIds \ ids \subseteq {id} /\ id \notin ids
    BY <1>1
  <2>2. tokens = reserved  OBVIOUS
  <2> HIDE DEF ids, tokens
  <2> QED BY <2>1, <2>2, PumpBeside
<1>2. CASE id \notin activeIds /\ calls' = calls \cup CallsOf(more, id) /\ UNCHANGED slots
  <2>1. UNCHANGED <<reserved, activeIds, startSeq>>  BY <1>2 DEF slots
  <2> QED BY <1>2, <2>1, CalmBeside
<1> QED BY <1>1, <1>2 DEF Release

LEMMA BesideLives ==
  ASSUME TypeOK, TypeOK', NEW id \in Id, Beside(id), Life(id)', \A other \in Id : Life(other)
  PROVE  \A other \in Id : Life(other)'
<1>1. startSeq \in Nat /\ startSeq' \in Nat  BY DEF TypeOK, SlotsOK
<1>2. \A other \in Id \ {id} : Life(other)'
  BY <1>1, SameLives, NewLives DEF Beside
<1> QED BY <1>2

\* The messages that free a slot: the transfer is over, or paused, or was not resumed.
LEMMA FreedLives ==
  ASSUME TypeOK, NEW id \in Id, Life(id), NEW what \in Freeing, what \in Msgs(id),
         NEW more \in {{}, {"move"}}, Ops(id)' = Ops(id) \cup more,
         Msgs(id)' \subseteq Msgs(id), Msgs(id) \subseteq Msgs(id)' \cup {what},
         what \in Talk => Msgs(id)' \cap Talk = {} \/ id \in doubled, doubled' = doubled,
         Msgs(id) \cap StartAnswers = {},
         id \in reserved' <=> id \in reserved, id \notin activeIds', ~ (startSeq' < id),
         NativeSame(id), id \in sidecar' <=> id \in sidecar,
         \/ entry'[id] = entry[id]
         \/ entry[id] # "none" /\ entry'[id] \in {"failed", "gone"}
         \/ entry[id] # "none" /\ entry'[id] = "paused" /\ what = "paused"
  PROVE  Life(id)'
<1> USE DEF Life, NativeSame, Freeing
<1>1. Ops(id) \cap StartCalls = {}  BY DEF StartLife
<1>2. id \notin doubled /\ what \in Talk => Ops(id) \cap {"pause", "resume"} = {}
  BY DEF TalkLife
<1>3. id \notin doubled => row[id] # "live"
  BY DEF RowLife, RunLife
<1>4. StartLife(id)'  BY <1>1 DEF StartLife, StartCalls, StartAnswers
<1>5. KnownLife(id)' /\ RowLife(id)' /\ SlotLife(id)'
  BY DEF KnownLife, RowLife, SlotLife
<1>6. ASSUME id \notin doubled
      PROVE  TalkLife(id)'
  <2>1. CASE what = "paused"  BY <1>2, <1>6, <2>1 DEF TalkLife, Talk
  <2>2. CASE what # "paused"  BY <1>6, <2>2 DEF TalkLife, Talk
  <2> QED BY <2>1, <2>2
<1>7. ASSUME id \notin doubled
      PROVE  RunLife(id)'
  <2>1. ~ (row[id] = "paused" /\ "resume" \in Ops(id))
    BY <1>2, <1>7 DEF RowLife, Talk
  <2> QED BY <1>3, <1>7, <2>1 DEF RunLife
<1> QED BY <1>4, <1>5, <1>6, <1>7

\* What taking a message of `id' leaves to be shown: the life of that one start.
LEMMA HandlesTaken ==
  ASSUME TypeOK, InOrder, NEW id \in Id, NEW what \in Outcome, Take(what, id), Life(id),
         UNCHANGED <<row, echo, observed, sidecar, doubled>>,
         \/ entry' = entry
         \/ \E s : SetStatus(id, s)
         \/ \E s : entry' = [entry EXCEPT ![id] = s]
  PROVE  Handles(id) /\ NativeSame(id) /\ ~ (startSeq < id) /\ InOrder'
<1>0. inbox \in Seq(Message) /\ entry \in [Id -> EntryStatus]
  BY DEF TypeOK, StoreOK, BridgeOK
<1>1. what \in Msgs(id) /\ InOrder' /\ \A other \in Id \ {id} : Msgs(other)' = Msgs(other)
  BY <1>0, MsgsTaken
<1>2. \A other \in Id \ {id} : entry'[other] = entry[other]
  BY <1>0 DEF SetStatus
<1>3. ~ (startSeq < id)  BY <1>1 DEF Life, StartLife, Unasked
<1> QED BY <1>1, <1>2, <1>3 DEF Handles, NativeSame

\* A message that frees the slot.
LEMMA FreeingLives ==
  ASSUME TypeOK, TypeOK', ~ shutDown, InOrder, \A i \in Id : Life(i), NEW id \in Id,
         \/ OnComplete(id) \/ OnError(id) \/ OnPaused(id) \/ OnResumeFailed(id)
         \/ OnCancelled(id) \/ OnPurged(id)
  PROVE  InOrder' /\ \A other \in Id : Life(other)'
<1>0. inbox \in Seq(Message) /\ entry \in [Id -> EntryStatus]
  BY DEF TypeOK, StoreOK, BridgeOK
<1>1. \E what \in Freeing, more \in {{}, {"move"}} :
        /\ Take(what, id) /\ Release(id, CallsOf(more, id))
        /\ \/ entry' = entry
           \/ \E s \in {"failed", "gone"} : SetStatus(id, s)
           \/ what = "paused" /\ SetStatus(id, "paused")
        /\ UNCHANGED <<row, echo, observed, sidecar, doubled>>
  <2>0. /\ {} = CallsOf({}, id)
        /\ {[op |-> "move", id |-> id]} = CallsOf({"move"}, id)
    BY DEF CallsOf
  <2>1. UNCHANGED <<row, echo, observed, sidecar, doubled>>
    BY DEF OnComplete, OnError, OnPaused, OnResumeFailed, OnCancelled, OnPurged,
       otherVars, nativeVars, repeats
  <2>2. CASE OnComplete(id)
    <3>1. /\ Take("complete", id) /\ SetStatus(id, "gone")
          /\ \/ Release(id, {[op |-> "move", id |-> id]})
             \/ Release(id, {})
      BY <2>2 DEF OnComplete
    <3>2. CASE Release(id, {[op |-> "move", id |-> id]})
      <4>1. Release(id, CallsOf({"move"}, id))  BY <2>0, <3>2
      <4> QED BY <2>1, <3>1, <4>1 DEF Freeing, Over
    <3>3. CASE Release(id, {})
      <4>1. Release(id, CallsOf({}, id))  BY <2>0, <3>3
      <4> QED BY <2>1, <3>1, <4>1 DEF Freeing, Over
    <3> QED BY <3>1, <3>2, <3>3
  <2>3. CASE \/ OnError(id) \/ OnPaused(id) \/ OnResumeFailed(id) \/ OnCancelled(id) \/ OnPurged(id)
    <3>1. Release(id, {})
      BY <2>3 DEF OnError, OnPaused, OnResumeFailed, OnCancelled, OnPurged
    <3>2. Release(id, CallsOf({}, id))  BY <2>0, <3>1
    <3>3. \E what \in Freeing :
            /\ Take(what, id)
            /\ \/ entry' = entry
               \/ \E s \in {"failed", "gone"} : SetStatus(id, s)
               \/ what = "paused" /\ SetStatus(id, "paused")
      BY <2>3 DEF OnError, OnPaused, OnResumeFailed, OnCancelled, OnPurged, Freeing, Over, store
    <3> QED BY <2>1, <3>2, <3>3
  <2> QED BY <2>2, <2>3
<1>2. PICK what \in Freeing, more \in {{}, {"move"}} :
        /\ Take(what, id) /\ Release(id, CallsOf(more, id))
        /\ \/ entry' = entry
           \/ \E s \in {"failed", "gone"} : SetStatus(id, s)
           \/ what = "paused" /\ SetStatus(id, "paused")
        /\ UNCHANGED <<row, echo, observed, sidecar, doubled>>
  BY <1>1
<1>3. what \in Outcome /\ what \notin StartAnswers /\ more \in SUBSET CallOp
  BY DEF Freeing, Over, Outcome, StartAnswers, CallOp
<1>4. Life(id)  OBVIOUS
<1>5. Handles(id) /\ NativeSame(id) /\ ~ (startSeq < id) /\ InOrder'
  BY <1>2, <1>3, <1>4, HandlesTaken
<1>6. /\ Ops(id)' = Ops(id) \cup more
      /\ id \in reserved' <=> id \in reserved
      /\ id \notin activeIds'
      /\ ~ (startSeq' < id)
      /\ Beside(id)
  BY <1>2, <1>3, <1>5, ReleaseBeside
<1>7. /\ what \in Msgs(id)
      /\ Msgs(id)' \subseteq Msgs(id) /\ Msgs(id) \subseteq Msgs(id)' \cup {what}
      /\ what \in Talk => Msgs(id)' \cap Talk = {} \/ id \in doubled
      /\ Msgs(id) \cap StartAnswers = {}
  BY <1>0, <1>2, <1>3, MsgsTaken
<1>8. \/ entry'[id] = entry[id]
      \/ entry[id] # "none" /\ entry'[id] \in {"failed", "gone"}
      \/ entry[id] # "none" /\ entry'[id] = "paused" /\ what = "paused"
  BY <1>0, <1>2 DEF SetStatus
<1>9. id \in sidecar' <=> id \in sidecar  BY <1>2
<1>10. Life(id)'  BY <1>2, <1>4, <1>5, <1>6, <1>7, <1>8, <1>9, FreedLives
<1> QED BY <1>5, <1>6, <1>10, BesideLives

\* The other messages of a download that has begun.
LEMMA ToldLives ==
  ASSUME TypeOK, TypeOK', ~ shutDown, InOrder, \A i \in Id : Life(i), NEW id \in Id,
         OnResumed(id) \/ OnPauseFailed(id) \/ OnMoveFailed(id)
  PROVE  InOrder' /\ \A other \in Id : Life(other)'
<1>0. inbox \in Seq(Message) /\ entry \in [Id -> EntryStatus]
  BY DEF TypeOK, StoreOK, BridgeOK
<1>1. PICK what \in {"resumed", "pauseFailed", "moveFailed"}, more \in {{}, {"purge"}} :
        /\ Take(what, id) /\ calls' = calls \cup CallsOf(more, id)
        /\ IF what = "resumed" THEN SetStatus(id, "active") ELSE entry' = entry
        /\ UNCHANGED <<row, echo, observed, sidecar, doubled, reserved, activeIds, startSeq>>
  <2>1. UNCHANGED <<row, echo, observed, sidecar, doubled, reserved, activeIds, startSeq>>
    BY DEF OnResumed, OnPauseFailed, OnMoveFailed, otherVars, nativeVars, repeats, slots
  <2>2. \E what \in {"resumed", "pauseFailed", "moveFailed"} :
          /\ Take(what, id)
          /\ calls' = calls \/ calls' = calls \cup {[op |-> "purge", id |-> id]}
          /\ IF what = "resumed" THEN SetStatus(id, "active") ELSE entry' = entry
    BY DEF OnResumed, OnPauseFailed, OnMoveFailed, store
  <2>3. /\ calls' = calls => calls' = calls \cup CallsOf({}, id)
        /\ {[op |-> "purge", id |-> id]} = CallsOf({"purge"}, id)
    BY DEF CallsOf
  <2> QED BY <2>1, <2>2, <2>3
<1>3. what \in Outcome /\ what \notin StartAnswers /\ more \in SUBSET CallOp
  BY DEF Outcome, StartAnswers, CallOp
<1>4. Life(id)  OBVIOUS
<1>5. Handles(id) /\ NativeSame(id) /\ ~ (startSeq < id) /\ InOrder'
  BY <1>1, <1>3, <1>4, HandlesTaken
<1>6. Ops(id)' = Ops(id) \cup more /\ Beside(id)
  BY <1>1, <1>3, <1>5, CalmBeside
<1>7. /\ what \in Msgs(id)
      /\ Msgs(id)' \subseteq Msgs(id) /\ Msgs(id) \subseteq Msgs(id)' \cup {what}
      /\ what \in Talk => Msgs(id)' \cap Talk = {} \/ id \in doubled
      /\ Msgs(id) \cap StartAnswers = {}
  BY <1>0, <1>1, <1>3, MsgsTaken
<1>8. \/ entry'[id] = entry[id] /\ (what = "resumed" => entry[id] # "paused")
      \/ what = "resumed" /\ entry[id] # "none" /\ entry'[id] = "active"
  BY <1>0, <1>1 DEF SetStatus
<1>9. /\ Ops(id) \cap StartCalls = {}
      /\ id \notin doubled /\ what \in Talk => Ops(id) \cap {"pause", "resume"} = {}
  BY <1>7 DEF Life, StartLife, TalkLife
<1>10. Life(id)'
  <2> USE <1>1, <1>5, <1>6, <1>7, <1>8, <1>9 DEF Life, NativeSame
  <2>1. Due(id) => Due(id)'  BY DEF Due, Freeing, Over
  <2>2. StartLife(id)'  BY <2>1 DEF StartLife, StartCalls, StartAnswers
  <2>3. KnownLife(id)' /\ (id \notin doubled => TalkLife(id)')  BY DEF KnownLife, TalkLife, Talk
  <2>4. RowLife(id)' /\ (id \notin doubled => RunLife(id)')  BY DEF RowLife, RunLife
  <2>5. SlotLife(id)'  BY <2>1 DEF SlotLife
  <2> QED BY <2>2, <2>3, <2>4, <2>5
<1> QED BY <1>5, <1>6, <1>10, BesideLives

\* The answer to a start.
LEMMA AnsweredLives ==
  ASSUME TypeOK, TypeOK', ApartInv, ~ shutDown, InOrder, \A i \in Id : Life(i), NEW id \in Id,
         OnStarted(id) \/ OnStartFailed(id)
  PROVE  InOrder' /\ \A other \in Id : Life(other)'
<1>0. inbox \in Seq(Message) /\ entry \in [Id -> EntryStatus]
  BY DEF TypeOK, StoreOK, BridgeOK
<1>1. PICK what \in StartAnswers :
        /\ Take(what, id) /\ UNCHANGED <<row, echo, observed, sidecar, doubled>>
        /\ what = "started" => OnStarted(id)
        /\ what = "startFailed" => OnStartFailed(id)
  <2>1. UNCHANGED <<row, echo, observed, sidecar, doubled>>
    BY DEF OnStarted, OnStartFailed, otherVars, nativeVars, repeats
  <2>2. CASE OnStarted(id)  BY <2>1, <2>2 DEF OnStarted, StartAnswers
  <2>3. CASE OnStartFailed(id)  BY <2>1, <2>3 DEF OnStartFailed, StartAnswers
  <2> QED BY <2>2, <2>3
<1>2. what \in Outcome /\ what \notin Talk  BY DEF Outcome, StartAnswers, Talk
<1>3. Life(id)  OBVIOUS
<1>4. /\ what \in Msgs(id)
      /\ Msgs(id)' \subseteq Msgs(id) /\ Msgs(id) \subseteq Msgs(id)' \cup {what}
      /\ Msgs(id)' \cap StartAnswers = {}
  BY <1>0, <1>1, <1>2, MsgsTaken
<1>5. /\ entry[id] = "none" /\ id \notin activeIds /\ Ops(id) \cap StartCalls = {}
      /\ Ops(id) \cap {"pause", "resume", "cancel"} = {} /\ Msgs(id) \cap Talk = {}
  <2>1. Msgs(id) \cap StartAnswers # {}  BY <1>4
  <2>2. entry[id] = "none" /\ id \notin activeIds  BY <2>1, StartingUnknown
  <2> QED BY <1>3, <1>4, <2>2 DEF Life, StartLife, KnownLife
<1>6. CASE what = "started"
  <2>1. /\ calls' = calls /\ startSeq' = startSeq /\ reserved' = reserved \ {id}
        /\ activeIds' = (IF id \in sidecar THEN activeIds ELSE activeIds \cup {id})
        /\ entry' = [entry EXCEPT ![id] = "active"]
    BY <1>1, <1>6 DEF OnStarted
  <2>2. Handles(id) /\ NativeSame(id) /\ ~ (startSeq < id) /\ InOrder'
    BY <1>1, <1>2, <1>3, <2>1, HandlesTaken
  <2>3. /\ calls' = calls \cup CallsOf({}, id) /\ {} \in SUBSET CallOp
        /\ \A other \in Id \ {id} : /\ other \in activeIds' <=> other \in activeIds
                                    /\ other \in reserved' <=> other \in reserved
    BY <2>1 DEF CallsOf
  <2>4. Ops(id)' = Ops(id) /\ Beside(id)
    <3>1. Ops(id)' = Ops(id) \cup {} /\ Beside(id)
      BY <2>1, <2>2, <2>3, CalmBeside
    <3> QED BY <3>1
  <2>5. entry'[id] = "active"  BY <1>0, <2>1
  <2>6. Life(id)'
    <3> USE <1>1, <1>3, <1>4, <1>5, <1>6, <2>1, <2>2, <2>4, <2>5 DEF Life, NativeSame
    <3>1. Due(id)'  BY DEF Due, Freeing, Over, StartLife
    <3>2. StartLife(id)'  BY <3>1 DEF StartLife, StartCalls, StartAnswers
    <3>3. KnownLife(id)' /\ (id \notin doubled => TalkLife(id)')
      BY DEF KnownLife, TalkLife, Talk
    <3>4. RowLife(id)' /\ (id \notin doubled => RunLife(id)')  BY DEF RowLife, RunLife
    <3>5. SlotLife(id)'  BY <3>1 DEF SlotLife
    <3> QED BY <3>2, <3>3, <3>4, <3>5
  <2> QED BY <2>2, <2>4, <2>6, BesideLives
<1>7. CASE what = "startFailed"
  <2>1. entry' = entry  BY <1>1, <1>7 DEF OnStartFailed, store
  <2>2. Handles(id) /\ NativeSame(id) /\ ~ (startSeq < id) /\ InOrder'
    BY <1>1, <1>2, <1>3, <2>1, HandlesTaken
  <2>3. /\ Ops(id)' = Ops(id) /\ Beside(id) /\ id \notin activeIds' /\ ~ (startSeq' < id)
        /\ id \in reserved' => id \in reserved /\ id \in sidecar
    <3>1. CASE id \in sidecar
      <4>1. /\ UNCHANGED <<reserved, activeIds, startSeq>>
            /\ calls' = calls \cup CallsOf({}, id) /\ {} \in SUBSET CallOp
        BY <1>1, <1>7, <3>1 DEF OnStartFailed, CallsOf
      <4>2. Ops(id)' = Ops(id) \cup {} /\ Beside(id)
        BY <2>2, <4>1, CalmBeside
      <4> QED BY <1>5, <2>2, <3>1, <4>1, <4>2
    <3>2. CASE id \notin sidecar
      <4> DEFINE tokens == reserved \ {id}
                 ids == activeIds
                 none == {}
      <4>1. Pump(tokens, ids, CallsOf(none, id))
        <5>1. CallsOf({}, id) = {}  BY DEF CallsOf
        <5> QED BY <1>1, <1>7, <3>2, <5>1 DEF OnStartFailed
      <4>2. /\ tokens \in SUBSET reserved /\ ids \in SUBSET activeIds /\ none \in SUBSET CallOp
            /\ reserved \ tokens \subseteq {id} /\ activeIds \ ids \subseteq {id}
            /\ id \notin tokens /\ id \notin ids /\ Ops(id) \cup none = Ops(id)
        BY <1>5
      <4> HIDE DEF tokens, ids, none
      <4>3. /\ Ops(id)' = Ops(id) \cup none
            /\ id \in reserved' <=> id \in tokens
            /\ id \in activeIds' <=> id \in ids
            /\ ~ (startSeq' < id)
            /\ Beside(id)
        BY <2>2, <4>1, <4>2, PumpBeside
      <4> QED BY <4>2, <4>3
    <3> QED BY <3>1, <3>2
  <2>4. id \notin reserved'
    BY <2>3 DEF ApartInv
  <2>5. Life(id)'
    <3> USE <1>1, <1>3, <1>4, <1>5, <1>7, <2>1, <2>2, <2>3, <2>4 DEF Life, NativeSame
    <3>0. row'[id] # "live"  BY DEF StartLife
    <3>2. StartLife(id)'  BY <3>0 DEF StartLife, StartCalls, StartAnswers
    <3>3. KnownLife(id)' /\ (id \notin doubled => TalkLife(id)')
      BY DEF KnownLife, TalkLife, Talk
    <3>4. RowLife(id)' /\ (id \notin doubled => RunLife(id)')
      BY <3>0 DEF RowLife, RunLife
    <3>5. SlotLife(id)'  BY <3>0 DEF SlotLife
    <3> QED BY <3>2, <3>3, <3>4, <3>5
  <2> QED BY <2>2, <2>3, <2>5, BesideLives
<1> QED BY <1>6, <1>7 DEF StartAnswers

-----------------------------------------------------------------------------
(* The user                                                                *)

\* Pauses, resumes and cancels are offered for a download that has begun.
LEMMA AskedLives ==
  ASSUME TypeOK, ApartInv, InOrder, \A i \in Id : Life(i), NEW id \in Id,
         PauseDownload(id) \/ ResumeDownload(id) \/ CancelDownload(id)
  PROVE  InOrder' /\ \A other \in Id : Life(other)'
<1>0. startSeq \in Nat /\ Id \subseteq Nat  BY DEF TypeOK, SlotsOK, Id
<1>1. PICK op \in {"pause", "resume", "cancel"} :
        /\ calls' = calls \cup {[op |-> op, id |-> id]}
        /\ UNCHANGED <<reserved, startSeq, sidecar, inbox, entry, row, echo, observed>>
        /\ doubled \subseteq doubled' /\ doubled' \subseteq doubled \cup {id}
        /\ op = "pause" => PauseDownload(id)
        /\ op = "resume" => ResumeDownload(id)
        /\ op = "cancel" => CancelDownload(id)
  BY DEF PauseDownload, ResumeDownload, CancelDownload, Control, Ask, slots, store, nativeVars
<1>2. /\ activeIds' \subseteq activeIds \cup {id} /\ activeIds \subseteq activeIds'
      /\ op # "resume" => activeIds' = activeIds
      /\ op = "resume" => id \in activeIds'
  BY <1>1 DEF PauseDownload, ResumeDownload, CancelDownload, slots
<1>3. InOrder' /\ \A i : Msgs(i)' = Msgs(i)
  BY <1>1, MsgsSame
<1>4. Handles(id) /\ NativeSame(id)
  BY <1>1, <1>3 DEF Handles, NativeSame
<1>5. Ops(id)' = Ops(id) \cup {op} /\ Beside(id)
  <2>1. calls' = calls \cup CallsOf({op}, id) /\ {op} \in SUBSET CallOp
    BY <1>1 DEF CallsOf, CallOp
  <2> QED BY <1>1, <1>2, <1>4, <2>1, CalmBeside
<1>6. /\ op = "pause" => /\ entry[id] = "active"
                        /\ (Msgs(id) \cap {"paused", "pauseFailed"} = {} \/ id \in doubled')
      /\ op = "resume" => /\ entry[id] = "paused"
                         /\ (Msgs(id) \cap {"resumed", "resumeFailed"} = {} \/ id \in doubled')
      /\ entry[id] # "none"
  BY <1>1 DEF PauseDownload, ResumeDownload, CancelDownload, Control, Ask, Msgs, InInbox
<1>7. Life(id)  OBVIOUS
<1>8. /\ Ops(id) \cap StartCalls = {} /\ Msgs(id) \cap StartAnswers = {} /\ ~ (startSeq < id)
  BY <1>6, <1>7, StartingUnknown DEF Life, StartLife, Unasked
<1>9. Life(id)'
  <2> USE <1>1, <1>2, <1>3, <1>4, <1>5, <1>6, <1>7, <1>8 DEF Life, NativeSame
  <2>1. Due(id) \/ op = "resume" => Due(id)'  BY DEF Due
  <2>2. StartLife(id)'  BY <2>1 DEF StartLife, StartCalls, StartAnswers
  <2>3. KnownLife(id)' /\ RowLife(id)' /\ SlotLife(id)'
    BY <2>1 DEF KnownLife, RowLife, SlotLife
  <2>4. ASSUME id \notin doubled'
        PROVE  TalkLife(id)' /\ RunLife(id)'
    <3>1. TalkLife(id) /\ RunLife(id)  BY <2>4
    <3>2. CASE op = "pause"  BY <2>4, <3>1, <3>2 DEF TalkLife, RunLife, Talk
    <3>3. CASE op = "resume"  BY <2>4, <3>1, <3>3 DEF TalkLife, RunLife, Talk
    <3>4. CASE op = "cancel"  BY <2>4, <3>1, <3>4 DEF TalkLife, RunLife, Talk
    <3> QED BY <3>2, <3>3, <3>4
  <2> QED BY <2>2, <2>3, <2>4
<1>10. \A other \in Id \ {id} : Life(other)'
  <2>1. \A other \in Id \ {id} : Same(other)
    BY <1>0, <1>1, <1>5 DEF Beside, New
  <2> QED BY <2>1, SameLives
<1> QED BY <1>3, <1>9, <1>10

\* A start, counted or not, queued or not.
LEMMA BegunLives ==
  ASSUME TypeOK, InOrder, \A i \in Id : Life(i),
         StartNow \/ StartSidecar \/ \E k \in ModelKey : Enqueue(k) \/ CancelQueued(k)
  PROVE  InOrder' /\ \A id \in Id : Life(id)'
<1>0. startSeq \in Nat /\ startSeq + 1 \in Nat /\ Id \subseteq Nat  BY DEF TypeOK, SlotsOK, Id
<1>1. UNCHANGED <<inbox, entry, activeIds, row, echo, observed, doubled>>
  BY DEF StartNow, StartSidecar, Enqueue, CancelQueued, store, nativeVars, repeats
<1>2. InOrder' /\ \A i : Msgs(i)' = Msgs(i)  BY <1>1, MsgsSame
<1>3. CASE StartNow \/ StartSidecar
  <2>1. /\ startSeq' = startSeq + 1
        /\ calls' = calls \cup {[op |-> "start", id |-> startSeq + 1]}
        /\ reserved \cup sidecar \cup {startSeq + 1} = reserved' \cup sidecar'
        /\ reserved \subseteq reserved' /\ reserved' \subseteq reserved \cup {startSeq + 1}
        /\ sidecar \subseteq sidecar' /\ sidecar' \subseteq sidecar \cup {startSeq + 1}
    BY <1>3 DEF StartNow, StartSidecar
  <2>2. ASSUME NEW id \in Id, id = startSeq + 1
        PROVE  New(id)
    <3>1. Ops(id)' = Ops(id) \cup {"start"}  BY <2>1, <2>2 DEF Ops, CallOp
    <3>2. startSeq < id /\ id <= startSeq'  BY <1>0, <2>1, <2>2
    <3> QED BY <1>1, <1>2, <2>1, <2>2, <3>1, <3>2 DEF New, NativeSame
  <2>3. ASSUME NEW id \in Id, id # startSeq + 1
        PROVE  Same(id)
    <3>1. Ops(id)' = Ops(id)  BY <2>1, <2>3 DEF Ops, CallOp
    <3>2. startSeq' < id => startSeq < id  BY <1>0, <2>1, <2>3
    <3> QED BY <1>1, <1>2, <2>1, <2>3, <3>1, <3>2 DEF Same, ServiceSame, NativeSame
  <2> QED BY <1>0, <1>2, <2>1, <2>2, <2>3, SameLives, NewLives
<1>4. CASE \E k \in ModelKey : Enqueue(k) \/ CancelQueued(k)
  <2>1. UNCHANGED <<calls, startSeq, reserved, sidecar>>
    BY <1>4 DEF Enqueue, CancelQueued
  <2>2. \A id \in Id : Same(id)
    BY <1>1, <1>2, <2>1, OpsSame DEF Same, ServiceSame, NativeSame
  <2> QED BY <1>2, <2>2, SameLives
<1> QED BY <1>3, <1>4

-----------------------------------------------------------------------------
(* The invariant                                                           *)

LEMMA LifeInit == Init => LifeInv
<1> SUFFICES ASSUME Init PROVE LifeInv
  OBVIOUS
<1>1. \A id \in Id : Ops(id) = {} /\ Msgs(id) = {}
  BY DEF Init, Ops, Msgs
<1>2. \A id \in Id : Unasked(id)
  BY <1>1 DEF Init, NoRows, Unasked
<1>3. \A id \in Id : Life(id)
  BY <1>1, <1>2 DEF Unasked, Life, StartLife, KnownLife, TalkLife, RowLife, SlotLife, RunLife
<1>4. Still /\ Twice /\ InOrder
  BY DEF Init, Still, Twice, InOrder, Idle, Reader
<1> QED BY <1>3, <1>4 DEF LifeInv

\* Without retries, reads and restores there are none of their calls and messages.
LEMMA StillInductive ==
  ASSUME NoRetakes, TypeOK, Still, [Next]_vars
  PROVE  Still'
<1>0. /\ inbox \in Seq(Message) /\ poll \in [Reader -> PollState]
      /\ used.retries \in Nat /\ used.reconciles \in Nat /\ used.restores \in Nat
      /\ used.kills \in Nat /\ "reconcile" \in Reader /\ "restore" \in Reader
  BY DEF TypeOK, StoreOK, BridgeOK, Reader
<1>1. /\ ~ StartReconcile /\ ~ StartRestore /\ ~ Kill
      /\ \A id \in Id : ~ RetryDownload(id) /\ ~ NativeRetry(id) /\ ~ NativeRetryFails(id)
  BY <1>0 DEF NoRetakes, NoRelaunch, StartReconcile, StartRestore, Kill, RetryDownload,
     NativeRetry, NativeRetryFails, ServeControl, Still
<1>2. ~ Reads /\ ~ AdoptActive
  BY <1>0 DEF Reads, ReadRows, PostRows, NativeObserve, AdoptActive, Still
<1>3. /\ ~ OnReconcile /\ ~ OnRestore
      /\ \A id \in Id : ~ OnRetried(id) /\ ~ OnRetryFailed(id)
  <2>1. inbox # <<>> => Head(inbox).what \in Outcome \ {"retried", "retryFailed"}
    <3>1. inbox # <<>> => 1 \in 1 .. Len(inbox) /\ Head(inbox) = inbox[1]  BY <1>0
    <3> QED BY <3>1 DEF Still
  <2> QED BY <2>1 DEF OnReconcile, OnRestore, TakeRows, OnRetried, OnRetryFailed, Take, Outcome
<1>4. CASE User \/ Cleanup \/ UNCHANGED vars
  <2>1. /\ UNCHANGED <<inbox, poll>> /\ uncapped' \subseteq uncapped
    <3>1. CASE User
      BY <1>1, <3>1 DEF User, Enqueue, CancelQueued, StartNow, StartSidecar, PauseDownload,
         ResumeDownload, CancelDownload, slots
    <3>2. CASE Cleanup \/ UNCHANGED vars
      BY <3>2 DEF Cleanup, vars, slots
    <3> QED BY <1>4, <3>1, <3>2
  <2>2. \A id \in Id : [op |-> "retry", id |-> id] \in calls' => [op |-> "retry", id |-> id] \in calls
    <3>1. CASE \/ StartNow \/ StartSidecar \/ Cleanup \/ UNCHANGED vars
               \/ \E k \in ModelKey : Enqueue(k) \/ CancelQueued(k)
      BY <3>1 DEF StartNow, StartSidecar, Cleanup, Enqueue, CancelQueued, vars
    <3>2. CASE \E i \in Id : PauseDownload(i) \/ ResumeDownload(i) \/ CancelDownload(i)
      BY <3>2 DEF PauseDownload, ResumeDownload, CancelDownload, Control, Ask
    <3> QED BY <1>1, <1>4, <3>1, <3>2 DEF User
  <2> QED BY <2>1, <2>2 DEF Still
<1>5. ASSUME NEW id \in Id, Native(id) \/ Transfer(id) \/ EchoError(id)
      PROVE  Still'
  <2>1. UNCHANGED <<poll, uncapped>>
    BY <1>5 DEF Native, NativeInsert, NativeEnqueue, NativeStartFails, NativePause,
       NativeResume, NativeRetry, NativeRetryFails, NativeCancel, NativeMove, Transfer,
       TransferComplete, TransferFail, EchoError, serviceVars, slots
  <2>2. \A i \in Id : [op |-> "retry", id |-> i] \in calls' => [op |-> "retry", id |-> i] \in calls
    BY <1>5 DEF Native, NativeInsert, NativeEnqueue, NativeStartFails, NativePause,
       NativeResume, NativeRetry, NativeRetryFails, NativeCancel, NativeMove, Transfer,
       TransferComplete, TransferFail, EchoError, Serve, ServeControl
  <2>3. inbox' = inbox \/ \E what \in Outcome \ {"retried", "retryFailed"} : Post(what, id)
    BY <1>1, <1>5 DEF Native, NativeInsert, NativeEnqueue, NativeStartFails, NativePause,
       NativeResume, NativeCancel, NativeMove, Transfer, TransferComplete, TransferFail,
       EchoError, Outcome
  <2>4. \A i \in 1 .. Len(inbox') : inbox'[i].what \in Outcome \ {"retried", "retryFailed"}
    <3>1. CASE inbox' = inbox  BY <3>1 DEF Still
    <3>2. ASSUME NEW what \in Outcome \ {"retried", "retryFailed"}, Post(what, id)
          PROVE  \A i \in 1 .. Len(inbox') : inbox'[i].what \in Outcome \ {"retried", "retryFailed"}
      <4>1. PICK m \in Message : m.what = what /\ inbox' = Append(inbox, m)
        BY <3>2 DEF Post, Message
      <4>2. \A i \in 1 .. Len(inbox') :
              inbox'[i] = m \/ \E j \in 1 .. Len(inbox) : inbox'[i] = inbox[j]
        BY <1>0, <4>1, PostedMessage
      <4> QED BY <3>2, <4>1, <4>2 DEF Still
    <3> QED BY <2>3, <3>1, <3>2
  <2> QED BY <2>1, <2>2, <2>4 DEF Still
<1>6. ASSUME NEW id \in Id,
             \/ OnStarted(id) \/ OnStartFailed(id) \/ OnComplete(id) \/ OnError(id)
             \/ OnPaused(id) \/ OnPauseFailed(id) \/ OnResumed(id) \/ OnResumeFailed(id)
             \/ OnCancelled(id) \/ OnPurged(id) \/ OnMoveFailed(id)
      PROVE  Still'
  <2>1. inbox # <<>> /\ inbox' = Tail(inbox) /\ poll' = poll
    BY <1>6 DEF OnStarted, OnStartFailed, OnComplete, OnError, OnPaused, OnPauseFailed,
       OnResumed, OnResumeFailed, OnCancelled, OnPurged, OnMoveFailed, Take, otherVars
  <2>2. uncapped' \subseteq uncapped
    BY <1>6 DEF OnStarted, OnStartFailed, OnComplete, OnError, OnPaused, OnPauseFailed,
       OnResumed, OnResumeFailed, OnCancelled, OnPurged, OnMoveFailed, Release, slots
  <2>3. \A i \in Id : [op |-> "retry", id |-> i] \in calls' => [op |-> "retry", id |-> i] \in calls
    <3>1. CASE OnStarted(id) \/ OnPauseFailed(id) \/ OnResumed(id) \/ OnMoveFailed(id)
      BY <3>1 DEF OnStarted, OnPauseFailed, OnResumed, OnMoveFailed
    <3>2. CASE OnStartFailed(id)
      BY <3>2 DEF OnStartFailed, Pump
    <3>3. CASE \/ OnComplete(id) \/ OnError(id) \/ OnPaused(id) \/ OnResumeFailed(id)
               \/ OnCancelled(id) \/ OnPurged(id)
      BY <3>3 DEF OnComplete, OnError, OnPaused, OnResumeFailed, OnCancelled, OnPurged,
         Release, Pump
    <3> QED BY <1>6, <3>1, <3>2, <3>3
  <2>4. \A i \in 1 .. Len(inbox') : inbox'[i].what \in Outcome \ {"retried", "retryFailed"}
    BY <1>0, <2>1, TakenMessage DEF Still
  <2> QED BY <2>1, <2>2, <2>3, <2>4 DEF Still
<1> QED BY <1>1, <1>2, <1>3, <1>4, <1>5, <1>6 DEF Next, JavaScript

\* A second call is asked for with the first still pending, and the download is marked.
LEMMA TwiceInductive ==
  ASSUME NoRetakes, TypeOK, Twice, [Next]_vars
  PROVE  Twice'
<1>1. ASSUME NEW op \in CallOp, NEW id \in Id, NEW shown, NEW answers, Ask(op, id, shown, answers)
      PROVE  Twice'
  BY <1>1 DEF Ask, Twice
<1>2. CASE User
  <2>1. CASE \E id \in Id : PauseDownload(id) \/ ResumeDownload(id) \/ RetryDownload(id)
                           \/ CancelDownload(id)
    BY <1>1, <2>1 DEF PauseDownload, ResumeDownload, RetryDownload, CancelDownload, Control,
       CallOp
  <2>2. CASE \/ StartNow \/ StartSidecar \/ StartReconcile \/ StartRestore
             \/ \E k \in ModelKey : Enqueue(k) \/ CancelQueued(k)
    BY <2>2 DEF StartNow, StartSidecar, StartReconcile, StartRestore, Enqueue, CancelQueued,
       repeats, Twice
  <2> QED BY <1>2, <2>1, <2>2 DEF User
<1>3. CASE Cleanup \/ Kill \/ Reads \/ AdoptActive \/ UNCHANGED vars
  BY <1>3 DEF Cleanup, Kill, Reads, ReadRows, PostRows, NativeObserve, AdoptActive, PollVars,
     repeats, vars, Twice
<1>4. ASSUME NEW id \in Id, Native(id) \/ Transfer(id) \/ EchoError(id)
      PROVE  Twice'
  <2>1. doubled' = doubled
    BY <1>4 DEF Native, NativeInsert, NativeEnqueue, NativeStartFails, NativePause,
       NativeResume, NativeRetry, NativeRetryFails, NativeCancel, NativeMove, Transfer,
       TransferComplete, TransferFail, EchoError, serviceVars
  <2>2. again' = again \/ \E op \in CallOp : ServeControl(op, id)
    BY <1>4 DEF Native, NativeInsert, NativeEnqueue, NativeStartFails, NativePause,
       NativeResume, NativeRetry, NativeRetryFails, NativeCancel, NativeMove, Transfer,
       TransferComplete, TransferFail, EchoError, Serve, CallOp
  <2> QED BY <2>1, <2>2 DEF ServeControl, Twice
<1>5. CASE JavaScript
  <2>1. UNCHANGED repeats
    BY <1>5 DEF JavaScript, OnStarted, OnStartFailed, OnComplete, OnError, OnPaused,
       OnPauseFailed, OnResumed, OnResumeFailed, OnRetried, OnRetryFailed, OnCancelled,
       OnPurged, OnMoveFailed, OnReconcile, OnRestore, otherVars
  <2> QED BY <2>1 DEF repeats, Twice
<1> QED BY <1>2, <1>3, <1>4, <1>5 DEF Next

LEMMA LifeInductive ==
  ASSUME NoRetakes, TypeOK, TypeOK', StartsInv, ApartInv, LifeInv, [Next]_vars
  PROVE  LifeInv'
<1>1. Still' /\ Twice'  BY StillInductive, TwiceInductive DEF LifeInv
<1>2. shutDown => shutDown'
  <2>1. ~ Kill  BY DEF Kill, NoRetakes, NoRelaunch, TypeOK, StoreOK
  <2>2. shutDown' = shutDown \/ Cleanup
    <3>1. CASE User \/ Reads \/ AdoptActive \/ UNCHANGED vars
      BY <3>1 DEF User, Enqueue, CancelQueued, StartNow, StartSidecar, PauseDownload,
         ResumeDownload, RetryDownload, CancelDownload, StartReconcile, StartRestore, Reads,
         ReadRows, PostRows, NativeObserve, PollVars, AdoptActive, vars
    <3>2. CASE \E id \in Id : Native(id) \/ Transfer(id) \/ EchoError(id)
      BY <3>2, NativeBeside DEF LifeInv
    <3>3. CASE JavaScript
      BY <3>3 DEF JavaScript, OnStarted, OnStartFailed, OnComplete, OnError, OnPaused,
         OnPauseFailed, OnResumed, OnResumeFailed, OnRetried, OnRetryFailed, OnCancelled,
         OnPurged, OnMoveFailed, OnReconcile, OnRestore
    <3> QED BY <2>1, <3>1, <3>2, <3>3 DEF Next
  <2>3. Cleanup => shutDown'  BY DEF Cleanup
  <2> QED BY <2>2, <2>3
<1>3. ASSUME ~ shutDown'
      PROVE  InOrder' /\ \A id \in Id : Life(id)'
  <2>1. ~ shutDown /\ Still /\ Twice /\ InOrder /\ \A id \in Id : Life(id)
    BY <1>2, <1>3 DEF LifeInv
  <2>2. ~ Cleanup  BY <1>3 DEF Cleanup
  <2>3. CASE UNCHANGED vars
    <3>1. UNCHANGED <<calls, inbox, entry, activeIds, reserved, sidecar, startSeq, row, echo,
                      observed, doubled>>
      BY <2>3 DEF vars, slots, store, nativeVars, repeats
    <3>2. \A id \in Id : Same(id)
      BY <3>1, OpsSame, MsgsSame DEF Same, ServiceSame, NativeSame
    <3> QED BY <2>1, <3>1, <3>2, SameLives, MsgsSame
  <2>4. CASE \E id \in Id : Native(id) \/ Transfer(id) \/ EchoError(id)
    BY <2>1, <2>4, NativeLives
  <2>5. CASE User
    <3>1. \/ StartNow \/ StartSidecar \/ \E k \in ModelKey : Enqueue(k) \/ CancelQueued(k)
          \/ \E id \in Id : PauseDownload(id) \/ ResumeDownload(id) \/ CancelDownload(id)
      <4>1. ~ StartReconcile /\ ~ StartRestore /\ \A id \in Id : ~ RetryDownload(id)
        BY DEF NoRetakes, NoRelaunch, StartReconcile, StartRestore, RetryDownload, TypeOK, StoreOK
      <4> QED BY <2>5, <4>1 DEF User
    <3> QED BY <2>1, <3>1, AskedLives, BegunLives
  <2>6. CASE JavaScript
    <3>1. \E id \in Id :
            \/ OnStarted(id) \/ OnStartFailed(id) \/ OnComplete(id) \/ OnError(id)
            \/ OnPaused(id) \/ OnPauseFailed(id) \/ OnResumed(id) \/ OnResumeFailed(id)
            \/ OnCancelled(id) \/ OnPurged(id) \/ OnMoveFailed(id)
      <4>1. inbox # <<>> => Head(inbox).what \in Outcome \ {"retried", "retryFailed"}
        <5>1. inbox # <<>> => 1 \in 1 .. Len(inbox) /\ Head(inbox) = inbox[1]
          BY DEF TypeOK, BridgeOK
        <5> QED BY <2>1, <5>1 DEF Still
      <4>2. /\ ~ OnReconcile /\ ~ OnRestore
            /\ \A id \in Id : ~ OnRetried(id) /\ ~ OnRetryFailed(id)
        BY <4>1 DEF OnReconcile, OnRestore, TakeRows, OnRetried, OnRetryFailed, Take, Outcome
      <4> QED BY <2>6, <4>2 DEF JavaScript
    <3>2. PICK id \in Id :
            \/ OnStarted(id) \/ OnStartFailed(id) \/ OnComplete(id) \/ OnError(id)
            \/ OnPaused(id) \/ OnPauseFailed(id) \/ OnResumed(id) \/ OnResumeFailed(id)
            \/ OnCancelled(id) \/ OnPurged(id) \/ OnMoveFailed(id)
      BY <3>1
    <3>3. CASE OnStarted(id) \/ OnStartFailed(id)
      BY <2>1, <3>3, AnsweredLives
    <3>4. CASE \/ OnComplete(id) \/ OnError(id) \/ OnPaused(id) \/ OnResumeFailed(id)
               \/ OnCancelled(id) \/ OnPurged(id)
      BY <2>1, <3>4, FreeingLives
    <3>5. CASE OnResumed(id) \/ OnPauseFailed(id) \/ OnMoveFailed(id)
      BY <2>1, <3>5, ToldLives
    <3> QED BY <3>2, <3>3, <3>4, <3>5
  <2>7. ~ Reads /\ ~ AdoptActive /\ ~ Kill
    <3>1. /\ poll["reconcile"].stage = "idle" /\ poll["restore"].stage = "idle"
      BY <2>1 DEF Still, Reader
    <3>2. ~ Reads /\ ~ AdoptActive
      BY <3>1 DEF Reads, Reader, ReadRows, PostRows, NativeObserve, AdoptActive
    <3>3. ~ Kill
      BY DEF Kill, NoRetakes, NoRelaunch, TypeOK, StoreOK
    <3> QED BY <3>2, <3>3
  <2> QED BY <2>2, <2>3, <2>4, <2>5, <2>6, <2>7 DEF Next
<1> QED BY <1>1, <1>3 DEF LifeInv

\* What the properties say, from the invariant.
LEMMA LifeCounts == LifeInv => EveryTransferCounted
<1> SUFFICES ASSUME LifeInv, ~ shutDown, NEW id \in Mains \ doubled, row[id] = "live",
                    ~ CallFor(CallOp, id), ~ InInbox(Outcome, id)
             PROVE  id \in activeIds
  BY DEF EveryTransferCounted
<1>1. id \in Id /\ id \notin sidecar /\ Life(id)  BY DEF Mains, LifeInv
<1>2. Ops(id) = {} /\ Msgs(id) = {}  BY DEF Ops, Msgs, CallFor, InInbox
<1> QED BY <1>1, <1>2 DEF Life, StartLife, RunLife

LEMMA LifeKeepsSlots == TypeOK /\ LifeInv => NoLeakedSlot
<1> SUFFICES ASSUME TypeOK, LifeInv, ~ shutDown
             PROVE  /\ \A id \in reserved :
                         \/ CallFor({"start", "enqueue"}, id)
                         \/ InInbox({"started", "startFailed"}, id)
                    /\ \A id \in activeIds :
                         \/ row[id] = "live" /\ id \in observed
                         \/ CallFor({"enqueue", "resume", "cancel", "purge"}, id)
                         \/ InInbox({"complete", "error", "paused", "resumeFailed",
                                     "cancelled", "purged"}, id)
  BY DEF NoLeakedSlot
<1>1. reserved \subseteq Id /\ activeIds \subseteq Id  BY DEF TypeOK, SlotsOK
<1>2. \A id \in Id : Life(id)  BY DEF LifeInv
<1>3. ASSUME NEW id \in reserved
      PROVE  CallFor({"start", "enqueue"}, id) \/ InInbox({"started", "startFailed"}, id)
  <2>1. Ops(id) \cap StartCalls # {} \/ Msgs(id) \cap StartAnswers # {}
    BY <1>1, <1>2 DEF Life, StartLife
  <2> QED BY <2>1 DEF Ops, Msgs, CallFor, InInbox, StartCalls, StartAnswers
<1>4. ASSUME NEW id \in activeIds
      PROVE  \/ row[id] = "live" /\ id \in observed
             \/ CallFor({"enqueue", "resume", "cancel", "purge"}, id)
             \/ InInbox({"complete", "error", "paused", "resumeFailed", "cancelled", "purged"}, id)
  <2>1. Due(id)  BY <1>1, <1>2 DEF Life, SlotLife
  <2> QED BY <2>1 DEF Due, Ops, Msgs, CallFor, InInbox, Freeing, Over
<1> QED BY <1>3, <1>4

LEMMA LifeWithinCap == TypeOK /\ CapOnAdmission /\ LifeInv => NativeLoadWithinCap
<1> SUFFICES ASSUME TypeOK, CapOnAdmission, LifeInv, ~ shutDown
             PROVE  Cardinality({id \in Mains \ doubled : row[id] = "live"}) <= MaxConcurrent
  BY DEF NativeLoadWithinCap
<1> DEFINE running == {id \in Mains \ doubled : row[id] = "live"}
           holders == reserved \cup activeIds
<1>1. reserved \in SUBSET Id /\ activeIds \in SUBSET Id  BY DEF TypeOK, SlotsOK
<1>2. IsFiniteSet(reserved) /\ IsFiniteSet(activeIds)  BY <1>1, IdsFinite
<1>3. running \subseteq holders
  BY DEF LifeInv, Life, RunLife, Mains
<1>4. IsFiniteSet(holders) /\ Cardinality(holders) <= Cardinality(reserved) + Cardinality(activeIds)
  <2>1. /\ IsFiniteSet(holders)
        /\ Cardinality(holders) = Cardinality(reserved) + Cardinality(activeIds)
                                    - Cardinality(reserved \cap activeIds)
    BY <1>2, FS_Union
  <2>2. Cardinality(reserved \cap activeIds) \in Nat
    BY <1>2, FS_Intersection, FS_CardinalityType
  <2>3. Cardinality(reserved) \in Nat /\ Cardinality(activeIds) \in Nat
    BY <1>2, FS_CardinalityType
  <2> QED BY <2>1, <2>2, <2>3
<1>5. Cardinality(running) <= Cardinality(holders) /\ Cardinality(running) \in Nat
      /\ Cardinality(holders) \in Nat
  BY <1>3, <1>4, FS_Subset, FS_CardinalityType
<1>6. Cardinality(reserved) + Cardinality(activeIds) <= MaxConcurrent
  <2>1. activeIds \ uncapped = activeIds  BY DEF LifeInv, Still
  <2> QED BY <2>1 DEF CapOnAdmission, Taken
<1>7. MaxConcurrent \in Nat /\ Cardinality(reserved) + Cardinality(activeIds) \in Nat
  BY <1>2, FS_CardinalityType, BoundsAssumption
<1> QED BY <1>4, <1>5, <1>6, <1>7

\* The inductive invariant.
TransferInv == FifoInv /\ CapInv /\ LifeInv

LEMMA TransfersKept == NoRetakes => (Spec => []TransferInv)
<1> SUFFICES ASSUME NoRetakes PROVE Spec => []TransferInv
  OBVIOUS
<1>1. NoRelaunch  BY DEF NoRetakes
<1>2. Init => TransferInv
  BY FifoInit, CapInit, LifeInit DEF TransferInv
<1>3. TransferInv /\ [Next]_vars => TransferInv'
  <2> SUFFICES ASSUME TransferInv, [Next]_vars PROVE TransferInv'
    OBVIOUS
  <2>1. FifoInv /\ CapInv /\ LifeInv /\ TypeOK /\ StartsInv /\ ApartInv /\ CapOnAdmission
    BY DEF TransferInv, FifoInv, CapInv
  <2>2. FifoInv' /\ TypeOK' /\ StartsInv'
    BY <1>1, <2>1, FifoInductive DEF FifoInv
  <2>3. CapInv'  BY <2>1, <2>2, CapInductive DEF CapInv
  <2>4. LifeInv'  BY <2>1, <2>2, LifeInductive
  <2> QED BY <2>2, <2>3, <2>4 DEF TransferInv
<1> QED BY <1>2, <1>3, PTL DEF Spec

\* A main transfer that the native layer runs, with nothing about it in flight, holds a
\* slot, unless one of its controls was asked again before it was answered. Retries,
\* reconciles and restores are excluded: they take or drop a slot on the word of a record
\* that may have changed since.
THEOREM TransfersCounted ==
  ASSUME NoRetakes
  PROVE  Spec => []EveryTransferCounted
<1>1. TransferInv => EveryTransferCounted  BY LifeCounts DEF TransferInv
<1> QED BY <1>1, TransfersKept, PTL

\* Whoever holds a slot runs under an observer that will report its end, or what frees the
\* slot is on the way: no order of starts, pauses, resumes and cancels, each tapped once or
\* twice, of ends and late second reports loses one.
THEOREM SlotsComeBack ==
  ASSUME NoRetakes
  PROVE  Spec => []NoLeakedSlot
<1>1. TransferInv => NoLeakedSlot  BY LifeKeepsSlots DEF TransferInv, FifoInv
<1> QED BY <1>1, TransfersKept, PTL

\* The native layer never runs more main transfers than the cap, those with a control
\* asked twice not counted.
THEOREM LoadWithinCap ==
  ASSUME NoRetakes
  PROVE  Spec => []NativeLoadWithinCap
<1>1. TransferInv => NativeLoadWithinCap  BY LifeWithinCap DEF TransferInv, CapInv
<1> QED BY <1>1, TransfersKept, PTL
=============================================================================
