------------------------- MODULE DownloadWorkerProofs -------------------------
(***************************************************************************)
(* What holds of one download in the Android native layer for every length *)
(* of the file and every number of runs, retries and disturbances.         *)
(*                                                                         *)
(* TypeOK bounds the block at which a run resumes.  That needs a budget:   *)
(* every run may add one file's worth of blocks to the partial file, so    *)
(* the file, what open streams hold and what the run under way has yet to  *)
(* read come to at most one file's worth per run begun.                    *)
(*                                                                         *)
(* SequentialRunsKeepTheFile needs the run to be in step with the file:    *)
(* the block it reads next comes after the blocks of the file and the one  *)
(* its stream holds, and no other stream is open on that file.             *)
(*                                                                         *)
(* LiveRowHasWork needs the whole path of a download left alone, from the  *)
(* row to the request to the run that WorkManager has on record.           *)
(***************************************************************************)
EXTENDS DownloadWorker, FiniteSetTheorems, SequenceTheorems, TLAPS

-----------------------------------------------------------------------------
(* The invariants *)

Whole(n) == [b \in 1 .. n |-> b]
Stage == {"none", "begun", "asking", "streaming", "verifying", "failing", "telling",
          "stopping", "closing", "returned", "ended"}
RunRecord == [at : Stage, stopped : BOOLEAN, next : Nat \ {0}, count : Nat,
              held : Seq(1 .. Total), append : BOOLEAN, handle : Nat,
              result : {"none", "success", "failure", "retry"}]

WorkStates == {"none", "enqueued", "running", "succeeded", "failed", "cancelled"}
WorkRecord == [state : WorkStates, run : Nat, attempt : Nat]
Status == {"none", "queued", "running", "paused", "completed", "failed", "cancelled"}

\* The row, the file and WorkManager's record.
NativeOK ==
  /\ row \in Status
  /\ file \in [no : Nat \ {0}, blocks : Seq(0 .. Total)]
  /\ work \in WorkRecord
  /\ work.run <= begun /\ work.attempt <= begun
  /\ requests \in Seq({"enqueue", "cancel", "prune"})
  /\ begun \in 0 .. MaxRuns

\* The runs: those to come are untouched, and a stream holds the block it read last,
\* if any.
RunOK(w, no) ==
  /\ w.handle <= no
  /\ w.at \in {"none", "begun", "asking", "verifying", "failing", "telling", "returned",
               "ended"} =>
       w.handle = 0 /\ w.held = <<>>
  /\ w.at \in {"returned", "closing"} => w.result # "none"
  /\ w.held # <<>> => w.held = <<w.next - 1>> /\ w.next \in 2 .. Total + 1
  /\ w.at \in {"streaming", "stopping", "closing"} => w.next <= Total + 1
  /\ w.at \in {"streaming", "stopping", "closing"} /\ ~ w.append => w.count = w.next - 1
  /\ Len(w.held) <= w.count
RunsOK ==
  /\ worker \in [Run -> RunRecord]
  /\ \A r \in Run : r > begun => worker[r] = NoRun
  /\ \A r \in Run : RunOK(worker[r], file.no)

BridgeOK ==
  /\ ctl \in [Control -> {"idle", "asked", "read", "written"}]
  /\ obs \in [on : BOOLEAN, seen : WorkStates \cup {"unset"}, after : Nat]
  /\ obs.after <= Len(requests)
  /\ reports \in [{"enqueued", "running", "succeeded", "failed", "cancelled"} -> Nat]
  /\ polling \in BOOLEAN /\ told \in {"no", "stopped", "yes"} /\ overlap \in BOOLEAN
  /\ shown \in {"none", "active", "paused", "failed", "done", "gone"}
  /\ used \in [{"pause", "retry", "cancel", "stop", "kill"} -> Nat]

\* What a run may still add to the file: a block its stream holds, and the blocks it has
\* not read yet if it will append them.
Holds(w) == IF w.append /\ w.held # <<>> THEN 1 ELSE 0
Due(w) ==
  CASE w.at = "begun" -> Total
    [] w.at = "asking" /\ w.next <= Total -> Total + 1 - w.next
    [] w.at = "streaming" /\ w.append -> Total + 1 - w.next
    [] OTHER -> 0
Holding == {r \in Run : Holds(worker[r]) = 1}
Longest == IF Len(file.blocks) > Total THEN Len(file.blocks) ELSE Total
ToCome == IF begun = 0 THEN 0 ELSE Due(worker[begun])
BudgetOK == Longest + Cardinality(Holding) + ToCome <= (begun + 1) * Total
NextOK == \A r \in Run : worker[r].next <= MaxRuns * Total + 1

\* With one run at a time and no cancel, a run is in step with the file: what it knows of
\* the file is so, and what its stream holds comes next.
Sequential == ~ overlap /\ used.cancel = 0
FileInStep(f, s) ==
  /\ f.blocks = Whole(Len(f.blocks)) /\ Len(f.blocks) <= Total
  /\ s = "completed" => Len(f.blocks) = Total
RunInStep(w, f, s) ==
  /\ w.at = "asking" => w.next = Len(f.blocks) + 1
  /\ w.at = "streaming" => w.handle = f.no
  /\ w.handle = f.no => w.next = w.count + 1 /\ w.count = Len(f.blocks) + Len(w.held)
  /\ w.at = "verifying" => Len(f.blocks) = Total
  /\ s = "completed" => w.at \notin {"asking", "streaming", "verifying", "closing"}
                        /\ w.handle = 0
InStep ==
  /\ used.cancel = 0 => ctl["cancel"] = "idle"
  /\ ~ overlap => \A r \in Run : Alive(r) => r = begun
  /\ Sequential => FileInStep(file, row) /\ \A r \in Run : RunInStep(worker[r], file, row)

\* WorkManager's record names the run that is under way, and no other.
Fresh == work.state = "none" /\ begun = 0
WorkOK ==
  /\ work.state = "running" <=> work.run # 0
  /\ work.run # 0 => work.run = begun /\ Alive(begun) /\ ~ worker[begun].stopped

\* A download left alone is started once, and its work ends only with the row that says so.
Settles(w, s) ==
  /\ w.at = "returned" /\ w.result = "success" => s \in {"completed", "none"}
  /\ w.at = "returned" /\ w.result = "failure" => s \in {"failed", "none"}
  /\ w.at = "closing" => w.result = "retry"
  /\ w.at = "telling" => s \in {"failed", "none"}
Untouched ==
  /\ \A c \in Control \ {"start"} : ctl[c] = "idle"
  /\ shown # "paused" /\ row \notin {"paused", "cancelled"} /\ ~ polling
Started ==
  /\ ctl["start"] \in {"asked", "written"} => requests = <<>> /\ Fresh
  /\ ctl["start"] = "asked" => row = "none"
  /\ requests = <<>> \/ (requests = <<"enqueue">> /\ Fresh /\ ctl["start"] = "idle")
  /\ requests = <<>> /\ ctl["start"] = "idle" =>
       work.state \in {"enqueued", "running", "succeeded", "failed"}
  /\ work.state = "none" => begun = 0
Driven ==
  /\ work.state = "succeeded" => row \in {"completed", "none"}
  /\ work.state = "failed" => row \in {"failed", "none"}
  /\ \A r \in Run :
       Alive(r) => work.state \in {"running", "enqueued"} /\ Settles(worker[r], row)
Alone == ~ Interfered /\ ~ overlap => Untouched /\ Started /\ Driven

\* A failed row has been announced, or will be, or a stop kept it from being announced.
Told ==
  row = "failed" /\ used.kill = 0 =>
    told \in {"yes", "stopped"} \/ \E r \in Run : worker[r].at = "telling"

\* A download nobody pauses or cancels is stopped only by the system or for a retry, and
\* its work is enqueued again: a failure not announced is run again, or the run that is
\* under way has not come further than to fail.
Untold == {"begun", "failing", "telling"}
Rerun ==
  /\ ctl["pause"] = "idle" /\ ctl["cancel"] = "idle"
  /\ \A i \in 1 .. Len(requests) : requests[i] = "enqueue"
  /\ (begun # 0 /\ Alive(begun) /\ worker[begun].stopped) => work.state = "enqueued"
  /\ (row = "failed" /\ told # "yes") =>
       (work.state = "enqueued" \/ (begun # 0 /\ worker[begun].at \in Untold))
Unharmed == used.pause + used.cancel + used.kill = 0

-----------------------------------------------------------------------------
(* The file and what a stream writes *)

\* A file that takes the place of a deleted one is empty, and no stream is open on it.
LEMMA DeletedFacts ==
  ASSUME NativeOK, RunsOK
  PROVE  /\ Deleted \in [no : Nat \ {0}, blocks : Seq(0 .. Total)]
         /\ Deleted.blocks = <<>> /\ file.no <= Deleted.no
         /\ \A r \in Run : worker[r].handle < Deleted.no
<1> DEFINE n == IF \E r \in Run : worker[r].handle = file.no THEN file.no + 1 ELSE file.no
<1>1. file.no \in Nat \ {0} /\ n \in Nat \ {0} /\ file.no <= n
  BY DEF NativeOK
<1>2. \A r \in Run : worker[r].handle \in Nat /\ worker[r].handle <= file.no
  BY DEF RunsOK, RunOK, RunRecord
<1>3. \A r \in Run : worker[r].handle < n
  BY <1>1, <1>2
<1>4. <<>> \in Seq(0 .. Total)
  OBVIOUS
<1>5. Deleted = [no |-> n, blocks |-> <<>>]
  BY DEF Deleted
<1> HIDE DEF n
<1> QED BY <1>1, <1>3, <1>4, <1>5

\* What writing makes of the blocks: blocks of the same file, as many as were there or as
\* the stream counts.
LEMMA WrittenFacts ==
  ASSUME NEW blocks \in Seq(0 .. Total), NEW w \in RunRecord, Len(w.held) <= w.count,
         NEW new \in Seq(1 .. Total)
  PROVE  /\ Written(blocks, w, new) \in Seq(0 .. Total)
         /\ w.append => Written(blocks, w, new) = blocks \o new
         /\ ~ w.append =>
              Len(Written(blocks, w, new)) =
                IF w.count - Len(w.held) + Len(new) > Len(blocks)
                THEN w.count - Len(w.held) + Len(new) ELSE Len(blocks)
<1> USE WorkerBounds
<1>1. 1 .. Total \subseteq 0 .. Total /\ new \in Seq(0 .. Total)
  OBVIOUS
<1>2. CASE w.append
  BY <1>1, <1>2 DEF Written
<1>3. CASE ~ w.append
  <2> DEFINE pos == w.count - Len(w.held)
             end == pos + Len(new)
             size == IF end > Len(blocks) THEN end ELSE Len(blocks)
             block(i) == IF i > pos /\ i <= end THEN new[i - pos]
                         ELSE IF i <= Len(blocks) THEN blocks[i] ELSE 0
  <2>1. pos \in Nat /\ end \in Nat /\ size \in Nat
    BY DEF RunRecord
  <2>2. \A i \in 1 .. size : block(i) \in 0 .. Total
    <3> SUFFICES ASSUME NEW i \in 1 .. size PROVE block(i) \in 0 .. Total
      OBVIOUS
    <3>1. CASE i > pos /\ i <= end
      <4>1. i - pos \in 1 .. Len(new)
        BY <2>1, <3>1
      <4> QED BY <3>1, <4>1, <1>1
    <3>2. CASE ~ (i > pos /\ i <= end)
      BY <2>1, <3>2
    <3> QED BY <3>1, <3>2
  <2>3. Written(blocks, w, new) = [i \in 1 .. size |-> block(i)]
    BY <1>3 DEF Written
  <2> HIDE DEF block, size, end, pos
  <2>4. [i \in 1 .. size |-> block(i)] \in Seq(0 .. Total)
        /\ Len([i \in 1 .. size |-> block(i)]) = size
    BY <2>1, <2>2
  <2> USE DEF size, end, pos
  <2> QED BY <1>3, <2>3, <2>4
<1> QED BY <1>2, <1>3

\* A sequence is the function of its elements.
LEMMA SeqAsFunction ==
  ASSUME NEW S, NEW s \in Seq(S)
  PROVE  s = [i \in 1 .. Len(s) |-> s[i]]
OBVIOUS

\* A correct prefix stays one when the stream writes where it ends.
LEMMA WrittenInStep ==
  ASSUME NEW n \in 0 .. Total, NEW w \in RunRecord,
         NEW new \in Seq(1 .. Total), w.count = n + Len(w.held),
         \A i \in 1 .. Len(new) : new[i] = n + i
  PROVE  Written(Whole(n), w, new) = Whole(n + Len(new))
<1> USE WorkerBounds
<1> DEFINE b == Whole(n)
<1>1. b \in Seq(Nat) /\ Len(b) = n /\ \A i \in 1 .. n : b[i] = i
  BY DEF Whole
<1>2. Len(new) \in Nat /\ new \in Seq(Nat)
  OBVIOUS
<1>3. \A i \in 1 .. n + Len(new) : i > n => i - n \in 1 .. Len(new) /\ new[i - n] = i
  BY <1>2
<1>4. CASE w.append
  <2>1. b \o new \in Seq(Nat) /\ Len(b \o new) = n + Len(new)
    BY <1>1, <1>2
  <2>2. \A i \in 1 .. n + Len(new) : (b \o new)[i] = i
    BY <1>1, <1>2, <1>3
  <2> HIDE DEF b
  <2>3. b \o new = [i \in 1 .. n + Len(new) |-> (b \o new)[i]]
    BY <2>1, SeqAsFunction
  <2>4. Written(b, w, new) = b \o new
    BY <1>4 DEF Written
  <2> QED BY <2>2, <2>3, <2>4 DEF Whole, b
<1>5. CASE ~ w.append
  <2>1. w.count - Len(w.held) = n
    BY DEF RunRecord
  <2>2. Written(b, w, new) =
          [i \in 1 .. n + Len(new) |->
             IF i > n /\ i <= n + Len(new) THEN new[i - n]
             ELSE IF i <= n THEN b[i] ELSE 0]
    <3> HIDE DEF b
    <3>1. (IF n + Len(new) > Len(b) THEN n + Len(new) ELSE Len(b)) = n + Len(new)
      BY <1>1, <1>2
    <3> QED BY <1>1, <1>5, <2>1, <3>1 DEF Written
  <2>3. \A i \in 1 .. n + Len(new) :
          i = IF i > n /\ i <= n + Len(new) THEN new[i - n]
              ELSE IF i <= n THEN b[i] ELSE 0
    <3> HIDE DEF b
    <3> QED BY <1>1, <1>2, <1>3
  <2>4. Written(b, w, new) = [i \in 1 .. n + Len(new) |-> i]
    <3> HIDE DEF b
    <3> QED BY <2>2, <2>3
  <2> QED BY <2>4 DEF Whole
<1> QED BY <1>4, <1>5

\* Flushing a stream leaves the file the same file, or alone.
LEMMA FlushFacts ==
  ASSUME NativeOK, RunsOK, NEW r \in Run, NEW new \in Seq(1 .. Total),
         Flush(worker[r], new)
  PROVE  /\ file' \in [no : Nat \ {0}, blocks : Seq(0 .. Total)] /\ file'.no = file.no
         /\ worker[r].handle # file.no => file' = file
         /\ worker[r].handle = file.no =>
              file'.blocks = Written(file.blocks, worker[r], worker[r].held \o new)
<1>1. worker[r] \in RunRecord /\ Len(worker[r].held) <= worker[r].count
  BY DEF RunsOK, RunOK, RunRecord
<1>2. file \in [no : Nat \ {0}, blocks : Seq(0 .. Total)]
  BY DEF NativeOK
<1>3. worker[r].held \o new \in Seq(1 .. Total)
  BY <1>1 DEF RunRecord
<1>4. Written(file.blocks, worker[r], worker[r].held \o new) \in Seq(0 .. Total)
  BY <1>1, <1>2, <1>3, WrittenFacts
<1> QED BY <1>2, <1>4 DEF Flush

-----------------------------------------------------------------------------
(* A step of one run keeps its record well formed *)

\* A run to come and a run that ended are well formed, whatever the file.
LEMMA NoRunOK ==
  /\ NoRun \in RunRecord /\ Ended \in RunRecord
  /\ \A no \in Nat : RunOK(NoRun, no) /\ RunOK(Ended, no)
<1>1. <<>> \in Seq(1 .. Total)
  OBVIOUS
<1>2. NoRun \in RunRecord /\ \A no \in Nat : RunOK(NoRun, no)
  BY <1>1 DEF NoRun, RunRecord, RunOK, Stage
<1>3. /\ Ended.at = "ended" /\ Ended.append = FALSE /\ Ended.held = <<>> /\ Ended.next = 1
      /\ Ended.result = "none" /\ Ended.handle = 0 /\ Ended.count = 0
  BY DEF NoRun, Ended
<1>4. Ended \in RunRecord
  <2> HIDE DEF NoRun
  <2> QED BY <1>2 DEF Ended, RunRecord, Stage
<1>5. \A no \in Nat : RunOK(Ended, no)
  BY <1>3 DEF RunOK
<1> QED BY <1>2, <1>4, <1>5

\* The runs stay well formed if one of those begun changes and is left so.
LEMMA OneRun ==
  ASSUME NativeOK, RunsOK, NEW r \in Run, r <= begun, begun' = begun,
         file'.no \in Nat, file.no <= file'.no,
         worker' = [worker EXCEPT ![r] = worker'[r]],
         worker'[r] \in RunRecord, RunOK(worker'[r], file'.no)
  PROVE  RunsOK'
<1>1. \A q \in Run : q # r => worker'[q] = worker[q]
  BY DEF RunsOK
<1>2. worker' \in [Run -> RunRecord]
  BY DEF RunsOK
<1>3. \A q \in Run : q > begun' => worker'[q] = NoRun
  BY <1>1 DEF RunsOK, Run, NativeOK
<1>4. ASSUME NEW q \in Run, q # r PROVE RunOK(worker'[q], file'.no)
  <2>1. worker'[q] = worker[q] /\ RunOK(worker[q], file.no) /\ worker[q].handle \in Nat
        /\ file.no \in Nat
    BY <1>1, <1>4 DEF RunsOK, RunRecord, NativeOK
  <2>2. worker[q].handle <= file'.no
    BY <2>1 DEF RunOK
  <2> QED BY <2>1, <2>2 DEF RunOK
<1> QED BY <1>2, <1>3, <1>4 DEF RunsOK

\* Where a run goes when the stream is of no use any more.
LEMMA GotoFacts ==
  ASSUME RunsOK, NEW r \in Run, NEW s \in {"stopping", "failing", "telling"}, Goto(r, s)
  PROVE  /\ worker' = [worker EXCEPT ![r] = worker'[r]] /\ worker'[r] \in RunRecord
         /\ \A no \in Nat : RunOK(worker'[r], no)
         /\ worker'[r].at = s /\ worker'[r].stopped = worker[r].stopped
         /\ worker'[r].handle = 0 /\ worker'[r].held = <<>> /\ ~ worker'[r].append
         /\ worker'[r].next = 1
<1>1. worker[r].stopped \in BOOLEAN
  BY DEF RunsOK, RunRecord
<1>2. worker'[r] = [NoRun EXCEPT !.at = s, !.stopped = worker[r].stopped]
  BY DEF RunsOK, Goto
<1>3. worker'[r] = [at |-> s, stopped |-> worker[r].stopped, next |-> 1, count |-> 0,
                    held |-> <<>>, append |-> FALSE, handle |-> 0, result |-> "none"]
  BY <1>2 DEF NoRun
<1>4. worker'[r] \in RunRecord
  BY <1>1, <1>3, NoRunOK DEF NoRun, RunRecord, Stage
<1>7. /\ worker'[r].at = s /\ worker'[r].stopped = worker[r].stopped /\ worker'[r].next = 1
      /\ worker'[r].count = 0 /\ worker'[r].held = <<>> /\ worker'[r].append = FALSE
      /\ worker'[r].handle = 0 /\ worker'[r].result = "none"
  BY <1>3
<1>5. \A no \in Nat : RunOK(worker'[r], no)
  BY <1>7, WorkerBounds DEF RunOK
<1>6. worker' = [worker EXCEPT ![r] = worker'[r]]
  BY <1>2 DEF Goto
<1> QED BY <1>7, <1>4, <1>5, <1>6

\* Where a run goes when it returns a result.
LEMMA ReturnFacts ==
  ASSUME RunsOK, NEW r \in Run, NEW result \in {"success", "failure", "retry"},
         Return(r, result)
  PROVE  /\ worker' = [worker EXCEPT ![r] = worker'[r]] /\ worker'[r] \in RunRecord
         /\ \A no \in Nat : RunOK(worker'[r], no)
         /\ worker'[r].at = "returned" /\ worker'[r].result = result /\ ~ worker'[r].stopped
         /\ worker'[r].handle = 0 /\ worker'[r].held = <<>> /\ ~ worker'[r].append
         /\ worker'[r].next = 1
<1>2. worker'[r] = [NoRun EXCEPT !.at = "returned", !.result = result]
  BY DEF RunsOK, Return
<1> QED BY <1>2, NoRunOK DEF RunsOK, Return, NoRun, RunRecord, RunOK, Stage

\* The ways a step edits the record of its run keep it a record of a run.
LEMMA EditAt ==
  ASSUME NEW w \in RunRecord, NEW a \in Stage
  PROVE  [w EXCEPT !.at = a] \in RunRecord
BY DEF RunRecord

LEMMA EditStopped ==
  ASSUME NEW w \in RunRecord
  PROVE  [w EXCEPT !.stopped = TRUE] \in RunRecord
BY DEF RunRecord

LEMMA EditAsking ==
  ASSUME NEW w \in RunRecord, NEW n \in Nat \ {0}
  PROVE  [w EXCEPT !.at = "asking", !.next = n] \in RunRecord
BY DEF RunRecord, Stage

LEMMA EditTail ==
  ASSUME NEW w \in RunRecord, NEW a \in Stage, NEW c \in Nat, NEW b \in BOOLEAN, NEW k \in Nat
  PROVE  [w EXCEPT !.at = a, !.count = c, !.append = b, !.handle = k] \in RunRecord
BY DEF RunRecord

LEMMA EditPartial ==
  ASSUME NEW w \in RunRecord, NEW c \in Nat, NEW k \in Nat
  PROVE  [w EXCEPT !.at = "streaming", !.count = c, !.append = TRUE, !.handle = k]
           \in RunRecord
<1>1. "streaming" \in Stage /\ TRUE \in BOOLEAN
  BY DEF Stage
<1> QED BY ONLY <1>1, EditTail, w \in RunRecord, c \in Nat, k \in Nat

LEMMA EditStream ==
  ASSUME NEW w \in RunRecord, NEW a \in Stage, NEW n \in Nat \ {0}, NEW c \in Nat,
         NEW b \in BOOLEAN, NEW k \in Nat
  PROVE  [w EXCEPT !.at = a, !.next = n, !.count = c, !.append = b, !.handle = k]
           \in RunRecord
BY DEF RunRecord

LEMMA EditWhole ==
  ASSUME NEW w \in RunRecord, NEW k \in Nat
  PROVE  [w EXCEPT !.at = "streaming", !.next = 1, !.count = 0, !.append = FALSE,
                   !.handle = k] \in RunRecord
<1>1. "streaming" \in Stage /\ 1 \in Nat \ {0} /\ 0 \in Nat /\ FALSE \in BOOLEAN
  BY DEF Stage
<1> QED BY ONLY <1>1, EditStream, w \in RunRecord, k \in Nat

LEMMA EditRead ==
  ASSUME NEW w \in RunRecord, NEW n \in Nat \ {0}, NEW c \in Nat, NEW h \in Seq(1 .. Total)
  PROVE  [w EXCEPT !.next = n, !.count = c, !.held = h] \in RunRecord
BY DEF RunRecord

LEMMA EditFetched ==
  ASSUME NEW w \in RunRecord, NEW h \in Seq(1 .. Total)
  PROVE  [w EXCEPT !.next = @ + 1, !.count = @ + 1, !.held = h] \in RunRecord
<1>1. w.next + 1 \in Nat \ {0} /\ w.count + 1 \in Nat
  BY DEF RunRecord
<1>2. [w EXCEPT !.next = w.next + 1, !.count = w.count + 1, !.held = h] \in RunRecord
  BY <1>1, EditRead
<1> QED BY <1>2

LEMMA EditClosed ==
  ASSUME NEW w \in RunRecord, NEW a \in Stage, NEW h \in Seq(1 .. Total),
         NEW n \in Nat \ {0}, NEW b \in BOOLEAN, NEW k \in Nat
  PROVE  [w EXCEPT !.at = a, !.held = h, !.next = n, !.append = b, !.handle = k]
           \in RunRecord
BY DEF RunRecord

LEMMA EditVerifying ==
  ASSUME NEW w \in RunRecord
  PROVE  [w EXCEPT !.at = "verifying", !.held = <<>>, !.next = 1, !.append = FALSE,
                   !.handle = 0] \in RunRecord
<1>1. /\ "verifying" \in Stage /\ 1 \in Nat \ {0} /\ 0 \in Nat /\ FALSE \in BOOLEAN
      /\ <<>> \in Seq(1 .. Total)
  BY DEF Stage
<1> QED BY ONLY <1>1, EditClosed, w \in RunRecord

LEMMA EditClosing ==
  ASSUME NEW w \in RunRecord, NEW e \in {"success", "failure", "retry"}
  PROVE  [w EXCEPT !.at = "closing", !.result = e] \in RunRecord
BY DEF RunRecord, Stage

\* What is asked of a run's step so that RunsOK is kept: it changes one record, and leaves
\* it well formed.
OneStep(r) ==
  /\ worker' = [worker EXCEPT ![r] = worker'[r]]
  /\ worker'[r] \in RunRecord /\ RunOK(worker'[r], file'.no)
  /\ file' \in [no : Nat \ {0}, blocks : Seq(0 .. Total)] /\ file.no <= file'.no

\* Each step of a run leaves its record well formed.
LEMMA PrepareStep ==
  ASSUME NativeOK, RunsOK, NEW r \in Run, Prepare(r)
  PROVE  OneStep(r)
<1>1. file' = file /\ file \in [no : Nat \ {0}, blocks : Seq(0 .. Total)] /\ file.no <= file'.no
  BY DEF Prepare, NativeOK
<1>2. CASE Return(r, "failure") \/ Goto(r, "stopping") \/ Goto(r, "failing")
  BY <1>1, <1>2, ReturnFacts, GotoFacts DEF OneStep
<1>3. CASE worker' = [worker EXCEPT ![r].at = "asking", ![r].next = Len(file.blocks) + 1]
  <2>1. worker[r] \in RunRecord /\ RunOK(worker[r], file.no) /\ worker[r].at = "begun"
    BY DEF RunsOK, Prepare
  <2>2. worker'[r] = [worker[r] EXCEPT !.at = "asking", !.next = Len(file.blocks) + 1]
    BY <1>3 DEF RunsOK
  <2>5. Len(file.blocks) + 1 \in Nat \ {0}
    BY <1>1
  <2>3. worker'[r] \in RunRecord
    BY <2>1, <2>2, <2>5, EditAsking
  <2>4. RunOK(worker'[r], file'.no)
    BY <1>1, <2>1, <2>2 DEF RunRecord, RunOK
  <2> QED BY <1>1, <1>3, <2>2, <2>3, <2>4 DEF OneStep
<1> QED BY <1>2, <1>3 DEF Prepare

LEMMA RespondStep ==
  ASSUME NativeOK, RunsOK, NEW r \in Run, RespondPartial(r) \/ RespondWhole(r) \/ RespondError(r)
  PROVE  OneStep(r)
<1> USE WorkerBounds
<1>1. /\ file' \in [no : Nat \ {0}, blocks : Seq(0 .. Total)] /\ file.no <= file'.no
      /\ file.no \in Nat \ {0} /\ Len(file.blocks) \in Nat
  <2>1. /\ file.no \in Nat \ {0} /\ file.blocks \in Seq(0 .. Total)
        /\ file = [no |-> file.no, blocks |-> file.blocks]
    BY DEF NativeOK
  <2>2. file' \in {file, Deleted, [file EXCEPT !.blocks = <<>>]}
    BY DEF RespondPartial, RespondWhole, RespondError
  <2>3. [file EXCEPT !.blocks = <<>>] = [no |-> file.no, blocks |-> <<>>]
    BY <2>1
  <2>4. <<>> \in Seq(0 .. Total)
    OBVIOUS
  <2>5. CASE file' = Deleted
    BY <2>1, <2>5, DeletedFacts
  <2>6. CASE file' \in {file, [file EXCEPT !.blocks = <<>>]}
    <3>1. CASE file' = file
      BY <2>1, <3>1
    <3>2. CASE file' = [no |-> file.no, blocks |-> <<>>]
      BY <2>1, <2>4, <3>2
    <3> QED BY <2>3, <2>6, <3>1, <3>2
  <2> QED BY <2>2, <2>5, <2>6
<1>0. file.no \in Nat /\ Len(file.blocks) \in Nat /\ file'.no \in Nat /\ worker[r] \in RunRecord
  BY <1>1 DEF RunsOK
<1>2. worker[r] \in RunRecord /\ RunOK(worker[r], file.no) /\ worker[r].at = "asking"
  BY DEF RunsOK, RespondPartial, RespondWhole, RespondError
<1>3. CASE RespondError(r)
  BY <1>1, <1>3, GotoFacts DEF RespondError, OneStep
<1>4. CASE RespondPartial(r)
  <2>1. worker'[r] = [worker[r] EXCEPT !.at = "streaming", !.count = Len(file.blocks),
                                       !.append = TRUE, !.handle = file.no]
    BY <1>4 DEF RunsOK, RespondPartial
  <2>3. worker'[r] \in RunRecord
    <3> DEFINE n == Len(file.blocks) k == file.no
    <3>1. n \in Nat /\ k \in Nat /\ worker[r] \in RunRecord
      BY <1>0
    <3> HIDE DEF n, k
    <3>2. [worker[r] EXCEPT !.at = "streaming", !.count = n, !.append = TRUE, !.handle = k]
            \in RunRecord
      BY ONLY <3>1, EditPartial
    <3> QED BY <2>1, <3>2 DEF n, k
  <2>4. /\ worker'[r].at = "streaming" /\ worker'[r].append = TRUE
        /\ worker'[r].handle = file.no /\ worker'[r].held = worker[r].held
        /\ worker'[r].next = worker[r].next /\ worker'[r].count = Len(file.blocks)
    BY ONLY <1>0, <2>1 DEF RunRecord
  <2>5. worker[r].next \in 2 .. Total /\ file' = file /\ worker[r].held = <<>>
    BY <1>2, <1>4 DEF RespondPartial, RunOK
  <2>2. RunOK(worker'[r], file'.no)
    BY <1>0, <2>4, <2>5 DEF RunOK
  <2> QED BY <1>1, <1>4, <2>1, <2>2, <2>3 DEF OneStep, RespondPartial
<1>5. CASE RespondWhole(r)
  <2>1. worker'[r] = [worker[r] EXCEPT !.at = "streaming", !.next = 1, !.count = 0,
                                       !.append = FALSE, !.handle = file'.no]
    BY <1>5 DEF RunsOK, RespondWhole
  <2>3. worker'[r] \in RunRecord
    BY ONLY <1>0, <2>1, EditWhole
  <2>2. RunOK(worker'[r], file'.no)
    BY <1>1, <1>2, <1>5, <2>1 DEF RunRecord, RunOK
  <2> QED BY <1>1, <1>5, <2>1, <2>2, <2>3 DEF OneStep, RespondWhole
<1> QED BY <1>3, <1>4, <1>5

\* The file after a step: the same, a new one, or one that was written to.
LEMMA FileSame ==
  ASSUME NativeOK, UNCHANGED file
  PROVE  file' \in [no : Nat \ {0}, blocks : Seq(0 .. Total)] /\ file.no <= file'.no
BY DEF NativeOK

LEMMA FileDeleted ==
  ASSUME NativeOK, RunsOK, file' = Deleted
  PROVE  file' \in [no : Nat \ {0}, blocks : Seq(0 .. Total)] /\ file.no <= file'.no
BY DeletedFacts

LEMMA FileFlushed ==
  ASSUME NativeOK, RunsOK, NEW r \in Run, NEW new \in Seq(1 .. Total), Flush(worker[r], new)
  PROVE  file' \in [no : Nat \ {0}, blocks : Seq(0 .. Total)] /\ file.no <= file'.no
<1>1. file'.no = file.no /\ file.no \in Nat
  BY FlushFacts DEF NativeOK
<1> QED BY <1>1, FlushFacts

LEMMA NothingWritten == <<>> \in Seq(1 .. Total)
OBVIOUS

LEMMA FetchStep ==
  ASSUME NativeOK, RunsOK, NEW r \in Run, Fetch(r)
  PROVE  OneStep(r)
<1> DEFINE w == worker[r]
<1>1. /\ w \in RunRecord /\ RunOK(w, file.no) /\ w.at = "streaming" /\ w.next <= Total
      /\ file.no \in Nat
  BY DEF RunsOK, Fetch, NativeOK
<1>2. w.next \in 1 .. Total /\ <<w.next>> \in Seq(1 .. Total)
  BY <1>1, WorkerBounds DEF RunRecord
<1>3. CASE worker' = [worker EXCEPT ![r].at = "stopping"] /\ UNCHANGED file
  <2>1. worker'[r] = [w EXCEPT !.at = "stopping"]
    BY <1>3 DEF RunsOK
  <2>2. worker'[r] \in RunRecord
    BY <1>1, <2>1, EditAt DEF Stage
  <2>3. RunOK(worker'[r], file'.no)
    BY <1>1, <1>3, <2>1 DEF RunOK, RunRecord
  <2> QED BY <1>3, <2>1, <2>2, <2>3, FileSame DEF OneStep
<1>4. CASE /\ w.held = <<>> /\ UNCHANGED file
           /\ worker' = [worker EXCEPT ![r].next = @ + 1, ![r].count = @ + 1,
                                       ![r].held = <<w.next>>]
  <2>1. worker'[r] = [w EXCEPT !.next = @ + 1, !.count = @ + 1, !.held = <<w.next>>]
    BY <1>4 DEF RunsOK
  <2>2. worker'[r] \in RunRecord
    BY ONLY <1>1, <1>2, <2>1, EditFetched
  <2>4. /\ worker'[r].at = "streaming" /\ worker'[r].next = w.next + 1
        /\ worker'[r].count = w.count + 1 /\ worker'[r].held = <<w.next>>
        /\ worker'[r].append = w.append /\ worker'[r].handle = w.handle
    BY ONLY <1>1, <2>1 DEF RunRecord
  <2>3. RunOK(worker'[r], file'.no)
    <3>1. w.next \in Nat /\ w.count \in Nat /\ Total \in Nat /\ Len(<<w.next>>) = 1
          /\ file' = file
      BY <1>1, <1>4, WorkerBounds DEF RunRecord
    <3>2. worker'[r].held = <<worker'[r].next - 1>> /\ worker'[r].next \in 2 .. Total + 1
      BY <1>1, <1>2, <2>4, <3>1
    <3>3. Len(worker'[r].held) <= worker'[r].count
      BY <2>4, <3>1
    <3> HIDE DEF w
    <3> QED BY <1>1, <2>4, <3>1, <3>2, <3>3 DEF RunOK
  <2> QED BY <1>4, <2>1, <2>2, <2>3, FileSame DEF OneStep
<1>5. CASE /\ Flush(w, <<w.next>>)
           /\ worker' = [worker EXCEPT ![r].next = @ + 1, ![r].count = @ + 1, ![r].held = <<>>]
  <2>1. worker'[r] = [w EXCEPT !.next = @ + 1, !.count = @ + 1, !.held = <<>>]
    BY <1>5 DEF RunsOK
  <2>2. worker'[r] \in RunRecord
    <3>1. [w EXCEPT !.next = @ + 1, !.count = @ + 1, !.held = <<>>] \in RunRecord
      <4> HIDE DEF w
      <4> QED BY ONLY <1>1, EditFetched, NothingWritten
    <3> QED BY <2>1, <3>1
  <2>4. /\ worker'[r].at = "streaming" /\ worker'[r].next = w.next + 1
        /\ worker'[r].count = w.count + 1 /\ worker'[r].held = <<>>
        /\ worker'[r].append = w.append /\ worker'[r].handle = w.handle
    BY ONLY <1>1, <2>1 DEF RunRecord
  <2>5. file'.no = file.no
    BY <1>2, <1>5, FlushFacts
  <2>3. RunOK(worker'[r], file'.no)
    <3>1. w.next \in Nat /\ w.count \in Nat /\ Total \in Nat
      BY <1>1, WorkerBounds DEF RunRecord
    <3> HIDE DEF w
    <3> QED BY <1>1, <2>4, <2>5, <3>1 DEF RunOK
  <2> QED BY <1>2, <1>5, <2>1, <2>2, <2>3, FileFlushed DEF OneStep
<1> QED BY <1>3, <1>4, <1>5 DEF Fetch

LEMMA EndOfFileStep ==
  ASSUME NativeOK, RunsOK, NEW r \in Run, EndOfFile(r)
  PROVE  OneStep(r)
<1>1. worker[r] \in RunRecord
  BY DEF RunsOK
<1>2. worker'[r] = [worker[r] EXCEPT !.at = "verifying", !.held = <<>>, !.next = 1,
                                     !.append = FALSE, !.handle = 0]
  BY DEF RunsOK, EndOfFile
<1>3. worker'[r] \in RunRecord
  BY ONLY <1>1, <1>2, EditVerifying
<1>4. /\ worker'[r].at = "verifying" /\ worker'[r].next = 1 /\ worker'[r].held = <<>>
      /\ worker'[r].handle = 0
  BY ONLY <1>1, <1>2 DEF RunRecord
<1>5. file'.no \in Nat /\ worker'[r].count \in Nat
  BY <1>3, NothingWritten, FlushFacts DEF EndOfFile, RunRecord
<1>6. RunOK(worker'[r], file'.no)
  BY <1>4, <1>5 DEF RunOK
<1> QED BY <1>2, <1>3, <1>6, NothingWritten, FileFlushed DEF OneStep, EndOfFile

LEMMA VerifyStep ==
  ASSUME NativeOK, RunsOK, NEW r \in Run, Verify(r) \/ Fail(r) \/ Tell(r)
  PROVE  OneStep(r)
<1>1. CASE Return(r, "success") /\ UNCHANGED file
  BY <1>1, ReturnFacts, FileSame DEF OneStep
<1>2. CASE Goto(r, "failing") /\ file' = Deleted
  BY <1>2, GotoFacts, FileDeleted DEF OneStep
<1>3. CASE Return(r, "failure") /\ UNCHANGED file
  BY <1>3, ReturnFacts, FileSame DEF OneStep
<1>4. CASE Goto(r, "telling") /\ UNCHANGED file
  BY <1>4, GotoFacts, FileSame DEF OneStep
<1> QED BY <1>1, <1>2, <1>3, <1>4 DEF Verify, Fail, Tell

LEMMA ThrowStep ==
  ASSUME NativeOK, RunsOK, NEW r \in Run, Throw(r) \/ Close(r)
  PROVE  OneStep(r)
<1>1. file' \in [no : Nat \ {0}, blocks : Seq(0 .. Total)] /\ file.no <= file'.no
  BY NothingWritten, FileFlushed, FileSame DEF Throw, Close
<1>2. file'.no \in Nat
  BY <1>1
<1>3. CASE Goto(r, "stopping") \/ Goto(r, "failing")
  BY <1>1, <1>2, <1>3, GotoFacts DEF OneStep
<1>4. ASSUME NEW result \in {"success", "failure", "retry"}, Return(r, result)
      PROVE  OneStep(r)
  BY <1>1, <1>2, <1>4, ReturnFacts DEF OneStep
<1>5. ASSUME Close(r) PROVE worker[r].result \in {"success", "failure", "retry"}
  BY <1>5 DEF RunsOK, RunOK, RunRecord, Close
<1> QED BY <1>3, <1>4, <1>5 DEF Throw, Close

LEMMA HandleStoppedStep ==
  ASSUME NativeOK, RunsOK, NEW r \in Run, HandleStopped(r)
  PROVE  OneStep(r)
<1>1. /\ worker[r] \in RunRecord /\ RunOK(worker[r], file.no) /\ worker[r].at = "stopping"
      /\ file.no \in Nat
  BY DEF RunsOK, HandleStopped, NativeOK
<1>2. /\ file' \in [no : Nat \ {0}, blocks : Seq(0 .. Total)] /\ file.no <= file'.no
      /\ file'.no \in Nat
  BY FileDeleted, FileSame DEF HandleStopped
<1>3. PICK result \in {"success", "failure", "retry"} :
        worker' = [worker EXCEPT ![r].at = "closing", ![r].result = result]
  BY DEF HandleStopped
<1>4. worker'[r] = [worker[r] EXCEPT !.at = "closing", !.result = result]
  BY <1>3 DEF RunsOK
<1>5. worker[r] \in RunRecord /\ result \in {"success", "failure", "retry"}
  BY ONLY <1>1, result \in {"success", "failure", "retry"}
<1>6. worker'[r] \in RunRecord
  BY ONLY <1>4, <1>5, EditClosing
<1>7. RunOK(worker'[r], file'.no)
  BY <1>1, <1>2, <1>4 DEF RunOK, RunRecord
<1> QED BY <1>2, <1>3, <1>4, <1>6, <1>7 DEF OneStep

LEMMA EndStep ==
  ASSUME NativeOK, RunsOK, NEW r \in Run, Stray(r) \/ Cancelled(r)
  PROVE  OneStep(r)
<1>1. file' \in [no : Nat \ {0}, blocks : Seq(0 .. Total)] /\ file.no <= file'.no
  BY NothingWritten, FileFlushed, FileDeleted DEF Stray, Cancelled
<1>2. file'.no \in Nat
  BY <1>1
<1>3. worker' = [worker EXCEPT ![r] = Ended] /\ worker'[r] = Ended
  BY DEF Stray, Cancelled, RunsOK
<1> QED BY <1>1, <1>2, <1>3, NoRunOK DEF OneStep

-----------------------------------------------------------------------------
(* The steps of the program, and types *)

\* The steps of the program.
RunStep(r) ==
  \/ r = begun /\ \/ Prepare(r) \/ RespondPartial(r) \/ RespondWhole(r) \/ RespondError(r)
                  \/ Fetch(r) \/ Verify(r) \/ Throw(r) \/ Fail(r) \/ HandleStopped(r)
                  \/ Close(r)
  \/ r < begun /\ Stray(r)
  \/ EndOfFile(r) \/ Tell(r) \/ Cancelled(r)

\* What changes neither the file, nor the work, nor the runs.
BridgeStep ==
  \/ \E c \in Control \ {"start"} : Ask(c)
  \/ \E c \in {"pause", "resume", "retry"} : Read(c) \/ WriteRow(c)
  \/ InsertRow \/ FinishStart \/ FinishPause \/ FinishCancel
  \/ \E c \in {"resume", "retry"} : FinishResume(c)
  \/ MoveCompleted \/ Observe \/ Poll \/ \E s \in DOMAIN reports : Report(s)
  \/ ObserveProgress
  \/ \E r \in Run : r = begun /\ Progress(r)

ManagerStep == ApplyRequest \/ SystemStop \/ Begin \/ Kill \/ \E r \in Run : Record(r)

\* Every step of the program is one of these.
LEMMA Steps ==
  Next => BridgeStep \/ WriteCancel \/ ManagerStep \/ \E r \in Run : RunStep(r)
BY DEF Next, User, Coroutines, Manager, Step, BridgeStep, ManagerStep, RunStep

\* The bridge leaves the file, the work and the runs alone, and a run the rest.
LEMMA BridgeStepKeeps == BridgeStep => UNCHANGED <<file, work, worker, begun>>
BY DEF BridgeStep, Ask, Read, WriteRow, InsertRow, FinishStart, FinishPause, FinishCancel,
   FinishResume, MoveCompleted, Observe, Poll, Report, ObserveProgress, Progress, Resolve,
   native, workVars, bridge

LEMMA RunStepKeeps ==
  ASSUME NEW r \in Run, RunStep(r) PROVE UNCHANGED workVars
BY DEF RunStep, Prepare, RespondPartial, RespondWhole, RespondError, Fetch, Verify, Throw,
   Fail, Tell, HandleStopped, Close, Stray, EndOfFile, Cancelled

LEMMA RunStepFacts ==
  ASSUME NativeOK, RunsOK, NEW r \in Run, RunStep(r)
  PROVE  OneStep(r) /\ r <= begun
<1>1. CASE r = begun /\ (Prepare(r) \/ RespondPartial(r) \/ RespondWhole(r) \/ RespondError(r))
  BY <1>1, PrepareStep, RespondStep DEF Run, NativeOK
<1>2. CASE r = begun /\ (Fetch(r) \/ Verify(r) \/ Throw(r) \/ Fail(r))
  BY <1>2, FetchStep, VerifyStep, ThrowStep DEF Run, NativeOK
<1>3. CASE r = begun /\ (HandleStopped(r) \/ Close(r))
  BY <1>3, HandleStoppedStep, ThrowStep DEF Run, NativeOK
<1>4. CASE r < begun /\ Stray(r)
  BY <1>4, EndStep DEF Run, NativeOK
<1>5. CASE EndOfFile(r) \/ Tell(r) \/ Cancelled(r)
  <2>1. worker[r] # NoRun
    BY <1>5 DEF EndOfFile, Tell, Cancelled, Alive, NoRun
  <2>2. r <= begun
    BY <2>1 DEF RunsOK, Run, NativeOK
  <2> QED BY <1>5, <2>2, EndOfFileStep, VerifyStep, EndStep
<1> QED BY <1>1, <1>2, <1>3, <1>4, <1>5 DEF RunStep

\* A stop marks one run, or none.
LEMMA StoppedStep ==
  ASSUME NativeOK, RunsOK, worker' = Stopped(work.run), UNCHANGED <<file, begun>>
  PROVE  /\ RunsOK'
         /\ \A r \in Run : r # work.run => worker'[r] = worker[r]
         /\ work.run # 0 => worker'[work.run] = [worker[work.run] EXCEPT !.stopped = TRUE]
<1>1. work.run \in Nat /\ work.run <= begun /\ begun \in 0 .. MaxRuns
  BY DEF NativeOK, WorkRecord
<1>2. CASE work.run = 0
  BY <1>2 DEF Stopped, RunsOK, RunOK, Run
<1>3. CASE work.run # 0
  <2> DEFINE r == work.run
  <2>1. r \in Run /\ r <= begun /\ worker' = [worker EXCEPT ![r].stopped = TRUE]
    BY <1>1, <1>3, WorkerBounds DEF Run, Stopped
  <2>2. worker'[r] = [worker[r] EXCEPT !.stopped = TRUE]
    BY <2>1 DEF RunsOK
  <2>3. worker[r] \in RunRecord /\ RunOK(worker[r], file.no)
    BY <2>1 DEF RunsOK
  <2>4. worker'[r] \in RunRecord
    BY ONLY <2>2, <2>3, EditStopped
  <2>5. RunOK(worker'[r], file'.no)
    BY <2>2, <2>3 DEF RunOK, RunRecord
  <2>6. worker' = [worker EXCEPT ![r] = worker'[r]]
    BY <2>1, <2>2
  <2>7. file'.no \in Nat /\ file.no <= file'.no
    BY DEF NativeOK
  <2> HIDE DEF r
  <2>8. RunsOK'
    BY <2>1, <2>4, <2>5, <2>6, <2>7, OneRun
  <2> QED BY <1>3, <2>1, <2>2, <2>6, <2>8 DEF r, RunsOK
<1> QED BY <1>2, <1>3

\* Runs stay well formed.
LEMMA RunsInductive == NativeOK /\ RunsOK /\ [Next]_vars => RunsOK'
<1> SUFFICES ASSUME NativeOK, RunsOK, [Next]_vars PROVE RunsOK'
  OBVIOUS
<1>1. CASE BridgeStep \/ UNCHANGED vars
  BY <1>1, BridgeStepKeeps DEF RunsOK, vars, native
<1>2. ASSUME NEW r \in Run, RunStep(r) PROVE RunsOK'
  <2>1. begun' = begun
    BY <1>2, RunStepKeeps DEF workVars
  <2>2. OneStep(r) /\ r <= begun
    BY <1>2, RunStepFacts
  <2>3. file'.no \in Nat
    BY <2>2 DEF OneStep
  <2> QED BY <2>1, <2>2, <2>3, OneRun DEF OneStep
<1>3. CASE WriteCancel
  <2>1. file'.no \in Nat /\ file.no \in Nat /\ file.no <= file'.no /\ UNCHANGED <<worker, begun>>
    BY <1>3, DeletedFacts DEF WriteCancel, NativeOK
  <2>2. ASSUME NEW r \in Run PROVE RunOK(worker[r], file'.no)
    <3>1. RunOK(worker[r], file.no) /\ worker[r].handle \in Nat
      BY DEF RunsOK, RunRecord
    <3>2. worker[r].handle <= file'.no
      BY <2>1, <3>1 DEF RunOK
    <3> QED BY <3>1, <3>2 DEF RunOK
  <2> QED BY <2>1, <2>2 DEF RunsOK
<1>4. CASE ApplyRequest \/ SystemStop
  BY <1>4, StoppedStep DEF ApplyRequest, SystemStop
<1>5. CASE Begin
  <2> DEFINE r == begun + 1
  <2>1. r \in Run /\ begun \in Nat /\ worker[r] = NoRun
    <3>1. begun \in Nat /\ r \in Run /\ r > begun
      BY <1>5, WorkerBounds DEF Begin, Run, NativeOK
    <3> HIDE DEF r
    <3> QED BY <3>1 DEF RunsOK
  <2>2. worker' = [worker EXCEPT ![r].at = "begun"] /\ begun' = begun + 1 /\ file' = file
    BY <1>5 DEF Begin
  <2>3. worker'[r] = [NoRun EXCEPT !.at = "begun"] /\ worker' \in [Run -> RunRecord]
    <3>1. worker'[r] = [NoRun EXCEPT !.at = "begun"]
      BY <2>1, <2>2 DEF RunsOK
    <3>2. [NoRun EXCEPT !.at = "begun"] \in RunRecord
      BY NoRunOK, EditAt DEF Stage
    <3> HIDE DEF r
    <3>3. worker' = [worker EXCEPT ![r] = worker'[r]]
      BY <2>1, <2>2 DEF RunsOK
    <3> QED BY <2>1, <3>1, <3>2, <3>3 DEF RunsOK
  <2>4. \A q \in Run : q # r => worker'[q] = worker[q]
    BY <2>1, <2>2 DEF RunsOK
  <2>5. RunOK([NoRun EXCEPT !.at = "begun"], file.no)
    BY DEF NativeOK, RunOK, NoRun
  <2>6. \A q \in Run : RunOK(worker'[q], file'.no)
    BY <2>2, <2>3, <2>4, <2>5 DEF RunsOK
  <2>7. \A q \in Run : q > begun' => worker'[q] = NoRun
    BY <2>1, <2>2, <2>4 DEF RunsOK, Run
  <2> QED BY <2>3, <2>6, <2>7 DEF RunsOK
<1>6. ASSUME NEW r \in Run, Record(r) PROVE RunsOK'
  <2>1. worker' = [worker EXCEPT ![r] = Ended] /\ worker'[r] = Ended
        /\ UNCHANGED <<file, begun>> /\ worker[r] # NoRun
    BY <1>6 DEF Record, RunsOK, NoRun
  <2>2. r <= begun /\ file.no \in Nat
    BY <2>1 DEF RunsOK, Run, NativeOK
  <2>3. worker' = [worker EXCEPT ![r] = worker'[r]] /\ worker'[r] \in RunRecord
        /\ RunOK(worker'[r], file'.no) /\ file'.no \in Nat /\ file.no <= file'.no
    <3>1. worker'[r] \in RunRecord /\ RunOK(Ended, file.no)
      BY <2>1, <2>2, NoRunOK
    <3>2. worker' = [worker EXCEPT ![r] = worker'[r]] /\ file'.no = file.no
      BY <2>1
    <3> QED BY <2>1, <2>2, <3>1, <3>2
  <2> QED BY <2>1, <2>2, <2>3, OneRun
<1>7. CASE Kill
  <2>1. /\ worker' = [r \in Run |-> IF Alive(r) THEN Ended ELSE worker[r]]
        /\ UNCHANGED <<file, begun>> /\ file.no \in Nat
    BY <1>7 DEF Kill, NativeOK
  <2>2. \A r \in Run : r > begun => ~ Alive(r)
    BY DEF RunsOK, Alive, NoRun
  <2> QED BY <2>1, <2>2, NoRunOK DEF RunsOK
<1> QED BY <1>1, <1>2, <1>3, <1>4, <1>5, <1>6, <1>7, Steps DEF ManagerStep

\* The row, the file, the work and the requests keep to their ranges.
LEMMA FilesTyped ==
  ASSUME NativeOK, RunsOK, Next
  PROVE  file' \in [no : Nat \ {0}, blocks : Seq(0 .. Total)]
<1>1. CASE UNCHANGED file
  BY <1>1 DEF NativeOK
<1>2. CASE WriteCancel
  BY <1>1, <1>2, FileDeleted DEF WriteCancel
<1>3. ASSUME NEW r \in Run, RunStep(r)
      PROVE  file' \in [no : Nat \ {0}, blocks : Seq(0 .. Total)]
  BY <1>3, RunStepFacts DEF OneStep
<1>4. ManagerStep => UNCHANGED file
  BY DEF ManagerStep, ApplyRequest, SystemStop, Begin, Kill, Record
<1> QED BY <1>1, <1>2, <1>3, <1>4, Steps, BridgeStepKeeps

LEMMA RowsTyped ==
  ASSUME NativeOK, Next PROVE row' \in Status
<1> USE DEF NativeOK, Status, Update
<1>1. CASE BridgeStep
  BY <1>1 DEF BridgeStep, Ask, Read, WriteRow, InsertRow, FinishStart, FinishPause,
     FinishCancel, FinishResume, MoveCompleted, Observe, Poll, Report, ObserveProgress,
     Progress, Resolve, native
<1>2. CASE WriteCancel \/ ManagerStep
  BY <1>2 DEF WriteCancel, ManagerStep, ApplyRequest, SystemStop, Begin, Kill, Record
<1>3. CASE \E r \in Run : RunStep(r)
  BY <1>3 DEF RunStep, Prepare, RespondPartial, RespondWhole, RespondError, Fetch, Verify,
     Throw, Fail, Tell, HandleStopped, Close, Stray, EndOfFile, Cancelled
<1> QED BY <1>1, <1>2, <1>3, Steps

LEMMA WorkTyped ==
  ASSUME NativeOK, RunsOK, Next
  PROVE  /\ work' \in WorkRecord /\ work'.run <= begun' /\ work'.attempt <= begun'
         /\ begun' \in 0 .. MaxRuns
<1>0. work \in WorkRecord /\ work.run <= begun /\ work.attempt <= begun /\ begun \in 0 .. MaxRuns
  BY DEF NativeOK
<1>1. CASE UNCHANGED <<work, begun>>
  BY <1>0, <1>1
<1>2. CASE begun' = begun /\ \E s \in WorkStates :
             work' = [work EXCEPT !.state = s, !.run = 0]
  <2>1. PICK s \in WorkStates : work' = [work EXCEPT !.state = s, !.run = 0]
    BY <1>2
  <2>2. work'.run = 0 /\ work'.attempt = work.attempt /\ begun \in Nat
    BY <1>0, <2>1 DEF WorkRecord
  <2>3. [work EXCEPT !.state = s, !.run = 0] \in WorkRecord
    <3> HIDE DEF WorkStates
    <3> QED BY ONLY <1>0, s \in WorkStates DEF WorkRecord
  <2> QED BY <1>0, <1>2, <2>1, <2>2, <2>3
<1>3. CASE ApplyRequest
  <2>1. CASE Head(requests) = "enqueue"
    BY <1>0, <1>3, <2>1, WorkerBounds DEF ApplyRequest, WorkRecord, WorkStates
  <2>2. CASE Head(requests) # "enqueue"
    BY <1>1, <1>2, <1>3, <2>2 DEF ApplyRequest, WorkStates
  <2> QED BY <2>1, <2>2
<1>4. CASE Begin
  BY <1>0, <1>4, WorkerBounds DEF Begin, WorkRecord, WorkStates
<1>5. CASE SystemStop \/ Kill
  BY <1>1, <1>2, <1>5 DEF SystemStop, Kill, WorkStates
<1>6. ASSUME NEW r \in Run, Record(r)
      PROVE  \/ UNCHANGED <<work, begun>>
             \/ begun' = begun /\ \E s \in {"succeeded", "failed", "enqueued"} :
                  work' = [work EXCEPT !.state = s, !.run = 0]
  <2>1. worker[r].result \in {"success", "failure", "retry"}
    BY <1>6 DEF Record, RunsOK, RunOK, RunRecord
  <2> QED BY <1>6, <2>1 DEF Record
<1>7. CASE BridgeStep \/ WriteCancel \/ \E r \in Run : RunStep(r)
  BY <1>1, <1>7, BridgeStepKeeps, RunStepKeeps DEF WriteCancel, workVars
<1> QED BY <1>1, <1>2, <1>3, <1>4, <1>5, <1>6, <1>7, Steps DEF ManagerStep, WorkStates

LEMMA RequestsTyped ==
  ASSUME NativeOK, BridgeOK, Next
  PROVE  /\ requests' \in Seq({"enqueue", "cancel", "prune"})
         /\ obs'.after <= Len(requests')
         /\ obs' \in [on : BOOLEAN, seen : WorkStates \cup {"unset"}, after : Nat]
<1> DEFINE R == Seq({"enqueue", "cancel", "prune"})
           O == [on : BOOLEAN, seen : WorkStates \cup {"unset"}, after : Nat]
<1>0. requests \in R /\ obs \in O /\ obs.after <= Len(requests) /\ Len(requests) \in Nat
  BY DEF NativeOK, BridgeOK
<1>1. NoObserver \in O /\ NoObserver.after = 0
  BY DEF NoObserver, WorkStates
<1>2. \A n \in Nat : Registered(n) \in O /\ Registered(n).after = n
  BY DEF Registered
<1>3. CASE UNCHANGED <<requests, obs>>
  BY <1>0, <1>3
<1>4. CASE \/ FinishStart \/ FinishPause \/ FinishCancel
           \/ \E c \in {"resume", "retry"} : FinishResume(c)
  <2>1. PICK q \in {"enqueue", "cancel", "prune"} : requests' = Append(requests, q)
    BY <1>4 DEF FinishStart, FinishPause, FinishCancel, FinishResume
  <2>2. requests' \in R /\ Len(requests') = Len(requests) + 1
    BY <1>0, <2>1
  <2>3. obs' \in {NoObserver, Registered(Len(requests)), Registered(Len(requests) + 1)}
    BY <1>4 DEF FinishStart, FinishPause, FinishCancel, FinishResume
  <2> QED BY <1>0, <1>1, <1>2, <2>2, <2>3
<1>5. CASE ApplyRequest
  <2>1. requests' \in R /\ Len(requests') = Len(requests) - 1
    BY <1>0, <1>5 DEF ApplyRequest
  <2>2. CASE obs.after > 0
    BY <1>0, <1>5, <2>1, <2>2 DEF ApplyRequest
  <2>3. CASE ~ (obs.after > 0)
    BY <1>0, <1>5, <2>1, <2>3 DEF ApplyRequest
  <2> QED BY <2>2, <2>3
<1>6. CASE requests' = requests /\ obs' \in {NoObserver, obs, Registered(Len(requests))}
  BY <1>0, <1>1, <1>2, <1>6
<1>7. CASE Observe
  <2>1. work.state \in WorkStates /\ obs' = [obs EXCEPT !.seen = work.state] /\ requests' = requests
    BY <1>7 DEF Observe, NativeOK, WorkRecord, native
  <2> QED BY <1>0, <2>1
<1>8. CASE Poll \/ \E s \in DOMAIN reports : Report(s)
  BY <1>6, <1>8 DEF Poll, Report, native
<1>9. CASE Kill
  BY <1>0, <1>1, <1>9 DEF Kill
<1>10. CASE SystemStop \/ Begin \/ WriteCancel \/ \E r \in Run : Record(r)
  BY <1>3, <1>10 DEF SystemStop, Begin, WriteCancel, Record, bridge
<1>11. CASE \E r \in Run : RunStep(r)
  BY <1>3, <1>11, RunStepKeeps DEF workVars
<1>12. CASE \/ \E c \in Control \ {"start"} : Ask(c)
            \/ \E c \in {"pause", "resume", "retry"} : Read(c) \/ WriteRow(c)
            \/ InsertRow \/ MoveCompleted \/ ObserveProgress
            \/ \E r \in Run : r = begun /\ Progress(r)
  BY <1>3, <1>12 DEF Ask, Read, WriteRow, InsertRow, MoveCompleted, ObserveProgress, Progress,
     native, workVars
<1> QED BY <1>4, <1>5, <1>7, <1>8, <1>9, <1>10, <1>11, <1>12, Steps DEF BridgeStep, ManagerStep

\* The controls, the reports and what JavaScript shows keep to their ranges.
LEMMA ControlsTyped ==
  ASSUME BridgeOK, Next
  PROVE  ctl' \in [Control -> {"idle", "asked", "read", "written"}]
<1> DEFINE C == [Control -> {"idle", "asked", "read", "written"}]
<1>0. ctl \in C
  BY DEF BridgeOK
<1>1. ASSUME NEW c, NEW s \in {"idle", "asked", "read", "written"},
             ctl' = [ctl EXCEPT ![c] = s]
      PROVE  ctl' \in C
  BY <1>0, <1>1
<1>2. CASE UNCHANGED ctl
  BY <1>0, <1>2
<1>3. CASE \E c \in Control \ {"start"} : Ask(c)
  BY <1>1, <1>3 DEF Ask
<1>4. CASE \E c \in {"pause", "resume", "retry"} : Read(c) \/ WriteRow(c)
  BY <1>1, <1>4 DEF Read, WriteRow
<1>5. CASE \/ FinishStart \/ FinishPause \/ FinishCancel \/ InsertRow \/ WriteCancel
           \/ \E c \in {"resume", "retry"} : FinishResume(c)
  BY <1>1, <1>5 DEF FinishStart, FinishPause, FinishCancel, FinishResume, Resolve, InsertRow,
     WriteCancel
<1>6. CASE MoveCompleted \/ Observe \/ Poll \/ (\E s \in DOMAIN reports : Report(s))
           \/ ObserveProgress \/ \E r \in Run : Progress(r)
  BY <1>2, <1>6 DEF MoveCompleted, Observe, Poll, Report, ObserveProgress, Progress, workVars
<1>7. CASE ManagerStep
  <2>1. CASE Kill
    BY <2>1 DEF Kill
  <2> QED BY <1>2, <1>7, <2>1 DEF ManagerStep, ApplyRequest, SystemStop, Begin, Record, bridge
<1>8. CASE \E r \in Run : RunStep(r)
  BY <1>2, <1>8, RunStepKeeps DEF workVars
<1> QED BY <1>3, <1>4, <1>5, <1>6, <1>7, <1>8, Steps DEF BridgeStep

LEMMA ReportsTyped ==
  ASSUME NativeOK, BridgeOK, Next
  PROVE  reports' \in [{"enqueued", "running", "succeeded", "failed", "cancelled"} -> Nat]
<1> DEFINE D == {"enqueued", "running", "succeeded", "failed", "cancelled"}
<1>0. reports \in [D -> Nat]
  BY DEF BridgeOK
<1>1. CASE UNCHANGED reports
  BY <1>0, <1>1
<1>2. CASE Observe
  <2>1. work.state \in D
    BY <1>2 DEF Observe, NativeOK, WorkRecord, WorkStates
  <2>2. reports[work.state] + 1 \in Nat
    BY <1>0, <2>1
  <2> QED BY <1>0, <1>2, <2>1, <2>2 DEF Observe
<1>3. ASSUME NEW s \in DOMAIN reports, Report(s) PROVE reports' \in [D -> Nat]
  <2>1. reports[s] - 1 \in Nat /\ reports' = [reports EXCEPT ![s] = reports[s] - 1]
    BY <1>0, <1>3 DEF Report
  <2> QED BY <1>0, <2>1
<1>4. CASE Kill
  BY <1>4 DEF Kill, NoReports
<1>5. CASE \/ \E c \in Control \ {"start"} : Ask(c)
           \/ \E c \in {"pause", "resume", "retry"} : Read(c) \/ WriteRow(c)
           \/ InsertRow \/ WriteCancel \/ MoveCompleted \/ Poll \/ ObserveProgress
           \/ \E r \in Run : Progress(r)
  BY <1>1, <1>5 DEF Ask, Read, WriteRow, InsertRow, WriteCancel, MoveCompleted, Poll,
     ObserveProgress, Progress, workVars
<1>6. CASE \/ FinishStart \/ FinishPause \/ FinishCancel
           \/ \E c \in {"resume", "retry"} : FinishResume(c)
           \/ ApplyRequest \/ SystemStop \/ Begin \/ \E r \in Run : Record(r)
  BY <1>1, <1>6 DEF FinishStart, FinishPause, FinishCancel, FinishResume, Resolve,
     ApplyRequest, SystemStop, Begin, Record, bridge
<1>7. CASE \E r \in Run : RunStep(r)
  BY <1>1, <1>7, RunStepKeeps DEF workVars
<1> QED BY <1>2, <1>3, <1>4, <1>5, <1>6, <1>7, Steps DEF BridgeStep, ManagerStep

LEMMA FlagsTyped ==
  ASSUME BridgeOK, Next
  PROVE  /\ polling' \in BOOLEAN /\ told' \in {"no", "stopped", "yes"} /\ overlap' \in BOOLEAN
         /\ shown' \in {"none", "active", "paused", "failed", "done", "gone"}
<1> DEFINE F == /\ polling' \in BOOLEAN /\ told' \in {"no", "stopped", "yes"} /\ overlap' \in BOOLEAN
                /\ shown' \in {"none", "active", "paused", "failed", "done", "gone"}
<1>0. /\ polling \in BOOLEAN /\ told \in {"no", "stopped", "yes"} /\ overlap \in BOOLEAN
      /\ shown \in {"none", "active", "paused", "failed", "done", "gone"}
  BY DEF BridgeOK
<1>1. ASSUME \/ \E c \in Control \ {"start"} : Ask(c)
             \/ \E c \in {"pause", "resume", "retry"} : Read(c) \/ WriteRow(c)
             \/ InsertRow \/ WriteCancel \/ MoveCompleted
      PROVE  F
  BY <1>0, <1>1 DEF Ask, Read, WriteRow, InsertRow, WriteCancel, MoveCompleted, Show
<1>2. ASSUME \/ FinishStart \/ FinishPause \/ FinishCancel
             \/ \E c \in {"resume", "retry"} : FinishResume(c)
      PROVE  F
  BY <1>0, <1>2 DEF FinishStart, FinishPause, FinishCancel, FinishResume, Resolve
<1>3. ASSUME \/ Observe \/ Poll \/ ObserveProgress
             \/ \E s \in DOMAIN reports : Report(s)
             \/ \E r \in Run : Progress(r)
      PROVE  F
  BY <1>0, <1>3 DEF Observe, Poll, ObserveProgress, Progress, workVars, Report, Show
<1>4. ASSUME ManagerStep PROVE F
  <2>1. CASE Kill
    BY <1>0, <2>1 DEF Kill
  <2>2. CASE Begin
    <3>1. overlap' = (overlap \/ \E r \in Run : Alive(r)) /\ UNCHANGED bridge
      BY <2>2 DEF Begin
    <3>2. overlap' \in BOOLEAN
      BY <3>1
    <3> QED BY <1>0, <3>1, <3>2 DEF bridge
  <2> QED BY <1>0, <1>4, <2>1, <2>2 DEF ManagerStep, ApplyRequest, SystemStop, Record, bridge
<1>5. ASSUME NEW r \in Run, RunStep(r) PROVE F
  <2>1. UNCHANGED <<polling, overlap>>
    BY <1>5, RunStepKeeps DEF workVars
  <2>2. CASE Tell(r) \/ Cancelled(r)
    BY <1>0, <2>1, <2>2 DEF Tell, Cancelled, Show
  <2>3. CASE ~ Tell(r) /\ ~ Cancelled(r)
    <3>1. UNCHANGED <<told, shown>>
      BY <1>5, <2>3 DEF RunStep, Prepare, RespondPartial, RespondWhole, RespondError, Fetch,
         Verify, Throw, Fail, HandleStopped, Close, Stray, EndOfFile
    <3> QED BY <1>0, <2>1, <3>1
  <2> QED BY <2>2, <2>3
<1> HIDE DEF F
<1>6. F
  BY <1>1, <1>2, <1>3, <1>4, <1>5, Steps DEF BridgeStep
<1> QED BY <1>6 DEF F

LEMMA UsedTyped ==
  ASSUME BridgeOK, Next
  PROVE  used' \in [{"pause", "retry", "cancel", "stop", "kill"} -> Nat]
<1> DEFINE K == {"pause", "retry", "cancel", "stop", "kill"}
<1>0. used \in [K -> Nat]
  BY DEF BridgeOK
<1>1. CASE UNCHANGED used
  BY <1>0, <1>1
<1>2. ASSUME NEW kind \in K, Disturb(kind) PROVE used' \in [K -> Nat]
  <2>1. used[kind] + 1 \in Nat /\ used' = [used EXCEPT ![kind] = used[kind] + 1]
    BY <1>0, <1>2 DEF Disturb
  <2> QED BY <1>0, <2>1
<1>3. ASSUME NEW c \in Control \ {"start"}, Ask(c) PROVE used' \in [K -> Nat]
  BY <1>1, <1>2, <1>3 DEF Ask, Control
<1>4. CASE SystemStop \/ Kill
  BY <1>2, <1>4 DEF SystemStop, Kill
<1>5. CASE \/ \E c \in {"pause", "resume", "retry"} : Read(c) \/ WriteRow(c)
           \/ InsertRow \/ WriteCancel \/ MoveCompleted \/ Poll \/ ObserveProgress \/ Observe
           \/ \E s \in DOMAIN reports : Report(s)
           \/ \E r \in Run : Progress(r)
  BY <1>1, <1>5 DEF Read, WriteRow, InsertRow, WriteCancel, MoveCompleted, Poll,
     ObserveProgress, Observe, Report, Progress, workVars
<1>6. CASE \/ FinishStart \/ FinishPause \/ FinishCancel
           \/ \E c \in {"resume", "retry"} : FinishResume(c)
           \/ ApplyRequest \/ Begin \/ \E r \in Run : Record(r)
  BY <1>1, <1>6 DEF FinishStart, FinishPause, FinishCancel, FinishResume, Resolve,
     ApplyRequest, Begin, Record, bridge
<1>7. CASE \E r \in Run : RunStep(r)
  BY <1>1, <1>7, RunStepKeeps DEF workVars
<1> QED BY <1>3, <1>4, <1>5, <1>6, <1>7, Steps DEF BridgeStep, ManagerStep

\* The types and the well-formedness of the runs are one inductive invariant.
Typed == NativeOK /\ RunsOK /\ BridgeOK

LEMMA TypedInit == Init => Typed
<1> SUFFICES ASSUME Init PROVE Typed
  OBVIOUS
<1>1. <<>> \in Seq(0 .. Total) /\ <<>> \in Seq({"enqueue", "cancel", "prune"})
  OBVIOUS
<1>2. NativeOK
  BY <1>1, WorkerBounds DEF Init, NativeOK, WorkRecord, WorkStates, Status
<1>3. RunsOK
  <2>1. \A r \in Run : worker[r] = NoRun /\ file.no = 1
    BY DEF Init
  <2>2. worker \in [Run -> RunRecord]
    <3> HIDE DEF NoRun
    <3> QED BY NoRunOK DEF Init
  <2> QED BY <2>1, <2>2, NoRunOK DEF RunsOK
<1>4. BridgeOK
  <2>1. ctl \in [Control -> {"idle", "asked", "read", "written"}]
    BY DEF Init
  <2>2. obs \in [on : BOOLEAN, seen : WorkStates \cup {"unset"}, after : Nat] /\ obs.after = 0
    BY DEF Init, NoObserver
  <2>3. reports \in [{"enqueued", "running", "succeeded", "failed", "cancelled"} -> Nat]
    BY DEF Init, NoReports
  <2>4. used \in [{"pause", "retry", "cancel", "stop", "kill"} -> Nat]
    BY DEF Init
  <2>5. obs.after <= Len(requests)
    BY <2>2 DEF Init
  <2>6. polling = FALSE /\ told = "no" /\ overlap = FALSE /\ shown = "none"
    BY DEF Init
  <2> QED BY ONLY <2>1, <2>2, <2>3, <2>4, <2>5, <2>6 DEF BridgeOK
<1> QED BY <1>2, <1>3, <1>4 DEF Typed

LEMMA TypedInductive == Typed /\ [Next]_vars => Typed'
<1> SUFFICES ASSUME Typed, [Next]_vars PROVE Typed'
  OBVIOUS
<1>1. NativeOK /\ RunsOK /\ BridgeOK
  BY DEF Typed
<1>2. RunsOK'
  BY <1>1, RunsInductive
<1>3. CASE UNCHANGED vars
  BY <1>1, <1>2, <1>3 DEF Typed, NativeOK, BridgeOK, vars, native, bridge
<1>4. CASE Next
  <2>1. NativeOK'
    BY <1>1, <1>4, FilesTyped, RowsTyped, WorkTyped, RequestsTyped DEF NativeOK
  <2>2. BridgeOK'
    BY <1>1, <1>4, ControlsTyped, RequestsTyped, ReportsTyped, FlagsTyped, UsedTyped
    DEF BridgeOK
  <2> QED BY <1>2, <2>1, <2>2 DEF Typed
<1> QED BY <1>3, <1>4

-----------------------------------------------------------------------------
(* The budget *)

\* What a run may still add is a number of blocks.
LEMMA HoldsFacts ==
  ASSUME NEW w \in RunRecord
  PROVE  /\ Holds(w) \in 0 .. 1 /\ (w.held = <<>> => Holds(w) = 0)
         /\ ~ w.append => Holds(w) = 0
         /\ Len(w.held) <= 1 /\ w.append => Len(w.held) = Holds(w)
<1>1. w.held \in Seq(1 .. Total) /\ w.append \in BOOLEAN
  BY DEF RunRecord
<1>2. Len(w.held) \in Nat /\ (Len(w.held) = 0 <=> w.held = <<>>)
  BY <1>1
<1>3. Holds(w) \in 0 .. 1 /\ (w.held = <<>> => Holds(w) = 0) /\ (~ w.append => Holds(w) = 0)
  BY DEF Holds
<1>4. ASSUME Len(w.held) <= 1, w.append PROVE Len(w.held) = Holds(w)
  <2>1. CASE w.held = <<>>
    BY <1>2, <1>3, <2>1
  <2>2. CASE w.held # <<>>
    <3>1. Holds(w) = 1
      BY <1>4, <2>2 DEF Holds
    <3> DEFINE n == Len(w.held)
    <3>2. n \in Nat /\ n # 0 /\ n <= 1
      BY <1>2, <1>4, <2>2
    <3> HIDE DEF n
    <3>3. n = 1
      BY <3>2
    <3> QED BY <3>1, <3>3 DEF n
  <2> QED BY <2>1, <2>2
<1> QED BY <1>3, <1>4

LEMMA DueFacts ==
  ASSUME NEW w \in RunRecord, w.at = "streaming" => w.next <= Total + 1
  PROVE  /\ Due(w) \in Nat
         /\ w.at = "begun" => Due(w) = Total
         /\ w.at = "asking" /\ w.next <= Total => Due(w) = Total + 1 - w.next
         /\ w.at = "asking" /\ w.next > Total => Due(w) = 0
         /\ w.at = "streaming" /\ w.append => Due(w) = Total + 1 - w.next
         /\ w.at = "streaming" /\ ~ w.append => Due(w) = 0
         /\ w.at \notin {"begun", "asking", "streaming"} => Due(w) = 0
<1>1. w.next \in Nat /\ Total \in Nat
  BY WorkerBounds DEF RunRecord
<1>2. CASE w.at = "begun"
  BY <1>1, <1>2 DEF Due
<1>3. CASE w.at = "asking"
  BY <1>1, <1>3 DEF Due
<1>4. CASE w.at = "streaming"
  BY <1>1, <1>4 DEF Due
<1>5. CASE w.at \notin {"begun", "asking", "streaming"}
  BY <1>1, <1>5 DEF Due
<1> QED BY <1>2, <1>3, <1>4, <1>5

\* Counting the runs that hold a block.
LEMMA HoldingFinite == IsFiniteSet(Holding) /\ Cardinality(Holding) \in Nat
<1>1. IsFiniteSet(Run)
  BY FS_Interval, WorkerBounds DEF Run
<1> QED BY <1>1, FS_Subset, FS_CardinalityType DEF Holding

LEMMA HoldingStep ==
  ASSUME Typed, NEW r \in Run, worker' = [worker EXCEPT ![r] = worker'[r]],
         worker'[r] \in RunRecord
  PROVE  Cardinality(Holding') =
           Cardinality(Holding) - Holds(worker[r]) + Holds(worker'[r])
<1>1. worker[r] \in RunRecord /\ worker \in [Run -> RunRecord]
  BY DEF Typed, RunsOK
<1>2. \A q \in Run : q # r => worker'[q] = worker[q]
  BY <1>1
<1>3. Holds(worker[r]) \in 0 .. 1 /\ Holds(worker'[r]) \in 0 .. 1
  BY <1>1, HoldsFacts
<1>4. Holding' = {q \in Run : Holds(worker'[q]) = 1}
  BY DEF Holding, Holds
<1>5. \A q \in Run : q # r => (q \in Holding' <=> q \in Holding)
  BY <1>2, <1>4 DEF Holding
<1>6. IsFiniteSet(Holding) /\ Cardinality(Holding) \in Nat
  BY HoldingFinite
<1>7. CASE Holds(worker'[r]) = Holds(worker[r])
  <2>1. Holding' = Holding
    BY <1>4, <1>5, <1>7 DEF Holding
  <2> QED BY <1>3, <1>6, <1>7, <2>1
<1>8. CASE Holds(worker'[r]) = 1 /\ Holds(worker[r]) = 0
  <2>1. Holding' = Holding \cup {r} /\ r \notin Holding
    BY <1>4, <1>5, <1>8 DEF Holding
  <2> QED BY <1>6, <1>8, <2>1, FS_AddElement
<1>9. CASE Holds(worker'[r]) = 0 /\ Holds(worker[r]) = 1
  <2>1. Holding' = Holding \ {r} /\ r \in Holding
    BY <1>4, <1>5, <1>9 DEF Holding
  <2> QED BY <1>6, <1>9, <2>1, FS_RemoveElement
<1> QED BY <1>3, <1>7, <1>8, <1>9

\* The length of the file is a number.
LEMMA LongestNat ==
  ASSUME Typed
  PROVE  Longest \in Nat /\ Len(file.blocks) \in Nat /\ Total <= Longest
<1>1. file.blocks \in Seq(0 .. Total)
  BY DEF Typed, NativeOK
<1>2. Len(file.blocks) \in Nat /\ Total \in Nat
  BY <1>1, WorkerBounds
<1> QED BY <1>2 DEF Longest

\* A step of one run keeps to the budget if it takes as much from what the run may still
\* add as it adds to the file.
LEMMA BudgetStep ==
  ASSUME Typed, Typed', BudgetOK, NEW r \in Run, begun' = begun,
         worker' = [worker EXCEPT ![r] = worker'[r]],
         Longest' + Holds(worker'[r]) <= Longest + Holds(worker[r]) \/ r = begun,
         Longest' + Holds(worker'[r]) + Due(worker'[r])
           <= Longest + Holds(worker[r]) + Due(worker[r]) \/ r # begun
  PROVE  BudgetOK'
<1>1. /\ worker[r] \in RunRecord /\ worker'[r] \in RunRecord /\ begun \in Nat
      /\ worker \in [Run -> RunRecord]
  BY DEF Typed, RunsOK, NativeOK
<1>2. Longest \in Nat /\ Longest' \in Nat
  <2>1. file'.blocks \in Seq(0 .. Total)
    BY DEF Typed, NativeOK
  <2>2. Len(file'.blocks) \in Nat /\ Total \in Nat
    BY <2>1, WorkerBounds
  <2> QED BY <2>2, LongestNat DEF Longest
<1>3. Holds(worker[r]) \in 0 .. 1 /\ Holds(worker'[r]) \in 0 .. 1
  BY <1>1, HoldsFacts
<1>4. Cardinality(Holding') = Cardinality(Holding) - Holds(worker[r]) + Holds(worker'[r])
      /\ Cardinality(Holding) \in Nat
  BY <1>1, HoldingStep, HoldingFinite
<1>5. (begun + 1) * Total \in Int
  BY <1>1, WorkerBounds
<1>6. CASE r # begun
  <2>1. worker'[begun] = worker[begun] \/ begun = 0
    BY <1>1, <1>6 DEF Run, Typed, NativeOK
  <2>2. ToCome' = ToCome
    BY <2>1 DEF ToCome, Due
  <2> DEFINE b == (begun + 1) * Total
  <2>3. BudgetOK' <=> Longest' + Cardinality(Holding') + ToCome <= b
    BY <2>2 DEF BudgetOK
  <2>4. Longest + Cardinality(Holding) + ToCome <= b
    BY DEF BudgetOK
  <2>5. ToCome \in Nat
    <3>1. ASSUME begun # 0
          PROVE  begun \in Run /\ worker[begun] \in RunRecord /\ RunOK(worker[begun], file.no)
      BY <1>1, <3>1 DEF Run, Typed, NativeOK, RunsOK
    <3> QED BY <3>1, DueFacts DEF ToCome, RunOK
  <2> HIDE DEF b
  <2> QED BY <1>2, <1>3, <1>4, <1>5, <1>6, <2>3, <2>4, <2>5 DEF b
<1>7. CASE r = begun
  <2>1. ToCome' = Due(worker'[r]) /\ ToCome = Due(worker[r])
    BY <1>7 DEF ToCome, Due, Run
  <2>2. Due(worker'[r]) \in Nat /\ Due(worker[r]) \in Nat
    <3>1. RunOK(worker[r], file.no) /\ RunOK(worker'[r], file'.no)
      BY DEF Typed, RunsOK
    <3> QED BY <1>1, <3>1, DueFacts DEF RunOK
  <2> QED BY <1>2, <1>3, <1>4, <1>5, <1>7, <2>1, <2>2 DEF BudgetOK
<1> QED BY <1>6, <1>7

\* A stream is open only where a run may have one, and one that does not append stays
\* within the file.
LEMMA StreamFacts ==
  ASSUME Typed, NEW r \in Run
  PROVE  /\ worker[r] \in RunRecord /\ RunOK(worker[r], file.no) /\ Len(worker[r].held) <= 1
         /\ Len(worker[r].held) <= worker[r].count
         /\ worker[r].handle = file.no => worker[r].at \in {"streaming", "stopping", "closing"}
         /\ worker[r].handle = file.no /\ ~ worker[r].append => worker[r].count <= Total
         /\ worker[r].at = "streaming" => worker[r].next <= Total + 1
<1> USE WorkerBounds
<1>1. worker[r] \in RunRecord /\ RunOK(worker[r], file.no) /\ file.no \in Nat \ {0}
  BY DEF Typed, RunsOK, NativeOK
<1>2. Len(worker[r].held) <= 1
  <2>1. CASE worker[r].held = <<>>
    BY <2>1
  <2>2. CASE worker[r].held # <<>>
    <3>1. worker[r].held = <<worker[r].next - 1>>
      BY <1>1, <2>2 DEF RunOK
    <3> QED BY <3>1
  <2> QED BY <2>1, <2>2
<1>3. worker[r].handle = file.no => worker[r].at \in {"streaming", "stopping", "closing"}
  BY <1>1 DEF RunOK, RunRecord, Stage
<1>4. worker[r].next \in Nat /\ worker[r].count \in Nat
  BY <1>1 DEF RunRecord
<1> QED BY <1>1, <1>2, <1>3, <1>4 DEF RunOK

LEMMA FlushBudget ==
  ASSUME Typed, NEW r \in Run, NEW new \in Seq(1 .. Total), Flush(worker[r], new),
         worker[r].handle = file.no /\ ~ worker[r].append => worker[r].count + Len(new) <= Total
  PROVE  /\ Longest' \in Nat
         /\ worker[r].append => Longest' <= Longest + Holds(worker[r]) + Len(new)
         /\ ~ worker[r].append => Longest' <= Longest
<1> USE WorkerBounds
<1> DEFINE w == worker[r]
           b == file.blocks
           l == Len(b)
           h == Len(w.held)
           n == Len(new)
<1>1. w \in RunRecord /\ h <= 1 /\ h <= w.count /\ w.handle \in Nat
  BY StreamFacts DEF RunRecord
<1>2. /\ Len(w.held \o new) = h + n /\ w.held \o new \in Seq(1 .. Total)
      /\ h \in Nat /\ n \in Nat /\ l \in Nat /\ b \in Seq(0 .. Total) /\ w.count \in Nat
  BY <1>1, LongestNat DEF RunRecord, Typed, NativeOK
<1>3. Holds(w) \in 0 .. 1 /\ (w.append => h = Holds(w)) /\ Longest \in Nat /\ Total <= Longest
      /\ l <= Longest
  BY <1>1, <1>2, HoldsFacts, LongestNat DEF Longest
<1>4. CASE w.handle # file.no
  <2>1. file' = file
    BY <1>4, FlushFacts DEF Typed
  <2>2. Longest' = Longest
    BY <2>1 DEF Longest
  <2> QED BY <1>2, <1>3, <2>2
<1>5. CASE w.handle = file.no /\ w.append
  <2>1. file'.blocks = b \o (w.held \o new)
    BY <1>1, <1>2, <1>5, FlushFacts, WrittenFacts DEF Typed
  <2>2. Len(file'.blocks) = l + (h + n)
    <3> HIDE DEF h, n
    <3>1. Len(b \o (w.held \o new)) = Len(b) + Len(w.held \o new)
      <4>1. w.held \o new \in Seq(Nat) /\ b \in Seq(Nat)
        BY <1>2
      <4> HIDE DEF b
      <4> QED BY <4>1
    <3> QED BY <1>2, <2>1, <3>1
  <2>3. Longest' = IF l + (h + n) > Total THEN l + (h + n) ELSE Total
    BY <2>2 DEF Longest
  <2> HIDE DEF l, h, n, w
  <2> QED BY <1>2, <1>3, <1>5, <2>3 DEF w, n
<1>6. CASE w.handle = file.no /\ ~ w.append
  <2>1. file'.blocks = Written(b, w, w.held \o new)
    BY <1>6, FlushFacts DEF Typed
  <2>2. Len(file'.blocks) = IF w.count - h + (h + n) > l THEN w.count - h + (h + n) ELSE l
    <3>1. Len(Written(b, w, w.held \o new)) =
            IF w.count - Len(w.held) + Len(w.held \o new) > Len(b)
            THEN w.count - Len(w.held) + Len(w.held \o new) ELSE Len(b)
      BY <1>1, <1>2, <1>6, WrittenFacts
    <3> QED BY <1>2, <2>1, <3>1
  <2>3. w.count - h + (h + n) = w.count + n /\ w.count + n <= Total
    <3>1. w.count + n <= Total
      BY <1>6
    <3> DEFINE c == w.count
    <3>2. c \in Nat /\ h \in Nat /\ n \in Nat
      BY <1>2
    <3> HIDE DEF c, h, n
    <3>3. c - h + (h + n) = c + n
      BY <3>2
    <3> QED BY <3>1, <3>3 DEF c
  <2>4. Len(file'.blocks) \in Nat /\ Len(file'.blocks) <= Longest
    BY <1>2, <1>3, <2>2, <2>3
  <2>5. Longest' \in Nat /\ Longest' <= Longest
    BY <1>3, <2>4 DEF Longest
  <2> QED BY <1>6, <2>5
<1> QED BY <1>4, <1>5, <1>6

LEMMA ShorterBudget ==
  ASSUME Typed, Typed', file'.blocks = <<>> \/ UNCHANGED file
  PROVE  Longest' \in Nat /\ Longest' <= Longest
<1>1. CASE file'.blocks = <<>>
  <2>1. Len(file'.blocks) = 0
    BY <1>1
  <2> QED BY <2>1, LongestNat, WorkerBounds DEF Longest
<1>2. CASE UNCHANGED file
  <2>1. Longest' = Longest
    BY <1>2 DEF Longest
  <2> QED BY <2>1, LongestNat
<1> QED BY <1>1, <1>2

\* What a run may still add before and after its step.
LEMMA RoomFacts ==
  ASSUME Typed, Typed', NEW r \in Run
  PROVE  /\ Holds(worker[r]) \in 0 .. 1 /\ Due(worker[r]) \in Nat
         /\ Holds(worker'[r]) \in 0 .. 1 /\ Due(worker'[r]) \in Nat
         /\ Longest \in Nat
<1>1. /\ worker[r] \in RunRecord /\ RunOK(worker[r], file.no)
      /\ worker'[r] \in RunRecord /\ RunOK(worker'[r], file'.no)
  BY DEF Typed, RunsOK
<1> QED BY <1>1, HoldsFacts, DueFacts, LongestNat DEF RunOK

\* A run that goes where it will add nothing more, once its stream is closed.
LEMMA BudgetOver ==
  ASSUME Typed, Typed', BudgetOK, NEW r \in Run, begun' = begun,
         worker' = [worker EXCEPT ![r] = worker'[r]],
         worker'[r].held = <<>>, worker'[r].at \notin {"begun", "asking", "streaming"},
         \/ file'.blocks = <<>> \/ UNCHANGED file \/ Flush(worker[r], <<>>)
  PROVE  BudgetOK'
<1>1. Longest' \in Nat /\ Longest' <= Longest + Holds(worker[r])
  <2>1. CASE Flush(worker[r], <<>>)
    <3>1. worker[r].handle = file.no /\ ~ worker[r].append =>
             worker[r].count + Len(<<>>) <= Total
      BY StreamFacts DEF RunRecord
    <3>2. Longest' \in Nat /\ (Longest' <= Longest + Holds(worker[r]) + Len(<<>>)
                                \/ Longest' <= Longest)
      BY <2>1, <3>1, NothingWritten, FlushBudget
    <3> QED BY <3>2, RoomFacts
  <2>2. CASE file'.blocks = <<>> \/ UNCHANGED file
    BY <2>2, ShorterBudget, RoomFacts
  <2> QED BY <2>1, <2>2
<1>2. Holds(worker'[r]) = 0 /\ Due(worker'[r]) = 0
  BY HoldsFacts, DueFacts DEF Typed, RunsOK
<1>3. /\ Longest' + Holds(worker'[r]) <= Longest + Holds(worker[r])
      /\ Longest' + Holds(worker'[r]) + Due(worker'[r])
           <= Longest + Holds(worker[r]) + Due(worker[r])
  BY <1>1, <1>2, RoomFacts
<1> QED BY <1>3, BudgetStep

\* Reading takes a block from what is to come, to the stream or to the file.
LEMMA FetchBudget ==
  ASSUME Typed, Typed', BudgetOK, NEW r \in Run, begun' = begun, Fetch(r), r = begun
  PROVE  BudgetOK'
<1> USE WorkerBounds
<1> DEFINE w == worker[r]
<1>0. /\ w \in RunRecord /\ w.at = "streaming" /\ w.next \in 1 .. Total /\ w.count \in Nat
      /\ RunOK(w, file.no) /\ worker \in [Run -> RunRecord]
  <2>1. w \in RunRecord /\ RunOK(w, file.no)
    BY StreamFacts
  <2>2. w.at = "streaming" /\ w.next <= Total /\ worker \in [Run -> RunRecord]
    BY DEF Fetch, Typed, RunsOK
  <2>3. w.next \in Nat \ {0} /\ w.count \in Nat
    BY <2>1 DEF RunRecord
  <2> HIDE DEF w
  <2> QED BY <2>1, <2>2, <2>3
<1>1. CASE worker' = [worker EXCEPT ![r].at = "stopping"] /\ UNCHANGED file
  <2>1. /\ worker' = [worker EXCEPT ![r] = worker'[r]] /\ worker'[r].at = "stopping"
        /\ worker'[r].append = w.append /\ worker'[r].held = w.held
    BY <1>0, <1>1 DEF RunRecord
  <2>2. Holds(worker'[r]) = Holds(w) /\ Due(worker'[r]) = 0
    BY <2>1, DueFacts DEF Holds, Typed, RunsOK
  <2>3. Longest' + Holds(worker'[r]) + Due(worker'[r]) <= Longest + Holds(w) + Due(w)
    BY <1>1, <2>2, ShorterBudget, RoomFacts
  <2> QED BY <2>1, <2>3, BudgetStep
<1>2. CASE /\ w.held = <<>> /\ UNCHANGED file
           /\ worker' = [worker EXCEPT ![r].next = @ + 1, ![r].count = @ + 1,
                                       ![r].held = <<w.next>>]
  <2>1. /\ worker' = [worker EXCEPT ![r] = worker'[r]] /\ worker'[r].at = "streaming"
        /\ worker'[r].append = w.append /\ worker'[r].next = w.next + 1
        /\ worker'[r].held = <<w.next>>
    BY <1>0, <1>2 DEF RunRecord
  <2>2. Longest' <= Longest /\ Longest' \in Nat
    BY <1>2, ShorterBudget
  <2>3. /\ Holds(w) = 0 /\ (w.append => Holds(worker'[r]) = 1)
        /\ ~ w.append => Holds(worker'[r]) = 0
    <3>1. <<w.next>> # <<>>
      OBVIOUS
    <3> QED BY <1>2, <2>1, <3>1 DEF Holds
  <2>4. /\ w.append => Due(w) = Total + 1 - w.next /\ Due(worker'[r]) = Total + 1 - (w.next + 1)
        /\ ~ w.append => Due(w) = 0 /\ Due(worker'[r]) = 0
    <3>1. worker'[r] \in RunRecord /\ w.next <= Total + 1 /\ w.next + 1 <= Total + 1
      BY <1>0 DEF Typed, RunsOK
    <3> QED BY <1>0, <2>1, <3>1, DueFacts
  <2>5. Longest' + Holds(worker'[r]) + Due(worker'[r]) <= Longest + Holds(w) + Due(w)
    BY <1>0, <2>2, <2>3, <2>4, RoomFacts
  <2> QED BY <2>1, <2>5, BudgetStep
<1>3. CASE /\ Flush(w, <<w.next>>)
           /\ worker' = [worker EXCEPT ![r].next = @ + 1, ![r].count = @ + 1, ![r].held = <<>>]
  <2>1. /\ worker' = [worker EXCEPT ![r] = worker'[r]] /\ worker'[r].at = "streaming"
        /\ worker'[r].append = w.append /\ worker'[r].next = w.next + 1
        /\ worker'[r].held = <<>>
    BY <1>0, <1>3 DEF RunRecord
  <2>2. Longest' \in Nat /\ (w.append => Longest' <= Longest + Holds(w) + 1)
        /\ (~ w.append => Longest' <= Longest)
    <3>1. <<w.next>> \in Seq(1 .. Total) /\ Len(<<w.next>>) = 1
      BY <1>0
    <3>2. ~ w.append => w.count + 1 <= Total
      BY <1>0 DEF RunOK
    <3> QED BY <1>3, <3>1, <3>2, FlushBudget
  <2>3. Holds(worker'[r]) = 0
    BY <2>1, HoldsFacts DEF Typed, RunsOK
  <2>4. /\ w.append => Due(w) = Total + 1 - w.next /\ Due(worker'[r]) = Total + 1 - (w.next + 1)
        /\ ~ w.append => Due(w) = 0 /\ Due(worker'[r]) = 0
    <3>1. worker'[r] \in RunRecord /\ w.next <= Total + 1 /\ w.next + 1 <= Total + 1
      BY <1>0 DEF Typed, RunsOK
    <3> QED BY <1>0, <2>1, <3>1, DueFacts
  <2>5. Longest' + Holds(worker'[r]) + Due(worker'[r]) <= Longest + Holds(w) + Due(w)
    BY <1>0, <2>2, <2>3, <2>4, RoomFacts
  <2> QED BY <2>1, <2>5, BudgetStep
<1> QED BY <1>1, <1>2, <1>3 DEF Fetch

\* An answer fixes what is to come: the rest of the file, or nothing that is appended.
LEMMA RespondBudget ==
  ASSUME Typed, Typed', BudgetOK, NEW r \in Run, begun' = begun, r = begun,
         RespondPartial(r) \/ RespondWhole(r)
  PROVE  BudgetOK'
<1> USE WorkerBounds
<1> DEFINE w == worker[r]
<1>0. /\ w \in RunRecord /\ w.at = "asking" /\ w.next \in 1 .. Total /\ w.held = <<>>
      /\ worker \in [Run -> RunRecord] /\ worker'[r] \in RunRecord
  BY StreamFacts DEF RunRecord, RespondPartial, RespondWhole, Typed, RunsOK, RunOK
<1>1. Holds(w) = 0 /\ Due(w) = Total + 1 - w.next
  BY <1>0, HoldsFacts, DueFacts
<1>2. Longest' \in Nat /\ Longest' <= Longest
  <2>1. file' = Deleted => file'.blocks = <<>>
    BY DEF Deleted
  <2>2. file' = [file EXCEPT !.blocks = <<>>] => file'.blocks = <<>>
    BY DEF Typed, NativeOK
  <2> QED BY <2>1, <2>2, ShorterBudget DEF RespondPartial, RespondWhole
<1>3. CASE RespondPartial(r)
  <2>1. /\ worker' = [worker EXCEPT ![r] = worker'[r]] /\ worker'[r].at = "streaming"
        /\ worker'[r].append = TRUE /\ worker'[r].next = w.next /\ worker'[r].held = <<>>
    BY <1>0, <1>3 DEF RunRecord, RespondPartial
  <2>2. Holds(worker'[r]) = 0 /\ Due(worker'[r]) = Total + 1 - w.next
    BY <1>0, <2>1, HoldsFacts, DueFacts
  <2>3. Longest' + Holds(worker'[r]) + Due(worker'[r]) <= Longest + Holds(w) + Due(w)
    BY <1>0, <1>1, <1>2, <2>2, RoomFacts
  <2> QED BY <2>1, <2>3, BudgetStep
<1>4. CASE RespondWhole(r)
  <2>1. /\ worker' = [worker EXCEPT ![r] = worker'[r]] /\ worker'[r].at = "streaming"
        /\ ~ worker'[r].append /\ worker'[r].held = <<>>
    <3>1. worker' = [worker EXCEPT ![r].at = "streaming", ![r].next = 1, ![r].count = 0,
                                   ![r].append = FALSE, ![r].handle = file'.no]
      BY <1>4 DEF RespondWhole
    <3>2. worker' = [worker EXCEPT ![r] = worker'[r]]
      BY <1>0, <3>1
    <3>3. worker'[r] = [w EXCEPT !.at = "streaming", !.next = 1, !.count = 0,
                                 !.append = FALSE, !.handle = file'.no]
      BY <1>0, <3>1
    <3>4. worker'[r].at = "streaming" /\ ~ worker'[r].append /\ worker'[r].held = w.held
      <4> HIDE DEF w
      <4> QED BY ONLY <1>0, <3>3 DEF RunRecord
    <3> QED BY <1>0, <3>2, <3>4
  <2>2. Holds(worker'[r]) = 0 /\ Due(worker'[r]) = 0
    <3>1. worker'[r].next <= Total + 1
      BY <2>1 DEF Typed, RunsOK, RunOK
    <3> QED BY <1>0, <2>1, <3>1, HoldsFacts, DueFacts
  <2>3. Longest' + Holds(worker'[r]) + Due(worker'[r]) <= Longest + Holds(w) + Due(w)
    BY <1>0, <1>1, <1>2, <2>2, RoomFacts
  <2> QED BY <2>1, <2>3, BudgetStep
<1> QED BY <1>3, <1>4

\* What a run that has begun may add, the request turns into what it asks for.
LEMMA PrepareBudget ==
  ASSUME Typed, Typed', BudgetOK, NEW r \in Run, begun' = begun, r = begun, Prepare(r)
  PROVE  BudgetOK'
<1> USE WorkerBounds
<1> DEFINE w == worker[r]
<1>0. /\ w \in RunRecord /\ w.at = "begun" /\ w.held = <<>> /\ file' = file
      /\ worker \in [Run -> RunRecord] /\ worker'[r] \in RunRecord
  BY StreamFacts DEF RunRecord, Prepare, Typed, RunsOK, RunOK
<1>1. CASE Return(r, "failure") \/ Goto(r, "stopping") \/ Goto(r, "failing")
  <2>1. /\ worker' = [worker EXCEPT ![r] = worker'[r]] /\ worker'[r].held = <<>>
        /\ worker'[r].at \notin {"begun", "asking", "streaming"}
    BY <1>1, ReturnFacts, GotoFacts DEF Typed
  <2> QED BY <1>0, <2>1, BudgetOver
<1>2. CASE worker' = [worker EXCEPT ![r].at = "asking", ![r].next = Len(file.blocks) + 1]
  <2>1. /\ worker' = [worker EXCEPT ![r] = worker'[r]] /\ worker'[r].at = "asking"
        /\ worker'[r].held = <<>> /\ worker'[r].next = Len(file.blocks) + 1
    BY <1>0, <1>2 DEF RunRecord
  <2>2. Holds(worker'[r]) = 0 /\ Holds(w) = 0 /\ Due(w) = Total /\ Due(worker'[r]) <= Total
    <3>1. Len(file.blocks) \in Nat
      BY LongestNat
    <3> QED BY <1>0, <2>1, <3>1, HoldsFacts, DueFacts
  <2>3. Longest' + Holds(worker'[r]) + Due(worker'[r]) <= Longest + Holds(w) + Due(w)
    BY <1>0, <2>2, ShorterBudget, RoomFacts
  <2> QED BY <2>1, <2>3, BudgetStep
<1> QED BY <1>1, <1>2 DEF Prepare

\* No step of a run exceeds the budget.
LEMMA RunBudget ==
  ASSUME Typed, Typed', BudgetOK, NEW r \in Run, RunStep(r)
  PROVE  BudgetOK'
<1>0. begun' = begun /\ OneStep(r)
  BY RunStepKeeps, RunStepFacts DEF workVars, Typed
<1>1. CASE r = begun /\ (Prepare(r) \/ RespondPartial(r) \/ RespondWhole(r) \/ Fetch(r))
  BY <1>0, <1>1, PrepareBudget, RespondBudget, FetchBudget
<1>2. CASE HandleStopped(r)
  <2> DEFINE w == worker[r]
  <2>1. /\ worker' = [worker EXCEPT ![r] = worker'[r]] /\ worker'[r].at = "closing"
        /\ worker'[r].append = w.append /\ worker'[r].held = w.held
    BY <1>2 DEF RunRecord, HandleStopped, Typed, RunsOK
  <2>2. Holds(worker'[r]) = Holds(w) /\ Due(worker'[r]) = 0
    BY <2>1, DueFacts DEF Holds, Typed, RunsOK
  <2>3. Longest' \in Nat /\ Longest' <= Longest
    BY <1>2, ShorterBudget DEF HandleStopped, Deleted
  <2>4. /\ Longest' + Holds(worker'[r]) <= Longest + Holds(w)
        /\ Longest' + Holds(worker'[r]) + Due(worker'[r]) <= Longest + Holds(w) + Due(w)
    BY <2>2, <2>3, RoomFacts
  <2> QED BY <1>0, <2>1, <2>4, BudgetStep
<1>3. CASE RespondError(r) \/ Verify(r) \/ Fail(r) \/ Tell(r)
  <2>1. /\ worker' = [worker EXCEPT ![r] = worker'[r]] /\ worker'[r].held = <<>>
        /\ worker'[r].at \in {"failing", "telling", "returned"}
    BY <1>3, ReturnFacts, GotoFacts DEF Typed, RespondError, Verify, Fail, Tell
  <2>2. file'.blocks = <<>> \/ UNCHANGED file
    BY <1>3 DEF RespondError, Verify, Fail, Tell, Deleted
  <2> QED BY <1>0, <2>1, <2>2, BudgetOver
<1>4. CASE Throw(r) \/ Close(r)
  <2>1. /\ worker' = [worker EXCEPT ![r] = worker'[r]] /\ worker'[r].held = <<>>
        /\ worker'[r].at \in {"failing", "returned", "stopping"}
    <3>1. ASSUME Close(r) PROVE worker[r].result \in {"success", "failure", "retry"}
      BY <3>1, StreamFacts DEF RunOK, RunRecord, Close
    <3> QED BY <1>4, <3>1, ReturnFacts, GotoFacts DEF Typed, Throw, Close
  <2>2. UNCHANGED file \/ Flush(worker[r], <<>>)
    BY <1>4 DEF Throw, Close
  <2> QED BY <1>0, <2>1, <2>2, BudgetOver
<1>5. CASE Stray(r) \/ Cancelled(r)
  <2>1. worker' = [worker EXCEPT ![r] = worker'[r]] /\ worker'[r] = Ended
    BY <1>5 DEF Stray, Cancelled, Typed, RunsOK
  <2>2. worker'[r].held = <<>> /\ worker'[r].at = "ended"
    BY <2>1 DEF Ended, NoRun
  <2>3. file'.blocks = <<>> \/ Flush(worker[r], <<>>)
    BY <1>5 DEF Stray, Cancelled, Deleted
  <2> QED BY <1>0, <2>1, <2>2, <2>3, BudgetOver
<1>6. CASE EndOfFile(r)
  <2>1. /\ worker' = [worker EXCEPT ![r] = worker'[r]] /\ worker'[r].held = <<>>
        /\ worker'[r].at = "verifying"
    BY <1>6 DEF RunRecord, EndOfFile, Typed, RunsOK
  <2> QED BY <1>0, <1>6, <2>1, BudgetOver DEF EndOfFile
<1> QED BY <1>1, <1>2, <1>3, <1>4, <1>5, <1>6 DEF RunStep

\* Neither does a step that leaves the file and the runs where they are.
LEMMA SameBudget ==
  ASSUME UNCHANGED <<file, begun>>,
         \A r \in Run : /\ worker'[r].at = worker[r].at /\ worker'[r].next = worker[r].next
                        /\ worker'[r].append = worker[r].append
                        /\ worker'[r].held = worker[r].held,
         Typed, BudgetOK
  PROVE  BudgetOK'
<1>1. \A r \in Run : /\ Holds(worker'[r]) = Holds(worker[r])
                     /\ Due(worker'[r]) = Due(worker[r])
  BY DEF Holds, Due
<1>2. Holding' = Holding
  BY <1>1 DEF Holding
<1>3. Longest' = Longest
  BY DEF Longest
<1>4. begun # 0 => begun \in Run
  BY DEF Typed, NativeOK, Run
<1>5. ToCome' = ToCome
  BY <1>1, <1>4 DEF ToCome
<1> QED BY <1>2, <1>3, <1>5 DEF BudgetOK

\* What is to come is a number of blocks.
LEMMA ToComeNat ==
  ASSUME Typed PROVE ToCome \in Nat
<1>1. ASSUME begun # 0
      PROVE  begun \in Run /\ worker[begun] \in RunRecord /\ RunOK(worker[begun], file.no)
  BY <1>1 DEF Run, Typed, NativeOK, RunsOK
<1> QED BY <1>1, DueFacts DEF ToCome, RunOK

\* Multiples of the length of the file, which is all the budget needs of products.
LEMMA Multiples ==
  ASSUME NEW a \in Nat, NEW b \in Nat, NEW c \in Nat, a <= b
  PROVE  a * c \in Nat /\ a * c <= b * c /\ (a + 1) * c = a * c + c
OBVIOUS

\* A new run brings a budget of its own.
LEMMA BeginBudget ==
  ASSUME Typed, Typed', BudgetOK, Begin PROVE BudgetOK'
<1> USE WorkerBounds
<1> DEFINE r == begun + 1
<1>1. begun \in Nat /\ r \in Run /\ begun' = r /\ file' = file /\ worker[r] = NoRun
  <2>1. begun \in Nat /\ r \in Run /\ r > begun
    BY DEF Begin, Run, Typed, NativeOK
  <2> HIDE DEF r
  <2>2. worker[r] = NoRun
    BY <2>1 DEF Typed, RunsOK
  <2> QED BY <2>1, <2>2 DEF Begin, r
<1>2. worker' = [worker EXCEPT ![r].at = "begun"] /\ worker \in [Run -> RunRecord]
  BY DEF Begin, Typed, RunsOK
<1> HIDE DEF r
<1>3. /\ \A q \in Run : q # r => worker'[q] = worker[q]
      /\ worker'[r] = [NoRun EXCEPT !.at = "begun"] /\ worker'[r] \in RunRecord
      /\ worker' = [worker EXCEPT ![r] = worker'[r]]
  <2>1. worker'[r] \in RunRecord
    BY <1>1 DEF Typed, RunsOK
  <2> HIDE DEF NoRun
  <2> QED BY <1>1, <1>2, <2>1
<1>4. Holds(worker'[r]) = 0 /\ Holds(worker[r]) = 0 /\ Due(worker'[r]) = Total
  <2>1. worker'[r].at = "begun" /\ ~ worker'[r].append /\ ~ worker[r].append
    BY <1>1, <1>3 DEF NoRun
  <2> QED BY <2>1 DEF Holds, Due
<1>5. Cardinality(Holding') = Cardinality(Holding) /\ Cardinality(Holding) \in Nat
  BY <1>1, <1>3, <1>4, HoldingStep, HoldingFinite
<1>6. ToCome' = Total /\ ToCome \in Nat /\ Longest' = Longest /\ Longest \in Nat
  <2>1. r # 0
    BY <1>1 DEF r
  <2> QED BY <1>1, <1>4, <2>1, ToComeNat, LongestNat DEF ToCome, Longest
<1>7. (r + 1) * Total = (begun + 1) * Total + Total /\ (begun + 1) * Total \in Nat
  <2>1. begun + 1 \in Nat
    BY <1>1
  <2> QED BY <2>1, Multiples DEF r
<1> DEFINE m == (begun + 1) * Total
<1>8. Longest + Cardinality(Holding) + ToCome <= m
  BY DEF BudgetOK
<1> HIDE DEF m
<1>9. Longest' + Cardinality(Holding') + ToCome' <= m + Total
  BY <1>5, <1>6, <1>7, <1>8 DEF m
<1> QED BY <1>1, <1>7, <1>9 DEF BudgetOK, m

\* Runs that end add nothing more.
LEMMA EndedBudget ==
  ASSUME Typed, Typed', BudgetOK, UNCHANGED <<file, begun>>,
         \A r \in Run : worker'[r] \in {worker[r], Ended},
         begun # 0 => worker'[begun] = Ended \/ worker'[begun] = worker[begun]
  PROVE  BudgetOK'
<1>1. Holds(Ended) = 0 /\ Due(Ended) = 0
  BY DEF Ended, NoRun, Holds, Due
<1>2. Holding' \subseteq Holding
  BY <1>1 DEF Holding
<1>3. Cardinality(Holding') <= Cardinality(Holding) /\ Cardinality(Holding') \in Nat
      /\ Cardinality(Holding) \in Nat
  BY <1>2, HoldingFinite, FS_Subset, FS_CardinalityType
<1>4. ToCome' <= ToCome /\ ToCome' \in Nat /\ ToCome \in Nat
  BY <1>1, ToComeNat DEF ToCome
<1>5. Longest' = Longest /\ Longest \in Nat
  BY LongestNat DEF Longest
<1> DEFINE m == (begun + 1) * Total
<1>6. m \in Nat /\ Longest + Cardinality(Holding) + ToCome <= m
  <2>1. begun + 1 \in Nat
    BY DEF Typed, NativeOK
  <2> QED BY <2>1, WorkerBounds, Multiples DEF BudgetOK
<1> HIDE DEF m
<1>7. Longest' + Cardinality(Holding') + ToCome' <= m
  BY <1>3, <1>4, <1>5, <1>6
<1> QED BY <1>7 DEF BudgetOK, m

\* The budget is kept.
LEMMA BudgetInductive == Typed /\ Typed' /\ BudgetOK /\ [Next]_vars => BudgetOK'
<1> SUFFICES ASSUME Typed, Typed', BudgetOK, [Next]_vars PROVE BudgetOK'
  OBVIOUS
<1>1. CASE BridgeStep \/ UNCHANGED vars
  BY <1>1, BridgeStepKeeps, SameBudget DEF vars, native
<1>2. CASE \E r \in Run : RunStep(r)
  BY <1>2, RunBudget
<1>3. CASE WriteCancel
  <2>1. Longest' \in Nat /\ Longest' <= Longest
    BY <1>3, ShorterBudget DEF WriteCancel, Deleted
  <2>2. UNCHANGED <<worker, begun>>
    BY <1>3 DEF WriteCancel
  <2>3. Holding' = Holding /\ ToCome' = ToCome
    BY <2>2 DEF Holding, ToCome
  <2>4. Cardinality(Holding) \in Nat /\ ToCome \in Nat /\ Longest \in Nat
    BY HoldingFinite, ToComeNat, LongestNat
  <2> DEFINE m == (begun + 1) * Total
  <2>5. m \in Nat /\ Longest + Cardinality(Holding) + ToCome <= m
    <3>1. begun + 1 \in Nat
      BY DEF Typed, NativeOK
    <3> QED BY <3>1, WorkerBounds, Multiples DEF BudgetOK
  <2> HIDE DEF m
  <2>6. Longest' + Cardinality(Holding) + ToCome <= m
    BY <2>1, <2>4, <2>5
  <2> QED BY <2>2, <2>3, <2>6 DEF BudgetOK, m
<1>4. CASE ApplyRequest \/ SystemStop
  <2>1. worker' = Stopped(work.run) /\ UNCHANGED <<file, begun>>
    BY <1>4 DEF ApplyRequest, SystemStop
  <2>2. worker \in [Run -> RunRecord] /\ work.run \in Nat
    BY DEF Typed, RunsOK, NativeOK, WorkRecord
  <2>3. ASSUME NEW r \in Run
        PROVE  /\ worker'[r].at = worker[r].at /\ worker'[r].next = worker[r].next
               /\ worker'[r].append = worker[r].append /\ worker'[r].held = worker[r].held
    BY <2>1, <2>2 DEF Stopped, RunRecord
  <2> QED BY <2>1, <2>3, SameBudget
<1>5. CASE Begin
  BY <1>5, BeginBudget
<1>6. CASE \E r \in Run : Record(r)
  <2>1. PICK r \in Run : Record(r)
    BY <1>6
  <2>2. worker' = [worker EXCEPT ![r] = Ended] /\ worker \in [Run -> RunRecord]
        /\ UNCHANGED <<file, begun>>
    BY <2>1 DEF Record, Typed, RunsOK
  <2>3. \A q \in Run : worker'[q] \in {worker[q], Ended}
    BY <2>2
  <2>4. begun # 0 => begun \in Run
    BY DEF Typed, NativeOK, Run
  <2> QED BY <2>2, <2>3, <2>4, EndedBudget
<1>7. CASE Kill
  <2>1. \A q \in Run : worker'[q] \in {worker[q], Ended}
    BY <1>7 DEF Kill
  <2>2. begun # 0 => begun \in Run
    BY DEF Typed, NativeOK, Run
  <2> QED BY <1>7, <2>1, <2>2, EndedBudget DEF Kill
<1> QED BY <1>1, <1>2, <1>3, <1>4, <1>5, <1>6, <1>7, Steps DEF ManagerStep

\* The next block a run reads is at most the one after the budget of the runs before it.
LEMMA NextStep ==
  ASSUME Typed, Typed', BudgetOK, NextOK, Next
  PROVE  NextOK'
<1> USE WorkerBounds
<1> DEFINE m == MaxRuns * Total + 1
<1>1. m \in Nat /\ Total + 1 <= m /\ 1 <= m
  <2>1. 1 * Total <= MaxRuns * Total /\ MaxRuns * Total \in Nat
    BY Multiples
  <2> QED BY <2>1
<1>2. \A r \in Run : worker[r].next <= m
  BY DEF NextOK
<1>3. NextOK' <=> \A r \in Run : worker'[r].next <= m
  BY DEF NextOK
<1>4. worker \in [Run -> RunRecord] /\ worker' \in [Run -> RunRecord]
  BY DEF Typed, RunsOK
<1> HIDE DEF m
<1>5. Ended.next = 1 /\ NoRun.next = 1
  BY DEF Ended, NoRun
<1>6. ASSUME NEW r \in Run, RunStep(r) PROVE worker'[r].next <= m
  <2>1. CASE r = begun /\ Prepare(r)
    <3>1. CASE Return(r, "failure") \/ Goto(r, "stopping") \/ Goto(r, "failing")
      BY <1>1, <3>1, ReturnFacts, GotoFacts DEF Typed
    <3>2. CASE worker' = [worker EXCEPT ![r].at = "asking", ![r].next = Len(file.blocks) + 1]
      <4>1. worker'[r].next = Len(file.blocks) + 1
        BY <1>4, <3>2 DEF RunRecord
      <4>2. r = begun /\ worker[r].at = "begun"
        BY <2>1 DEF Prepare
      <4>3. ToCome = Total
        BY <4>2 DEF ToCome, Due, Run
      <4> DEFINE k == begun * Total
      <4>4. k \in Nat /\ k + 1 <= m /\ (begun + 1) * Total = k + Total
        <5>1. begun \in Nat /\ begun <= MaxRuns
          BY DEF Typed, NativeOK
        <5> QED BY <5>1, Multiples DEF m
      <4>5. Longest + Cardinality(Holding) + Total <= k + Total
        BY <4>3, <4>4 DEF BudgetOK
      <4>6. Longest \in Nat /\ Cardinality(Holding) \in Nat /\ Len(file.blocks) <= Longest
        BY HoldingFinite, LongestNat DEF Longest
      <4>7. Len(file.blocks) \in Nat
        BY LongestNat
      <4> HIDE DEF k
      <4> QED BY <1>1, <4>1, <4>4, <4>5, <4>6, <4>7
    <3> QED BY <2>1, <3>1, <3>2 DEF Prepare
  <2>2. CASE Fetch(r)
    <3>1. worker[r].next \in Nat /\ worker[r].next <= Total
      BY <1>4, <2>2 DEF Fetch, RunRecord
    <3>2. worker'[r].next \in {worker[r].next, worker[r].next + 1}
      BY <1>4, <2>2 DEF Fetch, RunRecord
    <3> QED BY <1>1, <3>1, <3>2
  <2>3. CASE RespondPartial(r) \/ HandleStopped(r)
    <3>1. worker'[r].next = worker[r].next
      BY <1>4, <2>3 DEF RespondPartial, HandleStopped, RunRecord
    <3> QED BY <1>2, <3>1
  <2>4. CASE RespondWhole(r) \/ EndOfFile(r)
    <3>1. worker'[r].next = 1
      BY <1>4, <2>4 DEF RespondWhole, EndOfFile, RunRecord
    <3> QED BY <1>1, <3>1
  <2>5. CASE RespondError(r) \/ Verify(r) \/ Fail(r) \/ Tell(r) \/ Throw(r) \/ Close(r)
    <3>1. ASSUME Close(r) PROVE worker[r].result \in {"success", "failure", "retry"}
      BY <3>1, StreamFacts DEF RunOK, RunRecord, Close
    <3>2. worker'[r].next = 1
      BY <2>5, <3>1, ReturnFacts, GotoFacts DEF Typed, RespondError, Verify, Fail, Tell, Throw, Close
    <3> QED BY <1>1, <3>2
  <2>6. CASE Stray(r) \/ Cancelled(r)
    <3>1. worker'[r] = Ended
      BY <1>4, <2>6 DEF Stray, Cancelled
    <3> QED BY <1>1, <1>5, <3>1
  <2> QED BY <1>6, <2>1, <2>2, <2>3, <2>4, <2>5, <2>6 DEF RunStep
<1>7. CASE \E r \in Run : RunStep(r)
  <2>1. PICK r \in Run : RunStep(r)
    BY <1>7
  <2>2. \A q \in Run : q # r => worker'[q] = worker[q]
    BY <1>4, <2>1, RunStepFacts DEF OneStep, Typed
  <2> QED BY <1>2, <1>3, <1>6, <2>1, <2>2
<1>8. CASE BridgeStep \/ WriteCancel
  BY <1>2, <1>3, <1>8, BridgeStepKeeps DEF WriteCancel
<1>9. CASE ApplyRequest \/ SystemStop
  <2>1. \A q \in Run : worker'[q].next = worker[q].next
    <3>1. worker' = Stopped(work.run)
      BY <1>9 DEF ApplyRequest, SystemStop
    <3> QED BY <1>4, <3>1 DEF Stopped, RunRecord
  <2> QED BY <1>2, <1>3, <2>1
<1>10. CASE Begin
  <2>1. \A q \in Run : worker'[q].next = worker[q].next
    BY <1>4, <1>10 DEF Begin, RunRecord
  <2> QED BY <1>2, <1>3, <2>1
<1>11. CASE Kill \/ \E r \in Run : Record(r)
  <2>1. \A q \in Run : worker'[q] \in {worker[q], Ended}
    BY <1>4, <1>11 DEF Kill, Record
  <2> QED BY <1>1, <1>2, <1>3, <1>5, <2>1
<1> QED BY <1>7, <1>8, <1>9, <1>10, <1>11, Steps DEF ManagerStep

Counted == Typed /\ BudgetOK /\ NextOK

LEMMA CountedInit == Init => Counted
<1> SUFFICES ASSUME Init PROVE Counted
  OBVIOUS
<1> USE WorkerBounds
<1>1. Typed
  BY TypedInit
<1>2. \A r \in Run : worker[r] = NoRun
  BY DEF Init
<1>3. Holding = {} /\ ToCome = 0 /\ Longest = Total
  <2>1. Len(file.blocks) = 0 /\ begun = 0
    BY DEF Init
  <2> QED BY <1>2, <2>1 DEF Holding, Holds, NoRun, ToCome, Longest
<1>4. BudgetOK
  <2>1. Cardinality(Holding) = 0 /\ begun = 0
    BY <1>3, FS_EmptySet DEF Init
  <2>2. (0 + 1) * Total = Total
    OBVIOUS
  <2> QED BY <1>3, <2>1, <2>2 DEF BudgetOK
<1>5. NextOK
  <2>1. MaxRuns * Total \in Nat
    BY Multiples
  <2> QED BY <1>2, <2>1 DEF NextOK, NoRun
<1> QED BY <1>1, <1>4, <1>5 DEF Counted

LEMMA CountedInductive == Counted /\ [Next]_vars => Counted'
<1>1. ASSUME Counted, Next PROVE Counted'
  BY <1>1, TypedInductive, BudgetInductive, NextStep DEF Counted
<1>2. ASSUME Counted, UNCHANGED vars PROVE Counted'
  BY <1>2, TypedInductive, BudgetInductive DEF Counted, NextOK, vars, native
<1> QED BY <1>1, <1>2

\* Every variable of the worker stays in its range, for any file and any number of runs: a
\* run resumes at most one block after what the runs before it can have added to the file,
\* and its stream never holds more than one block.
THEOREM TypeCorrect == Spec => []TypeOK
<1>1. Counted => TypeOK
  <2> SUFFICES ASSUME Counted PROVE TypeOK
    OBVIOUS
  <2>1. \A r \in Run : worker[r].next \in 1 .. MaxRuns * Total + 1 /\ Len(worker[r].held) <= 1
    <3> SUFFICES ASSUME NEW r \in Run
                 PROVE  worker[r].next \in 1 .. MaxRuns * Total + 1 /\ Len(worker[r].held) <= 1
      OBVIOUS
    <3>1. worker[r].next \in Nat \ {0} /\ Len(worker[r].held) <= 1
      BY StreamFacts DEF RunRecord, Counted
    <3>2. MaxRuns * Total \in Nat
      BY Multiples, WorkerBounds
    <3>3. worker[r].next <= MaxRuns * Total + 1
      BY DEF Counted, NextOK
    <3> QED BY <3>1, <3>2, <3>3
  <2>2. /\ row \in {"none", "queued", "running", "paused", "completed", "failed", "cancelled"}
        /\ file.no \in Nat /\ file.blocks \in Seq(0 .. Total)
        /\ work.state \in {"none", "enqueued", "running", "succeeded", "failed", "cancelled"}
        /\ work.run \in 0 .. begun /\ work.attempt \in 0 .. begun
    BY DEF Counted, Typed, NativeOK, WorkRecord, WorkStates, Status
  <2>3. Len(requests) \in Nat
    BY DEF Counted, Typed, NativeOK
  <2>4. /\ ctl \in [Control -> {"idle", "asked", "read", "written"}]
        /\ obs.on \in BOOLEAN /\ obs.after \in 0 .. Len(requests)
        /\ shown \in {"none", "active", "paused", "failed", "done", "gone"}
        /\ told \in {"no", "stopped", "yes"}
    BY <2>3 DEF Counted, Typed, BridgeOK
  <2> QED BY <2>1, <2>2, <2>4 DEF TypeOK
<1> QED BY <1>1, CountedInit, CountedInductive, PTL DEF Spec

-----------------------------------------------------------------------------
(* A run is in step with the file *)

\* A run that is at rest knows nothing of the file that could be wrong.
LEMMA AtRestInStep ==
  ASSUME NEW w \in RunRecord, NEW f \in [no : Nat \ {0}, blocks : Seq(0 .. Total)], NEW s,
         w.handle = 0, w.at \notin {"asking", "streaming", "verifying", "closing"}
  PROVE  RunInStep(w, f, s)
BY DEF RunInStep

\* Neither is there anything wrong with an empty file.
LEMMA EmptyInStep ==
  ASSUME NEW f, f.blocks = <<>>, NEW s, s # "completed"
  PROVE  FileInStep(f, s)
<1>1. Len(f.blocks) = 0 /\ Whole(0) = <<>>
  BY DEF Whole
<1> QED BY <1>1, WorkerBounds DEF FileInStep

\* Two blocks, one after the other.
LEMMA Pair ==
  ASSUME NEW a \in Nat, NEW b \in Nat
  PROVE  LET s == <<a>> \o <<b>> IN Len(s) = 2 /\ s[1] = a /\ s[2] = b
<1> DEFINE p == <<a>>
           q == <<b>>
<1>1. p \in Seq(Nat) /\ q \in Seq(Nat) /\ Len(p) = 1 /\ Len(q) = 1 /\ p[1] = a /\ q[1] = b
  OBVIOUS
<1> HIDE DEF p, q
<1>2. /\ Len(p \o q) = Len(p) + Len(q)
      /\ \A i \in 1 .. Len(p) + Len(q) :
           (p \o q)[i] = IF i <= Len(p) THEN p[i] ELSE q[i - Len(p)]
  BY <1>1, ConcatProperties
<1>3. 1 \in 1 .. Len(p) + Len(q) /\ 2 \in 1 .. Len(p) + Len(q) /\ 2 - Len(p) = 1
  BY <1>1
<1>4. Len(p \o q) = 2 /\ (p \o q)[1] = p[1] /\ (p \o q)[2] = q[1]
  BY <1>1, <1>2, <1>3
<1> QED BY <1>1, <1>4 DEF p, q

\* What a run in step writes leaves the file right, and as long as it counted.
LEMMA FlushInStep ==
  ASSUME Typed, NEW r \in Run, FileInStep(file, row), RunInStep(worker[r], file, row),
         NEW new, Flush(worker[r], new),
         \/ new = <<>>
         \/ new = <<worker[r].next>> /\ worker[r].at = "streaming" /\ worker[r].next <= Total
  PROVE  /\ file'.no = file.no /\ Len(file'.blocks) <= Total
         /\ file'.blocks = Whole(Len(file'.blocks))
         /\ worker[r].handle = file.no => Len(file'.blocks) = worker[r].count + Len(new)
         /\ worker[r].handle # file.no => file' = file
<1> USE WorkerBounds
<1> DEFINE w == worker[r]
           n == Len(file.blocks)
           k == w.held \o new
<1>1. /\ w \in RunRecord /\ RunOK(w, file.no) /\ Len(w.held) <= 1
      /\ w.next \in Nat \ {0} /\ w.count \in Nat /\ w.held \in Seq(1 .. Total)
  BY StreamFacts DEF RunRecord
<1>2. new \in Seq(1 .. Total) /\ Len(new) \in 0 .. 1
  <2>1. CASE new = <<>>
    BY <2>1
  <2>2. CASE new = <<w.next>> /\ w.next <= Total
    <3>1. w.next \in 1 .. Total
      BY <1>1, <2>2
    <3> HIDE DEF w
    <3> QED BY <2>2, <3>1
  <2> QED BY <2>1, <2>2
<1>3. n \in Nat /\ n <= Total /\ file.blocks = Whole(n)
  BY LongestNat DEF FileInStep
<1>4. CASE w.handle # file.no
  BY <1>2, <1>3, <1>4, FlushFacts DEF Typed
<1>5. CASE w.handle = file.no
  <2>1. w.next = w.count + 1 /\ w.count = n + Len(w.held)
    BY <1>5 DEF RunInStep
  <2>2. k \in Seq(1 .. Total) /\ Len(k) = Len(w.held) + Len(new) /\ Len(w.held) \in Nat
    <3> HIDE DEF w
    <3> QED BY <1>1, <1>2
  <2>3. n + Len(k) <= Total
    <3>1. w.at \in {"streaming", "stopping", "closing"}
      BY <1>5, StreamFacts
    <3>2. w.next <= Total + 1
      BY <1>1, <3>1 DEF RunOK
    <3>3. new = <<>> => Len(new) = 0
      OBVIOUS
    <3>4. new # <<>> => w.next <= Total /\ Len(new) = 1
      OBVIOUS
    <3> DEFINE a == Len(new)
               c == Len(w.held)
               l == Len(k)
    <3>5. a \in 0 .. 1 /\ c \in Nat /\ l = c + a
      BY <1>2, <2>2
    <3>6. a = 0 \/ w.next <= Total
      BY <3>3, <3>4
    <3>7. w.next = w.count + 1 /\ w.count = n + c
      BY <2>1
    <3> HIDE DEF k, n, w, a, c, l
    <3>8. n + l <= Total
      BY <1>1, <1>3, <3>2, <3>5, <3>6, <3>7
    <3> QED BY <3>8 DEF l
  <2>4. \A i \in 1 .. Len(k) : k[i] = n + i
    <3>1. CASE w.held = <<>>
      <4>1. k = new /\ w.next = n + 1
        BY <1>2, <2>1, <3>1
      <4>2. new = <<>> \/ new = <<n + 1>>
        BY <4>1
      <4> HIDE DEF k, n, w
      <4>3. CASE new = <<>>
        <5>1. Len(k) = 0
          BY <4>1, <4>3
        <5> QED BY <5>1
      <4>4. CASE new = <<n + 1>>
        <5>1. Len(k) = 1 /\ k[1] = n + 1
          BY <4>1, <4>4
        <5> QED BY <5>1
      <4> QED BY <4>2, <4>3, <4>4
    <3>2. CASE w.held # <<>>
      <4>1. w.held = <<w.next - 1>> /\ Len(w.held) = 1
        BY <1>1, <3>2 DEF RunOK
      <4>2. w.held = <<n + 1>> /\ w.next = n + 2
        <5> HIDE DEF n
        <5> QED BY <1>3, <2>1, <4>1
      <4>3. CASE new = <<>>
        <5>1. k = <<n + 1>>
          <6> HIDE DEF n, w
          <6> QED BY <1>1, <4>2, <4>3
        <5> QED BY <5>1
      <4>4. CASE new # <<>>
        <5>1. new = <<n + 2>>
          BY <4>2, <4>4
        <5> HIDE DEF n, w
        <5>2. n + 1 \in Nat /\ n + 2 \in Nat
          BY <1>3
        <5>3. k = <<n + 1>> \o <<n + 2>>
          BY <4>2, <5>1 DEF k
        <5> HIDE DEF k
        <5>4. Len(k) = 2 /\ k[1] = n + 1 /\ k[2] = n + 2
          BY ONLY <5>2, <5>3, Pair
        <5> QED BY <5>4
      <4> QED BY <4>3, <4>4
    <3> QED BY <3>1, <3>2
  <2>5. file'.blocks = Written(Whole(n), w, k) /\ file'.no = file.no
    BY <1>2, <1>3, <1>5, FlushFacts DEF Typed
  <2>6. Written(Whole(n), w, k) = Whole(n + Len(k))
    <3>1. n \in 0 .. Total
      BY <1>3
    <3> HIDE DEF w, n, k
    <3> QED BY <1>1, <2>1, <2>2, <2>4, <3>1, WrittenInStep
  <2>7. Len(file'.blocks) = n + Len(k)
    <3> HIDE DEF n, k
    <3>1. n + Len(k) \in Nat
      BY <1>2, <1>3, <2>2
    <3> QED BY <2>5, <2>6, <3>1 DEF Whole
  <2>8. n + Len(k) = w.count + Len(new)
    <3> HIDE DEF n, k
    <3> QED BY <1>1, <1>2, <1>3, <2>1, <2>2
  <2> HIDE DEF n, k
  <2> QED BY <1>5, <2>3, <2>5, <2>6, <2>7, <2>8
<1> QED BY <1>4, <1>5

\* Every step of the run under way leaves the file right and the run in step.
Kept(r) == FileInStep(file', row') /\ RunInStep(worker'[r], file', row')

LEMMA PrepareInStep ==
  ASSUME Typed, Typed', NEW r \in Run, FileInStep(file, row), RunInStep(worker[r], file, row),
         Prepare(r)
  PROVE  Kept(r)
<1>1. /\ worker'[r] \in RunRecord /\ file' \in [no : Nat \ {0}, blocks : Seq(0 .. Total)]
      /\ worker \in [Run -> RunRecord] /\ file' = file
      /\ worker[r].at = "begun" /\ worker[r].handle = 0
  BY StreamFacts DEF Typed, RunsOK, NativeOK, Prepare, RunOK
<1>2. CASE (Return(r, "failure") \/ Goto(r, "stopping") \/ Goto(r, "failing")) /\ UNCHANGED row
  <2>1. worker'[r].handle = 0 /\ worker'[r].at \in {"returned", "stopping", "failing"}
    BY <1>2, ReturnFacts, GotoFacts DEF Typed
  <2> QED BY <1>1, <1>2, <2>1, AtRestInStep DEF Kept
<1>3. CASE /\ worker' = [worker EXCEPT ![r].at = "asking", ![r].next = Len(file.blocks) + 1]
           /\ Update("running")
  <2>1. /\ worker'[r].at = "asking" /\ worker'[r].next = Len(file.blocks) + 1
        /\ worker'[r].handle = 0 /\ row' # "completed"
    BY <1>1, <1>3 DEF RunRecord, Update
  <2> QED BY <1>1, <2>1 DEF Kept, FileInStep, RunInStep
<1> QED BY <1>2, <1>3 DEF Prepare

LEMMA RespondInStep ==
  ASSUME Typed, Typed', NEW r \in Run, FileInStep(file, row), RunInStep(worker[r], file, row),
         RespondPartial(r) \/ RespondWhole(r) \/ RespondError(r)
  PROVE  Kept(r)
<1>1. /\ worker'[r] \in RunRecord /\ file' \in [no : Nat \ {0}, blocks : Seq(0 .. Total)]
      /\ worker \in [Run -> RunRecord] /\ worker[r] \in RunRecord
      /\ worker[r].at = "asking" /\ worker[r].handle = 0 /\ worker[r].held = <<>>
  BY StreamFacts DEF Typed, RunsOK, NativeOK, RespondPartial, RespondWhole, RespondError, RunOK
<1>2. row # "completed" /\ worker[r].next = Len(file.blocks) + 1 /\ Len(file.blocks) \in Nat
  BY <1>1, LongestNat DEF RunInStep
<1>3. CASE RespondPartial(r)
  <2>1. /\ worker'[r].at = "streaming" /\ worker'[r].next = worker[r].next
        /\ worker'[r].count = Len(file.blocks) /\ worker'[r].held = <<>>
        /\ worker'[r].handle = file.no /\ file' = file /\ row' # "completed"
    BY <1>1, <1>3 DEF RunRecord, RespondPartial, Update
  <2>2. Len(worker'[r].held) = 0
    BY <2>1
  <2> QED BY <1>2, <2>1, <2>2 DEF Kept, FileInStep, RunInStep
<1>4. CASE RespondWhole(r)
  <2>1. file'.blocks = <<>> /\ row' # "completed"
    BY <1>4 DEF RespondWhole, Deleted, Update, Typed, NativeOK
  <2>2. worker'[r] = [worker[r] EXCEPT !.at = "streaming", !.next = 1, !.count = 0,
                                       !.append = FALSE, !.handle = file'.no]
    BY <1>1, <1>4 DEF RespondWhole
  <2>3. /\ worker'[r].at = "streaming" /\ worker'[r].next = 1 /\ worker'[r].count = 0
        /\ worker'[r].held = worker[r].held /\ worker'[r].handle = file'.no
    BY ONLY <1>1, <2>2 DEF RunRecord
  <2>4. Len(worker'[r].held) = 0 /\ Len(file'.blocks) = 0
    BY <1>1, <2>1, <2>3
  <2> QED BY <2>1, <2>3, <2>4, EmptyInStep DEF Kept, RunInStep
<1>5. CASE RespondError(r)
  <2>1. worker'[r].handle = 0 /\ worker'[r].at = "failing" /\ row' = row
    BY <1>5, GotoFacts DEF Typed, RespondError
  <2>2. file' = file \/ file'.blocks = <<>>
    BY <1>5 DEF RespondError, Deleted
  <2> QED BY <1>1, <1>2, <2>1, <2>2, AtRestInStep, EmptyInStep DEF Kept
<1> QED BY <1>3, <1>4, <1>5

LEMMA FetchInStep ==
  ASSUME Typed, Typed', NEW r \in Run, FileInStep(file, row), RunInStep(worker[r], file, row),
         Fetch(r)
  PROVE  Kept(r)
<1> USE WorkerBounds
<1> DEFINE w == worker[r]
<1>0. /\ w \in RunRecord /\ RunOK(w, file.no) /\ worker \in [Run -> RunRecord]
      /\ w.at = "streaming" /\ w.next <= Total /\ row' = row
  BY StreamFacts DEF Fetch, Typed, RunsOK
<1>1. /\ row # "completed" /\ w.handle = file.no /\ w.next = w.count + 1
      /\ w.count = Len(file.blocks) + Len(w.held)
      /\ Len(file.blocks) \in Nat /\ w.next \in Nat /\ w.count \in Nat /\ file.no \in Nat \ {0}
  BY <1>0, LongestNat DEF RunInStep, RunRecord, Typed, NativeOK
<1>2. CASE worker' = [worker EXCEPT ![r].at = "stopping"] /\ UNCHANGED file
  <2>1. /\ worker'[r].at = "stopping" /\ worker'[r].next = w.next /\ worker'[r].count = w.count
        /\ worker'[r].held = w.held /\ worker'[r].handle = w.handle
    BY <1>0, <1>2 DEF RunRecord
  <2> QED BY <1>0, <1>1, <1>2, <2>1 DEF Kept, RunInStep
<1>3. CASE /\ w.held = <<>> /\ UNCHANGED file
           /\ worker' = [worker EXCEPT ![r].next = @ + 1, ![r].count = @ + 1,
                                       ![r].held = <<w.next>>]
  <2>1. /\ worker'[r].at = "streaming" /\ worker'[r].next = w.next + 1
        /\ worker'[r].count = w.count + 1
        /\ worker'[r].held = <<w.next>> /\ worker'[r].handle = w.handle
    BY <1>0, <1>3 DEF RunRecord
  <2>2. Len(worker'[r].held) = 1 /\ Len(w.held) = 0
    BY <1>3, <2>1
  <2>3. file' = file /\ row' = row
    BY <1>0, <1>3
  <2>4. worker'[r].next = worker'[r].count + 1
        /\ worker'[r].count = Len(file.blocks) + Len(worker'[r].held)
    BY <1>1, <2>1, <2>2
  <2> QED BY <1>1, <2>1, <2>3, <2>4 DEF Kept, RunInStep
<1>4. CASE /\ Flush(w, <<w.next>>)
           /\ worker' = [worker EXCEPT ![r].next = @ + 1, ![r].count = @ + 1, ![r].held = <<>>]
  <2>1. /\ worker'[r].at = "streaming" /\ worker'[r].next = w.next + 1
        /\ worker'[r].count = w.count + 1
        /\ worker'[r].held = <<>> /\ worker'[r].handle = w.handle
    BY <1>0, <1>4 DEF RunRecord
  <2>2. Len(worker'[r].held) = 0 /\ Len(<<w.next>>) = 1
    BY <2>1
  <2>3. /\ file'.no = file.no /\ Len(file'.blocks) <= Total
        /\ file'.blocks = Whole(Len(file'.blocks)) /\ Len(file'.blocks) = w.count + 1
    BY <1>0, <1>1, <1>4, <2>2, FlushInStep
  <2>4. worker'[r].next = worker'[r].count + 1
        /\ worker'[r].count = Len(file'.blocks) + Len(worker'[r].held)
    <3>1. w.next + 1 = w.count + 1 + 1 /\ w.count + 1 = w.count + 1 + 0
      BY <1>1
    <3> QED BY <2>1, <2>2, <2>3, <3>1
  <2> QED BY <1>0, <1>1, <2>1, <2>3, <2>4 DEF Kept, RunInStep, FileInStep
<1> QED BY <1>2, <1>3, <1>4 DEF Fetch

LEMMA CloseInStep ==
  ASSUME Typed, Typed', NEW r \in Run, FileInStep(file, row), RunInStep(worker[r], file, row),
         Throw(r) \/ Close(r) \/ EndOfFile(r) \/ Cancelled(r)
  PROVE  Kept(r)
<1> USE WorkerBounds
<1> DEFINE w == worker[r]
<1>0. /\ w \in RunRecord /\ RunOK(w, file.no) /\ worker \in [Run -> RunRecord]
      /\ worker'[r] \in RunRecord /\ file' \in [no : Nat \ {0}, blocks : Seq(0 .. Total)]
      /\ w.next \in Nat /\ w.count \in Nat
  BY StreamFacts DEF Typed, RunsOK, NativeOK, RunRecord
<1>1. /\ Len(file'.blocks) <= Total /\ file'.blocks = Whole(Len(file'.blocks))
      /\ w.handle = file.no => Len(file'.blocks) = w.count
      /\ w.handle # file.no => file' = file
  <2>1. CASE Flush(w, <<>>)
    <3>1. Len(<<>>) = 0
      OBVIOUS
    <3> QED BY <1>0, <2>1, <3>1, FlushInStep
  <2>2. CASE UNCHANGED file /\ w.at = "asking"
    BY <1>0, <2>2 DEF FileInStep, RunOK, Typed, NativeOK
  <2> QED BY <2>1, <2>2 DEF Throw, Close, EndOfFile, Cancelled
<1>2. row' = "completed" => Len(file'.blocks) = Total /\ row = "completed"
  <2> SUFFICES ASSUME row' = "completed" PROVE Len(file'.blocks) = Total /\ row = "completed"
    OBVIOUS
  <2>1. row' = row
    BY DEF Throw, Close, EndOfFile, Cancelled, Update
  <2>2. w.handle # file.no
    BY <2>1 DEF RunInStep, Typed, NativeOK
  <2> QED BY <1>1, <2>1, <2>2 DEF FileInStep
<1>3. FileInStep(file', row')
  BY <1>1, <1>2 DEF FileInStep
<1>4. CASE Throw(r) \/ Close(r)
  <2>1. ASSUME Close(r) PROVE w.result \in {"success", "failure", "retry"}
    BY <1>0, <2>1 DEF RunOK, RunRecord, Close
  <2>2. worker'[r].handle = 0 /\ worker'[r].at \in {"stopping", "failing", "returned"}
    BY <1>4, <2>1, ReturnFacts, GotoFacts DEF Typed, Throw, Close
  <2> QED BY <1>0, <1>3, <2>2, AtRestInStep DEF Kept
<1>5. CASE Cancelled(r)
  <2>1. worker'[r] = Ended
    BY <1>0, <1>5 DEF Cancelled
  <2>2. worker'[r].handle = 0 /\ worker'[r].at = "ended"
    BY <2>1 DEF Ended, NoRun
  <2> QED BY <1>0, <1>3, <2>2, AtRestInStep DEF Kept
<1>6. CASE EndOfFile(r)
  <2>1. worker'[r] = [w EXCEPT !.at = "verifying", !.held = <<>>, !.next = 1,
                               !.append = FALSE, !.handle = 0]
    BY <1>0, <1>6 DEF EndOfFile
  <2>2. worker'[r].at = "verifying" /\ worker'[r].handle = 0
    <3> HIDE DEF w
    <3> QED BY ONLY <1>0, <2>1 DEF RunRecord
  <2>3. w.handle = file.no /\ w.next = w.count + 1 /\ w.next > Total /\ w.next <= Total + 1
        /\ w.at = "streaming" /\ row # "completed"
    BY <1>0, <1>6 DEF EndOfFile, RunInStep, RunOK
  <2>4. Len(file'.blocks) = Total
    BY <1>0, <1>1, <2>3
  <2>5. file'.no # 0 /\ row' # "completed"
    BY <1>0, <1>2, <2>3
  <2> QED BY <1>3, <2>2, <2>4, <2>5 DEF Kept, RunInStep
<1> QED BY <1>4, <1>5, <1>6

LEMMA SettleInStep ==
  ASSUME Typed, Typed', NEW r \in Run, FileInStep(file, row), RunInStep(worker[r], file, row),
         Verify(r) \/ Fail(r) \/ Tell(r) \/ HandleStopped(r)
  PROVE  Kept(r)
<1> DEFINE w == worker[r]
<1>0. /\ w \in RunRecord /\ worker \in [Run -> RunRecord] /\ RunOK(w, file.no)
      /\ worker'[r] \in RunRecord /\ file' \in [no : Nat \ {0}, blocks : Seq(0 .. Total)]
  BY StreamFacts DEF Typed, RunsOK, NativeOK
<1>1. CASE Verify(r) \/ Fail(r) \/ Tell(r)
  <2>1. worker'[r].handle = 0 /\ worker'[r].at \in {"returned", "telling", "failing"}
    BY <1>1, ReturnFacts, GotoFacts DEF Typed, Verify, Fail, Tell
  <2>2. FileInStep(file', row')
    <3>1. CASE UNCHANGED file
      BY <1>1, <3>1 DEF Verify, Fail, Tell, FileInStep, RunInStep, Update
    <3>2. CASE Verify(r) /\ file' = Deleted /\ UNCHANGED row
      BY <3>2, EmptyInStep DEF Verify, Deleted, RunInStep
    <3> QED BY <1>1, <3>1, <3>2 DEF Verify, Fail, Tell
  <2> QED BY <1>0, <2>1, <2>2, AtRestInStep DEF Kept
<1>2. CASE HandleStopped(r)
  <2>1. /\ worker'[r].at = "closing" /\ worker'[r].next = w.next /\ worker'[r].count = w.count
        /\ worker'[r].held = w.held /\ worker'[r].handle = w.handle
    BY <1>0, <1>2 DEF HandleStopped, RunRecord
  <2>2. row' # "completed"
    BY <1>2 DEF HandleStopped, Update
  <2>3. CASE UNCHANGED file
    BY <2>1, <2>2, <2>3 DEF Kept, FileInStep, RunInStep
  <2>4. CASE file' = Deleted
    <3>1. file'.blocks = <<>> /\ w.handle < file'.no /\ w.handle \in Nat /\ file'.no \in Nat
      BY <1>0, <2>4, DeletedFacts DEF Typed, RunRecord
    <3>2. w.handle # file'.no
      BY <3>1
    <3> QED BY <2>1, <2>2, <3>1, <3>2, EmptyInStep DEF Kept, RunInStep
  <2> QED BY <1>2, <2>3, <2>4 DEF HandleStopped
<1> QED BY <1>1, <1>2

LEMMA VerdictInStep ==
  ASSUME Typed, Typed', InStep, NEW r \in Run, RunStep(r), Sequential
  PROVE  Kept(r)
<1>1. FileInStep(file, row) /\ RunInStep(worker[r], file, row)
  BY DEF InStep
<1>2. ~ (r < begun /\ Stray(r))
  <2>1. Stray(r) => Alive(r)
    BY DEF Stray, Alive
  <2> QED BY <2>1 DEF InStep, Sequential, Run, Typed, NativeOK
<1>3. CASE Prepare(r) \/ RespondPartial(r) \/ RespondWhole(r) \/ RespondError(r) \/ Fetch(r)
  BY <1>1, <1>3, PrepareInStep, RespondInStep, FetchInStep
<1>4. CASE Verify(r) \/ Fail(r) \/ Tell(r) \/ HandleStopped(r)
  BY <1>1, <1>4, SettleInStep
<1>5. CASE Throw(r) \/ Close(r) \/ EndOfFile(r) \/ Cancelled(r)
  BY <1>1, <1>5, CloseInStep
<1> QED BY <1>2, <1>3, <1>4, <1>5 DEF RunStep

\* Only the run under way can be in the middle of anything, so the others are at rest.
LEMMA OthersInStep ==
  ASSUME Typed, NEW q \in Run, ~ Alive(q),
         NEW f \in [no : Nat \ {0}, blocks : Seq(0 .. Total)], NEW s
  PROVE  RunInStep(worker[q], f, s)
<1>1. worker[q] \in RunRecord /\ worker[q].at \in {"none", "ended"}
  BY StreamFacts DEF Alive
<1>2. worker[q].handle = 0
  BY <1>1, StreamFacts DEF RunOK
<1> QED BY <1>1, <1>2, AtRestInStep

LEMMA EndedInStep ==
  ASSUME NEW f \in [no : Nat \ {0}, blocks : Seq(0 .. Total)], NEW s
  PROVE  RunInStep(Ended, f, s)
<1>1. Ended.handle = 0 /\ Ended.at = "ended"
  BY DEF Ended, NoRun
<1> QED BY <1>1, NoRunOK, AtRestInStep

LEMMA AliveIfStep ==
  ASSUME Typed, NEW r \in Run, RunStep(r)
  PROVE  Alive(r)
BY DEF RunStep, Prepare, RespondPartial, RespondWhole, RespondError, Fetch, Verify, Throw,
   Fail, Tell, HandleStopped, Close, Stray, EndOfFile, Cancelled, Alive

\* Until the user cancels, no cancel is under way.
LEMMA NoCancelStep ==
  ASSUME Typed, used.cancel = 0 => ctl["cancel"] = "idle", Next
  PROVE  used'.cancel = 0 => used.cancel = 0 /\ ctl'["cancel"] = "idle"
<1>1. ctl \in [Control -> {"idle", "asked", "read", "written"}] /\ used.cancel \in Nat
  BY DEF Typed, BridgeOK
<1>2. ASSUME NEW kind \in {"pause", "retry", "cancel", "stop", "kill"}, Disturb(kind)
      PROVE  used'.cancel = IF kind = "cancel" THEN used.cancel + 1 ELSE used.cancel
  BY <1>2 DEF Disturb, Typed, BridgeOK
<1>3. ASSUME NEW c \in Control \ {"start"}, Ask(c)
      PROVE  used'.cancel = 0 => used.cancel = 0 /\ ctl'["cancel"] = "idle"
  <2>1. CASE c = "cancel"
    BY <1>1, <1>2, <1>3, <2>1 DEF Ask
  <2>2. CASE c # "cancel"
    <3>1. used'.cancel = used.cancel
      BY <1>2, <1>3, <2>2 DEF Ask, Control
    <3>2. ctl'["cancel"] = ctl["cancel"]
      BY <1>1, <1>3, <2>2 DEF Ask, Control
    <3> QED BY <3>1, <3>2
  <2> QED BY <2>1, <2>2
<1>4. CASE SystemStop
  BY <1>2, <1>4 DEF SystemStop, bridge
<1>5. CASE Kill
  <2>1. used'.cancel = used.cancel /\ ctl'["cancel"] = "idle"
    BY <1>2, <1>5 DEF Kill, Control
  <2> QED BY <2>1
<1>6. CASE \/ \E c \in {"pause", "resume", "retry"} : Read(c) \/ WriteRow(c)
           \/ InsertRow \/ FinishStart \/ FinishPause
           \/ \E c \in {"resume", "retry"} : FinishResume(c)
  BY <1>1, <1>6 DEF Read, WriteRow, InsertRow, FinishStart, FinishPause, FinishResume, Resolve,
     Control
<1>7. CASE WriteCancel \/ FinishCancel
  BY <1>1, <1>7 DEF WriteCancel, FinishCancel, Resolve, Control
<1>8. CASE \/ MoveCompleted \/ Observe \/ Poll \/ (\E s \in DOMAIN reports : Report(s))
           \/ ObserveProgress \/ \E r \in Run : Progress(r)
  BY <1>8 DEF MoveCompleted, Observe, Poll, Report, ObserveProgress, Progress, workVars
<1>9. CASE ApplyRequest \/ Begin \/ \E r \in Run : Record(r)
  BY <1>9 DEF ApplyRequest, Begin, Record, bridge
<1>10. CASE \E r \in Run : RunStep(r)
  BY <1>10, RunStepKeeps DEF workVars
<1> QED BY <1>3, <1>4, <1>5, <1>6, <1>7, <1>8, <1>9, <1>10, Steps DEF BridgeStep, ManagerStep

\* As long as no run overlaps another, only the last one may be alive.
LEMMA OneAliveStep ==
  ASSUME Typed, Typed', ~ overlap => \A r \in Run : Alive(r) => r = begun, Next
  PROVE  ~ overlap' => ~ overlap /\ \A r \in Run : Alive(r)' => r = begun'
<1>1. worker \in [Run -> RunRecord] /\ work.run \in Nat
  BY DEF Typed, RunsOK, NativeOK, WorkRecord
<1>2. CASE BridgeStep \/ WriteCancel
  <2>1. UNCHANGED <<worker, begun, overlap>>
    BY <1>2 DEF WriteCancel, BridgeStep, Ask, Read, WriteRow, InsertRow, FinishStart,
       FinishPause, FinishCancel, FinishResume, MoveCompleted, Observe, Poll, Report,
       ObserveProgress, Progress, Resolve, native, workVars
  <2> QED BY <2>1 DEF Alive
<1>3. ASSUME UNCHANGED <<begun, overlap>>,
             \A r \in Run : worker'[r].at = worker[r].at \/ worker'[r].at = "ended"
      PROVE  ~ overlap' => ~ overlap /\ \A r \in Run : Alive(r)' => r = begun'
  BY <1>3 DEF Alive
<1>4. CASE ApplyRequest \/ SystemStop
  <2>1. \A r \in Run : worker'[r].at = worker[r].at
    <3>1. worker' = Stopped(work.run)
      BY <1>4 DEF ApplyRequest, SystemStop
    <3> QED BY <1>1, <3>1 DEF Stopped, RunRecord
  <2> QED BY <1>3, <1>4, <2>1 DEF ApplyRequest, SystemStop
<1>5. CASE Kill \/ \E r \in Run : Record(r)
  <2>1. Ended.at = "ended"
    BY DEF Ended, NoRun
  <2>2. \A r \in Run : worker'[r] = worker[r] \/ worker'[r] = Ended
    BY <1>1, <1>5 DEF Kill, Record
  <2>3. UNCHANGED <<begun, overlap>>
    BY <1>5 DEF Kill, Record
  <2> QED BY <1>3, <2>1, <2>2, <2>3
<1>6. CASE Begin
  <2>1. /\ worker' = [worker EXCEPT ![begun + 1].at = "begun"] /\ begun' = begun + 1
        /\ overlap' = (overlap \/ \E r \in Run : Alive(r))
    BY <1>6 DEF Begin
  <2>2. \A r \in Run : r # begun + 1 => worker'[r] = worker[r]
    BY <1>1, <2>1
  <2> QED BY <2>1, <2>2 DEF Alive
<1>7. ASSUME NEW r \in Run, RunStep(r)
      PROVE  ~ overlap' => ~ overlap /\ \A q \in Run : Alive(q)' => q = begun'
  <2>1. UNCHANGED <<begun, overlap>> /\ Alive(r)
    BY <1>7, RunStepKeeps, AliveIfStep DEF workVars
  <2>2. \A q \in Run : q # r => worker'[q] = worker[q]
    BY <1>1, <1>7, RunStepFacts DEF OneStep, Typed
  <2> QED BY <2>1, <2>2 DEF Alive
<1> QED BY <1>2, <1>4, <1>5, <1>6, <1>7, Steps DEF ManagerStep

\* Runs stay in step with the file.
LEMMA InStepInductive == Typed /\ Typed' /\ InStep /\ [Next]_vars => InStep'
<1> SUFFICES ASSUME Typed, Typed', InStep, [Next]_vars PROVE InStep'
  OBVIOUS
<1>0. CASE UNCHANGED vars
  BY <1>0 DEF InStep, Sequential, Alive, vars, native, bridge
<1>1. CASE Next
  <2>1. used'.cancel = 0 => used.cancel = 0 /\ ctl'["cancel"] = "idle"
    BY <1>1, NoCancelStep DEF InStep
  <2>2. ~ overlap' => ~ overlap /\ \A r \in Run : Alive(r)' => r = begun'
    BY <1>1, OneAliveStep DEF InStep
  <2>3. ASSUME Sequential'
        PROVE  FileInStep(file', row') /\ \A r \in Run : RunInStep(worker'[r], file', row')
    <3>1. Sequential /\ FileInStep(file, row) /\ \A r \in Run : RunInStep(worker[r], file, row)
      BY <2>1, <2>2, <2>3 DEF Sequential, InStep
    <3>2. file' \in [no : Nat \ {0}, blocks : Seq(0 .. Total)] /\ worker \in [Run -> RunRecord]
      BY DEF Typed, NativeOK, RunsOK
    <3>3. CASE BridgeStep
      <4>1. row' = "completed" => row = "completed"
        BY <3>3 DEF BridgeStep, Ask, Read, WriteRow, InsertRow, FinishStart, FinishPause,
           FinishCancel, FinishResume, MoveCompleted, Observe, Poll, Report, ObserveProgress,
           Progress, Resolve, Update, native, workVars
      <4> QED BY <3>1, <3>3, <4>1, BridgeStepKeeps DEF FileInStep, RunInStep
    <3>4. CASE WriteCancel
      BY <3>1, <3>4 DEF WriteCancel, InStep, Sequential
    <3>5. CASE ApplyRequest \/ SystemStop
      <4>1. ASSUME NEW r \in Run
            PROVE  /\ worker'[r].at = worker[r].at /\ worker'[r].next = worker[r].next
                   /\ worker'[r].count = worker[r].count /\ worker'[r].held = worker[r].held
                   /\ worker'[r].handle = worker[r].handle
        <5>1. worker' = Stopped(work.run) /\ work.run \in Nat
          BY <3>5 DEF ApplyRequest, SystemStop, Typed, NativeOK, WorkRecord
        <5> QED BY <3>2, <5>1 DEF Stopped, RunRecord
      <4>2. UNCHANGED <<file, row>>
        BY <3>5 DEF ApplyRequest, SystemStop
      <4> QED BY <3>1, <4>1, <4>2 DEF RunInStep
    <3>6. CASE Begin
      <4>1. \A r \in Run : ~ Alive(r)
        BY <2>3, <3>6 DEF Begin, Sequential
      <4>2. /\ worker' = [worker EXCEPT ![begun + 1].at = "begun"]
            /\ UNCHANGED <<file, row>>
        BY <3>6 DEF Begin
      <4>3. ASSUME NEW r \in Run PROVE RunInStep(worker'[r], file', row')
        <5>1. worker[r].handle = 0 /\ worker[r].at \in {"none", "ended"}
          BY <4>1, StreamFacts DEF RunOK, Alive
        <5>2. worker'[r].handle = 0 /\ worker'[r].at \in {"none", "ended", "begun"}
          BY <3>2, <4>2, <5>1 DEF RunRecord
        <5>3. worker'[r] \in RunRecord
          BY DEF Typed, RunsOK
        <5> QED BY <3>2, <5>2, <5>3, AtRestInStep
      <4> QED BY <3>1, <4>2, <4>3
    <3>7. CASE Kill \/ \E r \in Run : Record(r)
      <4>1. \A r \in Run : worker'[r] = worker[r] \/ worker'[r] = Ended
        BY <3>2, <3>7 DEF Kill, Record
      <4>2. UNCHANGED <<file, row>>
        BY <3>7 DEF Kill, Record
      <4> QED BY <3>1, <3>2, <4>1, <4>2, EndedInStep
    <3>8. ASSUME NEW r \in Run, RunStep(r)
          PROVE  FileInStep(file', row') /\ \A q \in Run : RunInStep(worker'[q], file', row')
      <4>1. Kept(r)
        BY <3>1, <3>8, VerdictInStep
      <4>2. \A q \in Run : q # r => worker'[q] = worker[q] /\ ~ Alive(q)
        BY <3>1, <3>2, <3>8, RunStepFacts, AliveIfStep DEF OneStep, Typed, InStep, Sequential
      <4>3. ASSUME NEW q \in Run, q # r PROVE RunInStep(worker'[q], file', row')
        BY <3>2, <4>2, <4>3, OthersInStep
      <4> QED BY <4>1, <4>3 DEF Kept
    <3> QED BY <1>1, <3>3, <3>4, <3>5, <3>6, <3>7, <3>8, Steps DEF ManagerStep
  <2> QED BY <2>1, <2>2, <2>3 DEF InStep
<1> QED BY <1>0, <1>1

LEMMA InStepInit == Init => InStep
<1> SUFFICES ASSUME Init PROVE InStep
  OBVIOUS
<1>1. \A r \in Run : worker[r] = NoRun
  BY DEF Init
<1>2. NoRun.at = "none" /\ NoRun.handle = 0
  BY DEF NoRun
<1>3. file.blocks = <<>> /\ row = "none" /\ file \in [no : Nat \ {0}, blocks : Seq(0 .. Total)]
  BY TypedInit DEF Init, Typed, NativeOK
<1>4. FileInStep(file, row)
  BY <1>3, EmptyInStep
<1>5. \A r \in Run : RunInStep(worker[r], file, row)
  BY <1>1, <1>2, <1>3, NoRunOK, AtRestInStep
<1>6. ctl["cancel"] = "idle"
  BY DEF Init, Control
<1> QED BY <1>1, <1>2, <1>4, <1>5, <1>6 DEF InStep, Alive

\* Whatever interrupts a download, a completed row has the whole file with every block in
\* place, unless a run began before the last one had ended or somebody cancelled: each run
\* counts from the file as it is, so that what its stream holds always comes next.
THEOREM CompletedIsWhole == Spec => []SequentialRunsKeepTheFile
<1>1. InStep => SequentialRunsKeepTheFile
  <2>1. Whole(Total) = [b \in 1 .. Total |-> b]
    BY DEF Whole
  <2> QED BY <2>1 DEF InStep, Sequential, FileInStep, SequentialRunsKeepTheFile
<1> QED BY <1>1, TypedInit, TypedInductive, InStepInit, InStepInductive, PTL DEF Spec

-----------------------------------------------------------------------------
(* A download left alone *)

\* WorkManager's record keeps naming the run under way.
LEMMA WorkStep ==
  ASSUME Typed, WorkOK, Next
  PROVE  WorkOK'
<1>1. /\ worker \in [Run -> RunRecord] /\ work \in WorkRecord /\ begun \in 0 .. MaxRuns
      /\ work.run \in Nat /\ work.run <= begun
  BY DEF Typed, RunsOK, NativeOK, WorkRecord
<1>2. CASE BridgeStep \/ WriteCancel
  <2>1. UNCHANGED <<work, worker, begun>>
    BY <1>2, BridgeStepKeeps DEF WriteCancel
  <2> QED BY <2>1 DEF WorkOK, Alive
<1>3. CASE ApplyRequest
  <2>1. work'.run = 0 /\ work'.state # "running"
    <3>1. CASE Head(requests) = "enqueue"
      BY <1>3, <3>1 DEF ApplyRequest
    <3>2. CASE Head(requests) = "cancel" /\ work.state \in {"enqueued", "running"}
      BY <1>1, <1>3, <3>2 DEF ApplyRequest, WorkRecord
    <3>3. CASE Head(requests) = "prune"
      BY <1>1, <1>3, <3>3 DEF ApplyRequest, WorkRecord
    <3>4. CASE /\ Head(requests) # "enqueue" /\ Head(requests) # "prune"
               /\ ~ (Head(requests) = "cancel" /\ work.state \in {"enqueued", "running"})
      <4>1. Head(requests) = "cancel"
        BY <1>3, <3>4 DEF ApplyRequest, Typed, NativeOK
      <4>2. work' = work /\ work.state # "running"
        BY <1>3, <3>4, <4>1 DEF ApplyRequest
      <4> QED BY <4>2 DEF WorkOK
    <3> QED BY <3>1, <3>2, <3>3, <3>4
  <2> QED BY <2>1 DEF WorkOK
<1>4. CASE SystemStop
  <2>1. work'.run = 0 /\ work'.state # "running"
    BY <1>1, <1>4 DEF SystemStop, WorkRecord
  <2> QED BY <2>1 DEF WorkOK
<1>5. CASE Begin
  <2> DEFINE r == begun + 1
  <2>1. r \in Run /\ r > begun /\ r # 0
    BY <1>1, <1>5, WorkerBounds DEF Begin, Run
  <2>2. /\ worker' = [worker EXCEPT ![r].at = "begun"] /\ begun' = r
        /\ work' = [state |-> "running", run |-> r, attempt |-> work.attempt + 1]
    BY <1>5 DEF Begin
  <2> HIDE DEF r
  <2>3. worker[r] = NoRun
    BY <2>1 DEF Typed, RunsOK
  <2>4. worker'[r].at = "begun" /\ ~ worker'[r].stopped
    BY <1>1, <2>1, <2>2, <2>3 DEF NoRun
  <2>5. work'.run = r /\ work'.state = "running"
    BY <2>2
  <2> QED BY <2>1, <2>2, <2>4, <2>5 DEF WorkOK, Alive
<1>6. ASSUME NEW r \in Run, Record(r) PROVE WorkOK'
  <2>1. CASE work.run # r
    <3>1. work' = work /\ begun' = begun /\ \A q \in Run : q # r => worker'[q] = worker[q]
      <4>1. worker' = [worker EXCEPT ![r] = Ended] /\ UNCHANGED begun
        BY <1>6 DEF Record
      <4>2. work' = work
        BY <1>6, <2>1 DEF Record
      <4> QED BY <1>1, <4>1, <4>2
    <3>2. work.run # 0 => work.run \in Run
      BY <1>1, WorkerBounds DEF Run
    <3> QED BY <2>1, <3>1, <3>2 DEF WorkOK, Alive
  <2>2. CASE work.run = r
    <3>1. worker[r].result \in {"success", "failure", "retry"}
      BY <1>6, StreamFacts DEF Record, RunOK, RunRecord
    <3>2. work'.run = 0 /\ work'.state # "running"
      BY <1>1, <1>6, <2>2, <3>1 DEF Record, WorkRecord
    <3> QED BY <3>2 DEF WorkOK
  <2> QED BY <2>1, <2>2
<1>7. CASE Kill
  <2>1. work'.run = 0 /\ work'.state # "running"
    BY <1>1, <1>7 DEF Kill, WorkRecord, WorkOK
  <2> QED BY <2>1 DEF WorkOK
<1>8. ASSUME NEW r \in Run, RunStep(r) PROVE WorkOK'
  <2>1. work' = work /\ begun' = begun
    BY <1>8, RunStepKeeps DEF workVars
  <2>2. \A q \in Run : q # r => worker'[q] = worker[q]
    BY <1>1, <1>8, RunStepFacts DEF OneStep, Typed
  <2>3. CASE work.run = 0 \/ r # begun
    <3>1. work.run # 0 => begun \in Run /\ begun # r
      BY <1>1, <2>3 DEF Run, WorkOK
    <3> QED BY <2>1, <2>2, <3>1 DEF WorkOK, Alive
  <2>4. CASE r = begun /\ ~ worker[r].stopped
    <3>1. worker'[r].at \notin {"none", "ended"} /\ ~ worker'[r].stopped
      <4>1. CASE Prepare(r) \/ Throw(r) \/ RespondError(r) \/ Verify(r) \/ Fail(r)
        <5>1. CASE \/ \E e \in {"success", "failure", "retry"} : Return(r, e)
                   \/ \E s \in {"stopping", "failing", "telling"} : Goto(r, s)
          BY <2>4, <5>1, ReturnFacts, GotoFacts DEF Typed
        <5>2. CASE worker' = [worker EXCEPT ![r].at = "asking",
                                            ![r].next = Len(file.blocks) + 1]
          BY <1>1, <2>4, <5>2 DEF RunRecord
        <5> QED BY <4>1, <5>1, <5>2 DEF Prepare, Throw, RespondError, Verify, Fail
      <4>2. CASE Tell(r) \/ Close(r)
        <5>1. ASSUME Close(r) PROVE worker[r].result \in {"success", "failure", "retry"}
          BY <5>1, StreamFacts DEF RunOK, RunRecord, Close
        <5> QED BY <4>2, <5>1, ReturnFacts DEF Typed, Tell, Close
      <4>3. CASE RespondPartial(r) \/ HandleStopped(r) \/ Fetch(r)
        <5>1. CASE RespondPartial(r)
          BY <1>1, <2>4, <5>1 DEF RespondPartial, RunRecord
        <5>2. CASE HandleStopped(r)
          BY <1>1, <2>4, <5>2 DEF HandleStopped, RunRecord
        <5>3. CASE Fetch(r)
          <6>1. CASE worker' = [worker EXCEPT ![r].at = "stopping"]
            BY <1>1, <2>4, <6>1 DEF RunRecord
          <6>2. ASSUME NEW h,
                       worker' = [worker EXCEPT ![r].next = @ + 1, ![r].count = @ + 1,
                                                ![r].held = h]
                PROVE  worker'[r].at = worker[r].at /\ worker'[r].stopped = worker[r].stopped
            BY <1>1, <6>2 DEF RunRecord
          <6>3. worker[r].at = "streaming"
            BY <5>3 DEF Fetch
          <6> QED BY <2>4, <5>3, <6>1, <6>2, <6>3 DEF Fetch
        <5> QED BY <4>3, <5>1, <5>2, <5>3
      <4>4. CASE RespondWhole(r)
        <5>1. worker'[r] = [worker[r] EXCEPT !.at = "streaming", !.next = 1, !.count = 0,
                                             !.append = FALSE, !.handle = file'.no]
          BY <1>1, <4>4 DEF RespondWhole
        <5>2. worker[r] \in RunRecord
          BY <1>1
        <5>3. worker'[r].at = "streaming" /\ worker'[r].stopped = worker[r].stopped
          BY ONLY <5>1, <5>2 DEF RunRecord
        <5> QED BY <2>4, <5>3
      <4>5. CASE EndOfFile(r)
        <5>1. worker'[r] = [worker[r] EXCEPT !.at = "verifying", !.held = <<>>, !.next = 1,
                                             !.append = FALSE, !.handle = 0]
          BY <1>1, <4>5 DEF EndOfFile
        <5>2. worker[r] \in RunRecord
          BY <1>1
        <5>3. worker'[r].at = "verifying" /\ worker'[r].stopped = worker[r].stopped
          BY ONLY <5>1, <5>2 DEF RunRecord
        <5> QED BY <2>4, <5>3
      <4>6. ~ (r < begun) /\ ~ Cancelled(r)
        BY <1>1, <2>4 DEF Cancelled
      <4> QED BY <1>8, <4>1, <4>2, <4>3, <4>4, <4>5, <4>6 DEF RunStep
    <3> QED BY <2>1, <2>4, <3>1 DEF WorkOK, Alive
  <2>5. work.run # 0 => begun \in Run /\ ~ worker[begun].stopped
    BY <1>1 DEF WorkOK, Run
  <2> QED BY <2>3, <2>4, <2>5
<1> QED BY <1>2, <1>3, <1>4, <1>5, <1>6, <1>7, <1>8, Steps DEF ManagerStep

\* Only these count.
LEMMA Disturbers ==
  ASSUME Next, ~ UNCHANGED used
  PROVE  SystemStop \/ Kill \/ \E c \in {"pause", "retry", "cancel"} : Ask(c)
<1>1. ~ (\E r \in Run : RunStep(r))
  BY RunStepKeeps DEF workVars
<1>2. ~ (\E c \in {"pause", "resume", "retry"} : Read(c) \/ WriteRow(c))
      /\ ~ InsertRow /\ ~ WriteCancel /\ ~ MoveCompleted /\ ~ Poll /\ ~ ObserveProgress
      /\ ~ Observe /\ ~ (\E s \in DOMAIN reports : Report(s))
      /\ ~ (\E r \in Run : Progress(r))
  BY DEF Read, WriteRow, InsertRow, WriteCancel, MoveCompleted, Poll,
     ObserveProgress, Observe, Report, Progress, workVars
<1>3. ~ FinishStart /\ ~ FinishPause /\ ~ FinishCancel
      /\ ~ (\E c \in {"resume", "retry"} : FinishResume(c))
      /\ ~ ApplyRequest /\ ~ Begin /\ ~ (\E r \in Run : Record(r))
  BY DEF FinishStart, FinishPause, FinishCancel, FinishResume, Resolve,
     ApplyRequest, Begin, Record, bridge
<1>4. ~ Ask("resume")
  BY DEF Ask
<1>5. ASSUME NEW c \in Control \ {"start"}, Ask(c) PROVE c \in {"pause", "retry", "cancel"}
  BY <1>4, <1>5 DEF Control
<1> QED BY <1>1, <1>2, <1>3, <1>5, Steps DEF BridgeStep, ManagerStep

\* The bounded steps are counted, so that what was not interfered with never was.
LEMMA InterferedStep ==
  ASSUME Typed, Next
  PROVE  /\ ~ Interfered' => ~ Interfered
         /\ ~ Interfered' => ~ Kill /\ \A c \in {"pause", "retry", "cancel"} : ~ Ask(c)
<1> DEFINE K == {"pause", "retry", "cancel", "stop", "kill"}
<1>1. used \in [K -> Nat] /\ used' \in [K -> Nat]
  BY UsedTyped DEF Typed, BridgeOK
<1>2. ASSUME NEW kind \in K, Disturb(kind)
      PROVE  /\ \A k \in K : used'[k] >= used[k]
             /\ used'[kind] > 0
  BY <1>1, <1>2 DEF Disturb
<1>3. /\ used.pause \in Nat /\ used.retry \in Nat /\ used.cancel \in Nat /\ used.kill \in Nat
      /\ used'.pause \in Nat /\ used'.retry \in Nat /\ used'.cancel \in Nat
      /\ used'.kill \in Nat
  BY <1>1
<1>4. CASE UNCHANGED used
  <2>1. ~ Kill /\ \A c \in {"pause", "retry", "cancel"} : ~ Ask(c)
    <3>1. ASSUME NEW kind \in K PROVE ~ Disturb(kind)
      BY <1>1, <1>4 DEF Disturb
    <3> QED BY <3>1 DEF Kill, Ask
  <2> QED BY <1>4, <2>1 DEF Interfered
<1>5. CASE ~ UNCHANGED used
  <2>1. \/ SystemStop \/ Kill
        \/ \E c \in {"pause", "retry", "cancel"} : Ask(c)
    BY <1>5, Disturbers
  <2>2. ASSUME NEW kind \in K, Disturb(kind)
        PROVE  (~ Interfered' => ~ Interfered) /\ (kind # "stop" => Interfered')
    <3>1. /\ used'.pause >= used.pause /\ used'.retry >= used.retry
          /\ used'.cancel >= used.cancel /\ used'.kill >= used.kill /\ used'[kind] > 0
      BY <1>2, <2>2
    <3> QED BY <1>3, <3>1 DEF Interfered
  <2>3. CASE Kill
    BY <2>2, <2>3 DEF Kill
  <2>4. CASE \E c \in {"pause", "retry", "cancel"} : Ask(c)
    BY <2>2, <2>4 DEF Ask
  <2>5. CASE SystemStop /\ ~ Kill /\ \A c \in {"pause", "retry", "cancel"} : ~ Ask(c)
    BY <2>2, <2>5 DEF SystemStop
  <2> QED BY <2>1, <2>3, <2>4, <2>5
<1> QED BY <1>4, <1>5

\* Before the first run no run is alive.
LEMMA NoneAliveAtFirst ==
  ASSUME Typed, begun = 0 PROVE \A r \in Run : ~ Alive(r)
BY DEF Typed, RunsOK, Alive, NoRun, Run

\* The user and the bridge of a download left alone: they start it, once.
LEMMA AloneBridge ==
  ASSUME Typed, Typed', InStep, WorkOK, ~ Interfered, ~ Interfered', ~ overlap,
         Untouched, Started, Driven, Next, BridgeStep
  PROVE  Untouched' /\ Started' /\ Driven'
<1>1. UNCHANGED <<file, work, worker, begun>>
  BY BridgeStepKeeps
<1>2. Fresh' = Fresh /\ \A r \in Run : Alive(r)' = Alive(r)
  BY <1>1 DEF Fresh, Alive
<1>3. /\ \A c \in {"pause", "resume", "retry"} : ~ Read(c) /\ ~ WriteRow(c)
      /\ ~ FinishPause /\ ~ FinishCancel
      /\ \A c \in {"resume", "retry"} : ~ FinishResume(c)
      /\ ~ Poll /\ \A c \in Control \ {"start"} : ~ Ask(c)
  <2>1. \A c \in Control \ {"start"} : ctl[c] = "idle"
    BY DEF Untouched
  <2>2. \A c \in Control : c \notin {"pause", "retry", "cancel", "start"} => c = "resume"
    BY DEF Control
  <2>3. ~ Ask("resume")
    BY DEF Ask, OfferedFor, Untouched
  <2>4. \A c \in {"pause", "retry", "cancel"} : ~ Ask(c)
    BY InterferedStep
  <2>5. /\ \A c \in {"pause", "resume", "retry"} : ~ Read(c) /\ ~ WriteRow(c)
        /\ ~ FinishPause /\ ~ FinishCancel
        /\ \A c \in {"resume", "retry"} : ~ FinishResume(c)
    BY <2>1 DEF Control, Read, WriteRow, FinishPause, FinishCancel, FinishResume, Resolve
  <2> QED BY <2>2, <2>3, <2>4, <2>5 DEF Poll, Untouched
<1>4. ctl \in [Control -> {"idle", "asked", "read", "written"}] /\ "start" \in Control
  BY DEF Typed, BridgeOK, Control
<1>5. ASSUME ctl["start"] \in {"asked", "written"}
      PROVE  requests = <<>> /\ work.state = "none" /\ \A r \in Run : ~ Alive(r)
  BY <1>5, NoneAliveAtFirst DEF Started, Fresh
<1>6. CASE InsertRow
  <2>1. /\ ctl["start"] = "asked" /\ row' = "queued" /\ ctl' = [ctl EXCEPT !["start"] = "written"]
        /\ UNCHANGED <<requests, shown, polling>>
    BY <1>6 DEF InsertRow
  <2>2. ctl'["start"] = "written" /\ \A c \in Control \ {"start"} : ctl'[c] = ctl[c]
    BY <1>4, <2>1
  <2>3. Untouched'
    BY <2>1, <2>2 DEF Untouched
  <2>4. Started'
    BY <1>1, <1>2, <1>5, <2>1, <2>2 DEF Started
  <2>5. Driven'
    BY <1>1, <1>2, <1>5, <2>1 DEF Driven
  <2> QED BY <2>3, <2>4, <2>5
<1>7. CASE FinishStart
  <2>1. /\ ctl["start"] = "written" /\ row' = row /\ ctl' = [ctl EXCEPT !["start"] = "idle"]
        /\ requests' = Append(requests, "enqueue") /\ shown' = "active" /\ polling' = polling
    BY <1>7 DEF FinishStart, Resolve
  <2>2. ctl'["start"] = "idle" /\ \A c \in Control \ {"start"} : ctl'[c] = ctl[c]
    BY <1>4, <2>1
  <2>3. requests' = <<"enqueue">> /\ Fresh
    <3>1. requests = <<>> /\ Fresh
      BY <2>1 DEF Started
    <3> QED BY <2>1, <3>1
  <2>4. Untouched'
    BY <2>1, <2>2 DEF Untouched
  <2>5. Started'
    <3>1. requests' # <<>>
      BY <2>3
    <3> QED BY <1>1, <1>2, <2>2, <2>3, <3>1 DEF Started
  <2>6. Driven'
    BY <1>1, <1>2, <2>1 DEF Driven
  <2> QED BY <2>4, <2>5, <2>6
<1>8. CASE MoveCompleted
  <2>1. row' = "none" /\ shown' = "gone" /\ UNCHANGED <<requests, ctl, polling>>
    BY <1>8 DEF MoveCompleted
  <2>2. Untouched'
    BY <2>1 DEF Untouched
  <2>3. Started'
    BY <1>1, <1>2, <2>1 DEF Started
  <2>4. Driven'
    BY <1>1, <1>2, <2>1 DEF Driven, Settles
  <2> QED BY <2>2, <2>3, <2>4
<1>9. CASE Observe \/ ObserveProgress \/ \E s \in DOMAIN reports : Report(s)
  <2>1. UNCHANGED <<row, requests, ctl, polling>>
    BY <1>9 DEF Observe, ObserveProgress, Report, native
  <2>2. shown' # "paused"
    BY <1>9 DEF Observe, ObserveProgress, Report, Show, Untouched
  <2>3. Untouched'
    BY <2>1, <2>2 DEF Untouched
  <2>4. Started'
    BY <1>1, <1>2, <2>1 DEF Started
  <2>5. Driven'
    BY <1>1, <1>2, <2>1 DEF Driven
  <2> QED BY <2>3, <2>4, <2>5
<1>10. ASSUME NEW r \in Run, r = begun, Progress(r) PROVE Untouched' /\ Started' /\ Driven'
  <2>1. /\ worker[r].at = "streaming" /\ row' = "running"
        /\ UNCHANGED <<requests, ctl, polling, shown>>
    BY <1>10 DEF Progress, workVars
  <2>2. Alive(r) /\ \A q \in Run : Alive(q) => q = r
    BY <1>10, <2>1 DEF Alive, InStep
  <2>3. Untouched'
    BY <2>1 DEF Untouched
  <2>4. Started'
    BY <1>1, <1>2, <1>5, <2>1, <2>2 DEF Started
  <2>5. Driven'
    BY <1>1, <1>2, <2>1, <2>2 DEF Driven, Settles
  <2> QED BY <2>3, <2>4, <2>5
<1> QED BY <1>3, <1>6, <1>7, <1>8, <1>9, <1>10 DEF BridgeStep

\* WorkManager and a download left alone: it runs what was enqueued, and ends the work with
\* what the last run said.
LEMMA AloneManager ==
  ASSUME Typed, Typed', InStep, WorkOK, ~ Interfered, ~ Interfered', ~ overlap, ~ overlap',
         Untouched, Started, Driven, Next, ManagerStep
  PROVE  Untouched' /\ Started' /\ Driven'
<1>1. worker \in [Run -> RunRecord] /\ work \in WorkRecord
  BY DEF Typed, RunsOK, NativeOK
<1>2. ~ Kill
  BY InterferedStep
<1>3. UNCHANGED <<row, ctl, shown, polling>>
  BY <1>2 DEF ManagerStep, ApplyRequest, SystemStop, Begin, Record, bridge
<1>4. Untouched'
  BY <1>3 DEF Untouched
<1>5. CASE ApplyRequest
  <2>1. requests = <<"enqueue">> /\ Fresh /\ ctl["start"] = "idle"
    BY <1>5 DEF ApplyRequest, Started
  <2>2. requests' = <<>> /\ Head(requests) = "enqueue"
    BY <1>5, <2>1 DEF ApplyRequest
  <2>3. work'.state = "enqueued" /\ begun' = begun
    BY <1>5, <2>2 DEF ApplyRequest
  <2>4. \A r \in Run : ~ Alive(r)
    BY <2>1, NoneAliveAtFirst DEF Fresh
  <2>5. work.run = 0
    BY <2>1 DEF WorkOK, Fresh
  <2>6. worker' = worker
    BY <1>5, <2>5 DEF ApplyRequest, Stopped
  <2>7. Started'
    BY <1>3, <2>1, <2>2, <2>3 DEF Started
  <2>8. Driven'
    BY <2>3, <2>4, <2>6 DEF Driven, Alive
  <2> QED BY <1>4, <2>7, <2>8
<1>6. CASE Begin
  <2>1. /\ work.state = "enqueued" /\ work'.state = "running" /\ requests' = requests
        /\ worker' = [worker EXCEPT ![begun + 1].at = "begun"] /\ begun' = begun + 1
    BY <1>6 DEF Begin
  <2>2. \A r \in Run : ~ Alive(r)
    BY <1>6 DEF Begin
  <2>3. Started'
    BY <1>3, <2>1 DEF Started, Fresh
  <2>4. \A r \in Run : worker'[r].at \in {"none", "ended", "begun"}
    <3>1. \A r \in Run : worker[r].at \in {"none", "ended"}
      BY <2>2 DEF Alive
    <3> QED BY <1>1, <2>1, <3>1 DEF RunRecord
  <2>5. Driven'
    BY <2>1, <2>4 DEF Driven, Settles
  <2> QED BY <1>4, <2>3, <2>5
<1>7. CASE SystemStop
  <2>1. /\ work.state = "running" /\ work'.state = "enqueued" /\ UNCHANGED <<requests, begun>>
        /\ worker' = Stopped(work.run) /\ work.run \in Nat
    BY <1>1, <1>7 DEF SystemStop, WorkRecord
  <2>2. \A r \in Run : worker'[r].at = worker[r].at /\ worker'[r].result = worker[r].result
    BY <1>1, <2>1 DEF Stopped, RunRecord
  <2>3. Started'
    BY <1>3, <2>1 DEF Started, Fresh
  <2>4. Driven'
    BY <1>3, <2>1, <2>2 DEF Driven, Settles, Alive
  <2> QED BY <1>4, <2>3, <2>4
<1>8. ASSUME NEW r \in Run, Record(r) PROVE Untouched' /\ Started' /\ Driven'
  <2>1. /\ worker[r].at = "returned" /\ worker' = [worker EXCEPT ![r] = Ended]
        /\ UNCHANGED <<requests, begun>>
    BY <1>8 DEF Record
  <2>2. Alive(r) /\ \A q \in Run : Alive(q) => q = r
    BY <2>1 DEF Alive, InStep
  <2>3. Settles(worker[r], row) /\ work.state \in {"running", "enqueued"}
    BY <2>2 DEF Driven
  <2>4. worker[r].result \in {"success", "failure", "retry"}
    BY <2>1, StreamFacts DEF RunOK, RunRecord
  <2>5. \A q \in Run : ~ Alive(q)'
    BY <1>1, <2>1, <2>2 DEF Alive, Ended, NoRun
  <2>6. \/ work' = work
        \/ worker[r].result = "success" /\ work'.state = "succeeded"
        \/ worker[r].result = "failure" /\ work'.state = "failed"
        \/ worker[r].result = "retry" /\ work'.state = "enqueued"
    <3>1. CASE work.run # r
      BY <1>8, <3>1 DEF Record
    <3>2. CASE work.run = r
      BY <1>1, <1>8, <2>4, <3>2 DEF Record, WorkRecord
    <3> QED BY <3>1, <3>2
  <2>7. work'.state \in {"running", "enqueued", "succeeded", "failed"}
    BY <2>3, <2>6
  <2>8. Started'
    BY <1>3, <2>1, <2>3, <2>7 DEF Started, Fresh
  <2>9. Driven'
    BY <1>3, <2>1, <2>3, <2>5, <2>6 DEF Driven, Settles
  <2> QED BY <1>4, <2>8, <2>9
<1> QED BY <1>2, <1>5, <1>6, <1>7, <1>8 DEF ManagerStep

\* A run of a download left alone says in the row how it ends.
LEMMA AloneRun ==
  ASSUME Typed, Typed', InStep, ~ overlap, Untouched, Started, Driven, NEW r \in Run, RunStep(r)
  PROVE  Untouched' /\ Started' /\ Driven'
<1>1. UNCHANGED workVars
  BY RunStepKeeps
<1>2. Alive(r) /\ r = begun /\ worker \in [Run -> RunRecord]
  BY AliveIfStep DEF InStep, Typed, RunsOK
<1>3. \A q \in Run : q # r => worker'[q] = worker[q] /\ ~ Alive(q)
  <2>1. \A q \in Run : Alive(q) => q = r
    BY <1>2 DEF InStep
  <2> QED BY <1>2, <2>1, RunStepFacts DEF OneStep, Typed
<1>4. /\ ctl["start"] \notin {"asked", "written"} /\ work.state \in {"running", "enqueued"}
      /\ Settles(worker[r], row)
  <2>1. ctl["start"] \notin {"asked", "written"}
    BY <1>2, NoneAliveAtFirst DEF Started, Fresh
  <2> QED BY <1>2, <2>1 DEF Driven
<1>5. /\ row' \notin {"paused", "cancelled"} /\ shown' # "paused"
      /\ Settles(worker'[r], row')
  <2>0. row \notin {"paused", "cancelled"} /\ shown # "paused"
    BY DEF Untouched
  <2>1. CASE Prepare(r)
    <3>1. CASE row = "none" /\ Return(r, "failure") /\ UNCHANGED row
      BY <2>0, <2>1, <3>1, ReturnFacts DEF Typed, Settles, Prepare
    <3>2. CASE (Goto(r, "stopping") \/ Goto(r, "failing")) /\ UNCHANGED row
      BY <2>0, <2>1, <3>2, GotoFacts DEF Typed, Settles, Prepare
    <3>3. CASE worker' = [worker EXCEPT ![r].at = "asking", ![r].next = Len(file.blocks) + 1]
               /\ Update("running")
      BY <1>2, <2>0, <2>1, <3>3 DEF Settles, RunRecord, Prepare, Update
    <3> QED BY <2>1, <3>1, <3>2, <3>3 DEF Prepare
  <2>2. CASE RespondPartial(r)
    BY <1>2, <2>0, <2>2 DEF RespondPartial, Settles, RunRecord, Update
  <2>3. CASE RespondWhole(r)
    <3>1. worker'[r] = [worker[r] EXCEPT !.at = "streaming", !.next = 1, !.count = 0,
                                         !.append = FALSE, !.handle = file'.no]
      BY <1>2, <2>3 DEF RespondWhole
    <3>2. worker[r] \in RunRecord
      BY <1>2
    <3>3. worker'[r].at = "streaming"
      BY ONLY <3>1, <3>2 DEF RunRecord
    <3> QED BY <2>0, <2>3, <3>3 DEF RespondWhole, Settles, Update
  <2>4. CASE RespondError(r)
    BY <2>0, <2>4, GotoFacts DEF RespondError, Typed, Settles
  <2>5. CASE Fetch(r)
    <3>1. CASE worker' = [worker EXCEPT ![r].at = "stopping"]
      BY <1>2, <2>0, <2>5, <3>1 DEF RunRecord, Settles, Fetch
    <3>2. ASSUME NEW h,
                 worker' = [worker EXCEPT ![r].next = @ + 1, ![r].count = @ + 1,
                                          ![r].held = h]
          PROVE  worker'[r].at = worker[r].at
      BY <1>2, <3>2 DEF RunRecord
    <3>3. worker[r].at = "streaming" /\ UNCHANGED <<row, shown>>
      BY <2>5 DEF Fetch
    <3> QED BY <2>0, <2>5, <3>1, <3>2, <3>3 DEF Fetch, Settles
  <2>6. CASE Verify(r)
    BY <2>0, <2>6, ReturnFacts, GotoFacts DEF Verify, Typed, Settles, Update
  <2>7. CASE Throw(r)
    BY <2>0, <2>7, ReturnFacts, GotoFacts DEF Throw, Typed, Settles, Update
  <2>8. CASE Fail(r)
    BY <2>0, <2>8, GotoFacts DEF Fail, Typed, Settles, Update
  <2>8a. CASE Tell(r)
    <3>1. row \in {"failed", "none"}  BY <1>4, <2>8a DEF Settles, Tell
    <3> QED BY <2>0, <2>8a, <3>1, ReturnFacts DEF Tell, Typed, Settles, Show
  <2>9. CASE HandleStopped(r)
    BY <1>2, <2>0, <2>9 DEF HandleStopped, RunRecord, Settles, Update
  <2>10. CASE Close(r)
    <3>1. worker[r].result = "retry"
      BY <1>4, <2>10 DEF Settles, Close
    <3> QED BY <2>0, <2>10, <3>1, ReturnFacts DEF Close, Typed, Settles
  <2>11. CASE Stray(r) \/ Cancelled(r)
    <3>1. worker'[r].at = "ended"
      BY <1>2, <2>11 DEF Stray, Cancelled, Ended, NoRun
    <3> QED BY <2>0, <2>11, <3>1 DEF Stray, Cancelled, Settles
  <2>12. CASE EndOfFile(r)
    <3>1. worker'[r] = [worker[r] EXCEPT !.at = "verifying", !.held = <<>>, !.next = 1,
                                         !.append = FALSE, !.handle = 0]
      BY <1>2, <2>12 DEF EndOfFile
    <3>2. worker[r] \in RunRecord
      BY <1>2
    <3>3. worker'[r].at = "verifying"
      BY ONLY <3>1, <3>2 DEF RunRecord
    <3> QED BY <2>0, <2>12, <3>3 DEF EndOfFile, Settles
  <2> QED BY <2>1, <2>2, <2>3, <2>4, <2>5, <2>6, <2>7, <2>8, <2>8a, <2>9, <2>10,
       <2>11, <2>12 DEF RunStep
<1>6. Untouched'
  BY <1>1, <1>5 DEF Untouched, workVars
<1>7. Started'
  BY <1>1, <1>4 DEF Started, Fresh, workVars
<1>8. Driven'
  BY <1>1, <1>3, <1>4, <1>5 DEF Driven, Alive, workVars
<1> QED BY <1>6, <1>7, <1>8

Driving == Typed /\ InStep /\ WorkOK /\ Alone

\* A download left alone stays on its path.
LEMMA AloneInductive == Driving /\ [Next]_vars => Driving'
<1> SUFFICES ASSUME Driving, [Next]_vars PROVE Driving'
  OBVIOUS
<1>1. CASE UNCHANGED vars
  <2>1. UNCHANGED <<native, bridge, overlap, used>>
    BY <1>1 DEF vars
  <2>2. Typed' /\ InStep'
    BY TypedInductive, InStepInductive DEF Driving
  <2>3. WorkOK' /\ Alone'
    BY <2>1 DEF Driving, WorkOK, Alone, Interfered, Untouched, Started, Driven, Fresh, Alive,
       native, bridge
  <2> QED BY <2>2, <2>3 DEF Driving
<1>2. CASE Next
  <2>1. Typed' /\ InStep' /\ WorkOK'
    BY <1>2, TypedInductive, InStepInductive, WorkStep DEF Driving
  <2>2. ASSUME ~ Interfered', ~ overlap' PROVE Untouched' /\ Started' /\ Driven'
    <3>1. ~ Interfered /\ ~ overlap
      BY <1>2, <2>2, InterferedStep, OneAliveStep, TypedInductive DEF Driving, InStep
    <3>2. Untouched /\ Started /\ Driven
      BY <3>1 DEF Driving, Alone
    <3>3. ~ WriteCancel
      BY <3>2 DEF WriteCancel, Untouched, Control
    <3> QED BY <1>2, <2>1, <2>2, <3>1, <3>2, <3>3, Steps, AloneBridge, AloneManager, AloneRun
        DEF Driving
  <2> QED BY <2>1, <2>2 DEF Driving, Alone
<1> QED BY <1>1, <1>2

LEMMA AloneInit == Init => Driving
<1> SUFFICES ASSUME Init PROVE Driving
  OBVIOUS
<1>1. work.run = 0 /\ work.state = "none" /\ begun = 0 /\ row = "none"
  BY DEF Init
<1>2. \A c \in Control \ {"start"} : ctl[c] = "idle"
  BY DEF Init
<1>3. ctl["start"] = "asked"
  BY DEF Init, Control
<1>4. Untouched
  BY <1>1, <1>2 DEF Untouched, Init
<1>5. Started
  BY <1>1, <1>3 DEF Started, Fresh, Init
<1>6. Driven
  BY <1>1, NoneAliveAtFirst, TypedInit DEF Driven
<1> QED BY <1>1, <1>4, <1>5, <1>6, TypedInit, InStepInit DEF Driving, WorkOK, Alone

\* A row that says a transfer is under way has work that drives it, once nothing is in
\* flight, if nobody but the system interfered: the state of the work and the row change
\* hands only through the run that WorkManager has on record.
THEOREM LiveRowIsDriven == Spec => []LiveRowHasWork
<1>1. Driving => LiveRowHasWork
  <2> SUFFICES ASSUME Driving, Quiet, ~ Interfered, ~ overlap, row \in {"queued", "running"}
               PROVE  work.state = "enqueued"
    BY DEF LiveRowHasWork
  <2>1. work.state \in {"enqueued", "running", "succeeded", "failed"}
    BY DEF Driving, Alone, Started, Quiet, Control
  <2>2. work.state # "running"
    <3>1. ASSUME work.state = "running" PROVE FALSE
      <4>1. begun # 0 /\ Alive(begun)
        BY <3>1 DEF Driving, WorkOK
      <4>2. begun \in Run
        BY <4>1 DEF Driving, Typed, NativeOK, Run
      <4> QED BY <4>1, <4>2 DEF Quiet
    <3> QED BY <3>1
  <2> QED BY <2>1, <2>2 DEF Driving, Alone, Driven
<1> QED BY <1>1, AloneInit, AloneInductive, PTL DEF Spec

\* A download nobody paused or cancelled, in a process that did not die, never was.
LEMMA HarmStep ==
  ASSUME Typed, Next
  PROVE  /\ used'.kill = 0 => used.kill = 0 /\ ~ Kill
         /\ Unharmed' => Unharmed /\ ~ Kill /\ ~ Ask("pause") /\ ~ Ask("cancel")
<1> DEFINE K == {"pause", "retry", "cancel", "stop", "kill"}
<1>1. used \in [K -> Nat] /\ used' \in [K -> Nat]
  BY UsedTyped DEF Typed, BridgeOK
<1>2. ASSUME NEW kind \in K, Disturb(kind)
      PROVE  /\ \A k \in K : used'[k] >= used[k]
             /\ used'[kind] > 0
  BY <1>1, <1>2 DEF Disturb
<1>3. \A k \in K : used'[k] >= used[k]
  <2>1. CASE UNCHANGED used
    BY <1>1, <2>1
  <2>2. CASE ~ UNCHANGED used
    <3>1. \E kind \in K : Disturb(kind)
      BY <2>2, Disturbers DEF SystemStop, Kill, Ask
    <3> QED BY <1>2, <3>1
  <2> QED BY <2>1, <2>2
<1>4. Kill => used'.kill > 0
  BY <1>2 DEF Kill
<1>5. (Ask("pause") => used'.pause > 0) /\ (Ask("cancel") => used'.cancel > 0)
  BY <1>2 DEF Ask
<1>6. /\ used.pause \in Nat /\ used.cancel \in Nat /\ used.kill \in Nat
      /\ used'.pause \in Nat /\ used'.cancel \in Nat /\ used'.kill \in Nat
      /\ used'.pause >= used.pause /\ used'.cancel >= used.cancel /\ used'.kill >= used.kill
  BY <1>1, <1>3
<1>7. /\ used'.kill = 0 => used.kill = 0
      /\ used'.pause + used'.cancel + used'.kill = 0 =>
           /\ used.pause + used.cancel + used.kill = 0
           /\ used'.pause = 0 /\ used'.cancel = 0 /\ used'.kill = 0
  <2> DEFINE SumZero(a, b, c) == a + b + c = 0 <=> a = 0 /\ b = 0 /\ c = 0
  <2>1. \A a, b, c \in Nat : SumZero(a, b, c)
    OBVIOUS
  <2>2. \A a, b \in Nat : a >= b /\ a = 0 => b = 0
    OBVIOUS
  <2> QED BY ONLY <1>6, <2>1, <2>2
<1>8. ~ (0 > 0)
  OBVIOUS
<1> QED BY <1>4, <1>5, <1>7, <1>8 DEF Unharmed

\* What the bridge does to a failed row: a retry, which takes the announcement back, writes
\* another status first.
LEMMA BridgeTold ==
  ASSUME BridgeStep, row' = "failed"
  PROVE  row = "failed" /\ told' \in {told, "yes"}
<1> USE DEF Update
<1>1. CASE \/ \E c \in Control \ {"start"} : Ask(c)
           \/ \E c \in {"pause", "resume", "retry"} : Read(c) \/ WriteRow(c)
           \/ InsertRow \/ MoveCompleted
  BY <1>1 DEF Ask, Read, WriteRow, InsertRow, MoveCompleted, native
<1>2. CASE \/ FinishStart \/ FinishPause \/ FinishCancel
           \/ \E c \in {"resume", "retry"} : FinishResume(c)
  BY <1>2 DEF FinishStart, FinishPause, FinishCancel, FinishResume, Resolve
<1>3. CASE \/ Observe \/ Poll \/ ObserveProgress
           \/ \E s \in DOMAIN reports : Report(s)
           \/ \E r \in Run : Progress(r)
  BY <1>3 DEF Observe, Poll, ObserveProgress, Report, Progress, native, workVars
<1> QED BY <1>1, <1>2, <1>3 DEF BridgeStep

\* What a run does to a failed row: it fails, or leaves the row and what was told of it,
\* unless it tells or is stopped.
LEMMA RunTold ==
  ASSUME NEW r \in Run, RunStep(r), row' = "failed"
  PROVE  \/ Fail(r) /\ r = begun /\ told' = told
         \/ Tell(r) /\ row = "failed" /\ told' = "yes"
         \/ /\ Cancelled(r) /\ row = "failed"
            /\ told' = IF worker[r].at = "telling" /\ told = "no" THEN "stopped" ELSE told
         \/ /\ worker[r].at \notin {"failing", "telling"} /\ row = "failed" /\ told' = told
<1> USE DEF Update
<1>1. CASE r = begun /\ (Prepare(r) \/ RespondPartial(r) \/ RespondWhole(r) \/ RespondError(r))
  BY <1>1 DEF Prepare, RespondPartial, RespondWhole, RespondError
<1>2. CASE r = begun /\ (Fetch(r) \/ Verify(r) \/ Throw(r) \/ HandleStopped(r) \/ Close(r))
  BY <1>2 DEF Fetch, Verify, Throw, HandleStopped, Close
<1>3. CASE Stray(r) \/ EndOfFile(r)
  BY <1>3 DEF Stray, EndOfFile
<1>4. CASE Fail(r) /\ r = begun
  BY <1>4 DEF Fail
<1>5. CASE Tell(r) \/ Cancelled(r)
  BY <1>5 DEF Tell, Cancelled
<1> QED BY <1>1, <1>2, <1>3, <1>4, <1>5 DEF RunStep

\* WorkManager and the system leave a run at its event there, or mark it as stopped.
LEMMA ManagerTold ==
  ASSUME Typed, ManagerStep, ~ Kill
  PROVE  /\ UNCHANGED <<row, told, ctl>>
         /\ \A r \in Run : worker[r].at = "telling" => worker'[r].at = "telling"
<1>1. UNCHANGED <<row, told, ctl>>
  BY DEF ManagerStep, ApplyRequest, SystemStop, Begin, Record, bridge
<1>2. worker \in [Run -> RunRecord] /\ work.run \in Nat
  BY DEF Typed, RunsOK, NativeOK, WorkRecord
<1>3. ASSUME NEW r \in Run, worker[r].at = "telling" PROVE worker'[r].at = "telling"
  <2>1. CASE ApplyRequest \/ SystemStop
    <3>1. worker' = Stopped(work.run)
      BY <2>1 DEF ApplyRequest, SystemStop
    <3> QED BY <1>2, <1>3, <3>1 DEF Stopped, RunRecord
  <2>2. CASE Begin
    <3>1. worker' = [worker EXCEPT ![begun + 1].at = "begun"]
      BY <2>2 DEF Begin
    <3>2. r # begun + 1
      <4>1. begun + 1 \in Run => worker[begun + 1].at = "none"
        BY DEF Typed, RunsOK, NativeOK, NoRun
      <4> QED BY <1>3, <4>1
    <3> QED BY <1>2, <1>3, <3>1, <3>2
  <2>3. ASSUME NEW q \in Run, Record(q) PROVE worker'[r].at = "telling"
    <3>1. worker' = [worker EXCEPT ![q] = Ended] /\ q # r
      BY <1>3, <2>3 DEF Record
    <3> QED BY <1>2, <1>3, <3>1
  <2> QED BY <2>1, <2>2, <2>3 DEF ManagerStep
<1> QED BY <1>1, <1>3

\* A failed row has been announced, or will be, unless a stop keeps it from that.
LEMMA ToldInductive == Typed /\ Told /\ [Next]_vars => Told'
<1>1. ASSUME Told, UNCHANGED vars PROVE Told'
  BY <1>1 DEF Told, vars, native, bridge
<1>2. ASSUME Typed, Told, Next, row' = "failed", used'.kill = 0
      PROVE  told' \in {"yes", "stopped"} \/ \E r \in Run : worker'[r].at = "telling"
  <2>0. used.kill = 0 /\ ~ Kill
    BY <1>2, HarmStep
  <2>1. CASE BridgeStep
    BY <1>2, <2>0, <2>1, BridgeTold, BridgeStepKeeps DEF Told
  <2>2. CASE WriteCancel
    BY <1>2, <2>2 DEF WriteCancel, Update
  <2>3. CASE ManagerStep
    BY <1>2, <2>0, <2>3, ManagerTold DEF Told
  <2>4. ASSUME NEW r \in Run, RunStep(r)
        PROVE  told' \in {"yes", "stopped"} \/ \E q \in Run : worker'[q].at = "telling"
    <3>1. CASE Fail(r)
      <4>1. worker'[r].at = "telling"
        BY <1>2, <3>1, GotoFacts DEF Typed, Fail
      <4> QED BY <4>1
    <3>2. CASE row = "failed" /\ ~ Fail(r)
      <4>1. CASE told \in {"yes", "stopped"}
        BY <1>2, <2>4, <3>2, <4>1, RunTold
      <4>2. ASSUME NEW q \in Run, worker[q].at = "telling", told \notin {"yes", "stopped"}
            PROVE  told' \in {"yes", "stopped"} \/ worker'[q].at = "telling"
        <5>1. CASE q # r
          BY <1>2, <2>4, <4>2, <5>1, RunStepFacts DEF Typed, OneStep, RunsOK
        <5>2. CASE q = r
          <6>1. told = "no"
            BY <1>2, <4>2 DEF Typed, BridgeOK
          <6> QED BY <1>2, <2>4, <3>2, <4>2, <5>2, <6>1, RunTold
        <5> QED BY <5>1, <5>2
      <4> QED BY <1>2, <2>0, <3>2, <4>1, <4>2 DEF Told
    <3> QED BY <1>2, <2>4, <3>1, <3>2, RunTold
  <2> QED BY <1>2, <2>1, <2>2, <2>3, <2>4, Steps
<1> QED BY <1>1, <1>2 DEF Told

\* The bridge of a download nobody pauses or cancels.
LEMMA RerunBridge ==
  ASSUME Typed, Rerun, BridgeStep, ~ Ask("pause"), ~ Ask("cancel")
  PROVE  Rerun'
<1>1. UNCHANGED <<work, worker, begun>>
  BY BridgeStepKeeps
<1>2. ctl["pause"] = "idle" /\ ctl["cancel"] = "idle" /\ "pause" \in Control /\ "cancel" \in Control
      /\ ctl \in [Control -> {"idle", "asked", "read", "written"}]
  BY DEF Rerun, Typed, BridgeOK, Control
<1>3. ctl'["pause"] = "idle" /\ ctl'["cancel"] = "idle"
  <2>1. ASSUME NEW c \in Control \ {"start"}, Ask(c)
        PROVE  ctl'["pause"] = "idle" /\ ctl'["cancel"] = "idle"
    <3>1. c # "pause" /\ c # "cancel"
      BY <2>1
    <3> QED BY <1>2, <2>1, <3>1 DEF Ask
  <2>2. ASSUME NEW c \in {"pause", "resume", "retry"}, Read(c) \/ WriteRow(c)
        PROVE  ctl'["pause"] = "idle" /\ ctl'["cancel"] = "idle"
    <3>1. c # "pause" /\ c # "cancel"
      BY <1>2, <2>2 DEF Read, WriteRow
    <3> QED BY <1>2, <2>2, <3>1 DEF Read, WriteRow
  <2>3. CASE InsertRow \/ FinishStart
    BY <1>2, <2>3 DEF InsertRow, FinishStart, Resolve
  <2>4. ASSUME NEW c \in {"resume", "retry"}, FinishResume(c)
        PROVE  ctl'["pause"] = "idle" /\ ctl'["cancel"] = "idle"
    BY <1>2, <2>4 DEF FinishResume, Resolve
  <2>5. ~ FinishPause /\ ~ FinishCancel
    BY <1>2 DEF FinishPause, FinishCancel, Resolve
  <2>6. CASE \/ MoveCompleted \/ Observe \/ Poll \/ ObserveProgress
             \/ \E s \in DOMAIN reports : Report(s)
             \/ \E r \in Run : Progress(r)
    BY <1>2, <2>6 DEF MoveCompleted, Observe, Poll, ObserveProgress, Report, Progress, workVars
  <2> QED BY <2>1, <2>2, <2>3, <2>4, <2>5, <2>6 DEF BridgeStep
<1>4. requests' = requests \/ requests' = Append(requests, "enqueue")
  <2>1. ~ FinishPause /\ ~ FinishCancel
    BY <1>2 DEF FinishPause, FinishCancel, Resolve
  <2>2. CASE FinishStart \/ \E c \in {"resume", "retry"} : FinishResume(c)
    BY <2>2 DEF FinishStart, FinishResume
  <2>3. CASE \/ \E c \in Control \ {"start"} : Ask(c)
             \/ \E c \in {"pause", "resume", "retry"} : Read(c) \/ WriteRow(c)
             \/ InsertRow \/ MoveCompleted
    BY <2>3 DEF Ask, Read, WriteRow, InsertRow, MoveCompleted, native
  <2>4. CASE \/ Observe \/ Poll \/ ObserveProgress
             \/ \E s \in DOMAIN reports : Report(s)
             \/ \E r \in Run : Progress(r)
    BY <2>4 DEF Observe, Poll, ObserveProgress, Report, Progress, native, workVars
  <2> QED BY <2>1, <2>2, <2>3, <2>4 DEF BridgeStep
<1>5. \A i \in 1 .. Len(requests') : requests'[i] = "enqueue"
  <2>1. requests \in Seq({"enqueue", "cancel", "prune"})
    BY DEF Typed, NativeOK
  <2> QED BY <1>4, <2>1 DEF Rerun
<1>6. row' = "failed" /\ told' # "yes" => row = "failed" /\ told # "yes"
  BY BridgeTold
<1> QED BY <1>1, <1>3, <1>5, <1>6 DEF Rerun, Alive

\* WorkManager with such a download: whatever ends the run enqueues the work again, unless
\* the run has told.
LEMMA RerunManager ==
  ASSUME Typed, WorkOK, Rerun, ManagerStep, ~ Kill
  PROVE  Rerun'
<1>1. UNCHANGED <<row, told, ctl>>
  BY ManagerTold
<1>2. /\ worker \in [Run -> RunRecord] /\ work \in WorkRecord
      /\ requests \in Seq({"enqueue", "cancel", "prune"}) /\ begun \in 0 .. MaxRuns
  BY DEF Typed, RunsOK, NativeOK
<1>3. CASE ApplyRequest
  <2>1. requests # <<>> /\ requests' = Tail(requests) /\ Head(requests) = "enqueue"
    BY <1>2, <1>3 DEF ApplyRequest, Rerun
  <2>2. work'.state = "enqueued"
    BY <1>3, <2>1 DEF ApplyRequest
  <2>3. \A i \in 1 .. Len(requests') : requests'[i] = "enqueue"
    BY <1>2, <2>1 DEF Rerun
  <2> QED BY <1>1, <2>2, <2>3 DEF Rerun
<1>4. CASE SystemStop
  <2>1. work'.state = "enqueued" /\ requests' = requests
    BY <1>2, <1>4 DEF SystemStop, WorkRecord
  <2> QED BY <1>1, <2>1 DEF Rerun
<1>5. CASE Begin
  <2>1. /\ begun' = begun + 1 /\ begun + 1 \in Run /\ requests' = requests
        /\ worker' = [worker EXCEPT ![begun + 1].at = "begun"]
    BY <1>2, <1>5, WorkerBounds DEF Begin, Run
  <2>2. worker[begun + 1] = NoRun
    BY <1>2, <2>1 DEF Typed, RunsOK
  <2>3. worker'[begun'].at = "begun" /\ ~ worker'[begun'].stopped /\ begun' # 0
    BY <1>2, <2>1, <2>2 DEF NoRun
  <2> QED BY <1>1, <2>1, <2>3 DEF Rerun, Untold
<1>6. ASSUME NEW q \in Run, Record(q) PROVE Rerun'
  <2>1. /\ worker[q].at = "returned" /\ worker' = [worker EXCEPT ![q] = Ended]
        /\ UNCHANGED <<requests, begun>> /\ (work.run # q => work' = work)
    BY <1>6 DEF Record
  <2>2. worker'[q] = Ended /\ \A r \in Run : r # q => worker'[r] = worker[r]
    BY <1>2, <2>1
  <2>3. begun # 0 => begun \in Run
    BY <1>2 DEF Run
  <2>4. q = begun => ~ Alive(begun)'
    BY <2>1, <2>2 DEF Alive, Ended, NoRun
  <2>5. CASE work.run = q
    <3>1. q = begun /\ work.state = "running" /\ worker[begun].at = "returned"
      BY <2>1, <2>5 DEF WorkOK, Run
    <3>2. ~ (row = "failed" /\ told # "yes")
      BY <3>1 DEF Rerun, Untold
    <3> QED BY <1>1, <2>1, <2>4, <3>1, <3>2 DEF Rerun
  <2>6. CASE work.run # q /\ q = begun
    <3>1. worker[begun].at \notin Untold
      BY <2>1, <2>6 DEF Untold
    <3> QED BY <1>1, <2>1, <2>4, <2>6, <3>1 DEF Rerun
  <2>7. CASE work.run # q /\ q # begun
    <3>1. begun # 0 => worker'[begun] = worker[begun]
      BY <2>2, <2>3, <2>7
    <3> QED BY <1>1, <2>1, <2>7, <3>1 DEF Rerun, Alive
  <2> QED BY <2>5, <2>6, <2>7
<1> QED BY <1>3, <1>4, <1>5, <1>6 DEF ManagerStep

\* A run of such a download: it is enqueued again once stopped, whatever it was at, and
\* from a failed row it only goes on to fail again or to start over.
LEMMA RerunRun ==
  ASSUME Typed, Rerun, NEW r \in Run, RunStep(r)
  PROVE  Rerun'
<1>1. UNCHANGED workVars /\ r <= begun /\ worker \in [Run -> RunRecord]
  BY RunStepKeeps, RunStepFacts DEF Typed, RunsOK
<1>2. /\ \A q \in Run : q # r => worker'[q] = worker[q]
      /\ begun # 0 => begun \in Run
  <2>1. \A q \in Run : q # r => worker'[q] = worker[q]
    BY <1>1, RunStepFacts DEF OneStep, Typed
  <2>2. begun \in 0 .. MaxRuns
    BY DEF Typed, NativeOK
  <2> QED BY <2>1, <2>2 DEF Run
<1>3. worker'[r].stopped => worker[r].stopped
  <2>1. CASE Prepare(r) \/ Throw(r) \/ RespondError(r) \/ Verify(r) \/ Fail(r)
    <3>1. CASE \/ \E e \in {"success", "failure", "retry"} : Return(r, e)
               \/ \E s \in {"stopping", "failing", "telling"} : Goto(r, s)
      BY <3>1, ReturnFacts, GotoFacts DEF Typed
    <3>2. CASE worker' = [worker EXCEPT ![r].at = "asking", ![r].next = Len(file.blocks) + 1]
      BY <1>1, <3>2 DEF RunRecord
    <3> QED BY <2>1, <3>1, <3>2 DEF Prepare, Throw, RespondError, Verify, Fail
  <2>2. CASE Tell(r) \/ Close(r)
    <3>1. ASSUME Close(r) PROVE worker[r].result \in {"success", "failure", "retry"}
      BY <3>1, StreamFacts DEF RunOK, RunRecord, Close
    <3> QED BY <2>2, <3>1, ReturnFacts DEF Typed, Tell, Close
  <2>3. CASE RespondPartial(r) \/ HandleStopped(r)
    BY <1>1, <2>3 DEF RespondPartial, HandleStopped, RunRecord
  <2>4. CASE Fetch(r)
    BY <1>1, <2>4 DEF Fetch, RunRecord
  <2>5. CASE RespondWhole(r) \/ EndOfFile(r)
    <3>1. \/ worker'[r] = [worker[r] EXCEPT !.at = "streaming", !.next = 1, !.count = 0,
                                            !.append = FALSE, !.handle = file'.no]
          \/ worker'[r] = [worker[r] EXCEPT !.at = "verifying", !.held = <<>>, !.next = 1,
                                            !.append = FALSE, !.handle = 0]
      BY <1>1, <2>5 DEF RespondWhole, EndOfFile
    <3>2. worker[r] \in RunRecord
      BY <1>1
    <3> QED BY ONLY <3>1, <3>2 DEF RunRecord
  <2>6. CASE Stray(r) \/ Cancelled(r)
    <3>1. worker'[r] = Ended
      BY <1>1, <2>6 DEF Stray, Cancelled
    <3> QED BY <3>1 DEF Ended, NoRun
  <2> QED BY <2>1, <2>2, <2>3, <2>4, <2>5, <2>6 DEF RunStep
<1>3a. Alive(r) /\ begun' = begun
  BY <1>1, AliveIfStep DEF workVars
<1>4. (begun # 0 /\ Alive(begun)' /\ worker'[begun].stopped) => work.state = "enqueued"
  <2>1. CASE r = begun
    BY <1>3, <1>3a, <2>1 DEF Rerun
  <2>2. CASE r # begun
    <3>1. begun # 0 => worker'[begun] = worker[begun]
      BY <1>2, <2>2
    <3> QED BY <1>3a, <3>1 DEF Rerun, Alive
  <2> QED BY <2>1, <2>2
<1>5. ASSUME row' = "failed", told' # "yes", work.state # "enqueued"
      PROVE  begun # 0 /\ worker'[begun].at \in Untold
  <2>1. CASE Fail(r) /\ r = begun
    <3>1. worker'[r].at = "telling" /\ r # 0
      BY <2>1, GotoFacts DEF Typed, Fail, Run
    <3> QED BY <2>1, <3>1 DEF Untold
  <2>2. CASE row = "failed" /\ told # "yes"
    <3>1. begun # 0 /\ begun \in Run /\ worker[begun].at \in Untold
      BY <1>2, <1>5, <2>2 DEF Rerun
    <3>2. CASE r # begun
      BY <1>2, <3>1, <3>2
    <3>3. CASE r = begun /\ ~ Fail(r)
      <4>1. ~ worker[r].stopped
        BY <1>3a, <1>5, <3>1, <3>3 DEF Rerun
      <4>2. Prepare(r)
        <5>1. ~ Cancelled(r) /\ ~ Tell(r)
          BY <1>5, <4>1 DEF Cancelled, Tell
        <5>2. worker[r].at = "begun"
          BY <1>5, <3>1, <3>3, <5>1, RunTold DEF Untold
        <5> QED BY <3>3, <5>1, <5>2 DEF RunStep, RespondPartial, RespondWhole, RespondError,
              Fetch, Verify, Throw, HandleStopped, Close, Stray, EndOfFile
      <4>3. Goto(r, "failing")
        BY <1>5, <2>2, <4>1, <4>2 DEF Prepare, Update
      <4>4. worker'[r].at = "failing"
        BY <4>3, GotoFacts DEF Typed
      <4> QED BY <3>1, <3>3, <4>4 DEF Untold
    <3> QED BY <2>1, <3>2, <3>3
  <2>3. told' = "yes" \/ told' = told \/ (told' = "stopped" /\ told = "no")
    BY <1>5, RunTold
  <2> QED BY <1>5, <2>1, <2>2, <2>3, RunTold
<1> QED BY <1>1, <1>3a, <1>4, <1>5 DEF Rerun, workVars

LEMMA RerunInductive ==
  Typed /\ WorkOK /\ (Unharmed => Rerun) /\ [Next]_vars => (Unharmed' => Rerun')
<1>1. ASSUME Rerun, UNCHANGED vars PROVE Rerun'
  BY <1>1 DEF Rerun, Alive, vars, native, bridge
<1>2. ASSUME UNCHANGED vars PROVE Unharmed' = Unharmed
  BY <1>2 DEF Unharmed, vars
<1>3. ASSUME Typed, WorkOK, Unharmed => Rerun, Next, Unharmed' PROVE Rerun'
  <2>1. Rerun /\ ~ Kill /\ ~ Ask("pause") /\ ~ Ask("cancel")
    BY <1>3, HarmStep
  <2>2. ~ WriteCancel
    BY <2>1 DEF Rerun, WriteCancel
  <2> QED BY <1>3, <2>1, <2>2, Steps, RerunBridge, RerunManager, RerunRun
<1> QED BY <1>1, <1>2, <1>3

\* A failed row has been announced to JavaScript once nothing is in flight, or a stop fell
\* between the row and the event: then the work is enqueued again, unless the user had
\* paused or cancelled the download.
THEOREM FailuresAnnounced == Spec => []FailureIsTold
<1> DEFINE Inv == Typed /\ WorkOK /\ Told /\ (Unharmed => Rerun)
<1>1. Init => Inv
  <2> SUFFICES ASSUME Init PROVE Inv
    OBVIOUS
  <2>1. Typed /\ WorkOK
    BY TypedInit, AloneInit DEF Driving
  <2>2. Told /\ Rerun
    BY DEF Init, Told, Rerun, Control
  <2> QED BY <2>1, <2>2
<1>2. Inv /\ [Next]_vars => Inv'
  <2>1. ASSUME WorkOK, UNCHANGED vars PROVE WorkOK'
    BY <2>1 DEF WorkOK, Alive, vars, native
  <2> QED BY <2>1, TypedInductive, WorkStep, ToldInductive, RerunInductive
<1>3. Inv => FailureIsTold
  <2> SUFFICES ASSUME Inv, Quiet, row = "failed", used.kill = 0
               PROVE  \/ told = "yes"
                      \/ /\ told = "stopped"
                         /\ work.state = "enqueued" \/ used.pause + used.cancel > 0
    BY DEF FailureIsTold
  <2>1. told \in {"yes", "stopped"}
    BY DEF Told, Quiet, Alive
  <2>2. CASE Unharmed /\ told # "yes"
    <3>1. begun # 0 => begun \in Run
      BY DEF Typed, NativeOK, Run
    <3> QED BY <2>1, <2>2, <3>1 DEF Rerun, Untold, Quiet, Alive
  <2>3. CASE ~ Unharmed
    <3>1. used.pause \in Nat /\ used.cancel \in Nat
      BY DEF Typed, BridgeOK
    <3>2. used.pause + used.cancel # 0
      BY <2>3, <3>1 DEF Unharmed
    <3>3. used.pause + used.cancel > 0
      BY <3>1, <3>2
    <3> QED BY <2>1, <3>3
  <2> QED BY <2>1, <2>2, <2>3
<1> HIDE DEF Inv
<1> QED BY <1>1, <1>2, <1>3, PTL DEF Spec

===============================================================================
