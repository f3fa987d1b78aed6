---------------------------- MODULE FifoSemaphore ----------------------------
(***************************************************************************)
(* What backgroundDownloadService's slots and queue promise, said without   *)
(* tokens, promises, events or native calls: a semaphore whose waiters are  *)
(* served in the order they came.  Permits can also be taken by force (a    *)
(* retried or an adopted transfer runs already, whatever the cap says).     *)
(***************************************************************************)
EXTENDS Integers, Sequences

CONSTANTS Waiter, Permits

VARIABLES
  waiting,   \* the waiters, first come first
  held,      \* permits in use
  granted,   \* permits granted so far
  open       \* until the service is shut down

vars == <<waiting, held, granted, open>>

Init == waiting = <<>> /\ held = 0 /\ granted = 0 /\ open = TRUE

\* While the semaphore is open nobody waits next to a free permit.
Fair(w, h) == open => w = <<>> \/ h >= Permits

\* A caller gets a free permit at once: nobody was waiting for it.
Acquire ==
  /\ held < Permits /\ (open => waiting = <<>>)
  /\ held' = held + 1 /\ granted' = granted + 1
  /\ UNCHANGED <<waiting, open>>

\* No permit is free: the caller waits behind the others.
Wait(w) ==
  /\ held >= Permits
  /\ waiting' = Append(waiting, w)
  /\ UNCHANGED <<held, granted, open>>

\* A waiter gives up.
Leave(w) ==
  /\ \E i \in 1 .. Len(waiting) :
       /\ waiting[i] = w
       /\ waiting' = SubSeq(waiting, 1, i - 1) \o SubSeq(waiting, i + 1, Len(waiting))
  /\ UNCHANGED <<held, granted, open>>

\* `freed' permits come back and the first `n' waiters get theirs.
Return(freed, n) ==
  /\ held' = held - freed + n /\ granted' = granted + n
  /\ waiting' = SubSeq(waiting, n + 1, Len(waiting))
  /\ n > 0 => held' <= Permits
  /\ Fair(waiting', held')
  /\ UNCHANGED open

\* A permit is taken without asking.
Seize ==
  /\ held' = held + 1
  /\ UNCHANGED <<waiting, granted, open>>

Close == open' = FALSE /\ waiting' = <<>> /\ held' = 0 /\ UNCHANGED granted

Next ==
  \/ Acquire \/ Seize \/ Close
  \/ \E w \in Waiter : Wait(w) \/ Leave(w)
  \/ \E freed \in 0 .. held, n \in 0 .. Len(waiting) : Return(freed, n)

Spec == Init /\ [][Next]_vars

=============================================================================
