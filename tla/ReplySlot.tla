------------------------------ MODULE ReplySlot ------------------------------
(***************************************************************************)
(* What the chat store's streaming slot promises the user: one reply forms *)
(* at a time, it holds the words of one turn, and whatever of it has been  *)
(* shown is kept in that turn's chat when the reply ends, however it ends. *)
(***************************************************************************)
CONSTANTS Turns, Convs, ConvOf, Nobody

VARIABLES
    turnOf,     \* the turn whose reply is forming, or Nobody
    said,       \* the turns whose words have been received for it
    kept        \* per chat, the turns whose words its replies hold

vars == <<turnOf, said, kept>>

Init == turnOf = Nobody /\ said = {} /\ kept = [c \in Convs |-> {}]

Begin(t) ==
    /\ turnOf = Nobody
    /\ turnOf' = t
    /\ UNCHANGED <<said, kept>>

Say ==
    /\ turnOf # Nobody
    /\ said' = {turnOf}
    /\ UNCHANGED <<turnOf, kept>>

End ==
    /\ turnOf # Nobody
    /\ kept' = [kept EXCEPT ![ConvOf[turnOf]] = @ \cup said]
    /\ turnOf' = Nobody /\ said' = {}

Next == Say \/ End \/ \E t \in Turns : Begin(t)

Spec == Init /\ [][Next]_vars
=============================================================================
