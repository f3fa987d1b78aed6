--------------------------- MODULE MCChatGeneration ---------------------------
(* ChatGeneration with up to three sends in two chats.                         *)
EXTENDS ChatGeneration

CONSTANTS p, q, r, c, d

MCOneChat == [t \in {p, q} |-> c]
MCTwoChats == [t \in {p, q} |-> IF t = p THEN c ELSE d]
MCTwoAndOne == [t \in {p, q, r} |-> IF t = q THEN d ELSE c]
=============================================================================
