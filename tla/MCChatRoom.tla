----------------------------- MODULE MCChatRoom -----------------------------
(* Small rooms for TLC: who owns each session and which process serves it.   *)
EXTENDS ChatRoom, TLC

CONSTANTS alice, bob, carol, a1, b1, b2, p1, p2

TwoOwners == (a1 :> alice) @@ (b1 :> bob)
ThreeOwners == TwoOwners @@ (b2 :> bob)
OneProc == [c \in Conns |-> p1]
Empty == <<>>
BobSpoke == <<[by |-> b1, sender |-> bob, replyTo |-> 0]>>
=============================================================================
