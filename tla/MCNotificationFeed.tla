-------------------------- MODULE MCNotificationFeed --------------------------
(* A role notification for ann and bob, and one for ann alone.               *)
EXTENDS NotificationFeed, TLC

CONSTANTS ann, bob, n1, n2, n3, role, single, s1, s2

Addressee == (n1 :> ann) @@ (n2 :> bob) @@ (n3 :> ann)
TwoCalls == (role :> {n1, n2}) @@ (single :> {n3})
AnnTwice == [s \in Sessions |-> ann]
=============================================================================
