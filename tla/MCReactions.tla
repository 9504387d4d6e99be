------------------------------ MODULE MCReactions ------------------------------
(* ann wrote the message; bob reacts from two devices, served by two processes. *)
EXTENDS Reactions, TLC

CONSTANTS ann, bob, a1, b1, b2, p1, p2, like

Devices == (a1 :> ann) @@ (b1 :> bob) @@ (b2 :> bob)
Placed == (a1 :> p1) @@ (b1 :> p1) @@ (b2 :> p2)
================================================================================
