----------------------------- MODULE MCAttachments -----------------------------
(* Two files of ann, named by two sends of hers and by one of bob.             *)
EXTENDS Attachments, TLC

CONSTANTS ann, bob, a1, a2, b1, p1, p2

Uploader == [f \in Files |-> ann]
Author == (a1 :> ann) @@ (a2 :> ann) @@ (b1 :> bob)
Served == (a1 :> p1) @@ (a2 :> p2) @@ (b1 :> p1)
================================================================================
