----------------------------- MODULE MCMembership -----------------------------
(* Two workspaces, a channel and a group; what two users come for.              *)
EXTENDS Membership, TLC

CONSTANTS w1, w2, ann, bob, r1, r2, r3

Make(op, place, who, set) == [op |-> op, place |-> place, who |-> who, sets |-> FALSE, flag |-> set]
Set(op, place, who, set)  == [op |-> op, place |-> place, who |-> who, sets |-> TRUE, flag |-> set]

ForOwner ==
  {Make("create", w2, {}, b) : b \in {None, TRUE}}
  \cup {Make("update", w1, {}, b) : b \in {None, TRUE, FALSE}}
  \cup {Make("update", w2, {}, TRUE)}
  \cup {Set("create", w1, {ann}, None), Set("update", w1, {bob}, TRUE),
        Set("updateChannel", Channel, {ann}, None)}
ForMembers ==
  {Make(op, p, {ann, bob}, None) : op \in {"add", "remove"}, p \in {w1, Channel}}
  \cup {Make("join", p, {ann}, None) : p \in {w1, Group}}
  \cup {Make(op, Group, {ann}, None) : op \in {"add", "remove", "leave"}}
  \cup {Make("joinChannel", w1, {ann}, None), Make("leave", Channel, {ann}, None)}
ToDo == ForOwner \cup ForMembers

Interchangeable == Permutations(Requests)
===============================================================================
