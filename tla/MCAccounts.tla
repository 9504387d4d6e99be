------------------------------ MODULE MCAccounts ------------------------------
(* One user and three requests, interchangeable but for what they come to do.   *)
EXTENDS Accounts, TLC

Interchangeable == Permutations(Requests) \cup Permutations(Profiles)
===============================================================================
