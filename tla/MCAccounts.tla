----------------------------- MODULE MCAccounts -----------------------------
(* Instances of Accounts for TLC: a few requests on two addresses. *)
EXTENDS Accounts, TLC

CONSTANTS r1, r2, r3, r4, alice, bob

\* Requests are interchangeable, and so are addresses.
Interchangeable == Permutations(Request) \cup Permutations(User)
=============================================================================
