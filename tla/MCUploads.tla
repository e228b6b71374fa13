----------------------------- MODULE MCUploads -----------------------------
(* Instances of Uploads for TLC: alice sends three forms, bob sends one. *)
EXTENDS Uploads, TLC

CONSTANTS r1, r2, r3, r4, alice, bob

SubmitterOf == [r \in Request |-> IF r = r4 THEN bob ELSE alice]

\* The requests of one user are interchangeable.
SameUser == Permutations({r1, r2, r3} \cap Request)
=============================================================================
