---------------------------- MODULE MCThrottle ----------------------------
(* Three attempts from two addresses on one account, or on none. *)
EXTENDS Throttle, TLC

CONSTANTS r1, r2, r3, s1, s2

MCFrom == r1 :> s1 @@ r2 :> s1 @@ r3 :> s2

Interchangeable == Permutations({r1, r2})
=============================================================================
