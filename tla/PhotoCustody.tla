---------------------------- MODULE PhotoCustody ----------------------------
(***************************************************************************)
(* What the upload machinery promises about one stored photo, whatever     *)
(* requests, sweeps and tables are involved.  A photo is                   *)
(*   absent    its file has not reached the upload directory              *)
(*   loose     the file exists and no table names it                       *)
(*   held      a pending_photos row owns the file, a photos row does not   *)
(*   attached  a photos row owns the file                                  *)
(*   gone      the file has left the upload directory for good             *)
(* The promise: attached is for ever, a name never comes back, and a photo *)
(* is neither loose nor held for ever.                                     *)
(***************************************************************************)
CONSTANT Photo

VARIABLE custody

States == {"absent", "loose", "held", "attached", "gone"}

TypeOK == custody \in [Photo -> States]

Init == custody = [p \in Photo |-> "absent"]

Move(p, from, to) ==
    /\ custody[p] \in from
    /\ custody' = [custody EXCEPT ![p] = to]

\* The upload is refused, or its file reaches the upload directory.
Refuse(p) == Move(p, {"absent"}, "gone")
Accept(p) == Move(p, {"absent"}, "loose")

\* A loose or held photo finds an owner, or its file is removed.  A held photo
\* is loose for the instant between the removal of its row and of its file.
Hold(p)    == Move(p, {"loose"}, "held")
Attach(p)  == Move(p, {"loose", "held"}, "attached")
Release(p) == Move(p, {"held"}, "loose")
Remove(p)  == Move(p, {"loose", "held"}, "gone")

Settle(p) == Hold(p) \/ Attach(p) \/ Remove(p)
Leave(p)  == Attach(p) \/ Release(p) \/ Remove(p)

Next == \E p \in Photo : Refuse(p) \/ Accept(p) \/ Settle(p) \/ Leave(p)

Safety == Init /\ [][Next]_custody

Spec ==
    /\ Safety
    /\ \A p \in Photo :
        /\ WF_custody(custody[p] = "loose" /\ Settle(p))
        /\ WF_custody(custody[p] = "held" /\ Leave(p))
=============================================================================
