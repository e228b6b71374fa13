---------------------------- MODULE MCDeploy ----------------------------
(* A small installation through its updates, backups, restores and mishaps. *)
EXTENDS Deploy

CONSTANTS p1, p2

Quiet == [updates |-> 0, commands |-> 0, backups |-> 0, restores |-> 0, crashes |-> 0,
          fails |-> {}, edited |-> {}, photos |-> {}, oldtabs |-> FALSE]

\* Two updates with commands by hand and processes killed.
Updates == [Quiet EXCEPT !.updates = 2, !.commands = 2, !.crashes = 2, !.restores = 1]

\* The second migration throws; the third release edits the first migration.
Failing == [Quiet EXCEPT !.updates = 2, !.commands = 1, !.crashes = 1, !.fails = {2}]
Editing == [Quiet EXCEPT !.updates = 2, !.commands = 1, !.crashes = 1, !.edited = {<<3, 1>>}]

\* Photos come and go while backups are taken and restored.
Restores == [Quiet EXCEPT !.backups = 2, !.restores = 2, !.updates = 1, !.photos = {p1, p2}]

\* The same with a page left open; a backup is cut off.
OldPages == [Quiet EXCEPT !.backups = 2, !.restores = 1, !.crashes = 1, !.photos = {p1, p2},
                          !.oldtabs = TRUE]

ThePlans == {Updates, Failing, Editing, Restores, OldPages}

\* The server is killed once while an update is under way.
OneKill == {[Quiet EXCEPT !.updates = 1, !.crashes = 1]}
===========================================================================
