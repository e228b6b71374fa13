----------------------------- MODULE Deploy -----------------------------
(* The installation around the program: migrations (db/index.js), the       *)
(* service that systemd starts and restarts, update.sh, backup.sh with the  *)
(* restore it prints, and the commands of taco-cli.sh, which open the       *)
(* database beside the running service and migrate it first as well.        *)
(*                                                                          *)
(* Release r ships the migrations 1..r. The database is what its committed  *)
(* transactions make of it: which migrations it records, which of them its  *)
(* tables show, and the photos it has as held or as attached (Uploads has   *)
(* the steps of a submission; here they matter only against a backup). A    *)
(* process reads the shipped files and the recorded ones when it starts to  *)
(* migrate, and then takes one transaction for each migration not recorded. *)
EXTENDS Integers, Sequences

CONSTANTS
    Plans,    \* what happens: see PlanSet
    Photos,   \* the photos that may be uploaded
    NewestRelease,  \* the newest release there will be
    Burst,    \* StartLimitBurst: how often systemd starts a failing service
    KEEP      \* how many backups are kept

\* updates, commands, backups, restores, crashes: how many there may be;
\* fails: migrations that throw; edited: <<release, migration>> shipped altered;
\* oldtabs: whether pages are still sent that stood open when the photo they offer was
\* replaced or expired.
PlanSet == [updates : Nat, commands : Nat, backups : Nat, restores : Nat, crashes : Nat,
            fails : SUBSET (1..NewestRelease), photos : SUBSET Photos,
            edited : SUBSET ((1..NewestRelease) \X (1..NewestRelease)), oldtabs : BOOLEAN]

ASSUME PlansAssumption == Plans \subseteq PlanSet
ASSUME BoundsAssumption == NewestRelease \in Nat \ {0} /\ Burst \in Nat /\ KEEP \in Nat

VARIABLES
    plan,     \* what is still to happen
    release,  \* the release checked out
    db,       \* the database: [record, tables, held, attached]
    files,    \* the upload directory
    stored,   \* the photos uploaded so far: names are not given twice
    dropped,  \* the held photos replaced or expired: only an old tab offers them
    inhand,   \* the photos in the requests of the running server
    procs,    \* "server", "cli" (by hand), "update": [pc, release, recorded, next]
    unit,     \* systemd's view of the service: [want, starts]
    script,   \* where the operator's script is
    backup,   \* the backup being taken, or restored: [step, db, listing]
    backups   \* the backups kept, oldest first

vars == <<plan, release, db, files, stored, dropped, inhand, procs, unit, script, backup, backups>>
photos == <<files, stored, dropped, inhand>>

Down == [pc |-> "down", release |-> 0, recorded |-> <<>>, next |-> 0]
NoBackup == [step |-> 0, db |-> <<>>, listing |-> {}]
Serving == procs["server"].pc = "serving"
Processes == {"server", "cli", "update"}

\* The sha-256 of a migration as a release ships it.
Checksum(r, m) == IF <<r, m>> \in plan.edited THEN "edited" ELSE "shipped"

\* An installation of the first release, running.
Init ==
    /\ plan \in Plans
    /\ release = 1
    /\ db = [record |-> <<Checksum(1, 1)>>, tables |-> {1}, held |-> {}, attached |-> {}]
    /\ files = {} /\ stored = {} /\ dropped = {} /\ inhand = {}
    /\ procs = [server |-> [pc |-> "serving", release |-> 1, recorded |-> db.record, next |-> 2],
                cli |-> Down, update |-> Down]
    /\ unit = [want |-> TRUE, starts |-> 1]
    /\ script = "idle" /\ backup = NoBackup /\ backups = <<>>

---------------------------------------------------------------------------
(* migrate, in the server and in a command.                                 *)

\* openDatabase, and the two readings migrate begins with.
Started == [pc |-> "migrating", release |-> release, recorded |-> db.record, next |-> 1]

\* A failed transaction leaves the database as it was.
\* Mutant: the statements of a migration run outside a transaction.
RolledBack_StatementsStay(m) == [db EXCEPT !.tables = @ \cup {m}]

RolledBack(m) == db

\* The migration's statements and its row, together. Its CREATE TABLE throws
\* when another process has run it since the recorded ones were read.
Throws(m) == m \in plan.fails \/ m \in db.tables
Applied(m, sum) == [db EXCEPT !.tables = @ \cup {m}, !.record = Append(@, sum)]

Migrate(p) ==
    LET m == procs[p].next
        sum == Checksum(procs[p].release, m)
        known == m \in DOMAIN procs[p].recorded
    IN /\ procs[p].pc = "migrating"
       /\ m <= procs[p].release
       /\ \/ /\ known /\ procs[p].recorded[m] = sum
             /\ procs' = [procs EXCEPT ![p].next = m + 1]
             /\ UNCHANGED db
          \/ /\ known /\ procs[p].recorded[m] # sum
             /\ procs' = [procs EXCEPT ![p].pc = "failed"]
             /\ UNCHANGED db
          \/ /\ ~known /\ ~Throws(m)
             /\ db' = Applied(m, sum)
             /\ procs' = [procs EXCEPT ![p].next = m + 1]
          \/ /\ ~known /\ Throws(m)
             /\ db' = RolledBack(m)
             /\ procs' = [procs EXCEPT ![p].pc = "failed"]
       /\ UNCHANGED <<plan, release, photos, unit, script, backup, backups>>

\* All shipped migrations are there: the server serves, a command does its work.
Migrated(p) ==
    /\ procs[p].pc = "migrating" /\ procs[p].next > procs[p].release
    /\ procs' = [procs EXCEPT ![p].pc = IF p = "server" THEN "serving" ELSE "done"]
    /\ UNCHANGED <<plan, release, db, photos, unit, script, backup, backups>>

\* Mutant: the unit is not restarted when a start fails.
RestartOnFailure_Never == FALSE

\* Restart=on-failure, within the start limit.
RestartOnFailure == unit.want /\ procs["server"].pc = "failed" /\ unit.starts < Burst

Restart ==
    /\ RestartOnFailure
    /\ procs' = [procs EXCEPT !["server"] = Started]
    /\ unit' = [unit EXCEPT !.starts = @ + 1]
    /\ UNCHANGED <<plan, release, db, photos, script, backup, backups>>

\* The process is killed wherever it is.
Crash(p) ==
    /\ plan.crashes > 0 /\ procs[p].pc \in {"migrating", "serving"}
    /\ plan' = [plan EXCEPT !.crashes = @ - 1]
    /\ procs' = [procs EXCEPT ![p].pc = "failed"]
    /\ inhand' = IF p = "server" THEN {} ELSE inhand
    /\ UNCHANGED <<release, db, files, stored, dropped, unit, script, backup, backups>>

\* A command of taco-cli.sh, create-user say, by hand: at any time, only not
\* while the database file is being replaced.
Restoring == script \in {"restore", "unpack"}

Command ==
    /\ plan.commands > 0 /\ procs["cli"].pc = "down" /\ ~Restoring
    /\ plan' = [plan EXCEPT !.commands = @ - 1]
    /\ procs' = [procs EXCEPT !["cli"] = Started]
    /\ UNCHANGED <<release, db, photos, unit, script, backup, backups>>

CommandEnds ==
    /\ procs["cli"].pc \in {"done", "failed"}
    /\ procs' = [procs EXCEPT !["cli"] = Down]
    /\ UNCHANGED <<plan, release, db, photos, unit, script, backup, backups>>

---------------------------------------------------------------------------
(* What the running server does with photos.                                *)

ServerStep == Serving /\ UNCHANGED <<plan, release, procs, unit, script, backup, backups>>

Upload(ph) ==
    /\ ServerStep /\ ph \in plan.photos \ stored
    /\ stored' = stored \cup {ph} /\ files' = files \cup {ph} /\ inhand' = inhand \cup {ph}
    /\ UNCHANGED <<db, dropped>>

Hold(ph) ==
    /\ ServerStep /\ ph \in inhand
    /\ inhand' = inhand \ {ph}
    /\ db' = [db EXCEPT !.held = @ \cup {ph}]
    /\ UNCHANGED <<files, stored, dropped>>

\* What an old tab may still ask for: getPendingPhoto asks for the row, its user and
\* its date, and the row of a dropped photo is back after a restore.
OldTabs == IF plan.oldtabs THEN dropped ELSE {}

\* The photo of this request, or the held one its form offers.
Attach(ph) ==
    /\ ServerStep
    /\ ph \in inhand \cup (db.held \cap ((Photos \ dropped) \cup OldTabs))
    /\ inhand' = inhand \ {ph}
    /\ db' = [db EXCEPT !.held = @ \ {ph}, !.attached = @ \cup {ph}]
    /\ UNCHANGED <<files, stored, dropped>>

\* discardPendingPhoto and prunePendingPhotos.
Drop(ph) ==
    /\ ServerStep /\ ph \in db.held
    /\ db' = [db EXCEPT !.held = @ \ {ph}]
    /\ files' = files \ {ph} /\ dropped' = dropped \cup {ph}
    /\ UNCHANGED <<stored, inhand>>

---------------------------------------------------------------------------
(* backup.sh. The server keeps running.                                     *)

\* Mutant: the photos are archived before the database is copied.
BackupOrder_PhotosFirst == <<"photos", "database">>

BackupOrder == <<"database", "photos">>

\* One part is copied: the database at once, the directory by its listing.
BackupCopy ==
    /\ backup.step \in 1..2
    /\ backup' = IF BackupOrder[backup.step] = "database"
                 THEN [backup EXCEPT !.step = @ + 1, !.db = db]
                 ELSE [backup EXCEPT !.step = @ + 1, !.listing = files]
    /\ UNCHANGED <<plan, release, db, photos, procs, unit, script, backups>>

\* A backup, and the directory one leaves that did not get through, which counts
\* towards KEEP as well.
Complete(copy) == [whole |-> TRUE, db |-> copy.db, files |-> copy.listing]
Incomplete     == [whole |-> FALSE, db |-> <<>>, files |-> {}]

\* The oldest go once the new one is complete.
Newest(all) == IF KEEP > 0 /\ Len(all) > KEEP THEN SubSeq(all, Len(all) - KEEP + 1, Len(all)) ELSE all

BackupDone ==
    /\ backup.step = 3
    /\ backups' = Newest(Append(backups, Complete(backup)))
    /\ backup' = NoBackup
    /\ script' = IF script = "update" THEN "pull" ELSE "idle"
    /\ UNCHANGED <<plan, release, db, photos, procs, unit>>

\* tar fails on a directory that changed while it was read, a file that is gone among
\* the reasons, and any command may for want of space; the script ends there, and the
\* update with it.
BackupFails ==
    /\ \/ backup.step = 3 /\ backup.listing \notin {{}, files} /\ UNCHANGED plan
       \/ backup.step > 0 /\ plan.crashes > 0 /\ plan' = [plan EXCEPT !.crashes = @ - 1]
    /\ backups' = Append(backups, Incomplete)
    /\ backup' = NoBackup /\ script' = "idle"
    /\ UNCHANGED <<release, db, photos, procs, unit>>

Begin(what) ==
    /\ script = "idle" /\ plan[what] > 0
    /\ plan' = [plan EXCEPT ![what] = @ - 1]

Backup ==
    /\ Begin("backups")
    /\ script' = "backup" /\ backup' = [NoBackup EXCEPT !.step = 1]
    /\ UNCHANGED <<release, db, photos, procs, unit, backups>>

---------------------------------------------------------------------------
(* update.sh.                                                               *)

\* With the backup, or with --skip-backup.
Update ==
    /\ Begin("updates")
    /\ \/ script' = "update" /\ backup' = [NoBackup EXCEPT !.step = 1]
       \/ script' = "pull" /\ UNCHANGED backup
    /\ UNCHANGED <<release, db, photos, procs, unit, backups>>

Pull ==
    /\ script = "pull" /\ script' = "deps"
    /\ release' = IF release < NewestRelease THEN release + 1 ELSE release
    /\ UNCHANGED <<plan, db, photos, procs, unit, backup, backups>>

\* taco_install_dependencies and check-syntax.
DependenciesFail ==
    /\ script = "deps" /\ plan.crashes > 0
    /\ plan' = [plan EXCEPT !.crashes = @ - 1]
    /\ script' = "idle"
    /\ UNCHANGED <<release, db, photos, procs, unit, backup, backups>>

StopServer ==
    /\ procs' = [procs EXCEPT !["server"] = Down]
    /\ unit' = [want |-> FALSE, starts |-> 0]
    /\ inhand' = {}

Stop ==
    /\ script = "deps" /\ script' = "stopped" /\ StopServer
    /\ UNCHANGED <<plan, release, db, files, stored, dropped, backup, backups>>

\* taco-cli.sh migrate.
UpdateMigrates ==
    /\ script = "stopped"
    /\ script' = "migrate" /\ procs' = [procs EXCEPT !["update"] = Started]
    /\ UNCHANGED <<plan, release, db, photos, unit, backup, backups>>

UpdateMigrated ==
    /\ script = "migrate" /\ procs["update"].pc \in {"done", "failed"}
    /\ script' = IF procs["update"].pc = "done" THEN "start" ELSE "idle"
    /\ procs' = [procs EXCEPT !["update"] = Down]
    /\ UNCHANGED <<plan, release, db, photos, unit, backup, backups>>

\* systemctl start, by the script or after a restore.
Start ==
    /\ script = "start" /\ script' = "idle"
    /\ procs' = [procs EXCEPT !["server"] = Started]
    /\ unit' = [want |-> TRUE, starts |-> 1]
    /\ UNCHANGED <<plan, release, db, photos, backup, backups>>

---------------------------------------------------------------------------
(* The restore backup.sh prints, of a backup that it called complete.       *)

Whole == {i \in DOMAIN backups : backups[i].whole}

Restore ==
    /\ Whole # {} /\ procs["cli"].pc = "down" /\ Begin("restores")
    /\ script' = "restore" /\ StopServer
    /\ UNCHANGED <<release, db, files, stored, dropped, backup, backups>>

RestoreDatabase ==
    /\ script = "restore" /\ script' = "unpack"
    /\ \E i \in Whole :
          db' = backups[i].db /\ backup' = [NoBackup EXCEPT !.listing = backups[i].files]
    /\ UNCHANGED <<plan, release, photos, procs, unit, backups>>

\* tar -xzf adds the archive's files to what is there: the directory as it is,
\* or an empty one where the disk was lost or the backup went to a scratch copy.
RestorePhotos ==
    /\ script = "unpack" /\ script' = "start"
    /\ \E there \in {files, {}} : files' = there \cup backup.listing
    /\ backup' = NoBackup
    /\ UNCHANGED <<plan, release, db, stored, dropped, inhand, procs, unit, backups>>

Next ==
    \/ \E p \in Processes : Migrate(p) \/ Migrated(p) \/ Crash(p)
    \/ Restart \/ Command \/ CommandEnds
    \/ \E ph \in Photos : Upload(ph) \/ Hold(ph) \/ Attach(ph) \/ Drop(ph)
    \/ Backup \/ BackupCopy \/ BackupDone \/ BackupFails
    \/ Update \/ Pull \/ DependenciesFail \/ Stop \/ UpdateMigrates \/ UpdateMigrated \/ Start
    \/ Restore \/ RestoreDatabase \/ RestorePhotos

\* A process that migrates goes on, systemd restarts, a script that has begun
\* takes its next step. Nothing is assumed of users and operators.
Fairness ==
    /\ \A p \in Processes : WF_vars(Migrate(p)) /\ WF_vars(Migrated(p))
    /\ WF_vars(Restart) /\ WF_vars(CommandEnds)
    /\ WF_vars(BackupCopy) /\ WF_vars(BackupDone)
    /\ WF_vars(Pull) /\ WF_vars(Stop) /\ WF_vars(UpdateMigrates) /\ WF_vars(UpdateMigrated)
    /\ WF_vars(Start) /\ WF_vars(RestoreDatabase) /\ WF_vars(RestorePhotos)

Spec == Init /\ [][Next]_vars /\ Fairness

---------------------------------------------------------------------------
(* Properties.                                                              *)

\* Every migration is recorded exactly when its tables are there and none has
\* run out of order, wherever a process was killed, however many migrated at
\* once and whatever threw; and a server only serves when everything its
\* release ships is there as it ships it, also after a restore of an older
\* database (db/index.js:111-172, index.js:48-52). docs/backlog.md:88-91 says of
\* that restore that without a migrate "the app starts against a database with
\* no such table": the server migrates first, and does not.
ServesItsSchema ==
    /\ db.tables = 1..Len(db.record)
    /\ Serving => \A m \in 1..procs["server"].release :
          m \in DOMAIN db.record /\ db.record[m] = Checksum(procs["server"].release, m)

\* Whichever backup is restored, taken while the server stored, attached and
\* discarded photos, every attached photo of the database has its file, on the
\* machine it came from or on an empty one (backup.sh:67-91, 129-138). Only a
\* photo that had been dropped may be without: its row comes back with a
\* restore, its file need not, and an old tab can have it attached then.
PhotosSurvive == script \in {"idle", "start"} => db.attached \ OldTabs \subseteq files

\* Where every shipped migration works, a service that is wanted is serving
\* again, though its start may throw because a command migrates beside it and
\* it may be killed half way; and a script that has stopped it brings it back,
\* where no command migrates beside the update and nothing is killed any more
\* (taco-analyzer.service:56-58, 83-84, update.sh:105-118, backup.sh:130-135).
Flawless == plan.fails = {} /\ plan.edited = {}
Undisturbed == plan.commands = 0 /\ plan.crashes = 0 /\ procs["cli"].pc = "down"
Interrupted == Restoring \/ script = "stopped" \/ script = "start"
ServiceComesBack ==
    /\ (Flawless /\ unit.want) ~> (Serving \/ ~unit.want)
    /\ (Flawless /\ Undisturbed /\ Interrupted) ~> Serving

\* taco-analyzer.service:79-80 says: "Database migrations are NOT run here on
\* purpose. Two units racing to migrate during a restart storm is worse than a
\* stale schema." So it is never the server that migrates; docs/backlog.md:88-91
\* takes the same for granted after a restore.
ServiceDoesNotMigrate == [][db'.record # db.record => procs'["server"] = procs["server"]]_vars
===========================================================================
