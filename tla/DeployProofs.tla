-------------------------- MODULE DeployProofs --------------------------
(* Proofs about Deploy: no release serves without its schema, and attached  *)
(* photos survive a restore, for every plan, set of photos and bound.       *)
EXTENDS Deploy, TLAPS

Pcs == {"down", "migrating", "serving", "done", "failed"}
Sums == {"shipped", "edited"}
Scripts == {"idle", "backup", "update", "pull", "deps", "stopped", "migrate", "start",
            "restore", "unpack"}

DbSet == [record : Seq(Sums), tables : SUBSET Nat, held : SUBSET Photos, attached : SUBSET Photos]
Process == [pc : Pcs, release : Nat, recorded : Seq(Sums), next : Nat]
SomeDb == DbSet \cup {<<>>}
Taken == [step : 0..3, db : SomeDb, listing : SUBSET Photos]
WholeSet == [whole : {TRUE}, db : DbSet, files : SUBSET Photos]
BackupSet == WholeSet \cup {Incomplete}

Types ==
    /\ plan \in PlanSet
    /\ release \in Nat
    /\ db \in DbSet
    /\ files \in SUBSET Photos /\ stored \in SUBSET Photos
    /\ dropped \in SUBSET Photos /\ inhand \in SUBSET Photos
    /\ procs \in [Processes -> Process]
    /\ unit \in [want : BOOLEAN, starts : Nat]
    /\ script \in Scripts
    /\ backup \in Taken
    /\ backup.step \in {2, 3} => backup.db \in DbSet
    /\ backups \in Seq(BackupSet)

---------------------------------------------------------------------------
(* Types.                                                                   *)

LEMMA DownIsProcess == Down \in Process
BY DEF Down, Process, Pcs

\* A process starts with what it reads then.
LEMMA StartedIsProcess == Types => Started \in Process
BY DEF Types, Started, Process, DbSet, Pcs

\* One of what is still to happen has happened.
Spent(f) == [plan EXCEPT ![f] = @ - 1]
Budgets == {"updates", "commands", "backups", "restores", "crashes"}

LEMMA SpentIsPlan ==
    ASSUME plan \in PlanSet, NEW f \in Budgets, plan[f] > 0
    PROVE  /\ Spent(f) \in PlanSet
           /\ Spent(f).edited = plan.edited /\ Spent(f).oldtabs = plan.oldtabs
<1> DEFINE F == SUBSET (1..NewestRelease)
           P == SUBSET Photos
           E == SUBSET ((1..NewestRelease) \X (1..NewestRelease))
           S == [updates : Nat, commands : Nat, backups : Nat, restores : Nat, crashes : Nat,
                 fails : F, photos : P, edited : E, oldtabs : BOOLEAN]
<1>1. plan \in S
  BY Zenon DEF PlanSet
<1>2. \A x : x \in S => x \in PlanSet
  BY Zenon DEF PlanSet
<1> HIDE DEF F, P, E
<1>3. Spent(f) \in S /\ Spent(f).edited = plan.edited /\ Spent(f).oldtabs = plan.oldtabs
  BY <1>1 DEF Spent, Budgets
<1> QED
  BY <1>2, <1>3

\* No backup is of the type of backups.
LEMMA NoBackupIsTyped == NoBackup \in Taken /\ NoBackup.step = 0 /\ NoBackup.listing = {}
<1>1. <<>> \in SomeDb
  BY DEF SomeDb
<1> QED
  BY <1>1 DEF NoBackup, Taken

\* A backup called complete has a database and a directory.
LEMMA BackupsTyped ==
    /\ Incomplete \in BackupSet /\ Incomplete.whole = FALSE
    /\ \A b \in BackupSet : b.whole => b.db \in DbSet /\ b.files \in SUBSET Photos
    /\ \A c : c.db \in DbSet /\ c.listing \in SUBSET Photos =>
          Complete(c) \in BackupSet /\ Complete(c).db = c.db /\ Complete(c).files = c.listing
<1>1. Incomplete \in BackupSet /\ Incomplete.whole = FALSE
  BY DEF BackupSet, Incomplete
<1>2. \A b \in BackupSet : b.whole => b.db \in DbSet /\ b.files \in SUBSET Photos
  BY <1>1 DEF BackupSet, WholeSet
<1>3. ASSUME NEW c, c.db \in DbSet, c.listing \in SUBSET Photos
      PROVE  Complete(c) \in BackupSet /\ Complete(c).db = c.db /\ Complete(c).files = c.listing
  BY <1>3 DEF BackupSet, WholeSet, Complete
<1> QED
  BY <1>1, <1>2, <1>3

\* A database can be the one in a backup.
LEMMA DatabaseIsSome == \A d \in DbSet : d \in SomeDb
BY DEF SomeDb

\* What is kept of a row of backups is among them.
LEMMA NewestIsAmong ==
    ASSUME NEW S, NEW all \in Seq(S)
    PROVE  /\ Newest(all) \in Seq(S)
           /\ \A i \in DOMAIN Newest(all) : \E j \in DOMAIN all : Newest(all)[i] = all[j]
<1> KEEP \in Nat
  BY BoundsAssumption
<1>1. CASE KEEP > 0 /\ Len(all) > KEEP
  <2> DEFINE n == Len(all)  rest == SubSeq(all, n - KEEP + 1, n)
  <2>1. Newest(all) = rest
    BY <1>1 DEF Newest
  <2>2. n \in Nat /\ n - KEEP + 1 \in 1..n
    BY <1>1
  <2>3. rest \in Seq(S) /\ Len(rest) = KEEP
    BY <2>2, <1>1
  <2>4. \A i \in 1..KEEP : rest[i] = all[i + n - KEEP] /\ i + n - KEEP \in 1..n
    BY <2>2, <1>1
  <2>5. DOMAIN rest = 1..KEEP /\ DOMAIN all = 1..n
    BY <2>3
  <2> HIDE DEF n, rest
  <2> QED
    BY <2>1, <2>3, <2>4, <2>5
<1>2. CASE ~(KEEP > 0 /\ Len(all) > KEEP)
  BY <1>2 DEF Newest
<1> QED
  BY <1>1, <1>2

LEMMA InitTypes == Init => Types
<1> SUFFICES ASSUME Init PROVE Types
  OBVIOUS
<1>1. plan \in PlanSet /\ release \in Nat
  BY PlansAssumption DEF Init
<1>2. db \in DbSet
  <2>1. Checksum(1, 1) \in Sums
    BY DEF Checksum, Sums
  <2> QED
    BY <2>1 DEF Init, DbSet
<1>3. procs \in [Processes -> Process]
  <2>1. /\ procs["server"] \in Process
        /\ procs["cli"] \in Process /\ procs["update"] \in Process
    BY <1>2, DownIsProcess DEF Init, Process, Pcs, DbSet
  <2>2. procs = [p \in Processes |-> procs[p]]
    BY DEF Init, Processes
  <2> QED
    BY <2>1, <2>2 DEF Processes
<1>4. /\ unit \in [want : BOOLEAN, starts : Nat] /\ script \in Scripts
      /\ backup \in Taken
      /\ backup.step \notin {2, 3}
  BY NoBackupIsTyped DEF Init, Scripts
<1>5. /\ files \in SUBSET Photos /\ stored \in SUBSET Photos
      /\ dropped \in SUBSET Photos /\ inhand \in SUBSET Photos
      /\ backups \in Seq(BackupSet)
  BY DEF Init
<1> QED
  BY <1>1, <1>2, <1>3, <1>4, <1>5 DEF Types

\* Migrations and processes keep the types.
LEMMA ProcessTypes ==
    ASSUME Types,
           \/ \E p \in Processes : Migrate(p) \/ Migrated(p) \/ Crash(p)
           \/ Restart \/ Command \/ CommandEnds
    PROVE  Types'
<1>1. ASSUME NEW p \in Processes, Migrate(p) PROVE Types'
  <2> DEFINE m == procs[p].next
             sum == Checksum(procs[p].release, m)
  <2>1. procs[p] \in Process /\ m \in Nat /\ sum \in Sums
    BY <1>1 DEF Types, Process, Checksum, Sums
  <2>2. db' \in DbSet
    <3>1. Applied(m, sum) \in DbSet
      <4>1. /\ db.tables \cup {m} \in SUBSET Nat
            /\ Append(db.record, sum) \in Seq(Sums)
        BY <2>1 DEF Types, DbSet
      <4> QED
        BY <4>1 DEF Types, DbSet, Applied
    <3> QED
      BY <1>1, <3>1 DEF Migrate, RolledBack, Types
  <2>3. procs' \in [Processes -> Process]
    <3>1. /\ [procs[p] EXCEPT !.next = m + 1] \in Process
          /\ [procs[p] EXCEPT !.pc = "failed"] \in Process
      BY <2>1 DEF Process, Pcs
    <3>2. \/ procs' = [procs EXCEPT ![p] = [procs[p] EXCEPT !.next = m + 1]]
          \/ procs' = [procs EXCEPT ![p] = [procs[p] EXCEPT !.pc = "failed"]]
      BY <1>1 DEF Migrate
    <3> QED
      BY <3>1, <3>2 DEF Types
  <2> QED
    BY <1>1, <2>2, <2>3 DEF Types, Migrate, photos
<1>2. ASSUME NEW p \in Processes, Migrated(p) PROVE Types'
  BY <1>2 DEF Types, Migrated, Process, Pcs, photos
<1>3. ASSUME NEW p \in Processes, Crash(p) PROVE Types'
  <2>1. plan' \in PlanSet
    BY <1>3, SpentIsPlan DEF Types, Crash, Budgets, Spent
  <2>2. procs' \in [Processes -> Process]
    BY <1>3 DEF Types, Crash, Process, Pcs
  <2> QED
    BY <1>3, <2>1, <2>2 DEF Types, Crash
<1>4. CASE Restart
  BY <1>4, StartedIsProcess DEF Types, Restart, Processes, photos
<1>5. CASE Command
  <2>1. plan' \in PlanSet
    BY <1>5, SpentIsPlan DEF Types, Command, Budgets, Spent
  <2> QED
    BY <1>5, <2>1, StartedIsProcess DEF Types, Command, Processes, photos
<1>6. CASE CommandEnds
  BY <1>6, DownIsProcess DEF Types, CommandEnds, Processes, photos
<1> QED
  BY <1>1, <1>2, <1>3, <1>4, <1>5, <1>6

\* What the server does with photos keeps the types.
LEMMA PhotoTypes ==
    ASSUME Types, NEW ph \in Photos, Upload(ph) \/ Hold(ph) \/ Attach(ph) \/ Drop(ph)
    PROVE  Types'
<1>1. CASE Upload(ph)
  BY <1>1 DEF Types, Upload, ServerStep
<1>2. CASE Hold(ph)
  BY <1>2 DEF Types, Hold, ServerStep, DbSet
<1>3. CASE Attach(ph)
  BY <1>3 DEF Types, Attach, ServerStep, DbSet
<1>4. CASE Drop(ph)
  BY <1>4 DEF Types, Drop, ServerStep, DbSet
<1> QED
  BY <1>1, <1>2, <1>3, <1>4

\* Backups keep the types.
LEMMA BackupTypes ==
    ASSUME Types, Backup \/ BackupCopy \/ BackupDone \/ BackupFails
    PROVE  Types'
<1>1. CASE Backup
  <2>1. plan' \in PlanSet
    BY <1>1, SpentIsPlan DEF Types, Backup, Begin, Budgets, Spent
  <2>2. /\ backup' \in Taken
        /\ backup'.step = 1
    BY <1>1, NoBackupIsTyped DEF Backup, Taken
  <2> QED
    BY <1>1, <2>1, <2>2 DEF Types, Scripts, Backup, Begin, photos
<1>2. CASE BackupCopy
  <2>1. backup.step \in {1, 2} /\ backup \in Taken /\ db \in DbSet /\ files \in SUBSET Photos
    BY <1>2 DEF Types, BackupCopy, Taken
  <2>2. CASE backup.step = 1
    <3>0. PICK n \in 0..3 : n = 2
      OBVIOUS
    <3>1. backup' = [backup EXCEPT !.step = n, !.db = db]
      BY <1>2, <2>2, <3>0 DEF BackupCopy, BackupOrder
    <3>2. backup' \in Taken /\ backup'.db \in DbSet
      <4>1. db \in SomeDb
        BY <2>1, DatabaseIsSome
      <4>2. backup' \in Taken
        BY <3>1, <2>1, <4>1 DEF Taken
      <4>3. backup'.db = db
        BY <3>1, <2>1 DEF Taken
      <4> QED
        BY <2>1, <4>2, <4>3
    <3> QED
      BY <1>2, <3>2 DEF Types, BackupCopy, photos
  <2>3. CASE backup.step = 2
    <3>0. PICK n \in 0..3 : n = 3
      OBVIOUS
    <3>1. backup' = [backup EXCEPT !.step = n, !.listing = files]
      BY <1>2, <2>3, <3>0 DEF BackupCopy, BackupOrder
    <3>2. backup.db \in DbSet
      BY <2>3 DEF Types
    <3>3. backup' \in Taken /\ backup'.db = backup.db
      <4>1. backup' \in Taken
        BY <3>1, <2>1 DEF Taken
      <4>2. backup'.db = backup.db
        BY <3>1, <2>1 DEF Taken
      <4> QED
        BY <4>1, <4>2
    <3> QED
      BY <1>2, <3>2, <3>3 DEF Types, BackupCopy, photos
  <2> QED
    BY <2>1, <2>2, <2>3
<1>3. CASE BackupDone
  <2> DEFINE new == Complete(backup)
  <2>1. new \in BackupSet
    BY <1>3, BackupsTyped DEF Types, BackupDone, Taken
  <2> HIDE DEF new
  <2>2. Newest(Append(backups, new)) \in Seq(BackupSet)
    <3>1. Append(backups, new) \in Seq(BackupSet)
      BY <2>1 DEF Types
    <3> QED
      BY <3>1, NewestIsAmong
  <2> QED
    BY <1>3, <2>2, NoBackupIsTyped DEF Types, Scripts, BackupDone, photos, new
<1>4. CASE BackupFails
  <2>1. plan' \in PlanSet
    BY <1>4, SpentIsPlan DEF Types, BackupFails, Budgets, Spent
  <2>2. backups' \in Seq(BackupSet)
    BY <1>4, BackupsTyped DEF Types, BackupFails
  <2> QED
    BY <1>4, <2>1, <2>2, NoBackupIsTyped DEF Types, Scripts, BackupFails, photos
<1> QED
  BY <1>1, <1>2, <1>3, <1>4

\* Updates keep the types.
LEMMA UpdateTypes ==
    ASSUME Types, Update \/ Pull \/ DependenciesFail \/ Stop \/ UpdateMigrates \/ UpdateMigrated \/ Start
    PROVE  Types'
<1>1. CASE Update
  <2>1. plan' \in PlanSet
    BY <1>1, SpentIsPlan DEF Types, Update, Begin, Budgets, Spent
  <2>2. backup' = backup \/
           /\ backup' \in Taken
           /\ backup'.step = 1
    BY <1>1, NoBackupIsTyped DEF Update, Taken
  <2> QED
    BY <1>1, <2>1, <2>2 DEF Types, Scripts, Update, Begin, photos
<1>2. CASE Pull
  BY <1>2 DEF Types, Scripts, Pull, photos
<1>3. CASE DependenciesFail
  <2>1. plan' \in PlanSet
    BY <1>3, SpentIsPlan DEF Types, DependenciesFail, Budgets, Spent
  <2> QED
    BY <1>3, <2>1 DEF Types, Scripts, DependenciesFail, photos
<1>4. CASE Stop
  BY <1>4, DownIsProcess DEF Types, Scripts, Stop, StopServer, Processes
<1>5. CASE UpdateMigrates
  BY <1>5, StartedIsProcess DEF Types, Scripts, UpdateMigrates, Processes, photos
<1>6. CASE UpdateMigrated
  BY <1>6, DownIsProcess DEF Types, Scripts, UpdateMigrated, Processes, photos
<1>7. CASE Start
  BY <1>7, StartedIsProcess DEF Types, Scripts, Start, Processes, photos
<1> QED
  BY <1>1, <1>2, <1>3, <1>4, <1>5, <1>6, <1>7

\* Restores keep the types.
LEMMA RestoreTypes ==
    ASSUME Types, Restore \/ RestoreDatabase \/ RestorePhotos
    PROVE  Types'
<1>1. CASE Restore
  <2>1. plan' \in PlanSet
    BY <1>1, SpentIsPlan DEF Types, Restore, Begin, Budgets, Spent
  <2> QED
    BY <1>1, <2>1, DownIsProcess DEF Types, Scripts, Restore, Begin, StopServer, Processes
<1>2. CASE RestoreDatabase
  <2>1. PICK i \in Whole :
            db' = backups[i].db /\ backup' = [NoBackup EXCEPT !.listing = backups[i].files]
    BY <1>2 DEF RestoreDatabase
  <2>2. backups[i] \in BackupSet /\ backups[i].whole
    BY <2>1 DEF Types, Whole
  <2>3. /\ db' \in DbSet
        /\ backup' \in Taken
        /\ backup'.step = 0
    BY <2>1, <2>2, NoBackupIsTyped, BackupsTyped DEF Taken
  <2> QED
    BY <1>2, <2>3 DEF Types, Scripts, RestoreDatabase, photos
<1>3. CASE RestorePhotos
  <2>1. files' \in SUBSET Photos
    BY <1>3 DEF Types, RestorePhotos, Taken
  <2> QED
    BY <1>3, <2>1, NoBackupIsTyped DEF Types, Scripts, RestorePhotos
<1> QED
  BY <1>1, <1>2, <1>3

\* Every step keeps the types.
LEMMA NextTypes == Types /\ [Next]_vars => Types'
<1> SUFFICES ASSUME Types, [Next]_vars PROVE Types'
  OBVIOUS
<1>1. CASE UNCHANGED vars
  BY <1>1 DEF Types, vars
<1>2. CASE Next
  BY <1>2, ProcessTypes, PhotoTypes, BackupTypes, UpdateTypes, RestoreTypes DEF Next
<1> QED
  BY <1>1, <1>2

---------------------------------------------------------------------------
(* The schema. The record of a database only grows, in the order of the     *)
(* releases, and a process that migrates has seen to all before its next.   *)

Sound(d) == d.tables = 1..Len(d.record)

\* What release r ships as migration m, when e is shipped altered.
Ships(e, r, m) == IF <<r, m>> \in e THEN "edited" ELSE "shipped"

\* The record has migration m as release r ships it.
Has(rec, e, r, m) == m \in DOMAIN rec /\ rec[m] = Ships(e, r, m)

Schema ==
    /\ Sound(db)
    /\ backup.step \in {2, 3} => Sound(backup.db)
    /\ \A i \in Whole : Sound(backups[i].db)

\* How far process q is, against a record.
OnItsWay(q, rec, e) ==
    /\ q.next >= 1
    /\ \A m \in DOMAIN q.recorded : m \in DOMAIN rec /\ rec[m] = q.recorded[m]
    /\ \A m \in 1..(q.next - 1) : Has(rec, e, q.release, m)
Provided(q, rec, e) == \A m \in 1..q.release : Has(rec, e, q.release, m)
Good(q, rec, e) ==
    /\ q.pc = "migrating" => OnItsWay(q, rec, e)
    /\ q.pc = "serving" => Provided(q, rec, e)

Progress == \A p \in Processes : Good(procs[p], db.record, plan.edited)

\* While a backup is put back, nothing has the database open; the update only
\* migrates in its turn, and a backup is only taken by a script that does so.
Standing ==
    /\ Restoring => ~unit.want /\ \A p \in Processes : procs[p].pc \notin {"migrating", "serving"}
    /\ script # "migrate" => procs["update"].pc = "down"
    /\ backup.step # 0 => script \in {"backup", "update"}

LEMMA InitSchema == Init => Schema /\ Progress /\ Standing
<1> SUFFICES ASSUME Init PROVE Schema /\ Progress /\ Standing
  OBVIOUS
<1>1. Schema
  BY DEF Init, Schema, Sound, NoBackup, Whole
<1>2. Progress
  BY DEF Init, Progress, Good, Provided, Has, Ships, Checksum, Processes, Down
<1>3. Standing
  BY DEF Init, Standing, Restoring, Down, NoBackup
<1> QED
  BY <1>1, <1>2, <1>3

LEMMA ChecksumIsShipped ==
    ASSUME NEW r, NEW m
    PROVE  Checksum(r, m) = Ships(plan.edited, r, m) /\ Checksum(r, m) \in Sums
BY DEF Checksum, Ships, Sums

\* Where the record and what the releases ship stay as they are, a process that
\* stays, stops or starts is as far as it should be.
LEMMA ProgressKept ==
    ASSUME Types, Progress, plan'.edited = plan.edited, db'.record = db.record,
           \A p \in Processes : \/ procs'[p] = procs[p] \/ procs'[p] = Started
                                 \/ procs'[p].pc \in {"down", "failed", "done"}
    PROVE  Progress'
<1>1. Good(Started, db.record, plan.edited)
  <2>1. /\ Started.pc = "migrating" /\ Started.next = 1 /\ Started.recorded = db.record
    BY DEF Started
  <2> QED
    BY <2>1 DEF Good, OnItsWay
<1>2. ASSUME NEW p \in Processes
      PROVE  Good(procs'[p], db.record, plan.edited)
  <2>1. CASE procs'[p].pc \in {"down", "failed", "done"}
    BY <2>1 DEF Good
  <2> QED
    BY <1>1, <2>1 DEF Progress
<1> QED
  BY <1>2 DEF Progress

\* A migration that runs is the next one of the record.
LEMMA MigrateAppends ==
    ASSUME Types, Sound(db), Progress, NEW p \in Processes, Migrate(p), db' # db,
           NEW m, m = procs[p].next, NEW sum, sum = Ships(plan.edited, procs[p].release, m)
    PROVE  /\ m = Len(db.record) + 1
           /\ db'.record = Append(db.record, sum)
           /\ db'.tables = db.tables \cup {m}
<1>1. /\ db' = Applied(m, sum) /\ ~Throws(m) /\ procs[p].pc = "migrating"
  BY ChecksumIsShipped DEF Migrate, RolledBack
<1>2. procs[p] \in Process /\ m \in Nat /\ db.record \in Seq(Sums)
  BY DEF Types, Process, DbSet
<1>3. OnItsWay(procs[p], db.record, plan.edited)
  BY <1>1 DEF Progress, Good
<1>4. m \notin 1..Len(db.record)
  BY <1>1 DEF Throws, Sound
<1>5. m > 1 => m - 1 \in DOMAIN db.record
  BY <1>2, <1>3 DEF OnItsWay, Has
<1>6. m = Len(db.record) + 1
  BY <1>2, <1>3, <1>4, <1>5 DEF OnItsWay
<1>7. db'.record = Append(db.record, sum) /\ db'.tables = db.tables \cup {m}
  BY <1>1 DEF Applied, Types, DbSet
<1> QED
  BY <1>6, <1>7

\* A migration leaves the database sound, and what was recorded before.
LEMMA MigrateKeeps ==
    ASSUME Types, Sound(db), Progress, NEW p \in Processes, Migrate(p)
    PROVE  /\ Sound(db')
           /\ \A m \in DOMAIN db.record : m \in DOMAIN db'.record /\ db'.record[m] = db.record[m]
<1>1. CASE db' = db
  BY <1>1
<1>2. CASE db' # db
  <2>1. PICK sum \in Sums : sum = Ships(plan.edited, procs[p].release, procs[p].next)
    BY DEF Ships, Sums
  <2>2. PICK n : n = Len(db.record)
    OBVIOUS
  <2>3. db.record \in Seq(Sums) /\ n \in Nat
    BY <2>2 DEF Types, DbSet
  <2>4. db'.record = Append(db.record, sum) /\ db'.tables = db.tables \cup {n + 1}
    BY <1>2, <2>1, <2>2, MigrateAppends
  <2>5. /\ Len(db'.record) = n + 1
        /\ \A m \in 1..n : db'.record[m] = db.record[m]
        /\ DOMAIN db'.record = 1..(n + 1) /\ DOMAIN db.record = 1..n
    BY <2>2, <2>3, <2>4
  <2>6. db.tables = 1..n
    BY <2>2 DEF Sound
  <2>7. (1..n) \cup {n + 1} = 1..(n + 1) /\ \A m \in 1..n : m \in 1..(n + 1)
    BY <2>3
  <2> QED
    BY <2>4, <2>5, <2>6, <2>7 DEF Sound
<1> QED
  BY <1>1, <1>2

LEMMA MigrateProgress ==
    ASSUME Types, Sound(db), Progress, NEW p \in Processes, Migrate(p)
    PROVE  Progress'
<1>1. PICK rec, e : rec = db'.record /\ e = plan.edited
  OBVIOUS
<1>2. plan' = plan
  BY DEF Migrate
<1>3. \A s, k : Has(db.record, e, s, k) => Has(rec, e, s, k)
  BY <1>1, MigrateKeeps DEF Has
<1>4. ASSUME NEW q \in Processes, Good(procs[q], db.record, e) PROVE Good(procs[q], rec, e)
  BY <1>1, <1>3, <1>4, MigrateKeeps DEF Good, OnItsWay, Provided
<1>5. \A q \in Processes : q # p => procs'[q] = procs[q]
  BY DEF Migrate, Types
<1>6. PICK m, r : m = procs[p].next /\ r = procs[p].release
  OBVIOUS
<1>7. procs[p].pc = "migrating" /\ procs[p] \in Process /\ m \in Nat
  BY <1>6 DEF Migrate, Types, Process
<1>8. Good(procs'[p], rec, e)
  <2>1. CASE procs'[p].pc = "failed"
    BY <2>1 DEF Good
  <2>2. CASE procs'[p].pc # "failed"
    <3>1. procs' = [procs EXCEPT ![p].next = m + 1]
      <4>1. procs' # [procs EXCEPT ![p].pc = "failed"]
        BY <2>2 DEF Types, Process
      <4> QED
        BY <1>6, <1>7, <4>1 DEF Migrate
    <3>2. procs'[p] = [procs[p] EXCEPT !.next = m + 1]
      BY <3>1 DEF Types
    <3>3. /\ procs'[p].next = m + 1 /\ procs'[p].release = r
          /\ procs'[p].recorded = procs[p].recorded /\ procs'[p].pc = "migrating"
      BY <3>2, <1>6, <1>7 DEF Process
    <3>4. PICK sum \in Sums : sum = Ships(e, r, m)
      BY DEF Ships, Sums
    <3>5. db.record \in Seq(Sums)
      BY DEF Types, DbSet
    <3>6. Has(rec, e, r, m)
      <4>1. CASE db' # db
        <5>1. m = Len(db.record) + 1 /\ rec = Append(db.record, sum)
          BY <1>1, <1>6, <3>4, <4>1, MigrateAppends
        <5> QED
          BY <3>4, <3>5, <5>1 DEF Has
      <4>2. CASE db' = db
        <5>1. Applied(m, sum) # db
          <6>1. Len(Append(db.record, sum)) # Len(db.record)
            BY <3>5
          <6>2. Applied(m, sum).record = Append(db.record, sum)
            BY DEF Applied, Types, DbSet
          <6> QED
            BY <6>1, <6>2
        <5>2. Checksum(r, m) = sum
          BY <1>1, <3>4, ChecksumIsShipped
        <5>3. m \in DOMAIN procs[p].recorded /\ procs[p].recorded[m] = sum
          <6>1. procs' # [procs EXCEPT ![p].pc = "failed"]
            BY <2>2 DEF Types, Process
          <6> QED
            BY <1>6, <1>7, <4>2, <5>1, <5>2, <6>1 DEF Migrate
        <5> QED
          BY <1>1, <1>4, <1>7, <3>4, <5>3 DEF Progress, Good, OnItsWay, Has
      <4> QED
        BY <4>1, <4>2
    <3>7. OnItsWay(procs[p], rec, e)
      BY <1>1, <1>4, <1>7 DEF Progress, Good
    <3>8. \A k \in 1..m : Has(rec, e, r, k)
      <4>1. \A k \in 1..m : k = m \/ k \in 1..(m - 1)
        BY <1>7
      <4> QED
        BY <4>1, <1>6, <3>6, <3>7 DEF OnItsWay
    <3>9. OnItsWay(procs'[p], rec, e)
      BY <1>7, <3>3, <3>7, <3>8 DEF OnItsWay
    <3> QED
      BY <3>3, <3>9 DEF Good
  <2> QED
    BY <2>1, <2>2
<1>9. ASSUME NEW q \in Processes PROVE Good(procs'[q], rec, e)
  BY <1>1, <1>4, <1>5, <1>8 DEF Progress
<1> QED
  BY <1>1, <1>2, <1>9 DEF Progress

\* What releases ship altered stays what it is.
LEMMA EditedStays ==
    Types /\ Next => plan'.edited = plan.edited /\ plan'.oldtabs = plan.oldtabs
<1> SUFFICES ASSUME Types, Next
             PROVE  plan'.edited = plan.edited /\ plan'.oldtabs = plan.oldtabs
  OBVIOUS
<1>1. plan' = plan \/ \E f \in Budgets : plan[f] > 0 /\ plan' = Spent(f)
  BY DEF Next, Migrate, Migrated, Restart, Crash, Command, CommandEnds, ServerStep, Upload, Hold,
         Attach, Drop, BackupCopy, BackupDone, BackupFails, Begin, Backup, Update, Pull,
         DependenciesFail, Stop, UpdateMigrates, UpdateMigrated, Start, Restore, RestoreDatabase,
         RestorePhotos, Budgets, Spent
<1> QED
  BY <1>1, SpentIsPlan DEF Types

\* What is done with photos leaves the schema alone.
LEMMA PhotoStepsKeepSchema ==
    ASSUME Types, NEW ph \in Photos, Upload(ph) \/ Hold(ph) \/ Attach(ph) \/ Drop(ph)
    PROVE  /\ db'.record = db.record /\ db'.tables = db.tables
           /\ UNCHANGED <<plan, release, procs, unit, script, backup, backups>>
BY DEF Types, DbSet, Upload, Hold, Attach, Drop, ServerStep

\* Of a process that starts, stops or is left alone.
Settled(q) == q.pc \in {"down", "failed", "done"}

LEMMA NextProgress == Types /\ Schema /\ Progress /\ Standing /\ Next => Progress'
<1> SUFFICES ASSUME Types, Schema, Progress, Standing, Next PROVE Progress'
  OBVIOUS
<1>1. plan'.edited = plan.edited
  BY EditedStays
<1>2. ASSUME NEW p \in Processes, Migrate(p) PROVE Progress'
  BY <1>2, MigrateProgress DEF Schema
<1>3. ASSUME NEW p \in Processes, Migrated(p) PROVE Progress'
  <2>1. OnItsWay(procs[p], db.record, plan.edited)
    BY <1>3 DEF Migrated, Progress, Good
  <2>2. procs[p] \in Process /\ procs[p].next > procs[p].release
    BY <1>3 DEF Migrated, Types
  <2>3. Provided(procs[p], db.record, plan.edited)
    BY <2>1, <2>2 DEF OnItsWay, Provided, Process
  <2>4. procs'[p].release = procs[p].release /\ procs'[p].pc # "migrating"
    BY <1>3, <2>2 DEF Migrated, Types, Process
  <2>5. \A q \in Processes : q # p => procs'[q] = procs[q]
    BY <1>3 DEF Migrated, Types
  <2>6. Good(procs'[p], db.record, plan.edited)
    BY <2>3, <2>4 DEF Good, Provided
  <2> QED
    BY <1>3, <2>5, <2>6 DEF Progress, Migrated
<1>4. CASE RestoreDatabase
  <2>1. \A p \in Processes : procs'[p].pc \notin {"migrating", "serving"}
    BY <1>4 DEF RestoreDatabase, Standing, Restoring
  <2> QED
    BY <2>1 DEF Progress, Good
<1>5. ASSUME db'.record = db.record,
             \A p \in Processes : procs'[p] = procs[p] \/ procs'[p] = Started \/ Settled(procs'[p])
      PROVE  Progress'
  BY <1>1, <1>5, ProgressKept DEF Settled
<1>6. ASSUME NEW ph \in Photos, Upload(ph) \/ Hold(ph) \/ Attach(ph) \/ Drop(ph)
      PROVE  Progress'
  BY <1>5, <1>6, PhotoStepsKeepSchema
<1>7. ASSUME NEW p \in Processes, Crash(p) PROVE Progress'
  <2>1. \A q \in Processes : procs'[q] = procs[q] \/ Settled(procs'[q])
    BY <1>7 DEF Crash, Types, Process, Settled
  <2> QED
    BY <1>5, <1>7, <2>1 DEF Crash
<1>8. CASE Restart \/ Command \/ UpdateMigrates \/ Start
  <2>1. \A q \in Processes : procs'[q] = procs[q] \/ procs'[q] = Started
    BY <1>8 DEF Restart, Command, UpdateMigrates, Start, Types, Processes
  <2> QED
    BY <1>5, <1>8, <2>1 DEF Restart, Command, UpdateMigrates, Start
<1>9. CASE CommandEnds \/ Stop \/ UpdateMigrated \/ Restore
  <2>1. \A q \in Processes : procs'[q] = procs[q] \/ procs'[q] = Down
    BY <1>9 DEF CommandEnds, Stop, UpdateMigrated, Restore, StopServer, Types, Processes
  <2>2. Settled(Down)
    BY DEF Settled, Down
  <2> QED
    BY <1>5, <1>9, <2>1, <2>2 DEF CommandEnds, Stop, UpdateMigrated, Restore
<1>10. CASE Backup \/ BackupCopy \/ BackupDone \/ BackupFails \/ Update \/ Pull
            \/ DependenciesFail \/ RestorePhotos
  BY <1>5, <1>10 DEF Backup, BackupCopy, BackupDone, BackupFails, Update, Pull,
                     DependenciesFail, RestorePhotos
<1> QED
  BY <1>2, <1>3, <1>4, <1>6, <1>7, <1>8, <1>9, <1>10 DEF Next

LEMMA NextStanding == Types /\ Standing /\ Next => Standing'
<1> SUFFICES ASSUME Types, Standing, Next PROVE Standing'
  OBVIOUS
<1>1. ASSUME NEW p \in Processes, Migrate(p) \/ Migrated(p) \/ Crash(p) PROVE Standing'
  <2>1. procs[p].pc \in {"migrating", "serving"} /\ UNCHANGED <<script, unit, backup>>
    BY <1>1 DEF Migrate, Migrated, Crash
  <2>2. ~Restoring
    BY <2>1 DEF Standing
  <2>3. p = "update" \/ procs'["update"] = procs["update"]
    BY <1>1 DEF Migrate, Migrated, Crash, Types, Processes
  <2> QED
    BY <2>1, <2>2, <2>3 DEF Standing, Restoring
<1>2. ASSUME NEW ph \in Photos, Upload(ph) \/ Hold(ph) \/ Attach(ph) \/ Drop(ph)
      PROVE  Standing'
  BY <1>2, PhotoStepsKeepSchema DEF Standing, Restoring
<1>3. CASE Restart
  BY <1>3 DEF Restart, RestartOnFailure, Standing, Restoring, Types, Processes
<1>4. CASE Command
  BY <1>4 DEF Command, Standing, Restoring, Types, Processes
<1>5. CASE CommandEnds
  <2>1. \A q \in Processes : procs'[q] = procs[q] \/ procs'[q].pc = "down"
    BY <1>5 DEF CommandEnds, Types, Processes, Down
  <2>2. procs'["update"] = procs["update"]
    BY <1>5 DEF CommandEnds, Types, Processes
  <2> QED
    BY <1>5, <2>1, <2>2 DEF CommandEnds, Standing, Restoring
<1>6. CASE Backup \/ Update \/ Pull \/ DependenciesFail
  BY <1>6 DEF Backup, Update, Begin, Pull, DependenciesFail, Standing, Restoring
<1>7. CASE BackupCopy \/ BackupDone \/ BackupFails \/ RestoreDatabase \/ RestorePhotos
  <2>1. CASE BackupCopy
    BY <2>1 DEF BackupCopy, Standing, Restoring
  <2>2. CASE BackupDone \/ BackupFails
    BY <2>2, NoBackupIsTyped DEF BackupDone, BackupFails, Standing, Restoring
  <2>3. CASE RestorePhotos
    BY <2>3, NoBackupIsTyped DEF RestorePhotos, Standing, Restoring
  <2>4. CASE RestoreDatabase
    <3>1. backup'.step = 0
      BY <2>4, NoBackupIsTyped DEF RestoreDatabase, Taken
    <3> QED
      BY <2>4, <3>1 DEF RestoreDatabase, Standing, Restoring
  <2> QED
    BY <1>7, <2>1, <2>2, <2>3, <2>4
<1>8. CASE Stop \/ UpdateMigrates \/ UpdateMigrated \/ Start
  <2>0. backup'.step = 0
    BY <1>8 DEF Stop, UpdateMigrates, UpdateMigrated, Start, Standing
  <2>1. ~Restoring'
    BY <1>8 DEF Stop, UpdateMigrates, UpdateMigrated, Start, Restoring
  <2>2. CASE Stop \/ Start
    <3>1. script \in {"deps", "start"}
      BY <2>2 DEF Stop, Start
    <3>2. procs'["update"] = procs["update"]
      BY <2>2 DEF Stop, Start, StopServer, Types, Processes
    <3> QED
      BY <2>0, <2>1, <3>1, <3>2 DEF Standing
  <2>3. CASE UpdateMigrates
    BY <2>0, <2>1, <2>3 DEF UpdateMigrates, Standing
  <2>4. CASE UpdateMigrated
    <3>1. procs'["update"] = Down
      BY <2>4 DEF UpdateMigrated, Types, Processes
    <3> QED
      BY <2>0, <2>1, <3>1 DEF Standing, Down
  <2> QED
    BY <1>8, <2>2, <2>3, <2>4
<1>9. CASE Restore
  <2>1. procs' = [procs EXCEPT !["server"] = Down] /\ script' = "restore" /\ unit'.want = FALSE
    BY <1>9 DEF Restore, StopServer
  <2>2. procs["cli"].pc = "down" /\ procs["update"].pc = "down"
    BY <1>9 DEF Restore, Begin, Standing
  <2>3. \A q \in Processes : procs'[q].pc = "down"
    BY <2>1, <2>2 DEF Down, Types, Processes
  <2>4. backup'.step = 0
    BY <1>9 DEF Restore, Begin, Standing
  <2> QED
    BY <2>1, <2>3, <2>4 DEF Standing, Restoring, Processes
<1> QED
  BY <1>1, <1>2, <1>3, <1>4, <1>5, <1>6, <1>7, <1>8, <1>9 DEF Next

\* A backup that fails adds none to the complete ones.
LEMMA NoneFinished ==
    ASSUME Types, BackupFails
    PROVE  \A i \in Whole' : i \in Whole /\ backups'[i] = backups[i]
<1>1. backups \in Seq(BackupSet) /\ backups' = Append(backups, Incomplete)
  BY DEF Types, BackupFails
<1>2. \A i \in DOMAIN backups' : \/ i \in DOMAIN backups /\ backups'[i] = backups[i]
                                 \/ backups'[i] = Incomplete
  BY <1>1, BackupsTyped
<1> QED
  BY <1>2, BackupsTyped DEF Whole

LEMMA NextSchema == Types /\ Schema /\ Progress /\ Next => Schema'
<1> SUFFICES ASSUME Types, Schema, Progress, Next PROVE Schema'
  OBVIOUS
<1>1. ASSUME NEW p \in Processes, Migrate(p) PROVE Schema'
  BY <1>1, MigrateKeeps DEF Schema, Migrate, Whole
<1>2. ASSUME NEW ph \in Photos, Upload(ph) \/ Hold(ph) \/ Attach(ph) \/ Drop(ph)
      PROVE  Schema'
  BY <1>2, PhotoStepsKeepSchema DEF Schema, Sound, Whole
<1>3. CASE BackupCopy
  <2>1. backup \in Taken /\ db' = db /\ backups' = backups
    BY <1>3 DEF BackupCopy, Types
  <2>2. CASE backup.step = 1
    BY <1>3, <2>1, <2>2 DEF BackupCopy, BackupOrder, Schema, Taken, Whole
  <2>3. CASE backup.step = 2
    BY <1>3, <2>1, <2>3 DEF BackupCopy, BackupOrder, Schema, Taken, Whole
  <2> QED
    BY <1>3, <2>1, <2>2, <2>3 DEF BackupCopy
<1>4. CASE BackupDone
  <2>1. PICK new \in BackupSet : new = Complete(backup)
    BY <1>4, BackupsTyped DEF Types, BackupDone, Taken
  <2>2. new.db = backup.db /\ Sound(new.db)
    BY <1>4, <2>1, BackupsTyped DEF BackupDone, Schema, Types, Taken
  <2>3. PICK all \in Seq(BackupSet) : all = Append(backups, new)
    <3>1. Append(backups, new) \in Seq(BackupSet)
      BY DEF Types
    <3> QED
      BY <3>1, Zenon
  <2>4. \A i \in DOMAIN all : all[i].whole => Sound(all[i].db)
    BY <2>2, <2>3 DEF Types, Schema, Whole
  <2>5. backups' = Newest(all) /\ db' = db /\ backup'.step = 0
    BY <1>4, <2>1, <2>3, NoBackupIsTyped DEF BackupDone
  <2>6. \A i \in DOMAIN backups' : \E j \in DOMAIN all : backups'[i] = all[j]
    BY <2>5, NewestIsAmong
  <2> QED
    BY <2>4, <2>5, <2>6 DEF Schema, Whole
<1>5. CASE RestoreDatabase
  <2>1. PICK i \in Whole :
            db' = backups[i].db /\ backup' = [NoBackup EXCEPT !.listing = backups[i].files]
    BY <1>5 DEF RestoreDatabase
  <2>2. backup'.step = 0 /\ backups' = backups
    BY <1>5, <2>1, NoBackupIsTyped DEF RestoreDatabase, Taken
  <2> QED
    BY <2>1, <2>2 DEF Schema, Whole
<1>6. CASE Backup \/ Update \/ BackupFails \/ RestorePhotos
  <2>1. db' = db /\ (backup' = backup \/ backup'.step \in {0, 1})
    BY <1>6, NoBackupIsTyped DEF Backup, Update, BackupFails, RestorePhotos, Taken
  <2>2. \A i \in Whole' : i \in Whole /\ backups'[i] = backups[i]
    BY <1>6, NoneFinished DEF Backup, Update, RestorePhotos, Whole
  <2> QED
    BY <2>1, <2>2 DEF Schema
<1>7. ASSUME UNCHANGED <<db, backup, backups>> PROVE Schema'
  BY <1>7 DEF Schema, Whole
<1>8. ASSUME NEW p \in Processes, Migrated(p) \/ Crash(p) PROVE Schema'
  BY <1>7, <1>8 DEF Migrated, Crash
<1>9. CASE Restart \/ Command \/ CommandEnds \/ Pull \/ DependenciesFail \/ Stop
           \/ UpdateMigrates \/ UpdateMigrated \/ Start \/ Restore
  BY <1>7, <1>9 DEF Restart, Command, CommandEnds, Pull, DependenciesFail, Stop, UpdateMigrates,
                   UpdateMigrated, Start, Restore
<1> QED
  BY <1>1, <1>2, <1>3, <1>4, <1>5, <1>6, <1>8, <1>9 DEF Next

\* The invariant says what a server that serves has.
LEMMA SchemaIsServed == Schema /\ Progress => ServesItsSchema
<1> SUFFICES ASSUME Schema, Progress PROVE ServesItsSchema
  OBVIOUS
<1>1. Serving => Provided(procs["server"], db.record, plan.edited)
  BY DEF Serving, Progress, Good, Processes
<1> QED
  BY <1>1, ChecksumIsShipped DEF ServesItsSchema, Schema, Sound, Provided, Has

Inv == Types /\ Schema /\ Progress /\ Standing

\* However many processes migrate one database at once, whatever throws, is
\* killed or was shipped altered, and whichever backup is restored: migrations
\* are recorded exactly when their tables are there, none out of order, and a
\* server only serves with all its release ships (db/index.js:111-172), for
\* every plan, number of releases, start limit and KEEP.
THEOREM SchemaServed == Spec => []ServesItsSchema
<1>1. Init => Inv
  BY InitTypes, InitSchema DEF Inv
<1>2. Inv /\ [Next]_vars => Inv'
  <2> SUFFICES ASSUME Inv, [Next]_vars PROVE Inv'
    OBVIOUS
  <2>1. Types'
    BY NextTypes DEF Inv
  <2>2. CASE Next
    BY <2>1, <2>2, NextSchema, NextProgress, NextStanding DEF Inv
  <2>3. CASE UNCHANGED vars
    <3>1. Schema' /\ Standing'
      BY <2>3 DEF Inv, Schema, Standing, Restoring, Whole, vars
    <3>2. Progress'
      BY <2>3 DEF Inv, Progress, vars
    <3> QED
      BY <2>1, <3>1, <3>2 DEF Inv
  <2> QED
    BY <2>2, <2>3
<1>3. Inv => ServesItsSchema
  BY SchemaIsServed DEF Inv
<1> QED
  BY <1>1, <1>2, <1>3, PTL DEF Spec

---------------------------------------------------------------------------
(* The photos. A database is safe with a directory that has every photo     *)
(* attached in it, and every held one a form may still attach. A backup is, *)
(* though the server goes on between its copy of the one and of the other:  *)
(* it takes nothing attached away, and what it drops no form offers.        *)

Safe(d, there, gone, known) ==
    /\ d.attached \subseteq there /\ d.held \ gone \subseteq there
    /\ d.attached \cap d.held = {} /\ d.attached \cup d.held \subseteq known

\* A directory, and what an old tab may have attached without its file.
There(dir) == dir \cup OldTabs

Photographed ==
    /\ dropped \subseteq stored /\ inhand \subseteq stored
    /\ inhand \cap (db.held \cup db.attached) = {}
    /\ Restoring => inhand = {}
    /\ script # "unpack" => Safe(db, There(files), dropped, stored) /\ inhand \subseteq files
    /\ script = "unpack" => Safe(db, There(backup.listing), dropped, stored)

BackedUp ==
    /\ \A i \in Whole : Safe(backups[i].db, There(backups[i].files), dropped, stored)
    /\ backup.step = 2 => /\ Safe(backup.db, There(files), dropped, stored)
                          /\ backup.db.attached \subseteq db.attached
    /\ backup.step = 3 => Safe(backup.db, There(backup.listing), dropped, stored)

\* What old tabs may ask for grows with what is dropped, and with nothing else.
LEMMA TabsGrow ==
    ASSUME plan'.oldtabs = plan.oldtabs, dropped \subseteq dropped'
    PROVE  OldTabs \subseteq OldTabs' /\ (dropped' = dropped => OldTabs' = OldTabs)
BY DEF OldTabs

\* More files, more dropped and more stored leave a database safe.
LEMMA SafeGrows ==
    ASSUME NEW d, NEW there, NEW gone, NEW known, Safe(d, there, gone, known),
           NEW more, NEW gone2, NEW known2,
           there \subseteq more, gone \subseteq gone2, known \subseteq known2
    PROVE  Safe(d, more, gone2, known2)
BY DEF Safe

\* Of two databases with the same photos both are safe.
LEMMA SafeSame ==
    ASSUME NEW d, NEW e, e.held = d.held, e.attached = d.attached,
           NEW there, NEW gone, NEW known, Safe(d, there, gone, known)
    PROVE  Safe(e, there, gone, known)
BY DEF Safe

\* Where the photos stay, only a script that unpacks, or one that copies, may
\* unsettle what is safe.
LEMMA PhotosKept ==
    ASSUME Photographed, BackedUp, db'.held = db.held, db'.attached = db.attached,
           UNCHANGED <<files, stored, dropped, OldTabs>>, inhand' \in {inhand, {}},
           \A i \in Whole' : i \in Whole /\ backups'[i] = backups[i],
           script' = "unpack" <=> script = "unpack", Restoring' => Restoring \/ inhand' = {},
           backup' = backup \/ (script # "unpack" /\ backup'.step \in {0, 1})
    PROVE  Photographed' /\ BackedUp'
<1>1. Safe(db, There(files), dropped, stored) => Safe(db', There(files), dropped, stored)
  BY SafeSame
<1>2. Safe(db, There(backup.listing), dropped, stored) => Safe(db', There(backup.listing), dropped, stored)
  BY SafeSame
<1>3. Photographed'
  BY <1>1, <1>2 DEF Photographed, There
<1>4. BackedUp'
  <2>1. ASSUME NEW i \in Whole' PROVE Safe(backups[i].db, There(backups[i].files), dropped, stored)'
    <3>1. i \in Whole /\ backups'[i] = backups[i]
      OBVIOUS
    <3>2. Safe(backups[i].db, There(backups[i].files), dropped, stored)
      BY <3>1 DEF BackedUp
    <3> QED
      BY <3>1, <3>2 DEF There
  <2>2. backup'.step \notin {2, 3} \/ backup' = backup
    OBVIOUS
  <2>3. backup'.step = 2 => /\ Safe(backup.db, There(files), dropped, stored)'
                            /\ backup'.db.attached \subseteq db'.attached
    BY <2>2 DEF BackedUp, There
  <2>4. backup'.step = 3 => Safe(backup.db, There(backup.listing), dropped, stored)'
    BY <2>2 DEF BackedUp, There
  <2> QED
    BY <2>1, <2>3, <2>4 DEF BackedUp
<1> QED
  BY <1>3, <1>4

LEMMA InitPhotos == Init => Photographed /\ BackedUp
BY NoBackupIsTyped DEF Init, Photographed, BackedUp, Safe, Whole, Restoring

\* What the server does with photos leaves them safe, and the backup under way.
LEMMA PhotoStepsSafe ==
    ASSUME Types, Standing, Photographed, BackedUp,
           NEW ph \in Photos, Upload(ph) \/ Hold(ph) \/ Attach(ph) \/ Drop(ph)
    PROVE  Photographed' /\ BackedUp'
<1>1. ~Restoring /\ UNCHANGED <<script, backup, backups>>
  BY DEF Upload, Hold, Attach, Drop, ServerStep, Serving, Standing, Processes
<1>2. script # "unpack" /\ Safe(db, There(files), dropped, stored) /\ inhand \subseteq files
  BY <1>1 DEF Restoring, Photographed
<1>3. db \in DbSet
  BY DEF Types
<1>0. OldTabs \subseteq OldTabs' /\ (dropped' = dropped => OldTabs' = OldTabs)
  <2>1. plan' = plan /\ dropped \subseteq dropped'
    BY DEF Upload, Hold, Attach, Drop, ServerStep
  <2> QED
    BY <2>1, TabsGrow
<1>4. /\ stored \subseteq stored' /\ dropped \subseteq dropped'
      /\ dropped' \subseteq stored' /\ inhand' \subseteq stored'
      /\ inhand' \cap (db'.held \cup db'.attached) = {}
      /\ Safe(db', There(files)', dropped', stored') /\ inhand' \subseteq files'
      /\ db.attached \subseteq db'.attached
  <2>1. CASE Upload(ph)
    BY <1>0, <1>2, <2>1 DEF Upload, Photographed, Safe, There
  <2>2. CASE Hold(ph)
    <3>1. db'.held = db.held \cup {ph} /\ db'.attached = db.attached
      BY <1>3, <2>2 DEF Hold, DbSet
    <3> QED
      BY <1>0, <1>2, <2>2, <3>1 DEF Hold, Photographed, Safe, There
  <2>3. CASE Attach(ph)
    <3>1. db'.held = db.held \ {ph} /\ db'.attached = db.attached \cup {ph}
      BY <1>3, <2>3 DEF Attach, DbSet
    <3> QED
      BY <1>0, <1>2, <2>3, <3>1 DEF Attach, Photographed, Safe, There
  <2>4. CASE Drop(ph)
    <3>1. db'.held = db.held \ {ph} /\ db'.attached = db.attached
      BY <1>3, <2>4 DEF Drop, DbSet
    <3> QED
      BY <1>0, <1>2, <2>4, <3>1 DEF Drop, Photographed, Safe, There
  <2> QED
    BY <2>1, <2>2, <2>3, <2>4
<1>5. Photographed'
  BY <1>1, <1>2, <1>4 DEF Photographed, Restoring
<1>6. \A i \in Whole : Safe(backups[i].db, backups[i].files \cup OldTabs', dropped', stored')
  <2> SUFFICES ASSUME NEW i \in Whole
               PROVE  Safe(backups[i].db, backups[i].files \cup OldTabs', dropped', stored')
    OBVIOUS
  <2>1. Safe(backups[i].db, There(backups[i].files), dropped, stored)
    BY DEF BackedUp
  <2>2. There(backups[i].files) \subseteq backups[i].files \cup OldTabs'
    BY <1>0 DEF There
  <2> QED
    BY <1>4, <2>1, <2>2, SafeGrows
<1>7. backup.step = 3 => Safe(backup.db, backup.listing \cup OldTabs', dropped', stored')
  BY <1>0, <1>4, SafeGrows DEF BackedUp, There
<1>8. backup.step = 2 => Safe(backup.db, There(files)', dropped', stored')
  <2> SUFFICES ASSUME backup.step = 2 PROVE Safe(backup.db, There(files)', dropped', stored')
    OBVIOUS
  <2>1. Safe(backup.db, There(files), dropped, stored) /\ backup.db.attached \subseteq db.attached
    BY DEF BackedUp
  <2>2. CASE Upload(ph) \/ Hold(ph) \/ Attach(ph)
    <3>1. files \subseteq files'
      BY <2>2 DEF Upload, Hold, Attach
    <3> QED
      BY <1>0, <1>4, <2>1, <3>1, SafeGrows DEF There
  <2>3. CASE Drop(ph)
    <3>1. ph \notin db.attached
      BY <1>2, <2>3 DEF Drop, Safe
    <3> QED
      BY <1>0, <2>1, <2>3, <3>1, <1>4 DEF Drop, Safe, There
  <2> QED
    BY <2>2, <2>3
<1>9. BackedUp'
  BY <1>1, <1>4, <1>6, <1>7, <1>8 DEF BackedUp, There, Whole
<1> QED
  BY <1>5, <1>9

LEMMA NextPhotos ==
    ASSUME Types, Standing, Photographed, BackedUp, Next
    PROVE  Photographed' /\ BackedUp'
<1>0. plan'.oldtabs = plan.oldtabs
  BY EditedStays
<1>1. ASSUME NEW p \in Processes, Migrate(p) PROVE Photographed' /\ BackedUp'
  <2>1. db'.held = db.held /\ db'.attached = db.attached
    BY <1>1 DEF Migrate, RolledBack, Applied, Types, DbSet
  <2> QED
    BY <1>0, <1>1, <2>1, TabsGrow, PhotosKept DEF Migrate, photos, Restoring, Whole
<1>2. ASSUME NEW p \in Processes, Migrated(p) \/ Crash(p) PROVE Photographed' /\ BackedUp'
  BY <1>0, <1>2, TabsGrow, PhotosKept DEF Migrated, Crash, photos, Restoring, Whole
<1>3. ASSUME NEW ph \in Photos, Upload(ph) \/ Hold(ph) \/ Attach(ph) \/ Drop(ph)
      PROVE  Photographed' /\ BackedUp'
  BY <1>3, PhotoStepsSafe
<1>4. CASE Restart \/ Command \/ CommandEnds \/ Pull \/ DependenciesFail \/ Stop
           \/ UpdateMigrates \/ UpdateMigrated \/ Start \/ Restore
  <2>1. /\ UNCHANGED <<db, files, stored, dropped, backup, backups>> /\ inhand' \in {inhand, {}}
        /\ backups' = backups
        /\ script' = "unpack" <=> script = "unpack"
        /\ Restoring' => Restoring \/ inhand' = {}
    BY <1>4 DEF Restart, Command, CommandEnds, Pull, DependenciesFail, Stop, UpdateMigrates,
                UpdateMigrated, Start, Restore, Begin, StopServer, photos, Restoring
  <2> QED
    BY <1>0, <2>1, TabsGrow, PhotosKept DEF Whole
<1>5. CASE Backup \/ Update \/ BackupFails
  <2>1. backup' = backup \/ backup'.step \in {0, 1}
    BY <1>5, NoBackupIsTyped DEF Backup, Update, BackupFails, Taken
  <2>2. script # "unpack" /\ script' # "unpack" /\ ~Restoring'
    BY <1>5 DEF Backup, Update, BackupFails, Begin, Standing, Restoring
  <2>3. \A i \in Whole' : i \in Whole /\ backups'[i] = backups[i]
    BY <1>5, NoneFinished DEF Backup, Update, Whole
  <2> QED
    BY <1>0, <1>5, <2>1, <2>2, <2>3, TabsGrow, PhotosKept DEF Backup, Update, BackupFails, photos
<1>6. CASE BackupCopy
  <2>1. script \in {"backup", "update"} /\ UNCHANGED <<db, photos, script, backups>>
    BY <1>6 DEF BackupCopy, Standing
  <2>2. Safe(db, There(files), dropped, stored)
    BY <2>1 DEF Photographed
  <2>0. OldTabs' = OldTabs
    BY <1>0, <2>1, TabsGrow DEF photos
  <2>3. Photographed'
    BY <2>0, <2>1, <2>2 DEF Photographed, photos, Restoring, There
  <2>4. backup \in Taken
    BY DEF Types
  <2>5. CASE backup.step = 1
    <3>1. backup'.step = 2 /\ backup'.db = db
      BY <1>6, <2>4, <2>5 DEF BackupCopy, BackupOrder, Taken
    <3> QED
      BY <2>0, <2>1, <2>2, <2>3, <3>1 DEF BackedUp, photos, There, Whole
  <2>6. CASE backup.step = 2
    <3>1. backup'.step = 3 /\ backup'.db = backup.db /\ backup'.listing = files
      BY <1>6, <2>4, <2>6 DEF BackupCopy, BackupOrder, Taken
    <3> QED
      BY <2>0, <2>1, <2>3, <2>6, <3>1 DEF BackedUp, photos, There, Whole
  <2> QED
    BY <1>6, <2>5, <2>6 DEF BackupCopy
<1>7. CASE BackupDone
  <2>1. PICK new \in BackupSet : new = Complete(backup)
    BY <1>7, BackupsTyped DEF Types, BackupDone, Taken
  <2>2. Safe(new.db, There(new.files), dropped, stored)
    <3>1. new.db = backup.db /\ new.files = backup.listing
      BY <1>7, <2>1, BackupsTyped DEF BackupDone, Types, Taken
    <3> QED
      BY <1>7, <3>1 DEF BackupDone, BackedUp
  <2>3. PICK all \in Seq(BackupSet) : all = Append(backups, new)
    <3>1. Append(backups, new) \in Seq(BackupSet)
      BY DEF Types
    <3> QED
      BY <3>1, Zenon
  <2>4. \A i \in DOMAIN all : all[i].whole => Safe(all[i].db, There(all[i].files), dropped, stored)
    BY <2>2, <2>3 DEF Types, BackedUp, Whole
  <2>5. /\ backups' = Newest(all) /\ UNCHANGED <<db, files, stored, dropped, inhand>>
        /\ backup'.step = 0
    BY <1>7, <2>1, <2>3, NoBackupIsTyped DEF BackupDone, photos
  <2>0. OldTabs' = OldTabs
    BY <1>0, <2>5, TabsGrow
  <2>6. \A i \in DOMAIN backups' : \E j \in DOMAIN all : backups'[i] = all[j]
    BY <2>5, NewestIsAmong
  <2>7. BackedUp'
    <3>1. ASSUME NEW i \in Whole' PROVE Safe(backups[i].db, There(backups[i].files), dropped, stored)'
      <4>1. PICK k \in DOMAIN all : backups'[i] = all[k] /\ all[k].whole
        BY <2>6 DEF Whole
      <4>2. Safe(all[k].db, There(all[k].files), dropped, stored)
        BY <2>4, <4>1
      <4> QED
        BY <2>0, <2>5, <4>1, <4>2 DEF There
    <3> QED
      BY <2>5, <3>1 DEF BackedUp
  <2>8. Photographed'
    <3>1. script # "unpack" /\ script' \in {"pull", "idle"}
      BY <1>7 DEF BackupDone, Standing
    <3> QED
      BY <2>0, <2>5, <3>1 DEF Photographed, Restoring, There
  <2> QED
    BY <2>7, <2>8
<1>8. CASE RestoreDatabase
  <2>1. PICK i \in Whole :
            db' = backups[i].db /\ backup' = [NoBackup EXCEPT !.listing = backups[i].files]
    BY <1>8 DEF RestoreDatabase
  <2>2. backup'.step = 0 /\ backup'.listing = backups[i].files
    BY <2>1, NoBackupIsTyped DEF Taken
  <2>3. /\ inhand = {} /\ UNCHANGED <<files, stored, dropped, inhand, backups>>
        /\ script' = "unpack"
    BY <1>8 DEF RestoreDatabase, Photographed, Restoring, photos
  <2>0. OldTabs' = OldTabs
    BY <1>0, <2>3, TabsGrow
  <2>4. Safe(db', There(backup.listing)', dropped, stored)
    BY <2>0, <2>1, <2>2 DEF BackedUp, There
  <2>5. Photographed'
    BY <2>3, <2>4 DEF Photographed
  <2>6. BackedUp'
    BY <2>0, <2>2, <2>3 DEF BackedUp, There, Whole
  <2> QED
    BY <2>5, <2>6
<1>9. CASE RestorePhotos
  <2>1. PICK there \in {files, {}} : files' = there \cup backup.listing
    BY <1>9 DEF RestorePhotos
  <2>2. /\ inhand = {} /\ UNCHANGED <<db, stored, dropped, inhand, backups>>
        /\ script' = "start" /\ backup'.step = 0
    BY <1>9, NoBackupIsTyped DEF RestorePhotos, Photographed, Restoring
  <2>3. Safe(db, There(backup.listing), dropped, stored)
    BY <1>9 DEF RestorePhotos, Photographed
  <2>0. OldTabs' = OldTabs
    BY <1>0, <2>2, TabsGrow
  <2>4. Safe(db, There(files)', dropped, stored)
    BY <2>0, <2>1, <2>3, SafeGrows DEF There
  <2>5. Photographed'
    BY <2>2, <2>4 DEF Photographed, Restoring
  <2>6. BackedUp'
    BY <2>0, <2>2 DEF BackedUp, There, Whole
  <2> QED
    BY <2>5, <2>6
<1> QED
  BY <1>1, <1>2, <1>3, <1>4, <1>5, <1>6, <1>7, <1>8, <1>9 DEF Next

\* Whichever backup of a server at work is restored, in whichever directory:
\* every photo attached has its file (backup.sh:67-91, 129-138), but one dropped
\* before and sent again from an old tab; for every plan, set of photos and KEEP.
\* It rests on the database being copied first.
THEOREM PhotosSurviveRestores == Spec => []PhotosSurvive
<1> DEFINE AllInv == Types /\ Standing /\ Photographed /\ BackedUp
<1>1. Init => AllInv
  BY InitTypes, InitSchema, InitPhotos
<1>2. AllInv /\ [Next]_vars => AllInv'
  <2> SUFFICES ASSUME AllInv, [Next]_vars PROVE AllInv'
    OBVIOUS
  <2>1. Types'
    BY NextTypes
  <2>2. CASE Next
    BY <2>1, <2>2, NextStanding, NextPhotos
  <2>3. CASE UNCHANGED vars
    BY <2>1, <2>3 DEF Standing, Photographed, BackedUp, Restoring, There, OldTabs, Whole, vars
  <2> QED
    BY <2>2, <2>3
<1>3. AllInv => PhotosSurvive
  BY DEF Photographed, PhotosSurvive, Safe, There, Restoring
<1> QED
  BY <1>1, <1>2, <1>3, PTL DEF Spec
=============================================================================
