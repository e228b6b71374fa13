------------------------------- MODULE Uploads -------------------------------
(***************************************************************************)
(* The life of an uploaded photo: POST /surveys, the pending_photos table, *)
(* the expiry sweep of the server process, and the prune-orphans tool,     *)
(* which is a process of its own.                                          *)
(*                                                                         *)
(* The server is one JavaScript thread over one synchronous SQLite         *)
(* connection.  An action is one statement, one unlink or one file         *)
(* operation: nothing else of the server runs between the steps of a       *)
(* synchronous stretch (LoopFree), but a crash, the clock and the tool may *)
(* come between any two.                                                   *)
(*                                                                         *)
(* A request draws at most one storage name and at most one token, both    *)
(* random, so the file, its token and the survey a request creates are all *)
(* named by the request.                                                   *)
(***************************************************************************)
EXTENDS Naturals

CONSTANTS
    Request,     \* submissions of the survey form
    User,        \* signed-in collectors
    Submitter,   \* the user each request is authenticated as
    TTL,         \* lifetime of a pending row, in ticks
    MaxTime,     \* bound: the clock stops here unless a held photo needs it
    MaxRowId,    \* bound: the largest rowid the model hands out
    MaxCrashes,  \* bound: how many times the process may be killed
    FaultSets    \* what the environment may do, one set for each behaviour

FaultKinds ==
    { "resubmit",  \* a form is sent again while an earlier copy is in flight
      "crash",     \* the server process dies; the database and files survive
      "db",        \* a statement throws (SQLITE_BUSY, a full disk)
      "disk",      \* writing or renaming the upload fails
      "unlink",    \* deleting a file fails
      "skew",      \* the clock's second changes inside one sweep
      "stale",     \* a pending row expires while a request carries it
      "tool" }     \* prune-orphans --delete runs beside the live server

ASSUME UploadsAssumption ==
    /\ Submitter \in [Request -> User]
    /\ TTL \in Nat \ {0}
    /\ MaxTime \in Nat
    /\ MaxRowId \in Nat
    /\ MaxCrashes \in Nat
    /\ FaultSets \subseteq SUBSET FaultKinds

VARIABLES
    disk,      \* storage names present in the upload directory
    temp,      \* requests whose incoming-*.tmp file exists
    pending,   \* rows of pending_photos
    photos,    \* rows of photos: which file, on which survey
    surveys,   \* committed surveys
    now,       \* the clock, in the seconds nowIso() keeps
    pc,        \* where each request's handler is
    ok,        \* result.ok && result.errors.ok
    stored,    \* requests whose handler holds a storedPhoto
    carried,   \* the row getPendingPhoto returned, {} for null
    sweeping,  \* prunePendingPhotos is running
    sweep,     \* the expired rows it has still to unlink
    toolPc,    \* where prune-orphans --delete is; one run of it is enough
    orphans,   \* names it listed and has not found referenced
    crashes,   \* how many crashes there have been
    faults     \* what the environment may do in this behaviour

database == <<pending, photos, surveys>>
handlers == <<pc, ok, stored, carried>>
sweeper  == <<sweeping, sweep>>
tool     == <<toolPc, orphans>>
environment == <<crashes, faults>>
vars == <<disk, temp, database, now, handlers, sweeper, tool, environment>>

Row   == [id : Nat, name : Request, user : User, expires : Nat]
Photo == [name : Request, survey : Request]

\* Points at which the handler owns the JavaScript thread, awaits, is over.
Running  == {"unlinkOld", "decide", "attach", "consume"}
Awaiting == {"receiving", "written", "renamed"}
Over     == {"done", "failed", "lost"}
PC       == {"idle"} \cup Awaiting \cup Running \cup Over

InFlight(r) == pc[r] \in Awaiting \cup Running
LoopFree    == ~sweeping /\ \A r \in Request : pc[r] \notin Running

Names(rows)   == {row.name : row \in rows}
AttachedNames == {p.name : p \in photos}

Goto(r, label) == pc' = [pc EXCEPT ![r] = label]

-----------------------------------------------------------------------------
Init ==
    /\ disk = {} /\ temp = {}
    /\ pending = {} /\ photos = {} /\ surveys = {}
    /\ now = 0
    /\ pc = [r \in Request |-> "idle"]
    /\ ok = [r \in Request |-> FALSE]
    /\ stored = {}
    /\ carried = [r \in Request |-> {}]
    /\ sweeping = FALSE /\ sweep = {}
    /\ toolPc = "off" /\ orphans = {}
    /\ crashes = 0
    /\ faults \in FaultSets

-----------------------------------------------------------------------------
(* The upload directory *)

\* removeUpload and storePhoto's cleaning up: an unlink that fails is taken for
\* one that found nothing there, and the file stays.
Unlink(names) ==
    \/ disk' = disk \ names
    \/ "unlink" \in faults /\ disk' = disk

-----------------------------------------------------------------------------
(* The pending_photos table *)

\* Mutant: the query forgets AND user_id = ?
GetPendingPhoto_AnyUser(token, user) ==
    {row \in pending : row.name = token /\ row.expires > now}

\* Mutant: the query forgets the token altogether.
GetPendingPhoto_AnyToken(token, user) == {row \in pending : row.expires > now}

GetPendingPhoto(token, user) ==
    {row \in pending : row.name = token /\ row.user = user /\ row.expires > now}

\* id is INTEGER PRIMARY KEY without AUTOINCREMENT: one more than the largest
\* id in the table, so the id of a deleted row can come back.
IsNextRowId(id) ==
    /\ \A row \in pending : row.id < id
    /\ id = 1 \/ \E row \in pending : row.id + 1 = id

CreatePendingPhoto(r) ==
    \E id \in 1 .. MaxRowId :
        /\ IsNextRowId(id)
        /\ pending' = pending \cup
             {[id |-> id, name |-> r, user |-> Submitter[r], expires |-> now + TTL]}

\* Mutant: DELETE ... WHERE user_id = row.user_id
DeleteRowOf_SameUser(row) == {x \in pending : x.user # row.user}

\* discardPendingPhoto's first statement: DELETE ... WHERE id = row.id
DeleteRowOf(row) == {x \in pending : x.id # row.id}

\* Mutant: the holding record is never consumed.
ConsumePendingPhoto_Kept(row) == UNCHANGED pending

\* consumePendingPhoto: DELETE ... WHERE token = ?
ConsumePendingPhoto(row) == pending' = {x \in pending : x.name # row.name}

-----------------------------------------------------------------------------
(* POST /surveys *)

\* The body is parsed and verified (a request refused before that changes nothing
\* and stays idle here), the fields are validated (valid), and the carried photo
\* is looked up.  A token that was never issued, here the
\* request's own name, stands for a form without one.
Submit(r, token, valid, hasFile) ==
    /\ pc[r] = "idle"
    /\ LoopFree
    /\ \/ "resubmit" \in faults
       \/ \A q \in Request : InFlight(q) => token \notin Names(carried[q])
    /\ carried' = [carried EXCEPT ![r] = GetPendingPhoto(token, Submitter[r])]
    /\ ok' = [ok EXCEPT ![r] = valid]
    /\ Goto(r, IF hasFile THEN "receiving" ELSE "decide")
    /\ UNCHANGED <<disk, temp, database, now, stored, sweeper, tool, environment>>

\* storePhoto refuses the bytes before anything touches the disk.
RejectPhoto(r) ==
    /\ pc[r] = "receiving"
    /\ LoopFree
    /\ ok' = [ok EXCEPT ![r] = FALSE]
    /\ Goto(r, "decide")
    /\ UNCHANGED <<disk, temp, database, now, stored, carried, sweeper, tool, environment>>

\* The temporary file is written and synced, then renamed, by the thread pool.
WriteTemp(r) ==
    /\ pc[r] = "receiving"
    /\ temp' = temp \cup {r}
    /\ Goto(r, "written")
    /\ UNCHANGED <<disk, database, now, ok, stored, carried, sweeper, tool, environment>>

RenameTemp(r) ==
    /\ pc[r] = "written"
    /\ temp' = temp \ {r}
    /\ disk' = disk \cup {r}
    /\ Goto(r, "renamed")
    /\ UNCHANGED <<database, now, ok, stored, carried, sweeper, tool, environment>>

\* A file operation failed: both paths are removed and the PhotoError becomes a
\* form error.
StoreFails(r) ==
    /\ "disk" \in faults
    /\ pc[r] \in {"receiving", "written"}
    /\ LoopFree
    /\ temp' = temp \ {r} \/ ("unlink" \in faults /\ temp' = temp)
    /\ Unlink({r})
    /\ ok' = [ok EXCEPT ![r] = FALSE]
    /\ Goto(r, "decide")
    /\ UNCHANGED <<database, now, stored, carried, sweeper, tool, environment>>

\* The handler resumes with a stored photo.  The row it looked up before the
\* await, if any, is replaced: first the row goes, then the file.
DiscardPendingPhoto(r) ==
    /\ pc[r] = "renamed"
    /\ LoopFree
    /\ stored' = stored \cup {r}
    /\ IF carried[r] = {}
       THEN Goto(r, "decide") /\ UNCHANGED pending
       ELSE /\ Goto(r, "unlinkOld")
            /\ \E row \in carried[r] : pending' = DeleteRowOf(row)
    /\ UNCHANGED <<disk, temp, photos, surveys, now, ok, carried, sweeper, tool, environment>>

\* Mutant: the row of a replaced photo goes and its file stays.
UnlinkDiscarded_Kept(r) ==
    /\ pc[r] = "unlinkOld"
    /\ carried' = [carried EXCEPT ![r] = {}]
    /\ Goto(r, "decide")
    /\ UNCHANGED <<disk, temp, database, now, ok, stored, sweeper, tool, environment>>

UnlinkDiscarded(r) ==
    /\ pc[r] = "unlinkOld"
    /\ Unlink(Names(carried[r]))
    /\ carried' = [carried EXCEPT ![r] = {}]
    /\ Goto(r, "decide")
    /\ UNCHANGED <<temp, database, now, ok, stored, sweeper, tool, environment>>

\* Mutant: an accepted photo of a refused form is not recorded.
HoldForRetry_Dropped(r) ==
    /\ pc[r] = "decide" /\ ~ok[r]
    /\ Goto(r, "done")
    /\ UNCHANGED <<disk, temp, database, now, ok, stored, carried,
                   sweeper, tool, environment>>

\* 422: the form goes back with the token of whatever photo is still held.
HoldForRetry(r) ==
    /\ pc[r] = "decide" /\ ~ok[r]
    /\ IF r \in stored THEN CreatePendingPhoto(r) ELSE UNCHANGED pending
    /\ Goto(r, "done")
    /\ UNCHANGED <<disk, temp, photos, surveys, now, ok, stored, carried,
                   sweeper, tool, environment>>

\* createPendingPhoto threw: the file must not be left behind.
HoldFails(r) ==
    /\ "db" \in faults
    /\ pc[r] = "decide" /\ ~ok[r] /\ r \in stored
    /\ Unlink({r})
    /\ Goto(r, "done")
    /\ UNCHANGED <<temp, database, now, ok, stored, carried, sweeper, tool, environment>>

\* Mutant: only a photo uploaded with this very request is attached.
CreateSurvey_IgnoresCarried(r) ==
    /\ pc[r] = "decide" /\ ok[r]
    /\ surveys' = surveys \cup {r}
    /\ Goto(r, IF r \in stored THEN "attach" ELSE "done")
    /\ UNCHANGED <<disk, temp, pending, photos, now, ok, stored, carried,
                   sweeper, tool, environment>>

\* One transaction: the survey with all its answers.
CreateSurvey(r) ==
    /\ pc[r] = "decide" /\ ok[r]
    /\ surveys' = surveys \cup {r}
    /\ Goto(r, IF r \in stored \/ carried[r] # {} THEN "attach" ELSE "done")
    /\ UNCHANGED <<disk, temp, pending, photos, now, ok, stored, carried,
                   sweeper, tool, environment>>

PhotoToAttach(r) == IF r \in stored THEN {r} ELSE Names(carried[r])

\* storage_name is UNIQUE: a second row for the same file throws, a 500.
AddPhoto(r) ==
    /\ pc[r] = "attach"
    /\ IF PhotoToAttach(r) \cap AttachedNames # {}
       THEN Goto(r, "failed") /\ UNCHANGED photos
       ELSE /\ photos' = photos \cup [name : PhotoToAttach(r), survey : {r}]
            /\ Goto(r, IF r \in stored THEN "done" ELSE "consume")
    /\ UNCHANGED <<disk, temp, pending, surveys, now, ok, stored, carried,
                   sweeper, tool, environment>>

ConsumeCarried(r) ==
    /\ pc[r] = "consume"
    /\ \E row \in carried[r] : ConsumePendingPhoto(row)
    /\ Goto(r, "done")
    /\ UNCHANGED <<disk, temp, photos, surveys, now, ok, stored, carried,
                   sweeper, tool, environment>>

\* A statement throws outside the one place that catches it: the request ends in
\* a 500 and the effects it already had stay.
StatementFails(r) ==
    /\ "db" \in faults
    /\ \/ pc[r] = "renamed" /\ LoopFree /\ carried[r] # {}
       \/ pc[r] = "decide" /\ ok[r]
       \/ pc[r] \in {"attach", "consume"}
    /\ Goto(r, "failed")
    /\ UNCHANGED <<disk, temp, database, now, ok, stored, carried, sweeper, tool, environment>>

Step(r) ==
    \/ RejectPhoto(r) \/ WriteTemp(r) \/ RenameTemp(r) \/ StoreFails(r)
    \/ DiscardPendingPhoto(r) \/ UnlinkDiscarded(r)
    \/ HoldForRetry(r) \/ HoldFails(r)
    \/ CreateSurvey(r) \/ AddPhoto(r) \/ ConsumeCarried(r) \/ StatementFails(r)

-----------------------------------------------------------------------------
(* The expiry sweep, every fifteen minutes *)

\* Mutant: rows are swept a tick before they expire.
PruneSelect_Early ==
    /\ LoopFree
    /\ sweep' = {row \in pending : row.expires <= now + 1}
    /\ sweep' # {}
    /\ sweeping' = TRUE
    /\ UNCHANGED <<disk, temp, database, now, handlers, tool, environment>>

PruneSelect ==
    /\ LoopFree
    /\ sweep' = {row \in pending : row.expires <= now}
    /\ sweep' # {}
    /\ sweeping' = TRUE
    /\ UNCHANGED <<disk, temp, database, now, handlers, tool, environment>>

PruneUnlink ==
    /\ sweeping
    /\ \E row \in sweep :
        /\ Unlink({row.name})
        /\ sweep' = sweep \ {row}
    /\ UNCHANGED <<temp, database, now, handlers, sweeping, tool, environment>>

\* The DELETE asks for the time again.
PruneDelete ==
    /\ sweeping /\ sweep = {}
    /\ pending' = {row \in pending : row.expires > now}
    /\ sweeping' = FALSE
    /\ UNCHANGED <<disk, temp, photos, surveys, now, handlers, sweep, tool, environment>>

\* The DELETE throws: the timer's catch logs it, and rows without files stay until
\* the next sweep.
PruneDeleteFails ==
    /\ "db" \in faults
    /\ sweeping /\ sweep = {}
    /\ sweeping' = FALSE
    /\ UNCHANGED <<disk, temp, database, now, handlers, sweep, tool, environment>>

Prune == PruneSelect \/ PruneUnlink \/ PruneDelete \/ PruneDeleteFails

-----------------------------------------------------------------------------
(* prune-orphans --delete: list the directory, then read one table, then the *)
(* other, then unlink whatever neither named.  The model runs it once.       *)

ToolStep(from, to) == toolPc = from /\ toolPc' = to

ToolList ==
    /\ "tool" \in faults
    /\ disk # {}
    /\ ToolStep("off", "listed")
    /\ orphans' = disk
    /\ UNCHANGED <<disk, temp, database, now, handlers, sweeper, environment>>

ToolReadPhotos ==
    /\ ToolStep("listed", "readPhotos")
    /\ orphans' = orphans \ AttachedNames
    /\ UNCHANGED <<disk, temp, database, now, handlers, sweeper, environment>>

ToolReadPending ==
    /\ ToolStep("readPhotos", "deleting")
    /\ orphans' = orphans \ Names(pending)
    /\ UNCHANGED <<disk, temp, database, now, handlers, sweeper, environment>>

ToolUnlink ==
    /\ toolPc = "deleting"
    /\ IF orphans = {}
       THEN toolPc' = "over" /\ UNCHANGED <<disk, orphans>>
       ELSE \E name \in orphans :
              /\ Unlink({name})
              /\ orphans' = orphans \ {name}
              /\ UNCHANGED toolPc
    /\ UNCHANGED <<temp, database, now, handlers, sweeper, environment>>

Tool == ToolList \/ ToolReadPhotos \/ ToolReadPending \/ ToolUnlink

-----------------------------------------------------------------------------
(* The environment *)

Tick ==
    /\ now < MaxTime \/ \E row \in pending : row.expires > now
    /\ "skew" \in faults \/ ~sweeping
    /\ "stale" \in faults \/
         \A r \in Request : InFlight(r) =>
             \A row \in carried[r] : row.expires # now + 1
    /\ now' = now + 1
    /\ UNCHANGED <<disk, temp, database, handlers, sweeper, tool, environment>>

\* The process dies and is started again.  Boot reports orphans and deletes
\* nothing, so files and committed rows are as the crash left them.
Crash ==
    /\ "crash" \in faults
    /\ crashes < MaxCrashes
    /\ crashes' = crashes + 1
    /\ pc' = [r \in Request |-> IF InFlight(r) THEN "lost" ELSE pc[r]]
    /\ sweeping' = FALSE /\ sweep' = {}
    /\ UNCHANGED <<disk, temp, database, now, ok, stored, carried, tool, faults>>

Next ==
    \/ \E r, token \in Request, valid, hasFile \in BOOLEAN :
          Submit(r, token, valid, hasFile)
    \/ \E r \in Request : Step(r)
    \/ Prune
    \/ Tool
    \/ Tick
    \/ Crash

\* The event loop runs every continuation, the interval timer keeps firing and
\* time passes.  Nothing makes a user submit, the tool run or the process die.
Fairness ==
    /\ \A r \in Request : WF_vars(Step(r))
    /\ WF_vars(Prune)
    /\ WF_vars(Tick)

SafeSpec == Init /\ [][Next]_vars
Spec     == SafeSpec /\ Fairness
-----------------------------------------------------------------------------
(* Properties *)

\* Every variable holds what the handler, the schema or the tool puts there, and
\* carried is null or one row.
TypeOK ==
    /\ disk \subseteq Request /\ temp \subseteq Request
    /\ pending \subseteq Row /\ photos \subseteq Photo /\ surveys \subseteq Request
    /\ now \in Nat
    /\ pc \in [Request -> PC]
    /\ ok \in [Request -> BOOLEAN]
    /\ stored \subseteq Request
    /\ carried \in [Request -> SUBSET Row]
    /\ \A r \in Request : \A x, y \in carried[r] : x = y
    /\ sweeping \in BOOLEAN /\ sweep \subseteq Row
    /\ toolPc \in {"off", "listed", "readPhotos", "deleting", "over"}
    /\ orphans \subseteq Request
    /\ crashes \in Nat
    /\ faults \in FaultSets

\* The file of an attached photo is never deleted.
AttachedOnDisk == AttachedNames \subseteq disk

\* Nobody is killed, no statement fails, no form is sent again while it is in
\* flight, and prune-orphans does not delete beside the server.
NormalService == faults \cap {"crash", "db", "resubmit", "tool"} = {}

\* In normal service no discard, no sweep and no failure path deletes the file of
\* an attached photo.
AttachedStaysInService == NormalService => AttachedOnDisk

\* A photo held for a resubmission is really there for as long as its token
\* works, whatever crashes or failures came between, unless prune-orphans
\* deletes beside the server.
LivePendingOnDisk ==
    "tool" \notin faults =>
        \A row \in pending : row.expires > now => row.name \in disk

\* Nobody's photo ends up on another user's survey, even when the token of
\* another user's form is sent.
PhotoFromItsSubmitter ==
    \A p \in photos : Submitter[p.name] = Submitter[p.survey]

\* A submission that reached its survey with a photo in hand has that photo
\* attached once its handler is over: no survey is saved without it.
NoSurveyWithoutItsPhoto ==
    NormalService =>
        \A r \in surveys :
            ~InFlight(r) /\ (r \in stored \/ carried[r] # {}) =>
                \E p \in photos : p.survey = r

\* With a steady clock and a directory files can be deleted from, every file
\* belongs to a table row, or to the handler that is about to record or remove it.
SteadyService == NormalService /\ faults \cap {"skew", "stale", "unlink"} = {}

NothingLeftBehind ==
    SteadyService =>
        /\ \A f \in disk :
            \/ f \in AttachedNames \cup Names(pending)
            \/ InFlight(f)
            \/ \E r \in Request : pc[r] = "unlinkOld" /\ f \in Names(carried[r])
        /\ \A f \in temp : pc[f] = "written"

\* A row whose token still works is only ever removed by a handler that carries
\* that very row: a discard never takes the row of someone else.  A row that
\* expires in a request's hands voids this, because its id may be given again.
LiveRowRemovedOnlyByItsCarrier ==
    [][faults \cap {"resubmit", "stale"} = {} =>
        \A row \in pending \ pending' : row.expires > now =>
            \E r \in Request : pc[r] \in {"renamed", "consume"} /\ row \in carried[r]]_vars

\* The abstract promise, with what the tables and the directory say of a file.
CustodyOf(f) ==
    CASE f \in disk \cap AttachedNames -> "attached"
      [] f \in (disk \cap Names(pending)) \ AttachedNames -> "held"
      [] f \in disk \ (AttachedNames \cup Names(pending)) -> "loose"
      [] f \notin disk /\ pc[f] \in {"idle", "receiving", "written"} -> "absent"
      [] OTHER -> "gone"

Custody == INSTANCE PhotoCustody
              WITH Photo <- Request, custody <- [f \in Request |-> CustodyOf(f)]

\* The upload machinery keeps the promise of PhotoCustody: an attached photo is
\* attached for ever, a name never comes back, and nothing stays unowned.
KeepsCustody == Custody!Spec
=============================================================================
