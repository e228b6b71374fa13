# Formal verification of Taco Analyzer

Taco Analyzer is a Node.js service (Hono over `better-sqlite3`) in which
signed-in collectors file taco surveys with a photo, and administrators manage
the accounts. This directory holds TLA+ models of its state machines, the TLC
configurations that check them, and TLAPS proofs about them. Paths below are
relative to the repository root; `server/` means `src/server/`.

1. [The system](#1-the-system) · 2. [What is modelled](#2-what-is-modelled) ·
3. [The runs](#3-the-runs) · 4. [Disagreements found](#4-disagreements-found) ·
5. [Fairness](#5-fairness) · 6. [The proofs](#6-the-proofs) ·
7. [Only model-checked, and not modelled](#7-only-model-checked-and-not-modelled) ·
8. [What could come next](#8-what-could-come-next) · 9. [Running it](#9-running-it)

## 1. The system

One process, one JavaScript thread, one synchronous SQLite connection (WAL, with
a busy timeout), a directory of uploaded files, and operator scripts that open
the same database from processes of their own. Nothing of the server runs
between two `await`s except the continuation at hand, so concurrency is exactly:
requests that overlap at an `await` (a multipart body, a KDF, a file write, a
stall before a refusal), timers, the second process, and a crash between two
statements. Statements outside a `transaction()` commit one by one.

| component | state | operations | interacts with |
|---|---|---|---|
| Upload custody (`routes/survey.routes.js`, `db/pending-photos.js`, `lib/photos.js:storePhoto`, `scripts/prune-orphans.js`) | upload directory, `pending_photos`, `photos`, `surveys` | `POST /surveys`, `prunePendingPhotos` (timer), `findOrphanedUploads` (tool) | survey storage, image acceptance, server process |
| Survey storage (`db/surveys.js`) | `surveys`, `survey_items`, `photos` | create, add photo, list and summarise | routes |
| Image acceptance (`lib/photos.js`) | none, apart from the temporary file | sniff the format, strip metadata, read Exif, write and rename | upload custody |
| Survey validation, rubrics (`lib/validate.js`, `lib/format.js`, `rubrics/`) | none | parse a form, prices, dates, scores | `POST /surveys` |
| Password hashing (`auth/passwords.js`) | `activeHashes`, `hashQueue` | `hashPassword`, `verifyPassword`, `verifyDummyPassword` | users, auth routes |
| Accounts (`auth/users.js`, `routes/auth.routes.js`, `routes/admin.routes.js`) | `users` | authenticate, create, reset, choose a password, activate, change a role | sessions, throttling, hashing |
| Sessions, pre-auth (`auth/sessions.js`, `auth/preauth.js`) | `sessions`, `preauth_tokens` | create, load, rotate, destroy, prune | middleware, users |
| Login throttling (`security/ratelimit.js`) | throttling columns of `users`, `login_attempts` | lock state, record, clear, address window | users |
| Request pipeline (`app.js`, `auth/middleware.js`, `security/csrf.js`) | context of a request | attach the session, CSRF guard, role guards | every route |
| Database (`db/index.js`, `db/migrations/`) | schema, `schema_migrations` | open, migrate, transaction | everything |
| Server process (`index.js`, `config.js`) | timers | boot, a prune every fifteen minutes, shutdown | everything |
| Deployment (`deploy/*.sh`) | database and upload copies, releases | install, update, back up | the live server |

Read-only routes, views, the browser script and styles keep no server state; of
the views, two things count here: what a refused form shows again, and the links
of a list.
`PROJECT.json` lists every component with its status.

**What is hard in this code**, and what makes each part correct:

- *State read before an `await` and used after it.* A held photo is looked up
  before its replacement is stored; an account row is read before the KDF and
  written or trusted after it; a session is attached before the body arrives.
  Correct means: no photo a survey shows is deleted, nobody's session or
  password outlives what ended it, no count is lost.
- *Two owners of one file.* `photos` and `pending_photos` both name files that
  four code paths unlink. Every file has one owner at a time, and never none.
- *A counter nobody rechecks.* A waiter of `withHashSlot` takes its slot blindly
  when it is woken.
- *Guards over several rows.* "The last administrator" is a count over the table
  that every administrator changes.
- *Failures in the middle.* A statement that throws, a disk that is full, a
  crash between two statements that belong together.
- *Boundaries of time.* Windows that start and end on the same second, a clock
  read twice in one sweep, lifetimes kept in whole seconds and refreshed once a
  minute, a date that is another one where the collector is.
- *Lengths that come with the file.* Every marker, chunk and directory entry of an
  image says where the next one is. Correct means: the walk only goes forward,
  inside the file; the picture comes through untouched and nothing else does.
- *One meaning in several places.* An answer goes through a form, a validator, a
  table and three readers, and may come back to be corrected; cookies, pages and
  rows are told of a sign-in at three moments.
- *Two programs and one installation.* The server, an operator's command and an
  update may all migrate the same database, and a backup copies it and its files
  at two moments.

The list with lines is `hazards` in `PROJECT.json`, each with the properties
that would catch it.

## 2. What is modelled

An action runs as long as the code runs without being interruptible *by anything
that matters to the module*. What the environment may do (crash, failing
statement, overlapping requests, ...) is a set `faults`, drawn once in `Init` from
the constant `FaultSets`, so that one run covers several environments and a
property can say under which of them it holds.

### `Uploads`: the life of a photo (refines `PhotoCustody`)

Grain: one statement, one unlink or one file operation; nothing else of the
server runs inside a synchronous stretch (`LoopFree`), but a crash, the clock
and the orphan tool do. A request draws one storage name and one token, so the
request itself names the file, the token and the survey.

| model | code |
|---|---|
| `disk`, `temp`, `pending`, `photos`, `surveys` | upload directory, `incoming-*.tmp` files, the three tables |
| `pc`, `ok`, `stored`, `carried` | the handler of `POST /surveys`: where it is, validation result, `storedPhoto`, the row from `getPendingPhoto` |
| `Submit`, `RejectPhoto`, `WriteTemp`, `RenameTemp`, `StoreFails` | receive, look the token up, store the new file |
| `DiscardPendingPhoto`, `UnlinkDiscarded`, `HoldForRetry`, `HoldFails` | replace a held photo; hold one for an invalid form |
| `CreateSurvey`, `AddPhoto`, `ConsumeCarried`, `StatementFails` | the three statements of a valid form, and a throw at any |
| `PruneSelect`, `PruneUnlink`, `PruneDelete`, `PruneDeleteFails` | `prunePendingPhotos` with its two clock readings |
| `Unlink` | `removeUpload`, and `storePhoto`'s cleaning up: with the fault `unlink` it may fail, which the code takes for success, and the file stays |
| `ToolList` .. `ToolUnlink` | `prune-orphans --delete`, a second process |
| `IsNextRowId` | SQLite row ids without `AUTOINCREMENT`: an id may be given again |

`PhotoCustody` is the promise about one photo: absent, loose, held, attached or
gone; attached is for ever, a name never returns, and nothing stays loose or
held for ever. `Uploads` maps the tables and the directory to it with
`CustodyOf`.

### `HashSlots`: the concurrency cap on password hashes

Grain: one promise continuation. `jobs` is the microtask queue, in order;
arrivals and finished KDFs are event-loop events and happen only when `jobs` is
empty. `at` says where a request is between `withHashSlot`'s lines; each request
verifies and may then hash. `OutcomeSets` says whether a task reaches the KDF or
is over at once (malformed stored hash, a KDF that refuses its parameters).

### `Accounts`: credentials, roles and sessions

Grain: from one wait to the next, a wait being the body of a POST (after
`attachSession`) or a KDF. `Arrive` and `Handling` are the pipeline;
`StartLogin`, `LoginFails`, `LoginVerified`, `LoginRehashed` are sign-in;
`StartChange`, `ChangeVerified`, `EndChange` the password change; `SetActive`,
`SetRole`, `StartHash` with `EndReset` and `EndCreate` the administrator's
routes; `ScriptReset` and `ScriptCreate` the operator's scripts. Passwords of an
account are numbered as stored, so "an older password" is a smaller number;
`passwords` remembers which were one-time. `clean` is a history variable: the
accounts to which nobody was authenticating when their sessions were last ended
as a whole. A session may expire at any moment (there is no clock here).

### `Throttle`: failure ladder, lock, lifetime cap, address window

Grain: from one wait to the next, with a clock whose tick is the second that
`nowIso()` keeps. `Begin` is everything `authenticate` reads before the KDF,
`WrongPassword`, `UnknownAccount`, `Refused`, `Verified`, `StartRehash` and
`Rehashed` everything it does after. The consecutive count is written from what
was read, the lifetime count is incremented in place: `Counted` and
`WithFailure` are the two statements of `recordAccountFailure`, and
`CrashRecording` is a crash between or after them. `streak` and `failed` are
history variables that count failures as they arrive, `torn` the accounts whose
latest failure a crash cut off. The decay window, the lock and the
address window are all fifteen minutes in the code and one constant here. The
stall before a refusal delays the attempt's own reply only and is left out.

### `ImageBytes`, `JpegStrip`, `PngStrip`, `WebpStrip`, `ExifRead`, `PhotoStrip`, `PhotoFiles`: a file on its way in

A file is a sequence of numbers. Below 256 they are bytes; a number of 1000 and
above is a *symbol* for several bytes that are only ever compared as a whole (a
signature, a chunk type, the `Exif` prefix, a TIFF header's byte order, a text).
Grain: one turn of each loop. `phase` goes from received over walk, budget,
strip and extract to stored or refused; `offset` is where the walk stands,
`segments` what it found, `next` the part the rebuilding loop is at, `out` the
file under construction.

| module | code (`server/lib/photos.js`) |
|---|---|
| `ImageBytes` | the file, the range checks, refusals, the pixel budget's tests |
| `JpegStrip` | `walkJpeg` with `findScanEnd`, `stripJpeg` |
| `PngStrip` | `readPngDimensions`, `stripPng` with its checksums |
| `WebpStrip` | `readRiffChunks`, `readWebpDimensions`, `stripWebp` with flags, pads and the RIFF size |
| `ExifRead` | the bounded TIFF reader: IFDs, entries, rationals, coordinates, altitude, times |
| `PhotoStrip` | `storePhoto`'s order: size, `identifyImage`, walk, `checkPixelBudget`, strip, `tiffRange` and Exif; then what was stored is uploaded again |
| `PhotoFiles` | no code: what a photo file is, as a grammar of its parts, against which the walks are proved |

A sending pairs the bytes with what its maker knows (the picture in it, whether
it is sound, what the camera recorded); no step reads that, and the properties
compare with it. `PhotoFiles` says the same of any file at all: where a part of each
format may lie (`IsPart`), when parts in a row are the parts of the file (`Laid`),
which of them draw the picture and which size they tell, hence the picture to be
stored (`PictureOf`) and the code to be refused with (`Verdict`). It constrains the
file as a whole, so it has neither an offset nor an order of reading.
`TellsTheTruth` says that what a maker knows agrees with it; `MCPhotoStrip` assumes
this of its makers, and TLC evaluates the assumption for each file of the run.

### `SurveyRules`, `SurveyReports`, `Surveys`: from the blank form to the list

`SurveyRules` has the rubric as data, each validator of `lib/validate.js` and
`lib/format.js` as an operator over texts of character codes, and the derived
scores. `SurveyReports` has what `db/surveys.js` reads back: one survey, the
paginated list, the dashboard's figures with their table of states, which is cut
off at a limit (`StatesShown`, ten in the code). `Surveys` runs them: `OpenForm`,
`FillIn` and `Correct` are the collector's side, a table of entries that says of
each what is typed, whether it is an answer, and what is meant; `SendBack` and
`Save` are `POST /surveys`; `OpenList`, `FollowNext`, `LeaveList` a reader of the
list; `Tick` goes to the next day. Nothing of the validators is used to write
the table of entries, which is what makes it something to hold them to.
`EntriesAreRead` states what the table says, entry by entry and day by day; TLC
evaluates it for the entries of the run (`EntryAssumption` of `MCSurveys`), and
the proofs go on from there to whole forms.

### `Sessions`: one browser and the two tables behind its cookies

A request carries the cookies the browser held when it was sent (`Send`); the
session is looked up, refreshed or dropped when it arrives (`ArriveGet`,
`ArrivePost`); the form's token is compared when the body is in (`Refuse`,
`StoreSurvey`, `Logout`, `StartHashing`); a sign-in or a password change ends
after the slow hash (`SignInFails`, `SignInSucceeds`, `ChangeEnds`); and the
answer changes the browser's cookies and the tab's page only when it is taken in
(`Receive`), or never (`Lose`). `Prune` is the timer. The clock counts half
seconds and timestamps are kept as whole ones, as `toISOString()` without its
milliseconds does. `plan` bounds a behaviour: which tabs and requests, one at a
time or overlapping, how many tokens, how the clock moves.

### `Deploy`: releases, migrations, backups

Release `r` ships the migrations `1..r`. The server, an operator's command and
the update's own command (`procs`) each read the shipped files and the recorded
rows once (`Started`) and then take one transaction per missing migration
(`Migrate`), which may throw, be killed, or find that another process was
faster. `Restart` is systemd; `Backup` .. `BackupFails` are `backup.sh`, which
copies the database and then archives the directory while `Upload`, `Hold`,
`Attach` and `Drop` go on; one that fails leaves its directory behind, which `KEEP`
counts like any other (`Incomplete`), and only a complete one is restored; `Update` .. `Start` are `update.sh`; `Restore` ..
`RestorePhotos` the restore that `backup.sh` prints, onto the same or an empty
directory.

## 3. The runs

`CHECK_DEADLOCK FALSE` where a finished behaviour really stops (requests are used
once, scripts are budgeted). `photos`, `surveys` and `sessions` check deadlock: a
photo whose handling stops half way, or a form nobody can answer, would be one.

| run | bounds | checks |
|---|---|---|
| `uploads_safety` | 4 submissions by 2 users; TTL 1; row ids to 4; 1 crash; 6 fault sets | `TypeOK`, `PhotoFromItsSubmitter`, `LivePendingOnDisk`, `AttachedStaysInService`, `NoSurveyWithoutItsPhoto`, `NothingLeftBehind`, `LiveRowRemovedOnlyByItsCarrier` |
| `uploads_custody` | 3 submissions by 1 user; TTL 2; failing disk; fairness | `KeepsCustody`: the refinement of `PhotoCustody`, liveness included |
| `hash_slots` | 5 requests, 2 slots, 3 outcome sets; fairness | `TypeOK`, `CapHoldsForRealHashes`, `SlotsCounted`, `NoIdleSlot`, `Answered` |
| `accounts_safety` | 4 requests, 2 addresses, 4 sessions, 2 fault sets | `TypeOK`, `AdministratorRemains`, `NoSessionFromOldRole`, `SeveredSessionsAreGone`, `HandoverOpensNothing` |
| `throttle_safety` | 3 attempts in flight, 4 in all, from 2 addresses on 1 account; lock at 2, cap 3, address limit 2, window 2, clock to 4; 3 fault sets | `TypeOK`, `CapDisables`, `SourceBounded`, `LockedAtThreshold`, `LockHolds` |
| `photos` | some 6900 files; size limit 200, side 9, 30 pixels, 12 segments, 8 directory entries | `FateIsTheFilesOwn`, `StoredFileIsSettled`, `PartsFollowOneAnother`, `MetadataAsTaken` |
| `surveys` | plans `odd` (up to two odd entries, a refused photo), `figures` (3 surveys of 4 kinds), `states` (4 surveys in up to 3 states, of which 2 are shown), `walk` (5 surveys, pages of 2); 3 days over a leap day; names to 4, notes to 5, texts to 10 characters | `RefusedForWhatIsWrong`, `OneRoundOfCorrections`, `StoredAsMeant`, `NumbersAgree`, `EverySurveyIsListed` |
| `sessions` | plans `OneTab`, `Turns`, `AtOnce`; 2 users; idle 6, refresh 3, absolute 13, form token 9 half seconds; up to 5 tokens | `TypeOK`, `ActsForItsPage`, `NoSessionLeftBehind`, `SessionsLastAsLong`, `LoginFormsKeepWorking` |
| `deploy` | 3 releases, start limit 5, 1 backup kept, 2 photos; plans `Updates`, `Failing`, `Editing`, `Restores`, `OldPages`; fairness | `ServesItsSchema`, `PhotosSurvive`, `ServiceComesBack` |
| `uploads_attached` | as `uploads_safety`, with resubmission alone or a crash alone | `AttachedOnDisk` is **violated** |
| `accounts_replaced`, `accounts_rehashed` | 3 requests | `NoSessionFromReplacedPassword`, `ReplacedPasswordStaysDead` are **violated** |

Why the bounds are enough:

- *Uploads.* The hazards take two requests of one user (a form and its
  resubmission), a third whose row reuses an id, and one of another user. The
  clock moves only while a held row still lives (`MaxTime = 0`); with TTL 1 every
  row can expire at every point, TTL 2 in the liveness run adds a moment between.
  One run of the tool and one crash are what any counterexample found needs.
- *HashSlots.* Two running, two waiting and one arriving are every position a
  request can hold at once; the cap is the code's own.
- *Accounts.* Two addresses, with every initial mix of missing accounts, roles and
  one-time passwords that has an administrator: two administrators can act on each
  other, each with an operation in flight, while two more requests overlap.
  `MaxSessions` bounds tokens at one per request.
- *Throttle.* Lock below cap, as in the code; two attempts share an address and
  a third does not; four attempts pass the lock and the cap; four seconds hold
  two windows, so a lock, its end, a decay and a new failure fit. `KeepFor`
  (an hour at each insert) is above the window, so pruning is exercised.
- *Photos.* Three families: files built from parts with every combination of the
  parts a format knows, and with each single fault; every short row of JPEG
  fragments, sound or not; an Exif block with each single entry, pointer or value
  damaged. The limits are small enough for files on both sides of each.
- *Surveys.* Faults are found control by control, so two odd entries show every
  interaction of two (which is named first, what is echoed); three surveys are
  what an average and a revisit need, and four in three states what a table of two
  states needs to leave one out, with a tie or without; five surveys on pages of two
  are three pages, with surveys arriving between any two.
- *Sessions.* The four lifetimes are pairwise apart and none a multiple of
  another, on a clock of half seconds against stamps of whole ones; a tab, two
  that take turns and two that cross are three plans because their product is
  beyond TLC, and each asks its own question.
- *Deploy.* Three releases give a migration that is there, one that is missing
  and one that is newer; two commands and two kills beside two updates; two
  photos so that one can be held while the other is attached, dropped or new.
  `OldPages` has a restore with tabs left open from before.

Symmetry is used over requests of one user, over addresses, and over attempts of
one address; never in a run with a liveness property.

What the passing runs show, in words:

- `AttachedStaysInService`, `NoSurveyWithoutItsPhoto`, `NothingLeftBehind`: while
  no form is sent twice at once and nothing crashes, requests and sweeps in any
  interleaving delete no attached file, lose no photo and leave no file unowned.
  With an unlink that fails, or a clock that moves inside one sweep, a file may stay
  that no table names; no attached one is lost.
- `LivePendingOnDisk`, `PhotoFromItsSubmitter`: hold even then, the first except
  beside `prune-orphans --delete`.
- `LiveRowRemovedOnlyByItsCarrier`: reuse of row ids is harmless as long as no
  row expires in a request's hands.
- `SlotsCounted`, `NoIdleSlot`, `Answered`: no path leaks a slot or a wake-up,
  whatever tasks do. `CapHoldsForRealHashes`: the cap holds if every task waits
  for a KDF.
- `AdministratorRemains`: no interleaving of deactivations and demotions, of any
  number of administrators, removes the last one. The lifetime cap can, and the
  property says so.
- `NoSessionFromOldRole`, `SeveredSessionsAreGone`, `HandoverOpensNothing`: role
  changes, resets, password changes and deactivations end what they should,
  provided nobody was authenticating at that moment; a one-time password, which
  an administrator has seen, does no administrator's work.
- `CapDisables`: overlapping attempts never outrun the lifetime cap.
  `SourceBounded`: an address exceeds its limit by at most the attempts it has in
  flight. `LockedAtThreshold`, `LockHolds`: used by one attempt at a time, an
  account is locked exactly when it should be, across successes, quiet windows,
  resets and crashes.
- `FateIsTheFilesOwn`: a sound photo is never refused and its picture comes
  through byte for byte, with nothing else; a damaged one is refused for its own
  fault. `StoredFileIsSettled`: whatever was accepted, the stored file sent again
  is accepted and stored as it is. `MetadataAsTaken`: damage costs the value it is
  in and no other.
- `RefusedForWhatIsWrong`, `OneRoundOfCorrections`, `StoredAsMeant`: all faults
  and only faults are named, answers in the order of the page (where the photo comes
  is another matter, see `ErrorsInPageOrder` below), what was right survives the round trip through the
  page, and the rows say what was meant. `NumbersAgree`: SQL and JavaScript
  compute the same figures; the table of states shows as many as fit, none instead of
  one with more surveys, and adds up to the total when all fit. `EverySurveyIsListed`: a reader who follows Next
  misses no survey.
- `ActsForItsPage`: no form acts for another user than its page's, with tabs,
  cookies and answers in any order. `SessionsLastAsLong`: no session outlives or
  falls short of its limits by more than the refresh grain and a cut-off second.
  `NoSessionLeftBehind`, `LoginFormsKeepWorking`: a browser doing one thing at a
  time leaves no row behind and is not refused by its own second tab.
- `ServesItsSchema`: migrations are applied in order and whole, whoever races,
  throws or dies. `PhotosSurvive`: every complete backup, restored, has the
  files of its attached photos. One case is left to the user: a form still open in a
  tab from before the restore may carry the token of a photo that had been dropped
  before the directory was copied. The restore brings the row back without its
  file, `getPendingPhoto` asks for token, user and expiry only
  (`server/db/pending-photos.js:86-94`), and the photo is attached to a survey without
  its file. `OldTabs` names these photos, the property leaves them out, and without the
  exception TLC shows it in fifteen steps. `ServiceComesBack`: an update or a restore that has stopped
  the service brings it back.

## 4. Disagreements found

Four of the `findings` in `PROJECT.json`, in three `violation` runs:

1. `uploads_attached`, resubmission: `POST /surveys` discards the held row it
   read before storing the new file. If the same form was sent again without a
   file meanwhile, the photo that survey has attached is deleted.
2. `uploads_attached`, crash: attaching a held photo and consuming its holding row
   are two transactions; after a crash between them the expiry sweep deletes the
   attached file.
3. `accounts_replaced`: a sign-in verified against the old password opens its
   session after a reset has ended all sessions.
4. `accounts_rehashed`: the hash upgrade of such a sign-in overwrites the
   password set meanwhile; the old one works again.

Further statements of the documentation that do not hold are defined in the
modules; each is refuted by TLC when the named configuration is changed as said:

| definition | change | what TLC shows |
|---|---|---|
| `Uploads.AttachedOnDisk` | `Uploads_attached.cfg` with `FaultSets = {{"tool"}}` | `prune-orphans --delete` reads the directory and two tables at three moments, and can delete a referenced file beside a live server |
| `HashSlots.CapHolds` | `HashSlots_cap.cfg` with it as INVARIANT | a task that never reaches the KDF: a woken waiter and a caller that hashes again take the same slot, and three hashes run at once |
| `Throttle.LockedAtConsecutiveFailures` | `Throttle_safety.cfg` with it as INVARIANT | failures in flight together count as one, so the timed lock comes late (the lifetime cap, counted in place, does not) |
| `Surveys.VisitsAreNotAhead` | `Surveys_surveys.cfg` with `LocalDates <- EveningDates` and it as INVARIANT | on an evening west of Greenwich tomorrow's date is accepted as the visit's; east of the date line a collector's own date is refused as future |
| `Surveys.ErrorsInPageOrder` | `Surveys_surveys.cfg` with it as INVARIANT | errors are kept so that the summary "can list errors in the order the fields appear on the page" (`server/lib/validate.js:39-41`); of notes and a photo refused together the notes come first (the photo's error is added last, `server/routes/survey.routes.js:168`), and the page has the photo before them (`server/views/survey-form.js:649-666`) |
| `Deploy.ServiceDoesNotMigrate` | `Deploy_deploy.cfg` with `Plans <- OneKill` and it as PROPERTY | the unit file says the service does not migrate (`src/deploy/taco-analyzer.service:79-80`), but `server/index.js:48-52` does at every start. `src/docs/backlog.md:88-91` takes the same for granted after a restore: with an old backup "the app starts against a database with no such table" unless `migrate` is run. It does not: `ServesItsSchema` covers the restored database too, and holds |

Smaller ones met while reading:

- `scripts/reset-password.js:8` says the account is "unlocked and reactivated",
  which happens only with `--activate`.
- A password of 129 to 256 characters outside the basic plane passes the policy
  (code points, `server/auth/passwords.js:418`) but not `hashPassword` (UTF-16
  units, line 234).
- `parseMoneyToCents` strips commas before it looks at the digits, so "3,50" is
  $350.00, although `server/lib/format.js:28` says it rejects anything else.
- `distinct_venues` joins names with `|`, so two venues whose names contain it can
  count as one; `NumbersAgree` says so in its premise.
- `server/lib/validate.js:12-14` speaks of unknown keys as errors; an unknown
  metric key is ignored.
- A sign-in page opened just before its token ends shows a token with less than
  its hour left, although `server/auth/preauth.js:29-31` says otherwise.
- A multipart request whose route answers before it has set `csrfVerified` ends as
  an error page instead of the refusal (`server/auth/middleware.js:277-285`).
- A stored photo at the very size limit that gained its missing EOI or pad byte is
  too large when it is uploaded again; a JPEG of exactly 4096 kept segments that
  gained its EOI is refused as damaged (`server/lib/photos.js:885`).
- `src/deploy/update.sh:7-8` says old code never sees a new schema; an operator's
  command between the pull and the stop migrates beside the old server. A command
  beside the update's migration can also make that throw, and the service stays
  stopped.

## 5. Fairness

- `Uploads.Spec`: weak fairness of each request's steps (the event loop resumes
  every handler whose `await` has settled, and the file operations settle), of
  the sweep (an interval timer of the server) and of the clock. Nothing is
  assumed of users: nobody has to submit, so a held photo must leave through the
  sweep. Safety runs and proofs use `SafeSpec`, without fairness.
- `HashSlots.Spec`: weak fairness of each KDF on the thread pool and of each
  request's next continuation: Node runs the microtask queue to its end.
- `Deploy.Spec`: weak fairness of a process that has begun to migrate, of systemd's
  restart (`Restart=on-failure`), of a command that has begun, and of the next
  step of a script that has begun. Nothing is assumed of users, of operators, or
  of the dependencies' installation.
- The other modules state no liveness and no fairness.

## 6. The proofs

TLC checks the small instances above; the theorems hold for every value of the
constants allowed by the named assumptions, which TLC evaluates in the runs:
`UploadsAssumption`, `HashSlotsAssumption`, `AccountsAssumption`,
`ThrottleAssumption` (which has finitely many attempts); `TimesAssumption`, `NamesAssumption` and `PlansAssumption`
of `Sessions`; `PlansAssumption` and `BoundsAssumption` of `Deploy`;
`BoundsAssumption` of `ImageBytes` and `SendingsAssumption` of `PhotoStrip` (a
file is a sequence of numbers); `ListAssumption` of `SurveyReports` (a page and
the table of states have room); `FormAssumption` (the calendar does not go back, what the page presets is
accepted on every day, a state is chosen from its list) and `TextAssumption` (what
stands in a control is a sequence of characters) of `Surveys`. They assume nothing
else, except that `RefusalsNameWhatIsWrong` and `SavedAsMeant` state
a hypothesis of their own, `EntriesAreRead`: each entry, alone on its page, is read
as it is meant. `FatesAreTheFilesOwn` has the
hypothesis that makers tell the truth (`TellsTheTruth`), which TLC evaluates for the
files of the `photos` run; `PartsTellTheFate` says the same of the parts without a
hypothesis. None needs fairness, and the `faults` sets are arbitrary.

**`UploadsProofs`** — `TypeCorrect`, `OwnerCorrect` (`PhotoFromItsSubmitter`),
`HeldPhotoIsThere` (`LivePendingOnDisk`), `AttachedPhotoStays`, `SurveyHasItsPhoto`,
`NothingIsLeftBehind`, `DiscardsItsOwnRow` (`LiveRowRemovedOnlyByItsCarrier`),
`CustodyIsKept`.
`TypeInv` adds that a file has one holding row. `OwnerInv` adds that rows, and rows
in a handler's hands, belong to the user of the file. `HeldInv` adds that whatever
is about to be unlinked, by a handler or by a sweep, has no row whose token still
works: the invariant proper says nothing of unlinks under way, so it is not
inductive without it. `AttachInv` follows the premise of normal service:
a row in a handler's hands is still its own, a file with a `photos` row has no
other owner except for the step between attaching and consuming, and a survey
whose handler has a photo has attached it or is about to. `LeftInv` adds who is
about to record or remove each file that no table names, as long as unlinks succeed, `CarrierInv` that a row
a request carries keeps its id as long as it lives. `CustodyIsKept` is the safety
half of the refinement, in steady service: the initial states map to
`PhotoCustody`'s and every step to one of its steps or to a stutter.

**`HashSlotsProofs`** — `TypeCorrect`, `SlotsAreCounted`, `NoSlotIsIdle`,
`CapOfRealHashes`, for any number of requests and any cap. The invariant
`SlotInv` says that each request in a queue is there once and in the place that
goes with it (`PlaceInv`), that whoever has been promised a slot has its
continuation ready (`Promised`), that the counter is the number of running
tasks, and, the point of it, that beside a non-empty `hashQueue` the requests
that hold a slot *or have been promised one* are at least the cap. Holders alone
are fewer between a wake-up and its continuation. `CapInv` is the other
direction, for tasks that all wait for a KDF: then the microtask queue holds one
chain of continuations at a time (`OneChain`), so a freed slot and the woken
waiter that will take it are never apart when somebody else looks.

**`AccountsProofs`** — `TypeCorrect`, `AnAdministratorRemains`, `RolesAreFresh`,
`SessionsAreSevered`, `HandoverIsClosed`. `IInv` is typing, the first three
properties and `RowsCurrent`: while an account is clean, whoever is signing in
to it holds the row it still has. Without it the step that opens a session could
open one for a replaced password. Steps are first reduced to their effect on the
tables (one account changed, sessions dropped, a session made), and each
invariant is then shown for the effects rather than for twenty actions.
`AnAdministratorRemains` counts: removing one of at least two active
administrators leaves one. `HandInv` follows a one-time password: each session
and each request knows whether it came from one, and so does the account's
must-change flag.

**`ThrottleProofs`** — `TypeCorrect`, `CapIsKept` (`CapDisables`), `LockIsExact`
(`LockedAtThreshold`), `LockIsHeld` (`LockHolds`, an action property),
`SourceStaysBounded` (`SourceBounded`). `CapInv` says
that the lifetime column equals the history count, which overlapping attempts
cannot disturb because it is incremented in place. `LadderInv`, for accounts used
by one attempt at a time, says that the stored count is the streak or has
decayed; that `locked_until` lies ahead only with a count at the threshold, and
then exactly a window after the one remembered failure; and that what the
attempt read is still so (`ReadInv`), where a lock may meanwhile have run out but
not begun. `SourceStaysBounded` holds for any limit and any number of attempts: the
rows of an address inside the window, together with its attempts that have
passed the test and not yet recorded, are counted as one set, and an attempt
that passes while its address is at the limit does not exist. Pruning cannot
help an address, since rows are kept longer than the window.

**`SessionsProofs`** — `TypeCorrect`, `PageActsForItsUser` (`ActsForItsPage`),
`SessionLifetime` (`SessionsLastAsLong`, an action property). `RowsInv` bounds each
row's times by its last use and its sign-in, `TokensInv` says that a form's token
was issued to nobody, and `TabsInv` that whatever a page, a request or an answer
says of a session agrees with whom its token was issued to, though the row may
be gone: it is what makes a token that matches a page's a proof of its user.
For a browser that does one thing at a time, also `OneSessionAtMost`
(`NoSessionLeftBehind`) and `FormsStayGood` (`LoginFormsKeepWorking`, an action
property). `TurnsInv` names the one session the table may hold at
each stage of the one request: the cookie's, the looked-up one, the answer's.
`FormsInv` says of every token a sign-in form shows that it is used, or over, or
both stored and the browser's own; that the last kind is gone while somebody is
signed in is what the argument needs, because a form is then compared with the
session's token instead.

**`DeployProofs`** — `SchemaServed` (`ServesItsSchema`) and `PhotosSurviveRestores`
(`PhotosSurvive`), for any number of releases, plans, photos and backups. `Schema`
says that each database, also one in a backup, records exactly the migrations its tables show, `Progress` what a
process has read and checked so far is still a prefix of the record, `Standing`
that nobody serves while a restore is under way. `Photographed` and `BackedUp`
say that the files of every photo a copied database has as attached, or may
attach later, were there when the directory was listed: it rests on the database
being copied first and on names never being given twice.
The photos of `OldTabs` are the exception here as in the property.

**`PhotoStripProofs`** — `PartsInOrder` (`PartsFollowOneAnother`),
`StoredFilesAreSettled` (`StoredFileIsSettled`), `PartsTellTheFate` and
`FatesAreTheFilesOwn` (`FateIsTheFilesOwn`), for files of any bytes and any limits.
The walks search (for the next marker, for the end of a scan) by a least
position with a property; that it exists and where it lies is shown from the
well-foundedness of `<` on the naturals. `WalkInv` adds that what was found so far
ends where the walk stands or before.
For the second theorem, `IsClean` describes a stored file of each format by cuts:
`Row` says that it consists of pieces, one from each cut to the next, each of which
gives its own length and is of a kind that is kept. Among the pieces of a JPEG are
the frame header that gives its size and a scan; a PNG's IHDR comes first and its
IEND last; a WebP's header has the length of the file, and its chunks give its
size. `FirstPass` says that the rebuild is always writing such a file: each turn
makes the row longer by one piece or leaves a part out (`PngWritten`,
`WebpWritten`, `JpegWritten`), and the size read from the copy is the size read
from the original. `SecondPass` says that a walk over a clean file finds its pieces
and nothing else, and that the rebuild copies them (`PngSecond`, `WebpSecond`,
`JpegSecond`).
`StripInv` is the two together, and inductive; `StoredFileIsSettled` alone is not,
as it says nothing of a rebuild under way. `StripInv` quantifies over all
sequences of cuts, so TLC checks the property and not the invariant. The exception
for a JPEG at the segment ceiling was found by this proof: the walk of such a file
takes as many parts as it may, the rebuild adds the missing EOI, and the second
walk has one part more than it takes.

`PartsTellTheFate` compares the walks with the grammar of `PhotoFiles`. Each file has
a row of parts, the longest one that can be laid (`EveryFileIsLaid`), and a turn of a
walk finds its next part or, where the walk stops, there is none (`TurnIsPart`,
`TurnIsExpected`, `ChunkIsExpected`, `PngIsExpected`): the marker behind the fill
and the end of a scan are the only ones possible. `FateAs` is the inductive part of
`FateInv`, phase by phase: while walking, what was found so far is the first parts of
the row (`WalkedTo`); at the budget, the size is the one the row tells; while
rebuilding, the output is what the first parts contribute (`Drew`), as the
concatenation of a list grows by one (`StrungMore`); a refusal has the row's verdict
as its code. PNG has no walk of its own, so its row is followed by the copying loop
(`PngTaken`). The property itself says nothing before the end, and is not
inductive. `FatesAreTheFilesOwn` then replaces the row's verdict and picture by what
the maker told; on the second upload it rests on `StripInv`.

**`SurveysProofs`** — for any plans, entries, calendar and page size.
`ListsAreWhole` (`EverySurveyIsListed`): new surveys come before the ones a reader
has been shown, so the place of a survey in the list only grows, and what the
reader has not seen lies at or after the next page's first place.
`NobodyCorrectsTwice` (`OneRoundOfCorrections`): `FormInv` says that a page that came
back shows every mistaken control again and holds only accepted readings
elsewhere; `LaterDaysToo` is what it needs, that what is accepted today is
accepted on every later day, since only the visit's date is compared with the
day. `RefusalsNameWhatIsWrong` (`RefusedForWhatIsWrong`) and `SavedAsMeant`
(`StoredAsMeant`) take what `EntriesAreRead` says of single entries to forms of 19
controls, over any number of rounds and days: `ShownAsMeant` says that a page,
also one that was echoed, shows entries that still mean what the collector
meant; `JudgedRight` that the answers named are the unsound ones, in the page's
order, with a refused photo somewhere among them; `Filed` that the tables hold exactly the rows of what was meant, one per
question and none from another survey. Statements about every place of a list
are shown by a least counterexample (`Smallest`).

`FiguresAgree` (`NumbersAgree`) needs no hypothesis on entries. A sum over a set is a
fold of the library, that is a recursive function chosen by `CHOOSE`: `AddingWorks`,
`AddingIsUnique` and `SumTaking` show by a least counterexample, over the set's
cardinality, that there is such a function and that its value does not depend on
the order in which members are taken. From there a sum may be split, moved along a bijection and
compared with another member by member (`SumOfTwo`, `SumMoved`, `SumInParts`,
`SumNear`), each by induction over subsets (`MemberByMember`). The rest is about the
program. `TextsShown`: what stands in a control is always a text, also after an echo.
`Answered`: what the validators accept are numbers in their range, so a score cannot
divide by zero, nor a price by a quantity. `Figured`: there is a list of answers, a
survey each, of which the tables hold exactly the rows; it is inductive, while the
property, which only speaks of figures, is not. The three averages then follow from
it each in its own way: the taste score of one survey and SQL's average over all its
surveys' answers are rounded once each (`AverageTasteAgrees`), the price of an item is
rounded before it is averaged here and there (`AveragePriceAgrees`), and venues are counted
by a label that tells them apart as long as no name in it has the separator
(`VenuesAgreeToo`). A state is in the table when fewer than `StatesShown` stand before
it: `TextsInOrder` shows that states can always be put in a row, `FirstOnesFit` that the
first ones of a row are as many as fit, and `StatesAgree` that none of them has fewer
surveys than one left out.

## 7. Only model-checked, and not modelled

Only model-checked:

- liveness (`Answered`, the liveness half of `KeepsCustody`, `ServiceComesBack`):
  it needs fairness and `ENABLED`, which TLAPS cannot handle;
- `MetadataAsTaken`: it compares with what the camera recorded, which the maker of a
  block knows; a description of all Exif blocks, sound or damaged, would be the
  bounded reader of `ExifRead` over again;
- that the makers of the `photos` run tell the truth (`MakersTellTheTruth`), which
  is about those files and needs no proof for others;
- `EntriesAreRead`, what a validator makes of each single text: a validator walks
  its text character by character, and TLC evaluates it for every entry of the run.

`SurveyRules` and `SurveyReports` are operators; `PhotoStrip` and `Surveys` have no
type invariant of their own, since their stronger invariants imply what one
would say.

Abstracted: SQLite and the file system are atomic per statement and per call;
KDFs, randomness and tokens are ideal; texts, markup, logging and headers are left
out, except where a property is about them. A request that reads only is left out
of `Uploads`, `Accounts` and `Throttle`. In `Accounts`, a request attached before a
demotion or deactivation is still carried out after it, as in the code, and a
session may expire at any moment; `Sessions` has the clock, and users there are
names. Over HTTPS signing out clears the form cookie too (Clear-Site-Data), over
HTTP it does not: `Logout` may do either. The Origin test of `verifyCsrf` always
passes for the site's own pages, which send a multipart body to `POST /surveys` only:
the deferred test of `csrfGuard` on other routes (`server/auth/middleware.js:275-287`)
is left out of `Sessions`. Of the spellings that
`Number()` takes for a rating, `Decimal` has digits with at most one dot; signs,
exponents and other bases are left out, as no button of the form sends one.

Left out of modelled parts: the PHC text format, the common-password list and
the start-up probe of `auth/passwords.js`; `sanitizeDisplayFilename`
(`lib/photos.js:1467-1517`), which shortens a name for display; `recentSurveys`, the
numbers of page links, photo counts, the status column and Unicode normalisation
of surveys; listing users; the ten seconds that shutdown waits for open requests;
WAL checkpoints; the choice of backups by directory name.

Not modelled: the browser script and styles (the server relies on none of it);
markup in the views; reading the configuration; asset and photo routes (they read
a file and send it); `install.sh` and `uninstall.sh` (provisioning of a host);
argument parsing of the scripts. Each is in `components` of `PROJECT.json` with its
reason.

## 8. What could come next

- *Compositions.* `Accounts` with `Sessions` (a timeout between attach and use) and
  `HashSlots` under `Accounts` (waits that end in queue order) would make their
  separate abstractions one; each product is beyond TLC at the present bounds, so
  it needs smaller instances chosen for one question each.
- *Shutdown.* The drain of `index.js` beside requests in flight and the crash
  that follows when it takes too long; today a stop is a kill.
- *Proofs.* Validators for every text, one at a time, by least counterexamples over
  its places, would turn `EntriesAreRead` from a hypothesis into a lemma.

## 9. Running it

    tlc -workers 2 -config Uploads_safety.cfg MCUploads
    tlapm UploadsProofs.tla

`PROJECT.json` maps every definition to source lines, lists the runs with their
properties, and for each property a `mutant`: a named variant of a definition
(`X_Something`, beside the definition it changes) that makes the property fail,
which shows that the property depends on the code it is about.
