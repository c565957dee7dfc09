# A verification of FixLink

FixLink is a marketplace for repair work: an Express backend over MySQL
(`src/backend`), an Angular application (`src/apps/web`), and a schema with its
migrations (`src/database`). Customers post jobs, providers quote, a quote is
accepted, the work is scheduled, done, confirmed. Businesses also run internal jobs
for their own customers with their own technicians.

This directory holds TLA+ modules translated from that code, configurations that
model-check them with TLC, and proofs that TLAPS checks. Line numbers refer to the
files under `src/`.

1. [Inventory](#1-inventory)
2. [Modules and how they correspond to the code](#2-modules)
3. [Runs](#3-runs)
4. [Proofs](#4-proofs)
5. [What the models found](#5-what-the-models-found)
6. [What is not modelled](#6-what-is-not-modelled)
7. [Plan](#7-plan)

## 1. Inventory

The backend is one Node process (several may run against one database). A request is
an asynchronous handler: it is atomic between two `await`s and any other handler may
run at each. All shared state is in MySQL, reached through a pool of ten connections;
nothing sets an isolation level, so transactions are `REPEATABLE READ`. A store
operation is either one autocommitted statement or one transaction that takes
`SELECT ... FOR UPDATE` on the row it is about.

| Part | State it keeps | Operations that change it | What is hard | What makes it correct | Module |
|---|---|---|---|---|---|
| Marketplace jobs (`modules/jobs`) | `jobs`, `job_status_history`, `job_assignments` | create, edit, cancel, delete | creation is three autocommitted inserts; the service authorizes on a row it read before the lock; notices around a deletion | history agrees with the status; a withdrawn job is closed; an agreed job keeps what was agreed | `MarketplaceJob` |
| Quotes and scheduling (`modules/quotes`) | `quotes`, `jobs`, history, assignments | quote, accept, schedule, start | accept against accept, accept against a new quote, the cap on quotes, several users of one business | one winner; at most `MAX_QUOTES_PER_OPEN_JOB` live quotes; one live quote per provider | `MarketplaceJob` |
| Execution (`modules/execution`) | `jobs`, `job_updates`, `job_images` | complete, confirm, photos, notes | retried completion; a photo is a file and a row | completed once; files and rows agree | `MarketplaceJob`, `JobFiles` |
| Endpoints of the three (services and controllers) | - | - | dozens of handlers, each with its own order of checks | a stranger's id is unknown; nobody sees a price before naming their own | `MarketplaceApi` |
| Files (`services/file-storage.ts`, the stores' attachments) | the upload directory | save, read, remove | two systems, stops between the writes | no row without its file | `JobFiles` |
| Business: internal jobs (`modules/business`) | `jobs` with `source = INTERNAL`, `job_assignments`, history | create, edit, cancel, assign, start, complete, document | a technician is replaced while acting; the edit has no status condition | timeline agrees with status; completed once | `InternalJob`, `BusinessApi` |
| Business: parts requests | `parts_requests`, `job_approvals` | request, review, mark available, answer, resume | reviews race each other and the answer; the resume looks at a snapshot | a waiting job waits for something; decisions are recorded and told | `InternalJob` |
| Business: roster | `users`, `user_roles`, `technicians`, `business_members` | register, invite, link, activate, deactivate, assign | an invitation is four commits; two tables hold one fact | gate and roster agree; one invitation counts; who left sees nothing | `Roster` |
| Offerings, service areas, matching (`modules/offerings`, `provider-areas`, `marketplace`) | `service_offerings`, `service_areas` | offer, edit, remove, replace all areas | two savings under InnoDB's gap locks; the fan-out reads in many statements and cuts twice what the quote check reads in one | lists are whole; who matches is told, and who is told may quote | `Matching` |
| Notifications and e-mail (`modules/notifications`, `services/mailer.ts`) | `notifications`, delivery columns | create for users, mark read, send | row, send and outcome are three steps | records are true, nobody is left out because of a mail | `Notifications` |
| Inbox and badge (web) | one page, its badge and list | load, mark, poll, sign out, lose the session | answers in any order, after a change of user; a session that ends under an open screen | what is shown belongs to its reader | `Inbox` |
| Sessions (`modules/auth`) | `refresh_tokens` | login, refresh with rotation, logout | rotation is two statements; logout races refresh | a login has one usable token; what ended stays ended | `Sessions` |
| Web session client (`core/services/auth.service.ts`, `core/interceptors`, `core/guards`) | `localStorage` shared by tabs, one `AuthStatus` per tab | restore, refresh on 401, retry, logout, reload | several tabs, each with its own single-flight; late answers; reload | the stored token works | `Sessions` |
| Job screens (web) | the screen's copy of a job | every button | flags of the screen against checks of the backend | what a button is answered, a step has a button, the copy is what a reload shows | `RequestScreens`, `JobScreens` |
| In-memory stores | maps and arrays | those of the MySQL stores | all tests of the backend run on them | they answer as the MySQL stores do | `MemoryMarketplace`, `MemoryBusiness` |
| Pool (`config/db.ts`) | ten connections | acquire, release | handlers that re-read through the pool while they hold a connection | short of a pool full of those, everybody is answered | `ConnectionPool` |
| Administration, saved providers, provider search, profile forms | their own rows | single-statement edits and reads | little: one actor per row | - | - |

The parts meet in four places. Jobs, quotes, execution and internal jobs share the
`jobs` table and its lock, and each writes `job_status_history`. All of them call
`notifications` after their commit, best effort: a notification that fails never
undoes the operation. Everything that stores a photo shares the upload directory. The
web client meets the backend over HTTP only, and either side may stop between the
request and the answer.

Everything found hard is listed, at its line, under `hazards` in `PROJECT.json`, with
the property that watches it or the reason none does. Some of those properties fail of the
code, and their runs show it (section 5).

## 2. Modules

How they build on each other (`->` is EXTENDS, `=>` implements):

    JobAgreement <= MarketplaceJob -> MemoryMarketplace -> MarketplaceApi -> RequestScreens
                    InternalJob    -> MemoryBusiness    -> BusinessApi    -> JobScreens
                    Notifications  -> Inbox
                    Sessions, JobFiles, Roster, Matching, ConnectionPool

Each row begins with the concurrent model of the tables. The modules to its right serve
the same calls and add, each, a layer that is read against the tables: the in-memory
stores, the endpoints, the screens. Those of the first row let handlers overlap as
`MarketplaceJob` does; those of the second let a call begin when the last one is
answered (`Alone`).

### MarketplaceJob

One variable per table (`jobs`, `quotes`, `history`, `assignments`, `notes`,
`notices`) and `call[r]`, which holds what handler `r` carries from one await to the
next. A handler takes up to three steps:

| Step | Code | Actions |
|---|---|---|
| read and authorize | the service method up to the store call (`quotes.service.ts`, `jobs.service.ts`, `execution.service.ts`) | `Begin...` |
| one transaction under the lock on the job | the store method (`mysql-*.store.ts`) | `CreateQuote`, `AcceptQuote`, `ScheduleJob`, `StartJob`, `CompleteJob`, `ConfirmJob`, `UpdateJob`, `CancelJob`, `DeleteJob`; `Refuse` when the state seen under the lock forbids it |
| read again and notify | the rest of the service method | `Announce...` |

`CreateJob` is three statements in three steps, as in the code. In every marketplace
transaction the lock is the first statement, so the snapshot is taken after it and the
counts and existence checks that follow are current: the transaction is one step.
`AgreementIsFinal`, `QuoteCapHolds` and `AgreementIsUnique` depend on that order.

Abstractions: `jobs.agreed_amount` is the id of the quote whose total it is; `Serves`
stands for the match of one profile on category and service area (`Matching` has it in full); there is
one customer, who owns the jobs; `Profiles[u]` lists the profiles user `u` acts for.
Refusals by the service before it calls the store change nothing and are stutters.

### JobAgreement

What the marketplace promises, without rows, locks or handlers: a request collects
offers from different providers, the customer agrees with one, the winner is fixed and
the work advances a stage at a time, or the request is withdrawn before there is a
winner. `MarketplaceJob` is shown to implement it: `stage` is `jobs.status`, `offers`
the providers with a live quote, `winner` the provider of the accepted quote
(`ImplementsAgreement`). `confirmJob` passes through `CONFIRMED` inside one
transaction, and the abstraction never sees it.

### Sessions

`tokens` is the `refresh_tokens` table (is the row usable, and which login began its
chain), `stored[b]` the refresh token in the store of browser `b`, `view[t]` the
`AuthStatus` of tab `t`, `call[r]` one HTTP exchange. The server takes one SQL
statement at a time: `Consume` and `IssueRefresh` are the two writes of a refresh,
`RevokeByHash` and `RevokeAllForUser` those of a logout. A call may be lost between
any two steps (`LoseCall`) and a page may be reloaded at any time (`Reload`); both are
counted by `faults`.

Abstractions: the contents and expiry of access tokens, and suspended users, are one
thing, a 401 that may come at any time; requests that join a refresh under way are not
told apart from the one that started it; the second refresh that `restoreSession`
tries after it has cleared the store is left out; registering is logging in.

### InternalJob

One internal job with its parts requests. Two of them share no rows. A manager's
transaction locks the `jobs` row first and is one step. A technician's transaction
first calls `hasActiveAssignment`, a plain SELECT. It fixes the snapshot from which
every later plain SELECT of the transaction answers, while the `FOR UPDATE` that comes
next waits for, and reads, the latest row. It is therefore two steps:
`BeginTechnicianCall` (the assignment, and what the snapshot says of outstanding
requests) and then the locked part, `StartTechnicianJob`, `CompleteTechnicianJob`,
`CreatePartsRequest`, `RespondToPartsRequest` or `ResumeTechnicianJob`, or `Refuse`.
All technicians' transactions begin alike, so which one it is need not be chosen
before the locked part. What the locked part checks is a predicate of its own (`MayStart`,
`MayResume`, ...), so that `BusinessApi` can name it. The answer to a request locks the request's row and not the
job, as in the code.

Abstractions: `details` stands for the editable columns; the read that the service
makes before the transaction is taken together with the snapshot, since a call that
passes both might as well have arrived then; the notifications kept are those that tell
a technician what became of a parts request, the others being told apart by no
property; the in-memory event bus is a seam for tests; technicians are active.

### JobFiles

What is attached to one job, of either kind: request photos, work photos, technicians'
photos, voice notes, parts photos, and notes, which are rows alone. An upload is named
by its storage key. It looks at the job, writes the file (`Save`), locks the row
(`LockJob`), checks again, inserts and commits (`Insert`), reads the row back, before
the commit or after it as each store does, and removes the file when the store throws
(`RemoveRefused`). A deletion takes the row (`DeleteRow`) and then the file
(`RemoveFile`). Every step has a failing twin, and `faults` counts writes, commits,
read-backs and removals that fail and restarts. The job moves meanwhile.

Abstractions: QUOTED is REQUESTED and SCHEDULED is ACCEPTED, which no upload tells
apart; every parts request has its photo; an image is deleted by one call at a time;
a `writeFile` that fails may leave part of a file, which nobody removes; internal jobs
are never deleted.

### Notifications and Inbox

`Notifications` is the service: for each recipient of an event, once each, it inserts
the row, and for a provider's e-mail looks the account up, records PENDING, sends and
records the outcome. `mailed` counts what the relay took, which the program does not
know. `Inbox` extends it with one page
of the web application: who is signed in, who was last (`reader`), the badge, the list, and
the calls under way. A call is served in one step and answered in another, in any order,
and loads may overlap. A logout leaves the inbox screen and unsubscribes from its calls,
which are served all the same. A 401 that cannot be mended ends the session as well
(`clearLocalSession`, `ClearLocalSession`) but navigates nowhere: the screen stays as it
was, with the list it had, until somebody signs in. Calls of the shell and of the badge
outlive the session, and are sent again with the token of whoever is signed in by then
(`Retry`).

Abstractions: the account's status is read once per mail, so `active` is chosen at the
start; the items of the header's panel are not tracked; marking everything read marks
rows the screen never showed; what other tabs put into the store they share is left to
`Sessions`.

### ConnectionPool

Handlers, the queue for connections, the number of free ones, and who holds the lock
on which job. Handlers of `Rereading` commit and then ask the pool for a second
connection while they still hold the first: `createQuote`, `acceptQuote`, `createImage`,
`createUpdate`, `completeJob`, and in `mysql-business.store.ts` `linkTechnician`,
`createInternalJob`, the technician's photo, note and voice note, completion and all
calls on parts requests. `Blocked` says what keeps a handler from its next step: no
connection, the lock of another, or a second connection that is not free. Nothing limits
how many of them run at once, in the code or here: `Exhausted` is the circle they may
close.

### Roster

Accounts (by e-mail, which is unique, with an optional unique phone), the two tables
that say who is a technician, the open assignments, and calls that go statement by
statement: `Register`, `CreateTechnician` (account, role, link, each its own commit,
with the second look after a lost race), `AssignTechnician` (checks, then the
transaction) and `ListTechnicianJobs` (three reads). `UpdateTechnician` is one
transaction and one step. `Fails` ends a handler anywhere; what was committed stays.

Abstractions: only customers register beside invitations; passwords are a flag of the
form (`secret`); accounts are `ACTIVE`; the notice and the closing of the previous
assignment are `InternalJob`'s; owner rows are `business_profiles` only.

### Matching

Offerings and service areas of provider profiles; the fan-out that tells of an open
request (`emitOpenRequestMatches`, `findOpenRequestMatches`); and the check of a quote
(`CanQuoteOpenRequest`). The fan-out goes statement by statement: a scan of the
professionals in the category and one of the businesses, each cut at the
`CANDIDATE_SCAN_LIMIT` newest (`ScanCut`), two loads of areas side by side, the sort and
the cut at `MaxMatches` (`Sliced`), and a lookup of users for each match, which may fail
alone. Between any two of them profiles change; `touched` remembers which. Saving the areas
goes over the caller's profiles, and in each through a DELETE and one INSERT per area, in
one transaction. InnoDB is external: what a DELETE and an INSERT wait for (`RowsHeld`,
`GapHeld`; `MayDelete`, `MayInsert`) and the deadlock victim that is rolled back.

Abstractions: gaps next to other profiles' rows, and the pool, are left out; requests
stand still; a place is the set of its meaningful words; a profile's number is its age,
and `NumericId` its id, since the ids of the two tables run side by side; a quote check
reads a profile in one step. The board is in `MemoryMarketplace`.

### MemoryMarketplace and MemoryBusiness

The tests of the backend run on the in-memory stores, so what they show of production
rests on the two kinds of store answering alike. Every call of `MarketplaceJob`, or of
`InternalJob`, is served by both: the tables change as there, `mem` changes by the
in-memory store's own checks and assignments. `OpenRequests` is the board: it pools the
categories and the areas of all profiles of a user before it matches, unlike the check of
the detail and of a quote. In `MemoryMarketplace` the calls of
different handlers may overlap, though its run has one handler; in `MemoryBusiness` they
come one at a time, as in the tests.

### MarketplaceApi and BusinessApi

What every endpoint answers every account: for each handler the status code of the
first check that fails, in the order it makes them, over what a store's reads return.
There is an owner, a stranger, a competitor and an account of another role; jobs of
somebody else, of the other kind, ids of no row and ids that are no numbers. Whether a
body is well formed is one boolean. The photos, notes and voice notes of the work are
added as rows.

### RequestScreens and JobScreens

For each detail screen: the calls its service makes, the condition under which each
button is shown, as the template has it and whatever the endpoint thinks of it, and what
the screen does to its copy when the call is answered. A copy
nobody else's call has overtaken is a function of the tables and needs no variable.

### Other modules

The `MC...` modules define the instances for TLC. The `..._proofs` modules hold the
theorems. Definitions marked *Mutant* are used by no specification: each is what a
plausible mistake would make of the definition that follows it, and shows which
property would notice.

## 3. Runs

| Run | Instance | Shows | States |
|---|---|---|---|
| `job_quoting` | one job that may be at either of two places, three competing profiles, a cap of two quotes, two handlers, one of which may die at any await | `AgreementIsUnique`, `QuoteCapHolds`, `HistoryTellsStatus`, `CompletedOnce`, `PartiesAreTold`, `AgreementIsFinal`, `WithdrawnIsClosedToQuotes`, `ImplementsAgreement` | 577,934 |
| `session_rotation` | one browser with two tabs, three exchanges at once, three tokens, one fault | `OneSuccessor`, `StoredTokenWorks`, `OverIsOver` | 502,012 |
| `internal_job` | two technicians, a manager, two handlers, three assignments, two parts requests, three approval rows, one fault | `HistoryTellsStatus`, `AwaitingMeansOutstanding`, `ApprovalsTellStatus`, `RequesterIsTold` | 783,500 |
| `job_files` | two attachments of any kind with their deletions, room for one request photo, one fault | `RowsNameFiles`, `OrphansHaveACause`, `RecordIsClosed` | 76,058 |
| `inbox` | one event that lists a person twice, three accounts, two of whom use the page in turn, two calls and one count more under way, one fault | `EmailStatusIsTrue`, `ScreenIsTrue`, `EveryRecipientIsTold`, `BadgeConverges` | 443,762 |
| `connection_pool` | five handlers on two jobs, three of which re-read, two connections | `OnlyReadBacksStopThePool`, `AnsweredUnlessExhausted` | 4,100 |
| `roster` | two e-mails, two businesses of one owner, a job each, one phone, three calls, one fault | `RowsInStep`, `InvitedOnce`, `RevokedSeesNothing` | 1,180,274 |
| `matching` | a person with two profiles, the manager of one of them, a third business that matches nowhere, a scan of two, a cap of one, two categories, three areas, two handlers at once, one offering | `WhoMatchesIsTold`, `AreasAreWhole`, `EverySaveEnds` | 245,362 |
| `memory_marketplace` | one job at two locations, two competitors, one with two profiles of which neither matches alone, another customer, a technician, jobs of others | `StoresAgree`, `AnswersAgree`, `ForeignIdsAreUnknown`, `NoPeekingBeforeQuoting`, `OffersMeetAnswers` | 8,867 |
| `memory_business` | one internal job, two technicians, one of whom owns another business, one who left, a stranger's technician, a customer | `ReadsAgree`, `AnswersAgree`, `ForeignIdsAreUnknown`, `OffersMeetAnswers`, `EchoIsReload` | 15,894 |
| `parts_resume`, `quote_form` | the smallest instance that shows it, without faults | a counterexample to one documented statement each, section 5 | - |

State counts are after symmetry reduction where the cfg names a `SYMMETRY` set. Only
sets whose members are interchangeable are in one: handlers, tabs of one browser,
technicians, calls. Runs with liveness properties use none.

Bounds, and why they are enough for the questions asked:

* Two handlers in flight. Every race in the hazard list is between two handlers that
  hold stale reads; a third could only be a step that completes in between, and those
  are there already because a handler that is finished starts again. The cap needs a
  third *provider*, not a third handler, and `job_quoting` has one more than the cap.
  `matching` has two savings, or a saving beside a fan-out.
  Sessions need three: two refreshes and a logout or a login. `roster` has three calls,
  each made once: two invitations that race, and a listing or a registration beside them.
* One job. Handlers of different jobs touch different rows; the theorems are for any
  number of jobs. `ConnectionPool` has two, to have handlers behind different locks.
* `MaxFaults` bounds handlers that die, statements, writes, mails and notifications
  that fail, calls that are lost and pages that are reloaded. One is enough to reach
  every half-finished state, since a handler writes in a few steps and does not retry.
* `MaxTokens`, `MaxParts`, `MaxApprovals`, `MaxAssignments`, `MaxOfferings`, `MaxCalls`
  and `MaxMarks` stop behaviours that would go on for ever. Three tokens give a chain
  with a middle; two parts requests make "the last one outstanding" differ from "one
  outstanding"; three approval rows allow a question, an answer and a decision; three
  assignments allow a technician to lose the job and get it back; two calls under way
  let two loads, or two polls, be answered in the wrong order, and a count comes on top.
  The calls that mark rows change only read flags, and one at a time may be under way.
* A pool of two with three that re-read can be exhausted with one left outside, who waits
  for ever; ten connections add lengths of the same waiting.
* `MaxMatches` is one in `matching`, so that one match crowds out another, and the scan
  takes two candidates: cut at the cap, as the mutant does, it would see only the business
  that matches nowhere. The instance has no more than two candidates of a kind, so the
  scan's own limit never cuts there; `WhoMatchesIsAlwaysTold` is for any limits. In
  `matching` any statement may fail, any number of times.
* One handler in `memory_marketplace`, and calls one at a time in `memory_business`: what
  they ask is whether two translations of one rule agree in every state a sequence of
  calls reaches. The theorems of the first hold for any number of handlers, except where
  they say `OneAtATime`.
  In `memory_business` the editable columns have one value, with a visit slot: edits are
  `internal_job`'s.

`CHECK_DEADLOCK FALSE` appears where the system may really stop: a job that is closed,
an account that has used up its tokens, uploads or calls that were made once, a page with
nothing under way, and `connection_pool`, where a deadlock is one of the code: its
properties say which. `internal_job` checks for deadlock.

Fairness. `inbox` (`FairSpec`): weak fairness of the server's steps on an event, of
serving and answering a call, and of the poll timer. A MySQL statement, the relay and an
HTTP request each answer or fail after a time-out, the event loop runs every ready
continuation, and `startPolling` is a timer. Nobody is obliged to click.
`connection_pool` (`FairSpec`): weak fairness of the statements of each handler that has
begun, strong fairness of the lock it waits for, which InnoDB grants in turn; that the
pool's queue is first come, first served, and without a time-out, is how `config/db.ts` sets
the driver up, and the model says so itself. Nobody is obliged to ask. `matching` (`FairSpec`): strong fairness of each
save's next statement, since InnoDB grants locks in the order they were asked for and
finds deadlocks; a lock that is free only now and then still comes to who waits. No property rests on
requests that keep arriving. `PartiesAreTold` needs no fairness: it says that who has to
be told has been, or is owed a notice by a handler that is at that step.

## 4. Proofs

Every theorem is for arbitrary constants: any sets of jobs, users, profiles, handlers,
tabs, technicians, uploads, accounts and any bounds, from the named assumptions in the
modules.

| Theorem | Property | Argument |
|---|---|---|
| `TypeCorrect` | `TypeOK` of `MarketplaceJob` | inductive with the conjuncts that tie a handler's phase to the fields it needs |
| `AgreementUnique`, `QuoteCap`, `QuotedQuotable` | `AgreementIsUnique`, `QuoteCapHolds`, `QuotedMeansQuotable` | together, from `IInv == TypeOK /\ \A j : JobInv(j)`. They are not inductive one by one: acceptance leaves one accepted quote because all quotes of a job that is not agreed are live (`AllLiveBefore`), and the provider of an addressed job is the only one who may quote (`Addressed`) |
| `AgreementFinal` | `AgreementIsFinal` | from `IInv`: a handler that reaches its transaction after the agreement finds a status that its check under the lock refuses |
| `WithdrawnClosed` | `WithdrawnIsClosedToQuotes` | from `TypeOK`: each transaction reads status and `deleted_at` under the lock |
| `HistoryTold`, `OneCompletion` | `HistoryTellsStatus`, `CompletedOnce` of `MarketplaceJob` | from `RInv == TypeOK /\ \A j : Recorded(j)`. What makes it inductive is the creation row, which is written outside any transaction: at most one handler owes it (`Posting`), and while one does there is none; a job that is `ABSENT` has no rows |
| `EveryPartyTold` | `PartiesAreTold` | from `PInv == IInv /\ CustomerAccepts /\ (faults = 0 => Informed)`: of every job that is not deleted, `Informed` says who has a notice of what the rows show, or which handler is at the step that sends it. A job's rows change under the lock in the step that puts the handler there |
| `AgreementImplemented` | `ImplementsAgreement` | from `IInv`: each kind of step in `Effect` is mapped to a step of `JobAgreement` or a stutter. The cap counts quotes and the agreement providers, which `OffersCounted` relates; the winner is a function of the tables because there is one accepted quote |
| `SessionTypes` | `TypeOK` of `Sessions` | inductive |
| `RotationNeverForks` | `OneSuccessor` | with `LoginsAreIssued`: a login is named by its first token, so a new login cannot take the name of a chain in use |
| `EndedSessionsStayEnded` | `OverIsOver` | from the same invariant: only a usable token is consumed |
| `StoredTokensWork` | `StoredTokenWorks` | from `SInv`: what was sent was issued (`SentWereIssued`) and, while nothing failed, a stored token is one browser's and so are the calls that carry it (`OneHolder`), every call under way has its tab still waiting (`TabsWait`), a token on its way to a browser is sound and nobody has it yet (`AnswersAreNew`), and what is stored is usable, over, or about to be replaced (`StoredWork`) |
| `InternalJobTypes` | `TypeOK` of `InternalJob` | with `HandlersHoldWhatTheyNeed` |
| `InternalCompletedOnce` | `CompletedOnce` | only a job in `IN_PROGRESS` is completed, under the lock |
| `NobodyWaitsForNothing` | `AwaitingMeansOutstanding` | a delivery that takes the last approved request takes the job out of `AWAITING_PARTS` in the same transaction |
| `ResumeIsAlwaysStale` | every step of `ResumeTechnicianJob` leaves approved parts outstanding | from `AwaitingMeansOutstanding`: on a job that waits, the endpoint's check passes only on a snapshot older than its lock, which is what `parts_resume` shows on an instance |
| `RequesterTold` | `RequesterIsTold` | a decision is settled when its notice is stored or owed by a handler; no step loses a debt (`NoDebtIsLost`) |
| `FilesTypes`, `FilesAreThere`, `OrphansAccountedFor` | `TypeOK`, `RowsNameFiles`, `OrphansHaveACause` of `JobFiles` | by the stage of each upload: where its file is, where its row is, and which fault explains the difference. A file is removed only by who knows that the row is not there |
| `ClosedRecords` | `RecordIsClosed` | the check under the lock and the insert are of one lock holder, so a row that appears passed the gate and the cap in the state it appears in |
| `LockHoldersGoOn` | `LockHolderNeverWaits` | whoever asks for a second connection has committed, and its lock went with the commit. It needs no assumption about the load |
| `OnlyReadBacksStop` | `OnlyReadBacksStopThePool` | from `LockHolderNeverWaits`, `PoolIsWhole` and `StalledReadBack`: if all under way have to wait no lock is held, so whoever holds a connection is asking for a second one, and since somebody waits none is free: together they hold the pool, which is `Exhausted` |
| `ExhaustionIsForGood` | `[][Exhausted => Exhausted']_vars` | the ones that are stalled hold every connection, so no handler has a step that gives one back; what others may do is queue |
| `PoolWhole` | `PoolIsWhole` | free and held connections add up to the pool, the queue lists those that wait and each once, and nobody waits while one is free |
| `RosterTypes`, `GateAndRosterAgree`, `OneInvitationCounts` | `TypeOK`, `RowsInStep`, `InvitedOnce` of `Roster` | together with `HandlersKnow` (who is at the link has an account with the role) and `LinkedIsThere` (who was answered 201 has left a row, so the next link of the pair is refused; rows are never removed) |
| `RevokedSees` | `RevokedSeesNothing` | `GoneIsGone` and `ListingsKnow`: the businesses that a listing may not show are those where nobody has made the caller active since it began, so its second look at the roster stops it there; `AssignedInside` ties a job's assignment to the job's business |
| `TimelineTellsStatus` | `HistoryTellsStatus` of `InternalJob` | with `TimelineInv`: no row leaves the status the job is in, except between work and waiting; no row leads to `ABSENT` or leaves `CANCELLED` or `COMPLETED` |
| `ApprovalsTell` | `ApprovalsTellStatus` | with `ApprovalsInv`: every change but a delivery leaves a row in the same transaction, and only an `APPROVED` request is delivered |
| `TypesOK`, `SavedListsAreWhole` | `TypeOK`, `AreasAreWhole` of `Matching` | from `AInv`: what a save holds follows from where it is (`Placed`), and whoever has taken rows out of a profile or put some in is the only one at it, so that until it commits the rows there are those it put in (`Alone`) |
| `SavesAreNeverStuck` | `NoSaveIsStuck` | from `AInv`: whoever a DELETE waits for is alone at the gap (`Alone`), so it inserts or commits; whoever an INSERT waits for commits, unless it waits to insert as well, and that is the deadlock InnoDB finds |
| `WhoMatchesIsAlwaysTold` | `WhoMatchesIsTold` | from `FInv`: of a profile that has not been `touched`, what the fan-out has read is what a quote check would read (`Gathered`). Each statement makes it true of the profiles it looks at, what the provider side does to a profile takes it out of the statement (`MeanwhileKeeps`), and whom a cut leaves out has as many before them as the cut takes (`CutOff`, `SlicedOff`) |
| `TypesOK`, `RecordsAreTrue` | `TypeOK`, `EmailStatusIsTrue` of `Inbox` | from `SInv`: where in its mail each event is (`Mailing`), whom it has told (`Telling`), and what each row has recorded of its mail (`Recorded`) |
| `NobodyIsToldTwice` | `EachToldOnce` | from the same invariant: an event walks a list without repetitions, and the accounts with its row are those it has passed |
| `NobodyElsesNotices` | `ScreenIsTrue` | from `CInv`: a list under way carries rows of who asked for it, and what it carries as read is read (`Listing`); rows never go, change hands or become unread (`RowsGrow`); a logout ends the calls of the screen, and where the session ends under it the calls under way are still those of its reader, since nobody else signs in without leaving the screen |

The layers beside the tables:

| Theorem | Property | Argument |
|---|---|---|
| `StoresKeepStep`, `StoresKeepStepUnderApi` | `StoresAgree` of `MemoryMarketplace` | from `MInv`: job by job the two stores hold the same, except after a deletion that only MySQL permits. Each transaction is permitted by both or by neither (`Transacted`) and moves the same rows. Calls may overlap |
| `EitherStoreAnswersAlike` | `SameLists`, `SameReplies` of `MarketplaceApi` | from `MInv` and `SameDocs`, which says the same of the photos and notes: what a store lists and lets through is a function of what they share. For a deletion `SameReplies` says what each store does of its own (`Deletions`): 200 or, of a job past its gate in memory, 409. Calls may overlap |
| `EitherStoreTellsAlike` | `AnswersAgree` of `MarketplaceApi` | with `TInv`, the timelines. Its hypothesis is `OneAtATime`, one handler at a time; without it the property is false (section 5) |
| `NobodyPeeks`, `IdsCannotBeProbed` | `NoPeekingBeforeQuoting`, `ForeignIdsAreUnknown` of `MarketplaceApi` | from the order of each endpoint's checks, in every state of `IInv`; the first also needs that before the agreement all quotes on an addressed job are the addressee's |
| `OffersAreAnswered` (`MarketplaceJob_proofs`) | `OffersMeetAnswers` of `RequestScreens` | from `IInv`, since a button looks at the job and the call behind it at the quotes too, and `NeverConfirmed`: no row is left at `CONFIRMED` |
| `ServiceAnswersForBothStores` | `AnswersAgree` of `BusinessApi` | the checks of each transaction are predicates (`MayStart`, `MayReview`, ...) that the actions use and the answers name. From `MInv` with what a snapshot says (`Fresh`: the assignee, whether the job is worked, whether parts are outstanding, each exactly as the tables have it) and `Placed` |
| `StoresReadAlike` | `ReadsAgree` of `BusinessApi` | from `MInv`: the in-memory rows are the tables' (`InMemory`, `Documented`), and since calls come one at a time a snapshot is never old (`SnapshotsAreFresh`) |
| `ForeignIdsUnknown` | `ForeignIdsAreUnknown` of `BusinessApi` | from the order of the checks, in every typed state |
| `OffersAreAnswered` (`InternalJob_proofs`) | `OffersMeetAnswers` of `JobScreens` | from `Placed`: a job that is worked has a technician, and only such a job or a completed one has parts requests |
| `EchoTellsTheTruth` | `EchoIsReload` of `JobScreens` | step by step: what the screen puts in its copy is what the transaction wrote |

`ResumeIsAlwaysStale` is a consequence worth knowing. A job in `AWAITING_PARTS`
always has an approved request outstanding, so `POST /technician/jobs/:id/resume`,
which refuses while there is one, never succeeds on current data: the delivery resumes
the job first. It succeeds only when the snapshot it looks at is stale, and then it
should not.

The assumptions beyond bounds that are numbers and sets that are finite: `Profiles`,
`ActsFor` and `BrowserOf` are functions of the expected types; the customer is none of
the providers' users; `CallersAssumption`, `OutsidersAssumption`, `RowsAssumption` and
`IdsAssumption` say which accounts, rows and ids beside the modelled job exist, as the
schema's keys allow them.
`OneAtATime` is a hypothesis of one theorem and an assumption of no module.

Model-checked and not proved: liveness (`EveryRecipientIsTold`, `BadgeConverges`,
`AnsweredUnlessExhausted`, `EverySaveEnds`), which is beyond the prover. What is no matter
of fairness in three of them is proved: an event that came to its end has told its
recipients (`EachToldOnce`), some handler can go on unless the pool is exhausted, and that
is for good (`OnlyReadBacksStopThePool`, `ExhaustionIsForGood`), no circle of saves waits
(`NoSaveIsStuck`). Every invariant and every action property of the
passing runs is a theorem.

## 5. What the models found

Two runs show a disagreement with a statement of the repository:

| Run | Property | The code | Says otherwise |
|---|---|---|---|
| `parts_resume` | `ResumeOnlyWhenPartsAreIn` | resume looks for outstanding parts in a snapshot older than its lock (`mysql-business.store.ts:2428`) | `docs/PERMISSIONS.md:1271` |
| `quote_form` | `QuoteFormIsOffered` | the form of a quote is shown only on a REQUESTED job, so the second and third provider of an open request cannot quote (`request-detail.html:379`) | `job.service.ts:169` |

The rest came up while the code was translated. Where a passing run's property has the
code's behaviour as a case of its own, the item names it: such a property says what holds
and, of the case, what happens instead of what the document promises.

Jobs, quotes, business:

* `deleteJob` has no status condition, so an accepted or running job can be deleted
  (`mysql-jobs.store.ts:433`, against `docs/API.md:989`, `docs/PERMISSIONS.md:715` and
  the comment at `memory-jobs.store.ts:225`); `WithdrawnIsClosedToQuotes` says what
  still holds then.
* Providers are warned before the deletion commits. A quote in between is on a deleted
  job and its provider is not told (`jobs.service.ts:463`, against
  `docs/PERMISSIONS.md:731`).
* The profile that signs a quote on an open request need not be the one that matched it
  (`authorOf`, `quotes.service.ts:459`, against `docs/API.md:1400`). For the same reason
  the board of a person with two profiles pools their categories and areas
  (`quotes.service.ts:335`) and lists requests that answer 404 when opened:
  `OffersMeetAnswers` of the request screens says which.
* `createJob` that stops between its inserts leaves an addressed job that can be worked
  without a `job_assignments` row.
* A technician replaced between the look at the assignment and the lock on the job still
  starts or completes it (`mysql-business.store.ts:1485`, against
  `docs/PERMISSIONS.md:1111`); one deactivated between the check and the transaction is
  assigned (`business.service.ts:738`, against `docs/PERMISSIONS.md:1065`).
* An edit of an internal job that was checked while `REQUESTED` lands after it started or
  was cancelled (`mysql-business.store.ts:1175`, against `docs/API.md:546`).
* A form that gives a password for an account that appears between the two looks is
  linked and its password dropped, against the comment at `business.service.ts:346`.
* Two savings of areas that interleave between a person's profiles, or one that fails at
  the second, leave different lists (`provider-areas.service.ts:104`, against the comment
  at its line 89).

Sessions:

* A refresh that has consumed its token when another device logs out issues the
  successor after the revocation (`docs/API.md:210`). `OverIsOver` starts from tokens that
  are neither usable nor being replaced and does not speak of it.
* A page reloaded between the consumption of its token and the answer loses a valid
  session (`auth.service.ts:105`, against `docs/CLIENT-UAT.md:276`).
* Any failure of the retried request signs the user out, though the refresh succeeded
  (`auth.interceptor.ts:89`, against the comment at its line 45). A session that ends so,
  or by a refresh that fails, leaves the screen as it was, with the list of its reader,
  until somebody signs in; `ScreenIsTrue` says whose it is.
* A call that outlives its session is retried with the token of whoever is signed in by
  then: a row marked read late is looked for among the next reader's, who has none of
  that id.
* The header's panel keeps its items across sessions, and a list asked for in one session
  may be answered in the next and shown there (`app.ts`, `refreshPanel`, which unsubscribes
  only when the application ends).

Database:

* As many re-reading handlers as the pool has connections, ten in production, each
  commit, keep their connection, and wait for ever for a second one. Nothing limits how
  many run at once and the queue has no time-out. The run `connection_pool` reaches this
  state (`Exhausted`) with two connections: its properties say that nothing less stops the
  API, `ExhaustionIsForGood` that nothing but a restart ends it.
* The board scans the 200 newest open jobs before it looks at areas
  (`OPEN_REQUEST_SCAN_LIMIT`), the fan-out 500 candidates of each kind and at most 50
  matches: who may quote beyond that is not shown or told. `WhoMatchesIsTold` has the
  fan-out's two limits; the board is modelled on fewer than 200 jobs.
* The fan-out sorts the matches of two tables by id and calls the result "newest profiles
  first" (`mysql-marketplace.store.ts:866`): the ids of the two tables say nothing of
  each other, so a full cap favours whichever table has more rows.
* The owner condition of `listOfferings` is joined by `OR` without parentheses, so a
  person with both kinds of profile sees the removed offerings of their business. The in-memory store is stricter, and
  it ignores removed rows where the unique key of the table does not.

Endpoints and stores:

* An account of neither role is told 404 for a job that does not exist and 403 for one
  that does (`quotes.service.ts:691`, `execution.service.ts:220`).
* `GET /provider/requests` shows all quotes of an answered open request
  (`mysql-quotes.store.ts`, `listProviderRequests`), against `docs/PERMISSIONS.md:692`
  and `:750` and the comment in `quotes.service.ts:713`. After acceptance the winner's
  schedule, start and timeline answers carry them too. `NoPeekingBeforeQuoting` is what is left of
  the rule: until one has quoted, nothing shows another's price.
* With overlapping calls a provider may quote a new request before its creation row is
  inserted, since `createJob` commits statement by statement: the MySQL timeline then
  shows the move to `QUOTED` before the creation. The in-memory timeline, which makes up
  its first row, never does.
* The in-memory stores differ from MySQL in what the properties except by name:
  `deleteJob` has the status gate that MySQL lacks, so the endpoint answers 409 over the
  one and 200 over the other (`Deletions`), the timeline leaves out cancelled
  rows and makes up the first one, the list of open jobs does not count quotes, the
  execution store lists only work photos. In the business store, an upper date that is a
  day includes that day in memory and ends at its first moment in MySQL
  (`memory-business.store.ts:588`, `mysql-business.store.ts:1040`); list filters are not
  modelled.

Screens:

* After an edit or a cancellation the customer's screen shows a job without quotes until
  it is loaded again; after schedule, start and completion the provider's shows
  everybody's quotes where a reload shows their own.
* Buttons whose call is refused: deleting a request photo, shown to the provider, and
  deleting another technician's photo (`technician-job-detail.html:130`) answer 403;
  deciding on, or delivering, the parts of a completed job (`business-job-detail`, by the
  request's status alone) answers 422. `OffersMeetAnswers` of both kinds of screens states
  these answers, and that there are no others.
* `open-requests.ts:63` counts the reader's own quotes, which the board leaves out, so
  its text on others having quoted never appears.
* `request-job.ts:455` drops failed photos by ascending index, so with two failures it
  drops the wrong one; and it tells the customer to add them on the job's page, which
  has no upload.
* Loads of the manager's screen overlap and the last answer wins
  (`business-job-detail.ts:154`). A recorded voice note is kept after its upload began
  (`technician-job-detail.ts:582`) and can be sent twice.
* The link of a mail may lead elsewhere than the notification's
  (`notification-email.ts:78`, `notification.model.ts:121`).

## 6. What is not modelled

* Administration and saved providers: single statements on rows that one actor owns.
* The provider search, list filters, and the search, profile, wizard and administration screens: filtered
  lists, forms and rendering.
* Memory stores other than the four of jobs, quotes, execution and business.
* The business's customer records and the customer profile made with a first job.
* Validation and formatting of input: a handler starts with input that passed it, or is
  told by one boolean that it did not.
* Registration of providers and owners, changes of password and profile, suspension.
* Migrations and seeds: run once by an operator.

## 7. Plan

Done: the marketplace core and its agreement, sessions, internal jobs with parts
requests, files, notifications with the inbox, the pool, the roster, matching, the
in-memory stores, endpoints and screens of jobs; type correctness and every safety
property of the passing runs proved.

Left, in this order:

1. The wizard (`request-job.ts`) with its photos over `JobFiles`, and the overlapping
   loads of the manager's screen.
2. Memory stores of offerings and areas beside `Matching`.
3. Verification decisions of the administration, and what they change in `Matching`.
