---------------------------- MODULE MarketplaceJob ----------------------------
(***************************************************************************)
(* The marketplace job: what the jobs, quotes and execution modules of the *)
(* backend do to one job over its life, against the MySQL stores.          *)
(*                                                                         *)
(* An API call runs as an asynchronous handler.  It reads and authorizes   *)
(* (one step), then asks a store for ONE transaction that locks the job    *)
(* row and checks the state again (a second step), then re-reads the job   *)
(* and notifies people (a third).  Any other handler may run between two   *)
(* of these steps, and a handler may die after any of them.  Requests is   *)
(* the set of handlers in flight; call[r] is what handler r carries from   *)
(* one of its awaits to the next.                                          *)
(***************************************************************************)
EXTENDS Naturals, Sequences, FiniteSets, Functions

CONSTANTS
    Jobs,                 \* ids of the jobs table
    Users,                \* user ids that act for a provider
    Customer,             \* the user who owns the jobs
    Providers,            \* professional and business profiles
    Profiles,             \* Profiles[u]: the profiles u acts for, professionals first
    Locations,            \* what jobs.address_line1 may say
    Serves,               \* Serves[p]: the locations where p matches a request
    Requests,             \* the handlers that may be in flight at once
    None,                 \* SQL NULL
    MaxQuotesPerOpenJob,  \* MAX_QUOTES_PER_OPEN_JOB
    MaxFaults             \* bound: handlers that die, notifications that fail

ASSUME CapAssumption == MaxQuotesPerOpenJob \in Nat \ {0}
ASSUME FaultAssumption == MaxFaults \in Nat
ASSUME ProfilesAssumption == Profiles \in [Users -> Seq(Providers)]
ASSUME ServesAssumption == Serves \in [Providers -> SUBSET Locations]
ASSUME NoneAssumption == None \notin Providers \cup Users \cup Locations \cup Jobs
ASSUME CustomerAssumption == Customer \notin Users

VARIABLES
    jobs,         \* jobs[j]: the row, or status ABSENT before its INSERT
    quotes,       \* the quotes table, in AUTO_INCREMENT order
    history,      \* history[j]: job_status_history rows in insertion order
    assignments,  \* assignments[j]: the providers of the job_assignments rows
    notes,        \* notes[j]: job_updates rows written by completeJob
    notices,      \* the notifications rows that concern jobs
    call,         \* call[r]: where handler r is and what it holds
    faults        \* how many faults happened

vars == <<jobs, quotes, history, assignments, notes, notices, call, faults>>

-----------------------------------------------------------------------------

CustomerMutable == {"REQUESTED", "QUOTED"}
LiveQuote == {"DRAFT", "SUBMITTED"}
AgreedStatus == {"ACCEPTED", "SCHEDULED", "IN_PROGRESS", "COMPLETED", "CLOSED"}

JobStatus == {"ABSENT", "CANCELLED", "CONFIRMED"} \cup CustomerMutable \cup AgreedStatus
QuoteStatus == {"ACCEPTED", "DECLINED"} \cup LiveQuote

(* A quote stands for its own total: jobs.agreed_amount is modelled as the *)
(* id of the quote whose total it is (0 while it is NULL).                 *)
JobRow == [status : JobStatus, provider : Providers \cup {None}, agreed : Nat,
           location : Locations \cup {None}, deleted : BOOLEAN]
QuoteRow == [job : Jobs, provider : Providers, status : QuoteStatus]
HistoryRow == [from : JobStatus, to : JobStatus]

NoJob == [status |-> "ABSENT", provider |-> None, agreed |-> 0,
          location |-> None, deleted |-> FALSE]

(* NotificationType, the members that concern a job and its quotes. *)
NoticeKind == {"JOB_REQUEST", "JOB_REQUEST_OPEN", "QUOTE_RECEIVED", "QUOTE_ACCEPTED",
               "JOB_SCHEDULED", "JOB_STARTED", "JOB_COMPLETED", "JOB_CONFIRMED",
               "JOB_CANCELLED"}
Notice == [kind : NoticeKind, job : Jobs, to : Users \cup {Customer}]

Transactions == {"quote", "accept", "schedule", "start", "complete", "confirm",
                 "update", "cancel", "delete"}
Phase == {"idle", "historyRow", "assignmentRow", "announceRequest", "announceQuote",
          "announceAccept", "announceSchedule", "announceStart", "announceComplete",
          "announceConfirm", "announceUpdate", "announceCancel", "warnDelete"}
         \cup Transactions

Call == [at : Phase, job : Jobs \cup {None}, user : Users \cup {Customer, None},
         provider : Providers \cup {None}, quote : Nat,
         location : Locations \cup {None}, moved : BOOLEAN]
Idle == [at |-> "idle", job |-> None, user |-> None, provider |-> None,
         quote |-> 0, location |-> None, moved |-> FALSE]

-----------------------------------------------------------------------------

Identity(u) == Range(Profiles[u])
UsersOf(p) == {u \in Users : p \in Identity(u)}

(* getJobById, and the FOR UPDATE reads that filter deleted_at. *)
Readable(j) == jobs[j].status # "ABSENT" /\ ~jobs[j].deleted
IsOpen(j) == jobs[j].provider = None

QuotesOn(j) == {q \in DOMAIN quotes : quotes[q].job = j}
LiveQuotes(j) == {q \in QuotesOn(j) : quotes[q].status \in LiveQuote}
AcceptedQuotes(j) == {q \in QuotesOn(j) : quotes[q].status = "ACCEPTED"}
HasLiveQuote(j, p) == \E q \in LiveQuotes(j) : quotes[q].provider = p

MatchingUsers(loc) == UNION {UsersOf(p) : p \in {x \in Providers : loc \in Serves[x]}}
AddresseeUsers(j) == IF IsOpen(j) THEN {} ELSE UsersOf(jobs[j].provider)
QuoterUsers(j) == UNION {UsersOf(quotes[q].provider) : q \in LiveQuotes(j)}

Notify(kind, j, who) ==
    notices' = notices \cup {[kind |-> kind, job |-> j, to |-> w] : w \in who}

Begin(r, c) == /\ call[r] = Idle
               /\ call' = [call EXCEPT ![r] = c]
               /\ UNCHANGED <<jobs, quotes, history, assignments, notes, notices, faults>>
GoTo(r, phase) == call' = [call EXCEPT ![r].at = phase]
Done(r) == call' = [call EXCEPT ![r] = Idle]

(* Mutant: the status moves and no history row is written. *)
MovesUnlogged(j, from, to) == /\ jobs' = [jobs EXCEPT ![j].status = to]
                              /\ history' = history

Moves(j, from, to) == /\ jobs' = [jobs EXCEPT ![j].status = to]
                      /\ history' = [history EXCEPT ![j] = Append(@, [from |-> from, to |-> to])]

-----------------------------------------------------------------------------
Init == /\ jobs = [j \in Jobs |-> NoJob]
        /\ quotes = << >>
        /\ history = [j \in Jobs |-> << >>]
        /\ assignments = [j \in Jobs |-> << >>]
        /\ notes = [j \in Jobs |-> 0]
        /\ notices = {}
        /\ call = [r \in Requests |-> Idle]
        /\ faults = 0

-----------------------------------------------------------------------------
(* POST /jobs.  createJob is three autocommitted INSERTs, not a transaction: *)
(* the job is visible to everyone from the first one on.                     *)

CreateJob(r, j, p, loc) ==
    /\ call[r] = Idle
    /\ jobs[j].status = "ABSENT"
    /\ jobs' = [jobs EXCEPT ![j] = [NoJob EXCEPT !.status = "REQUESTED",
                                                 !.provider = p, !.location = loc]]
    /\ call' = [call EXCEPT ![r] = [Idle EXCEPT !.at = "historyRow", !.job = j,
                                                !.user = Customer, !.provider = p]]
    /\ UNCHANGED <<quotes, history, assignments, notes, notices, faults>>

InsertCreationRow(r) ==
    /\ call[r].at = "historyRow"
    /\ history' = [history EXCEPT ![call[r].job] =
                      Append(@, [from |-> "ABSENT", to |-> "REQUESTED"])]
    /\ GoTo(r, IF call[r].provider = None THEN "announceRequest" ELSE "assignmentRow")
    /\ UNCHANGED <<jobs, quotes, assignments, notes, notices, faults>>

InsertAssignment(r) ==
    /\ call[r].at = "assignmentRow"
    /\ assignments' = [assignments EXCEPT ![call[r].job] = Append(@, call[r].provider)]
    /\ GoTo(r, "announceRequest")
    /\ UNCHANGED <<jobs, quotes, history, notes, notices, faults>>

AnnounceRequest(r) ==
    /\ call[r].at = "announceRequest"
    /\ Readable(call[r].job)
    /\ IF call[r].provider = None
       THEN Notify("JOB_REQUEST_OPEN", call[r].job, MatchingUsers(jobs[call[r].job].location))
       ELSE Notify("JOB_REQUEST", call[r].job, AddresseeUsers(call[r].job))
    /\ Done(r)
    /\ UNCHANGED <<jobs, quotes, history, assignments, notes, faults>>

-----------------------------------------------------------------------------
(* POST /provider/requests/:id/quotes.  The service proves that SOME profile *)
(* of the user matches an open request, then quotes for the first profile.   *)

CanViewRequest(j, u) ==
    /\ Readable(j)
    /\ IF IsOpen(j)
       THEN \E p \in Identity(u) : HasLiveQuote(j, p) \/ jobs[j].location \in Serves[p]
       ELSE jobs[j].provider \in Identity(u)

AuthorOf(j, u) == IF IsOpen(j) THEN Head(Profiles[u]) ELSE jobs[j].provider

BeginQuote(r, u, j) ==
    /\ CanViewRequest(j, u)
    /\ Begin(r, [Idle EXCEPT !.at = "quote", !.job = j, !.user = u,
                             !.provider = AuthorOf(j, u)])

(* Mutants: the cap compared with <=; the lock read without deleted_at. *)
CanQuotePastCap(j, p) ==
    /\ Readable(j)
    /\ jobs[j].provider \in {None, p}
    /\ ~HasLiveQuote(j, p)
    /\ IF IsOpen(j)
       THEN /\ Cardinality(LiveQuotes(j)) <= MaxQuotesPerOpenJob
            /\ jobs[j].status \in CustomerMutable
       ELSE jobs[j].status = "REQUESTED"

CanQuoteDeleted(j, p) ==
    /\ jobs[j].provider \in {None, p}
    /\ ~HasLiveQuote(j, p)
    /\ Cardinality(LiveQuotes(j)) < MaxQuotesPerOpenJob
    /\ jobs[j].status \in CustomerMutable

CanQuote(j, p) ==
    /\ Readable(j)
    /\ jobs[j].provider \in {None, p}
    /\ ~HasLiveQuote(j, p)
    /\ IF IsOpen(j)
       THEN /\ Cardinality(LiveQuotes(j)) < MaxQuotesPerOpenJob
            /\ jobs[j].status \in CustomerMutable
       ELSE jobs[j].status = "REQUESTED"

(* Only the first quote of an open request moves the job. *)
QuoteMovesJob(j) ==
    IF jobs[j].status = "REQUESTED" THEN Moves(j, "REQUESTED", "QUOTED")
                                    ELSE UNCHANGED <<jobs, history>>

CreateQuote(r) ==
    LET j == call[r].job  p == call[r].provider IN
    /\ call[r].at = "quote"
    /\ CanQuote(j, p)
    /\ quotes' = Append(quotes, [job |-> j, provider |-> p, status |-> "SUBMITTED"])
    /\ QuoteMovesJob(j)
    /\ GoTo(r, "announceQuote")
    /\ UNCHANGED <<assignments, notes, notices, faults>>

AnnounceQuote(r) ==
    /\ call[r].at = "announceQuote"
    /\ Notify("QUOTE_RECEIVED", call[r].job, {Customer})
    /\ Done(r)
    /\ UNCHANGED <<jobs, quotes, history, assignments, notes, faults>>

-----------------------------------------------------------------------------
(* POST /jobs/:id/quotes/:quoteId/accept. *)

BeginAccept(r, j, q) ==
    /\ Readable(j)
    /\ q \in QuotesOn(j)
    /\ Begin(r, [Idle EXCEPT !.at = "accept", !.job = j, !.user = Customer, !.quote = q])

(* Mutant: the job's status is not checked again under the lock. *)
CanAcceptWithdrawn(j, q) ==
    /\ Readable(j)
    /\ q \in QuotesOn(j)
    /\ quotes[q].status = "SUBMITTED"

CanAccept(j, q) ==
    /\ Readable(j)
    /\ q \in QuotesOn(j)
    /\ quotes[q].status = "SUBMITTED"
    /\ jobs[j].status = "QUOTED"

(* Mutant: competing quotes stay live. *)
QuotesIfAcceptedAlone(j, q) == [quotes EXCEPT ![q].status = "ACCEPTED"]

QuotesIfAccepted(j, q) ==
    [x \in DOMAIN quotes |->
        IF x = q THEN [quotes[x] EXCEPT !.status = "ACCEPTED"]
        ELSE IF x \in LiveQuotes(j) THEN [quotes[x] EXCEPT !.status = "DECLINED"]
        ELSE quotes[x]]

(* The addressed provider was assigned when the request was created. *)
AssignWinner(j, winner) ==
    IF IsOpen(j) THEN assignments' = [assignments EXCEPT ![j] = Append(@, winner)]
                 ELSE UNCHANGED assignments

AcceptQuote(r) ==
    LET j == call[r].job  q == call[r].quote  winner == quotes[q].provider IN
    /\ call[r].at = "accept"
    /\ CanAccept(j, q)
    /\ quotes' = QuotesIfAccepted(j, q)
    /\ jobs' = [jobs EXCEPT ![j].status = "ACCEPTED", ![j].agreed = q,
                            ![j].provider = IF @ = None THEN winner ELSE @]
    /\ AssignWinner(j, winner)
    /\ history' = [history EXCEPT ![j] = Append(@, [from |-> "QUOTED", to |-> "ACCEPTED"])]
    /\ GoTo(r, "announceAccept")
    /\ UNCHANGED <<notes, notices, faults>>

-----------------------------------------------------------------------------
(* The addressed provider schedules, starts and completes the job. *)

BeginProviderStep(r, u, j, transaction) ==
    /\ Readable(j)
    /\ ~IsOpen(j)
    /\ jobs[j].provider \in Identity(u)
    /\ Begin(r, [Idle EXCEPT !.at = transaction, !.job = j, !.user = u])

CanSchedule(j) == /\ Readable(j)
                  /\ AcceptedQuotes(j) # {}
                  /\ jobs[j].status = "ACCEPTED"

ScheduleJob(r) ==
    /\ call[r].at = "schedule"
    /\ CanSchedule(call[r].job)
    /\ Moves(call[r].job, "ACCEPTED", "SCHEDULED")
    /\ GoTo(r, "announceSchedule")
    /\ UNCHANGED <<quotes, assignments, notes, notices, faults>>

CanStart(j) == Readable(j) /\ jobs[j].status = "SCHEDULED"

StartJob(r) ==
    /\ call[r].at = "start"
    /\ CanStart(call[r].job)
    /\ Moves(call[r].job, "SCHEDULED", "IN_PROGRESS")
    /\ GoTo(r, "announceStart")
    /\ UNCHANGED <<quotes, assignments, notes, notices, faults>>

(* Mutant: a retry finds the job already COMPLETED and completes it again. *)
CanCompleteAgain(j) == jobs[j].status \in {"IN_PROGRESS", "COMPLETED"}

(* The execution store does not look at deleted_at. *)
CanComplete(j) == jobs[j].status = "IN_PROGRESS"

CompleteJob(r) ==
    /\ call[r].at = "complete"
    /\ CanComplete(call[r].job)
    /\ notes' = [notes EXCEPT ![call[r].job] = @ + 1]
    /\ Moves(call[r].job, "IN_PROGRESS", "COMPLETED")
    /\ GoTo(r, "announceComplete")
    /\ UNCHANGED <<quotes, assignments, notices, faults>>

-----------------------------------------------------------------------------
(* The customer's own operations: confirm, edit, cancel, delete. *)

BeginConfirm(r, j) ==
    /\ Readable(j)
    /\ Begin(r, [Idle EXCEPT !.at = "confirm", !.job = j, !.user = Customer])

CanConfirm(j) == jobs[j].status = "COMPLETED"

(* CONFIRMED lasts only inside the transaction. *)
ConfirmJob(r) ==
    LET j == call[r].job IN
    /\ call[r].at = "confirm"
    /\ CanConfirm(j)
    /\ jobs' = [jobs EXCEPT ![j].status = "CLOSED"]
    /\ history' = [history EXCEPT ![j] = @ \o <<[from |-> "COMPLETED", to |-> "CONFIRMED"],
                                                [from |-> "CONFIRMED", to |-> "CLOSED"]>>]
    /\ GoTo(r, "announceConfirm")
    /\ UNCHANGED <<quotes, assignments, notes, notices, faults>>

(* "moved" is decided against the row the service read, before the lock. *)
BeginUpdate(r, j, loc) ==
    /\ Readable(j)
    /\ Begin(r, [Idle EXCEPT !.at = "update", !.job = j, !.user = Customer,
                             !.location = loc, !.moved = loc # jobs[j].location])

(* Mutant: the lock is taken and the status is not looked at. *)
CanChangeAgreed(j) == Readable(j)

CanChange(j) == Readable(j) /\ jobs[j].status \in CustomerMutable

UpdateJob(r) ==
    /\ call[r].at = "update"
    /\ CanChange(call[r].job)
    /\ jobs' = [jobs EXCEPT ![call[r].job].location = call[r].location]
    /\ GoTo(r, "announceUpdate")
    /\ UNCHANGED <<quotes, history, assignments, notes, notices, faults>>

AnnounceUpdate(r) ==
    LET j == call[r].job IN
    /\ call[r].at = "announceUpdate"
    /\ Readable(j)
    /\ IF call[r].moved /\ IsOpen(j)
       THEN Notify("JOB_REQUEST_OPEN", j, MatchingUsers(jobs[j].location))
       ELSE UNCHANGED notices
    /\ Done(r)
    /\ UNCHANGED <<jobs, quotes, history, assignments, notes, faults>>

BeginCancel(r, j) ==
    /\ Readable(j)
    /\ Begin(r, [Idle EXCEPT !.at = "cancel", !.job = j, !.user = Customer])

CancelJob(r) ==
    LET j == call[r].job IN
    /\ call[r].at = "cancel"
    /\ CanChange(j)
    /\ Moves(j, jobs[j].status, "CANCELLED")
    /\ GoTo(r, "announceCancel")
    /\ UNCHANGED <<quotes, assignments, notes, notices, faults>>

(* Mutant: only the addressed provider is thought of. *)
RelyingOnAddressee(j, addressee) == addressee

(* emitWithdrawn: the addressee, and every provider whose quote is live now. *)
RelyingOn(j, addressee) == addressee \cup QuoterUsers(j)

AnnounceCancel(r) ==
    /\ call[r].at = "announceCancel"
    /\ Readable(call[r].job)
    /\ Notify("JOB_CANCELLED", call[r].job,
              RelyingOn(call[r].job, AddresseeUsers(call[r].job)))
    /\ Done(r)
    /\ UNCHANGED <<jobs, quotes, history, assignments, notes, faults>>

(* Deletion notifies first, from the job as the service read it. *)
BeginDelete(r, j) ==
    /\ Readable(j)
    /\ Begin(r, [Idle EXCEPT !.at = "warnDelete", !.job = j, !.user = Customer,
                             !.provider = jobs[j].provider])

WarnDelete(r) ==
    LET addressee == IF call[r].provider = None THEN {} ELSE UsersOf(call[r].provider) IN
    /\ call[r].at = "warnDelete"
    /\ Notify("JOB_CANCELLED", call[r].job, RelyingOn(call[r].job, addressee))
    /\ GoTo(r, "delete")
    /\ UNCHANGED <<jobs, quotes, history, assignments, notes, faults>>

DeleteJob(r) ==
    /\ call[r].at = "delete"
    /\ jobs' = [jobs EXCEPT ![call[r].job].deleted = TRUE]
    /\ Done(r)
    /\ UNCHANGED <<quotes, history, assignments, notes, notices, faults>>

-----------------------------------------------------------------------------
(* What follows a commit: the handler re-reads the job and notifies.  A job  *)
(* deleted in between reads as absent, and the notification is skipped.      *)

Recipients(phase, j, actor) ==
    IF phase \in {"announceAccept", "announceConfirm"}
    THEN AddresseeUsers(j) \ {actor}
    ELSE (AddresseeUsers(j) \ {actor}) \cup {Customer}

NoticeOf == [announceAccept |-> "QUOTE_ACCEPTED", announceSchedule |-> "JOB_SCHEDULED",
             announceStart |-> "JOB_STARTED", announceComplete |-> "JOB_COMPLETED",
             announceConfirm |-> "JOB_CONFIRMED"]

Announcing == {"announceAccept", "announceSchedule", "announceStart",
               "announceComplete", "announceConfirm"}

Announce(r) ==
    /\ call[r].at \in Announcing
    /\ Readable(call[r].job)
    /\ Notify(NoticeOf[call[r].at], call[r].job,
              Recipients(call[r].at, call[r].job, call[r].user))
    /\ Done(r)
    /\ UNCHANGED <<jobs, quotes, history, assignments, notes, faults>>

NothingToAnnounce(r) ==
    /\ call[r].at \in Announcing \cup {"announceRequest", "announceUpdate", "announceCancel"}
    /\ ~Readable(call[r].job)
    /\ Done(r)
    /\ UNCHANGED <<jobs, quotes, history, assignments, notes, notices, faults>>

-----------------------------------------------------------------------------
(* A transaction whose checks under the lock fail is rolled back. *)

Permitted(c) ==
    CASE c.at = "quote" -> CanQuote(c.job, c.provider)
      [] c.at = "accept" -> CanAccept(c.job, c.quote)
      [] c.at = "schedule" -> CanSchedule(c.job)
      [] c.at = "start" -> CanStart(c.job)
      [] c.at = "complete" -> CanComplete(c.job)
      [] c.at = "confirm" -> CanConfirm(c.job)
      [] c.at \in {"update", "cancel"} -> CanChange(c.job)
      [] c.at = "delete" -> TRUE

Refuse(r) ==
    /\ call[r].at \in Transactions
    /\ ~Permitted(call[r])
    /\ Done(r)
    /\ UNCHANGED <<jobs, quotes, history, assignments, notes, notices, faults>>

(* The handler dies between two steps: the process stops, a query fails and  *)
(* rolls its transaction back, or a best-effort notification is swallowed.   *)
Die(r) ==
    /\ call[r].at # "idle"
    /\ faults < MaxFaults
    /\ faults' = faults + 1
    /\ Done(r)
    /\ UNCHANGED <<jobs, quotes, history, assignments, notes, notices>>

(* emitWithdrawn swallows its errors, and the deletion goes on. *)
WarningLost(r) ==
    /\ call[r].at = "warnDelete"
    /\ faults < MaxFaults
    /\ faults' = faults + 1
    /\ GoTo(r, "delete")
    /\ UNCHANGED <<jobs, quotes, history, assignments, notes, notices>>

-----------------------------------------------------------------------------
Arrive(r) ==
    \E j \in Jobs :
        \/ \E p \in Providers \cup {None}, loc \in Locations : CreateJob(r, j, p, loc)
        \/ \E u \in Users : \/ BeginQuote(r, u, j)
                            \/ \E t \in {"schedule", "start", "complete"} :
                                  BeginProviderStep(r, u, j, t)
        \/ \E q \in DOMAIN quotes : BeginAccept(r, j, q)
        \/ BeginConfirm(r, j)
        \/ \E loc \in Locations : BeginUpdate(r, j, loc)
        \/ BeginCancel(r, j)
        \/ BeginDelete(r, j)

Proceed(r) ==
    \/ InsertCreationRow(r) \/ InsertAssignment(r) \/ AnnounceRequest(r)
    \/ CreateQuote(r) \/ AnnounceQuote(r)
    \/ AcceptQuote(r)
    \/ ScheduleJob(r) \/ StartJob(r) \/ CompleteJob(r)
    \/ ConfirmJob(r)
    \/ UpdateJob(r) \/ AnnounceUpdate(r)
    \/ CancelJob(r) \/ AnnounceCancel(r)
    \/ WarnDelete(r) \/ DeleteJob(r)
    \/ Announce(r) \/ NothingToAnnounce(r)
    \/ Refuse(r)

Fail(r) == Die(r) \/ WarningLost(r)

Next == \E r \in Requests : Arrive(r) \/ Proceed(r) \/ Fail(r)

Spec == Init /\ [][Next]_vars

-----------------------------------------------------------------------------
(* Properties *)

(* Every variable stays in its type, a handler under way names a job that    *)
(* exists, and one about to write a provider to a table has a provider.      *)
TypeOK ==
    /\ jobs \in [Jobs -> JobRow]
    /\ quotes \in Seq(QuoteRow)
    /\ history \in [Jobs -> Seq(HistoryRow)]
    /\ assignments \in [Jobs -> Seq(Providers)]
    /\ notes \in [Jobs -> Nat]
    /\ notices \subseteq Notice
    /\ call \in [Requests -> Call]
    /\ \A r \in Requests : call[r].at # "idle" => /\ call[r].job \in Jobs
                                                  /\ jobs[call[r].job].status # "ABSENT"
    /\ \A r \in Requests : call[r].at \in {"assignmentRow", "quote"} => call[r].provider # None
    /\ faults \in 0..MaxFaults

(* acceptQuote under concurrent accepts, quotes, edits and deletes: a job    *)
(* past QUOTED has exactly one ACCEPTED quote, it is the job's provider's,   *)
(* agreed_amount is that quote's total, and no competing quote is still      *)
(* live; a job that is not agreed has no accepted quote and no amount.       *)
AgreementIsUnique ==
    \A j \in Jobs :
        IF jobs[j].status \in AgreedStatus
        THEN /\ AcceptedQuotes(j) = {jobs[j].agreed}
             /\ \A q \in AcceptedQuotes(j) : quotes[q].provider = jobs[j].provider
             /\ LiveQuotes(j) = {}
        ELSE AcceptedQuotes(j) = {} /\ jobs[j].agreed = 0

(* The cap of createQuote, counted under the job's lock: an open request     *)
(* never holds more than MAX_QUOTES_PER_OPEN_JOB live quotes, and no         *)
(* provider ever has two quotes on one job, whichever of its users quote.    *)
QuoteCapHolds ==
    \A j \in Jobs :
        /\ Cardinality(LiveQuotes(j)) <= MaxQuotesPerOpenJob
        /\ \A q1, q2 \in QuotesOn(j) : quotes[q1].provider = quotes[q2].provider => q1 = q2

(* Where a job stands follows from the quotes it has: nobody has quoted a    *)
(* REQUESTED job, and a QUOTED job always has a quote the customer can take. *)
QuotedMeansQuotable ==
    \A j \in Jobs :
        /\ jobs[j].status \in {"ABSENT", "REQUESTED"} => QuotesOn(j) = {}
        /\ jobs[j].status = "QUOTED" => LiveQuotes(j) # {}

(* job_status_history tells the job's status: leaving out the creation row,  *)
(* each row starts where the one before it ended, the first at REQUESTED,    *)
(* and the last ends at the current status.  The creation row is written     *)
(* outside any transaction and may come late, or never.                      *)
IsCreation(row) == row.from = "ABSENT"
HistoryTellsStatus ==
    \A j \in Jobs :
        LET h == history[j]
            moves == {i \in DOMAIN h : ~IsCreation(h[i])}
            Before(i) == {m \in moves : m < i}
        IN  /\ \A i \in moves :
                  IF Before(i) = {} THEN h[i].from = "REQUESTED"
                  ELSE \E m \in Before(i) : /\ \A x \in Before(i) : x <= m
                                            /\ h[m].to = h[i].from
            /\ IF moves = {} THEN jobs[j].status \in {"ABSENT", "REQUESTED"}
               ELSE \E m \in moves : /\ \A x \in moves : x <= m
                                     /\ h[m].to = jobs[j].status
            /\ Cardinality(DOMAIN h \ moves) <= 1

(* A job is completed once: the completion note exists exactly when the job  *)
(* is COMPLETED or CLOSED, however often the provider retries.               *)
CompletedOnce ==
    \A j \in Jobs : notes[j] = IF jobs[j].status \in {"COMPLETED", "CLOSED"} THEN 1 ELSE 0

(* What was agreed stays agreed: no later edit, quote, delete or transition  *)
(* changes the provider, the amount, the location or the accepted quote.     *)
AgreementIsFinal ==
    [][\A j \in Jobs : jobs[j].status \in AgreedStatus =>
            /\ jobs'[j].status \in AgreedStatus
            /\ jobs'[j].provider = jobs[j].provider
            /\ jobs'[j].agreed = jobs[j].agreed
            /\ jobs'[j].location = jobs[j].location
            /\ AcceptedQuotes(j)' = AcceptedQuotes(j)]_vars

(* A withdrawn request stays withdrawn: once a job is cancelled or deleted,  *)
(* no quote is added to it and none of its quotes changes.                   *)
WithdrawnIsClosedToQuotes ==
    [][\A j \in Jobs : jobs[j].status = "CANCELLED" \/ jobs[j].deleted =>
            /\ QuotesOn(j)' = QuotesOn(j)
            /\ \A q \in QuotesOn(j) : quotes'[q] = quotes[q]]_vars

(* Nobody finds out by chance.  As long as no fault struck, every user of    *)
(* the accepted provider has been told of the acceptance, and of a           *)
(* cancellation everyone who was relying on the request - the addressed      *)
(* provider and every provider whose quote is live - or the handler that     *)
(* accepted or cancelled is still to tell them, whatever other handlers did  *)
(* to the job meanwhile.                                                     *)
Told(kind, j, who) == \A w \in who : [kind |-> kind, job |-> j, to |-> w] \in notices
Owed(phase, j) == \E r \in Requests : call[r].at = phase /\ call[r].job = j
PartiesAreTold ==
    faults = 0 => \A j \in Jobs : ~jobs[j].deleted =>
        /\ jobs[j].status \in AgreedStatus =>
              Told("QUOTE_ACCEPTED", j, AddresseeUsers(j)) \/ Owed("announceAccept", j)
        /\ jobs[j].status = "CANCELLED" =>
              \/ Told("JOB_CANCELLED", j, AddresseeUsers(j) \cup QuoterUsers(j))
              \/ Owed("announceCancel", j)

(* The abstract agreement, read off the three tables. *)
Winner(j) == IF AcceptedQuotes(j) = {} THEN None
             ELSE quotes[CHOOSE q \in AcceptedQuotes(j) : TRUE].provider
Agreement == INSTANCE JobAgreement WITH
                stage <- [j \in Jobs |-> jobs[j].status],
                offers <- [j \in Jobs |-> {quotes[q].provider : q \in LiveQuotes(j)}],
                winner <- [j \in Jobs |-> Winner(j)],
                MaxOffers <- MaxQuotesPerOpenJob

(* The rows the handlers write, whatever their interleaving, go through the  *)
(* steps of the agreement and no others.                                     *)
ImplementsAgreement == Agreement!Spec
=============================================================================
