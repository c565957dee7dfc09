--------------------------- MODULE MemoryMarketplace ---------------------------
(***************************************************************************)
(* The in-memory jobs, quotes and execution stores, beside the MySQL ones. *)
(* The backend's tests exercise every service against the in-memory stores *)
(* only, so what they show of the deployed system rests on the two kinds   *)
(* of store answering alike.  Here every call of MarketplaceJob is served  *)
(* by both: the tables change as there, and mem, the maps and arrays of    *)
(* the in-memory stores, changes by their own checks and assignments.      *)
(* Calls come one at a time, as the tests make them.                       *)
(***************************************************************************)
EXTENDS MarketplaceJob

CONSTANTS
    Offering,  \* the profiles with the category of the jobs among their offerings
    Covers     \* Covers[p]: the locations in the service areas of p

(* getProviderMatchProfile, profile by profile. *)
ASSUME MatchAssumption ==
    /\ Offering \subseteq Providers
    /\ Covers \in [Providers -> SUBSET Locations]
    /\ \A p \in Providers : Serves[p] = IF p \in Offering THEN Covers[p] ELSE {}

VARIABLE mem   \* the private fields of the three stores

lockstep == <<vars, mem>>

(* jobs and deleted of MemoryJobsStore; quotes and history of              *)
(* MemoryQuotesStore; updates and history of MemoryExecutionStore.         *)
MemInit ==
    mem = [jobs |-> [j \in Jobs |-> [status |-> "ABSENT", provider |-> None,
                                     agreed |-> 0, location |-> None]],
           deleted |-> {}, quotes |-> << >>,
           quotesHistory |-> [j \in Jobs |-> << >>],
           execHistory |-> [j \in Jobs |-> << >>], updates |-> [j \in Jobs |-> 0]]

-----------------------------------------------------------------------------
(* Reads. *)

MemStatus(j) == mem.jobs[j].status
GetJobById(j) == j \notin mem.deleted /\ MemStatus(j) # "ABSENT"
MemQuotesOn(j) == {q \in DOMAIN mem.quotes : mem.quotes[q].job = j}
MemLive(j) == {q \in MemQuotesOn(j) : mem.quotes[q].status \in LiveQuote}
HasQuoteFromProvider(j, p) == \E q \in MemLive(j) : mem.quotes[q].provider = p
MemIsOpen(j) == mem.jobs[j].provider = None

-----------------------------------------------------------------------------
(* MemoryJobsStore. *)

MemCreateJob(j, p, loc) ==
    [mem EXCEPT !.jobs[j] = [status |-> "REQUESTED", provider |-> p, agreed |-> 0,
                             location |-> loc]]

RequireMutable(j) == GetJobById(j) /\ MemStatus(j) \in CustomerMutable
MemUpdateJob(j, loc) == [mem EXCEPT !.jobs[j].location = loc]
MemCancelJob(j) == [mem EXCEPT !.jobs[j].status = "CANCELLED"]
MemDeleteJob(j) == [mem EXCEPT !.deleted = @ \cup {j}]

-----------------------------------------------------------------------------
(* MemoryQuotesStore. *)

MemCanQuote(j, p) ==
    /\ GetJobById(j)
    /\ mem.jobs[j].provider \in {None, p}
    /\ ~HasQuoteFromProvider(j, p)
    /\ IF MemIsOpen(j)
       THEN /\ Cardinality(MemLive(j)) < MaxQuotesPerOpenJob
            /\ MemStatus(j) \in CustomerMutable
       ELSE MemStatus(j) = "REQUESTED"

MemCreateQuote(j, p) ==
    LET stored == [mem EXCEPT !.quotes =
                      Append(@, [job |-> j, provider |-> p, status |-> "SUBMITTED"])]
    IN  IF MemStatus(j) = "REQUESTED"
        THEN [stored EXCEPT !.jobs[j].status = "QUOTED",
                            !.quotesHistory[j] = Append(@, [from |-> "REQUESTED", to |-> "QUOTED"])]
        ELSE stored

MemCanAccept(j, q) ==
    /\ GetJobById(j)
    /\ q \in MemQuotesOn(j)
    /\ mem.quotes[q].status = "SUBMITTED"
    /\ MemStatus(j) = "QUOTED"

(* Mutant: the winner is not written onto an open job. *)
MemAcceptUnaddressed(j, q) ==
    [mem EXCEPT !.jobs[j].status = "ACCEPTED", !.jobs[j].agreed = q,
                !.quotes[q].status = "ACCEPTED",
                !.quotesHistory[j] = Append(@, [from |-> "QUOTED", to |-> "ACCEPTED"])]

MemAcceptQuote(j, q) ==
    [mem EXCEPT
        !.jobs[j].status = "ACCEPTED", !.jobs[j].agreed = q,
        !.jobs[j].provider = IF @ = None THEN mem.quotes[q].provider ELSE @,
        !.quotes = [x \in DOMAIN @ |->
                       IF x = q THEN [@[x] EXCEPT !.status = "ACCEPTED"]
                       ELSE IF x \in MemLive(j) THEN [@[x] EXCEPT !.status = "DECLINED"]
                       ELSE @[x]],
        !.quotesHistory[j] = Append(@, [from |-> "QUOTED", to |-> "ACCEPTED"])]

MemCanSchedule(j) == /\ GetJobById(j)
                     /\ \E q \in MemQuotesOn(j) : mem.quotes[q].status = "ACCEPTED"
                     /\ MemStatus(j) = "ACCEPTED"
MemScheduleJob(j) ==
    [mem EXCEPT !.jobs[j].status = "SCHEDULED",
                !.quotesHistory[j] = Append(@, [from |-> "ACCEPTED", to |-> "SCHEDULED"])]

MemCanStart(j) == GetJobById(j) /\ MemStatus(j) = "SCHEDULED"
MemStartJob(j) ==
    [mem EXCEPT !.jobs[j].status = "IN_PROGRESS",
                !.quotesHistory[j] = Append(@, [from |-> "SCHEDULED", to |-> "IN_PROGRESS"])]

-----------------------------------------------------------------------------
(* MemoryExecutionStore. *)

MemCanComplete(j) == GetJobById(j) /\ MemStatus(j) = "IN_PROGRESS"
MemCompleteJob(j) ==
    [mem EXCEPT !.jobs[j].status = "COMPLETED", !.updates[j] = @ + 1,
                !.execHistory[j] = Append(@, [from |-> "IN_PROGRESS", to |-> "COMPLETED"])]

MemCanConfirm(j) == GetJobById(j) /\ MemStatus(j) = "COMPLETED"
MemConfirmJob(j) ==
    [mem EXCEPT !.jobs[j].status = "CLOSED",
                !.execHistory[j] = @ \o <<[from |-> "COMPLETED", to |-> "CONFIRMED"],
                                          [from |-> "CONFIRMED", to |-> "CLOSED"]>>]

(* The creation event is made up; the jobs store's own history, which has  *)
(* the cancellations, is not read.                                         *)
ListStatusHistory(j) ==
    <<[from |-> "ABSENT", to |-> "REQUESTED"]>> \o mem.quotesHistory[j] \o mem.execHistory[j]

-----------------------------------------------------------------------------
(* The lists the screens are made of. *)

InboxStatuses == {"REQUESTED", "QUOTED", "ACCEPTED", "SCHEDULED", "IN_PROGRESS"}
ProviderInbox(u) ==
    {j \in Jobs : /\ Readable(j)
                  /\ jobs[j].status \in InboxStatuses
                  /\ \E p \in Identity(u) :
                        \/ jobs[j].provider = p
                        \/ IsOpen(j) /\ HasLiveQuote(j, p)}

MemProviderInbox(u) ==
    {j \in Jobs : /\ GetJobById(j)
                  /\ MemStatus(j) \in InboxStatuses
                  /\ \E p \in Identity(u) :
                        \/ mem.jobs[j].provider = p
                        \/ MemIsOpen(j) /\ HasQuoteFromProvider(j, p)}

(* The board pools what the profiles of a person offer and where they go;  *)
(* the gate of a request asks for one profile that does both.              *)
Matches(u, loc) == /\ Identity(u) \cap Offering # {}
                   /\ \E p \in Identity(u) : loc \in Covers[p]
(* Bound: fewer open requests of a category than the 200 the scan reads.   *)
OpenRequests(u) ==
    {j \in Jobs : /\ Readable(j) /\ IsOpen(j)
                  /\ jobs[j].status \in CustomerMutable
                  /\ Cardinality(LiveQuotes(j)) < MaxQuotesPerOpenJob
                  /\ \A p \in Identity(u) : ~HasLiveQuote(j, p)
                  /\ Matches(u, jobs[j].location)}

(* The in-memory board does not count quotes. *)
MemOpenRequests(u) ==
    {j \in Jobs : /\ GetJobById(j) /\ MemIsOpen(j)
                  /\ MemStatus(j) \in CustomerMutable
                  /\ \A p \in Identity(u) : ~HasQuoteFromProvider(j, p)
                  /\ Matches(u, mem.jobs[j].location)}

CustomerJobs == {j \in Jobs : Readable(j)}
MemCustomerJobs == {j \in Jobs : GetJobById(j)}

-----------------------------------------------------------------------------
(* One call, served twice. *)

MemPermits(c) ==
    CASE c.at = "quote" -> MemCanQuote(c.job, c.provider)
      [] c.at = "accept" -> MemCanAccept(c.job, c.quote)
      [] c.at = "schedule" -> MemCanSchedule(c.job)
      [] c.at = "start" -> MemCanStart(c.job)
      [] c.at = "complete" -> MemCanComplete(c.job)
      [] c.at = "confirm" -> MemCanConfirm(c.job)
      [] c.at \in {"update", "cancel", "delete"} -> RequireMutable(c.job)

MemResult(c) ==
    CASE c.at = "quote" -> MemCreateQuote(c.job, c.provider)
      [] c.at = "accept" -> MemAcceptQuote(c.job, c.quote)
      [] c.at = "schedule" -> MemScheduleJob(c.job)
      [] c.at = "start" -> MemStartJob(c.job)
      [] c.at = "complete" -> MemCompleteJob(c.job)
      [] c.at = "confirm" -> MemConfirmJob(c.job)
      [] c.at = "update" -> MemUpdateJob(c.job, c.location)
      [] c.at = "cancel" -> MemCancelJob(c.job)
      [] c.at = "delete" -> MemDeleteJob(c.job)

Submit(r) == \E j \in Jobs, p \in Providers \cup {None}, loc \in Locations :
                /\ CreateJob(r, j, p, loc)
                /\ mem' = MemCreateJob(j, p, loc)
ServeBoth(r) == /\ call[r].at \in Transactions
                /\ Proceed(r)
                /\ mem' = IF MemPermits(call[r]) THEN MemResult(call[r]) ELSE mem
(* The services' own steps: what they read, and whom they notify. *)
ServiceStep(r) == /\ Arrive(r) /\ jobs' = jobs
                  /\ UNCHANGED mem
AfterCommit(r) == /\ call[r].at \notin Transactions
                  /\ Proceed(r)
                  /\ UNCHANGED mem

LockstepInit == Init /\ MemInit
LockstepNext ==
    \E r \in Requests : Submit(r) \/ ServiceStep(r) \/ ServeBoth(r) \/ AfterCommit(r)
LockstepSpec == LockstepInit /\ [][LockstepNext]_lockstep

-----------------------------------------------------------------------------
Between == \A r \in Requests : call[r] = Idle

(* The one call the stores answer differently: the in-memory store refuses *)
(* to delete a job the customer may no longer change, MySQL deletes it.    *)
DeletedLate(j) == jobs[j].deleted /\ jobs[j].status \notin CustomerMutable

(* Whatever calls were made, in whatever order, the maps hold the jobs,    *)
(* quotes and notes the tables hold: no check of one store is missing or   *)
(* stricter in the other, and no assignment is forgotten.                  *)
StoresAgree ==
    /\ \A j \in Jobs :
          \/ DeletedLate(j)
          \/ /\ mem.jobs[j] = [status |-> jobs[j].status, provider |-> jobs[j].provider,
                               agreed |-> jobs[j].agreed, location |-> jobs[j].location]
             /\ jobs[j].deleted <=> j \in mem.deleted
             /\ mem.updates[j] = notes[j]
    /\ mem.quotes = quotes

(* The jobs customers and providers are listed are the same on either     *)
(* store, save that the in-memory board goes on showing a request that has *)
(* all the quotes it may have.                                             *)
SameLists ==
    LET same == {j \in Jobs : ~DeletedLate(j)}
        full == {j \in Jobs : Cardinality(LiveQuotes(j)) >= MaxQuotesPerOpenJob} IN
    /\ CustomerJobs \cap same = MemCustomerJobs \cap same
    /\ \A u \in Users : /\ ProviderInbox(u) \cap same = MemProviderInbox(u) \cap same
                        /\ OpenRequests(u) \cap same = (MemOpenRequests(u) \cap same) \ full
=============================================================================
