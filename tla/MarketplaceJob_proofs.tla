------------------------ MODULE MarketplaceJob_proofs --------------------------
(***************************************************************************)
(* Proofs about MarketplaceJob and the modules that extend it, for every   *)
(* number of jobs, users, providers and handlers, any quote cap and any    *)
(* number of faults:                                                       *)
(*   1. types;                                                             *)
(*   2. the agreement: JobInv says, job by job, how the row of a job and   *)
(*      the quotes on it belong together, and every action either leaves   *)
(*      them alone (JobFrame) or is one of the few that Effect lists;      *)
(*   3. the record of a job, its timeline and the note of its completion:  *)
(*      Recorded says what the rows say of its status, and that at most    *)
(*      one handler still owes the creation row;                           *)
(*   4. who is told: Informed says what a job's agreement or cancellation  *)
(*      has left in notices, or which handler still owes it;               *)
(*   5. JobAgreement is implemented: IInv makes the mapping a function of  *)
(*      the tables, since a job past QUOTED has one accepted quote, and    *)
(*      the cap that createQuote counts in quotes is one on providers;     *)
(*   6. the in-memory stores keep step (MInv): each transaction is         *)
(*      permitted by both stores or by neither, and moves the same job;    *)
(*   7. who is shown which quotes, and 8. what is answered of ids that are *)
(*      not the caller's: from the order of an endpoint's checks alone;    *)
(*   9. the screens: a flag implies the checks of the call behind it,      *)
(*      given IInv, and that no row is left at CONFIRMED;                  *)
(*   10. what is answered on either store (SameDocs), and the timelines    *)
(*      (TInv), for which calls have to come one at a time.                *)
(***************************************************************************)
EXTENDS RequestScreens, FiniteSetTheorems, SequenceTheorems, TLAPS

-----------------------------------------------------------------------------
(* Types *)

LEMMA IdleType == Idle \in Call
BY DEF Idle, Call, Phase, Transactions

(* The quotes table after an acceptance is still a sequence of quote rows,   *)
(* with the same ids.                                                        *)
LEMMA QuotesIfAcceptedType ==
    ASSUME quotes \in Seq(QuoteRow), NEW j, NEW q
    PROVE  /\ QuotesIfAccepted(j, q) \in Seq(QuoteRow)
           /\ DOMAIN QuotesIfAccepted(j, q) = DOMAIN quotes
<1>1. \A x \in DOMAIN quotes : quotes[x] \in QuoteRow
  OBVIOUS
<1>2. \A x \in DOMAIN quotes : QuotesIfAccepted(j, q)[x] \in QuoteRow
  BY <1>1 DEF QuotesIfAccepted, QuoteRow, QuoteStatus
<1>3. DOMAIN quotes = 1..Len(quotes) /\ Len(quotes) \in Nat
  OBVIOUS
<1>. QED
  BY <1>2, <1>3 DEF QuotesIfAccepted

(* Starting a handler on a job that exists. *)
LEMMA BeginType ==
    ASSUME TypeOK, NEW r \in Requests, NEW c \in Call, Begin(r, c),
           c.job \in Jobs, jobs[c.job].status # "ABSENT",
           c.at = "quote" => c.provider # None, c.at # "assignmentRow"
    PROVE  TypeOK'
BY DEF TypeOK, Begin

(* A handler that goes on or ends, in a step that removes no job. *)
WritesProvider == {"assignmentRow", "quote"}
CallType == /\ call \in [Requests -> Call]
            /\ \A r \in Requests : call[r].at # "idle" => /\ call[r].job \in Jobs
                                                          /\ jobs[call[r].job].status # "ABSENT"
            /\ \A r \in Requests : call[r].at \in WritesProvider => call[r].provider # None
KeepsJobs == \A j \in Jobs : jobs[j].status # "ABSENT" => jobs'[j].status # "ABSENT"

LEMMA CallStep ==
    ASSUME TypeOK, NEW r \in Requests, KeepsJobs, call[r].at # "idle",
           Done(r) \/ \E phase \in Phase \ WritesProvider : GoTo(r, phase)
    PROVE  CallType'
<1>1. CASE Done(r)
  BY <1>1, IdleType DEF TypeOK, CallType, WritesProvider, KeepsJobs, Done, Idle
<1>2. ASSUME NEW phase \in Phase \ WritesProvider, GoTo(r, phase) PROVE CallType'
  <2>1. CallType /\ call[r] \in Call
    BY DEF TypeOK, CallType, WritesProvider
  <2>2. /\ [call[r] EXCEPT !.at = phase] \in Call
        /\ [call[r] EXCEPT !.at = phase].job = call[r].job
        /\ [call[r] EXCEPT !.at = phase].at = phase
    BY <2>1 DEF Call
  <2>3. call' = [call EXCEPT ![r] = [call[r] EXCEPT !.at = phase]]
    BY <1>2 DEF GoTo
  <2>. QED
    BY <2>1, <2>2, <2>3 DEF CallType, KeepsJobs
<1>. QED
  BY <1>1, <1>2

LEMMA MovesType ==
    ASSUME TypeOK, NEW j \in Jobs, NEW from \in JobStatus,
           NEW to \in JobStatus \ {"ABSENT"}, Moves(j, from, to)
    PROVE  /\ jobs' \in [Jobs -> JobRow]
           /\ history' \in [Jobs -> Seq(HistoryRow)]
           /\ KeepsJobs
<1>1. [from |-> from, to |-> to] \in HistoryRow
  BY DEF HistoryRow
<1>2. history' \in [Jobs -> Seq(HistoryRow)]
  BY <1>1 DEF TypeOK, Moves
<1>3. jobs \in [Jobs -> JobRow] /\ jobs[j] \in JobRow
  BY DEF TypeOK
<1>4. [jobs[j] EXCEPT !.status = to] \in JobRow /\ [jobs[j] EXCEPT !.status = to].status = to
  BY <1>3 DEF JobRow
<1>5. jobs' = [jobs EXCEPT ![j] = [jobs[j] EXCEPT !.status = to]]
  BY DEF Moves
<1>. QED
  BY <1>2, <1>3, <1>4, <1>5 DEF KeepsJobs

LEMMA AudienceType ==
    ASSUME TypeOK, NEW j, NEW loc, NEW who \in SUBSET (Users \cup {Customer})
    PROVE  /\ \A p : UsersOf(p) \in SUBSET Users
           /\ MatchingUsers(loc) \in SUBSET Users
           /\ AddresseeUsers(j) \in SUBSET Users
           /\ RelyingOn(j, who) \in SUBSET (Users \cup {Customer})
<1>1. \A p : UsersOf(p) \in SUBSET Users
  BY DEF UsersOf
<1>2. MatchingUsers(loc) \in SUBSET Users
  BY <1>1 DEF MatchingUsers
<1>3. AddresseeUsers(j) \in SUBSET Users
  BY <1>1 DEF AddresseeUsers
<1>4. QuoterUsers(j) \in SUBSET Users
  BY <1>1 DEF QuoterUsers
<1>. QED
  BY <1>1, <1>2, <1>3, <1>4 DEF RelyingOn

LEMMA InitType == Init => TypeOK
<1>. SUFFICES ASSUME Init PROVE TypeOK
  OBVIOUS
<1>1. NoJob \in JobRow
  BY DEF NoJob, JobRow, JobStatus
<1>2. jobs \in [Jobs -> JobRow] /\ notes \in [Jobs -> Nat]
  BY <1>1 DEF Init
<1>3. /\ quotes \in Seq(QuoteRow)
      /\ history \in [Jobs -> Seq(HistoryRow)]
      /\ assignments \in [Jobs -> Seq(Providers)]
  BY DEF Init
<1>4. call \in [Requests -> Call] /\ \A r \in Requests : call[r].at = "idle"
  BY IdleType DEF Init, Idle
<1>5. faults \in 0..MaxFaults /\ notices = {}
  BY FaultAssumption DEF Init
<1>. QED
  BY <1>2, <1>3, <1>4, <1>5 DEF TypeOK

LEMMA ArriveType ==
    ASSUME TypeOK, NEW r \in Requests, Arrive(r)
    PROVE  TypeOK'
<1>1. ASSUME NEW j \in Jobs, NEW p \in Providers \cup {None}, NEW loc \in Locations,
             CreateJob(r, j, p, loc)
      PROVE  TypeOK'
  <2>1. jobs' \in [Jobs -> JobRow]
    BY <1>1 DEF TypeOK, CreateJob, NoJob, JobRow, JobStatus, CustomerMutable
  <2>2. call' \in [Requests -> Call]
    BY <1>1 DEF TypeOK, CreateJob, Idle, Call, Phase, Transactions
  <2>3. \A x \in Requests : call'[x].at # "idle" => /\ call'[x].job \in Jobs
                                                    /\ jobs'[call'[x].job].status # "ABSENT"
    BY <1>1 DEF TypeOK, CreateJob, Idle, NoJob, JobRow, Call
  <2>. QED
    BY <1>1, <2>1, <2>2, <2>3 DEF TypeOK, CreateJob
<1>2. ASSUME NEW j \in Jobs, NEW u \in Users, BeginQuote(r, u, j) PROVE TypeOK'
  <2>. DEFINE c == [Idle EXCEPT !.at = "quote", !.job = j, !.user = u,
                                !.provider = AuthorOf(j, u)]
  <2>1. (Profiles[u] \in Seq(Providers) /\ Profiles[u] # << >>) \/ ~IsOpen(j)
    BY <1>2, ProfilesAssumption DEF BeginQuote, CanViewRequest, Identity, Range
  <2>2. AuthorOf(j, u) \in Providers
    BY <1>2, <2>1, ProfilesAssumption DEF BeginQuote, CanViewRequest, IsOpen, AuthorOf, Identity, Range, TypeOK, JobRow
  <2>3. c \in Call /\ c.job = j /\ c.at = "quote" /\ c.provider \in Providers
    BY <2>2 DEF Idle, Call, Phase, Transactions
  <2>4. Begin(r, c) /\ jobs[j].status # "ABSENT"
    BY <1>2 DEF BeginQuote, CanViewRequest, Readable
  <2>. HIDE DEF c
  <2>. QED
    BY <2>3, <2>4, BeginType, NoneAssumption
<1>3. ASSUME NEW j \in Jobs, NEW u \in Users, NEW t \in {"schedule", "start", "complete"},
             BeginProviderStep(r, u, j, t)
      PROVE  TypeOK'
  <2>. DEFINE c == [Idle EXCEPT !.at = t, !.job = j, !.user = u]
  <2>1. c \in Call /\ c.job = j /\ c.at = t
    BY DEF Idle, Call, Phase, Transactions
  <2>2. Begin(r, c) /\ jobs[j].status # "ABSENT"
    BY <1>3 DEF BeginProviderStep, Readable
  <2>. HIDE DEF c
  <2>. QED
    BY <2>1, <2>2, BeginType
<1>4. ASSUME NEW j \in Jobs, NEW q \in DOMAIN quotes, BeginAccept(r, j, q) PROVE TypeOK'
  <2>. DEFINE c == [Idle EXCEPT !.at = "accept", !.job = j, !.user = Customer, !.quote = q]
  <2>1. q \in Nat
    BY DEF TypeOK
  <2>2. c \in Call /\ c.job = j /\ c.at = "accept"
    BY <2>1 DEF Idle, Call, Phase, Transactions
  <2>3. Begin(r, c) /\ jobs[j].status # "ABSENT"
    BY <1>4 DEF BeginAccept, Readable
  <2>. HIDE DEF c
  <2>. QED
    BY <2>2, <2>3, BeginType
<1>5. ASSUME NEW j \in Jobs, BeginConfirm(r, j) \/ BeginCancel(r, j) PROVE TypeOK'
  <2>0. PICK t \in {"confirm", "cancel"} :
            Readable(j) /\ Begin(r, [Idle EXCEPT !.at = t, !.job = j, !.user = Customer])
    BY <1>5 DEF BeginConfirm, BeginCancel
  <2>. DEFINE c == [Idle EXCEPT !.at = t, !.job = j, !.user = Customer]
  <2>1. c \in Call /\ c.job = j /\ c.at = t
    BY DEF Idle, Call, Phase, Transactions
  <2>2. Begin(r, c) /\ jobs[j].status # "ABSENT"
    BY <2>0 DEF Readable
  <2>. HIDE DEF c
  <2>. QED
    BY <2>1, <2>2, BeginType
<1>6. ASSUME NEW j \in Jobs, NEW loc \in Locations, BeginUpdate(r, j, loc) PROVE TypeOK'
  <2>. DEFINE c == [Idle EXCEPT !.at = "update", !.job = j, !.user = Customer,
                                !.location = loc, !.moved = loc # jobs[j].location]
  <2>1. c \in Call /\ c.job = j /\ c.at = "update"
    BY DEF Idle, Call, Phase, Transactions
  <2>2. Begin(r, c) /\ jobs[j].status # "ABSENT"
    BY <1>6 DEF BeginUpdate, Readable
  <2>. HIDE DEF c
  <2>. QED
    BY <2>1, <2>2, BeginType
<1>7. ASSUME NEW j \in Jobs, BeginDelete(r, j) PROVE TypeOK'
  <2>. DEFINE c == [Idle EXCEPT !.at = "warnDelete", !.job = j, !.user = Customer,
                                !.provider = jobs[j].provider]
  <2>1. c \in Call /\ c.job = j /\ c.at = "warnDelete"
    BY DEF Idle, Call, Phase, Transactions, TypeOK, JobRow
  <2>2. Begin(r, c) /\ jobs[j].status # "ABSENT"
    BY <1>7 DEF BeginDelete, Readable
  <2>. HIDE DEF c
  <2>. QED
    BY <2>1, <2>2, BeginType
<1>. QED
  BY <1>1, <1>2, <1>3, <1>4, <1>5, <1>6, <1>7 DEF Arrive

(* What the notifying steps add to the notifications table. *)
LEMMA AnnounceType ==
    ASSUME TypeOK, NEW r \in Requests,
           \/ AnnounceRequest(r) \/ AnnounceQuote(r) \/ AnnounceUpdate(r)
           \/ AnnounceCancel(r) \/ WarnDelete(r) \/ Announce(r)
    PROVE  TypeOK'
<1>. DEFINE j == call[r].job
<1>1. j \in Jobs /\ KeepsJobs /\ call[r].at # "idle"
  BY DEF TypeOK, KeepsJobs, AnnounceRequest, AnnounceQuote, AnnounceUpdate, AnnounceCancel,
         WarnDelete, Announce, Announcing
<1>2. CallType'
  BY <1>1, CallStep DEF AnnounceRequest, AnnounceQuote, AnnounceUpdate, AnnounceCancel,
                        WarnDelete, Announce, Phase, Transactions, WritesProvider
<1>3. notices' \subseteq notices \cup Notice
  <2>1. CASE AnnounceRequest(r)
    <3>1. /\ MatchingUsers(jobs[j].location) \subseteq Users
          /\ AddresseeUsers(j) \subseteq Users
      BY AudienceType
    <3>2. CASE Notify("JOB_REQUEST_OPEN", j, MatchingUsers(jobs[j].location))
      BY <1>1, <3>1, <3>2 DEF Notify, Notice, NoticeKind
    <3>3. CASE Notify("JOB_REQUEST", j, AddresseeUsers(j))
      BY <1>1, <3>1, <3>3 DEF Notify, Notice, NoticeKind
    <3>. QED
      BY <2>1, <3>2, <3>3 DEF AnnounceRequest
  <2>2. CASE AnnounceQuote(r)
    BY <1>1, <2>2 DEF AnnounceQuote, Notify, Notice, NoticeKind
  <2>3. CASE AnnounceUpdate(r)
    BY <1>1, <2>3, AudienceType DEF AnnounceUpdate, Notify, Notice, NoticeKind
  <2>4. CASE AnnounceCancel(r)
    <3>1. RelyingOn(j, AddresseeUsers(j)) \in SUBSET (Users \cup {Customer})
      BY AudienceType
    <3>. QED
      BY <1>1, <2>4, <3>1 DEF AnnounceCancel, Notify, Notice, NoticeKind
  <2>5. CASE WarnDelete(r)
    <3>. DEFINE addressee == IF call[r].provider = None THEN {} ELSE UsersOf(call[r].provider)
    <3>1. addressee \in SUBSET (Users \cup {Customer})
      BY AudienceType
    <3>2. RelyingOn(j, addressee) \in SUBSET (Users \cup {Customer})
      BY <3>1, AudienceType
    <3>. QED
      BY <1>1, <2>5, <3>2 DEF WarnDelete, Notify, Notice, NoticeKind
  <2>6. CASE Announce(r)
    <3>1. NoticeOf[call[r].at] \in NoticeKind
      BY <2>6 DEF Announce, Announcing, NoticeOf, NoticeKind
    <3>2. Recipients(call[r].at, j, call[r].user) \in SUBSET (Users \cup {Customer})
      BY AudienceType DEF Recipients
    <3>. QED
      BY <1>1, <2>6, <3>1, <3>2 DEF Announce, Notify, Notice
  <2>. QED
    BY <2>1, <2>2, <2>3, <2>4, <2>5, <2>6
<1>4. notices' \subseteq Notice
  BY <1>3 DEF TypeOK
<1>. QED
  BY <1>2, <1>4 DEF TypeOK, CallType, WritesProvider, AnnounceRequest, AnnounceQuote,
                    AnnounceUpdate, AnnounceCancel, WarnDelete, Announce

LEMMA ProceedType ==
    ASSUME TypeOK, NEW r \in Requests, Proceed(r)
    PROVE  TypeOK'
<1>. DEFINE j == call[r].job
<1>. USE NoneAssumption
<1>t. /\ jobs \in [Jobs -> JobRow]
      /\ assignments \in [Jobs -> Seq(Providers)]
      /\ notes \in [Jobs -> Nat]
  BY DEF TypeOK
<1>0. ASSUME call[r].at # "idle" PROVE j \in Jobs /\ call[r] \in Call /\ jobs[j] \in JobRow
  BY <1>0 DEF TypeOK
<1>1. ASSUME CallType', jobs' \in [Jobs -> JobRow], quotes' \in Seq(QuoteRow),
             history' \in [Jobs -> Seq(HistoryRow)], assignments' \in [Jobs -> Seq(Providers)],
             notes' \in [Jobs -> Nat], notices' = notices, faults' = faults
      PROVE  TypeOK'
  BY <1>1 DEF TypeOK, CallType, WritesProvider
<1>2. CASE InsertCreationRow(r)
  <2>1. [from |-> "ABSENT", to |-> "REQUESTED"] \in HistoryRow
    BY DEF HistoryRow, JobStatus, CustomerMutable
  <2>2. KeepsJobs /\ call[r].at # "idle"
    BY <1>2 DEF InsertCreationRow, KeepsJobs
  <2>3. CallType'
    <3>1. CASE call[r].provider = None
      <4>1. \E phase \in Phase \ WritesProvider : GoTo(r, phase)
        BY <1>2, <3>1 DEF InsertCreationRow, Phase, WritesProvider
      <4>. QED
        BY <2>2, <4>1, CallStep
    <3>2. CASE call[r].provider # None
      <4>1. [call[r] EXCEPT !.at = "assignmentRow"] \in Call
        BY <1>0, <2>2 DEF Call, Phase
      <4>2. call' = [call EXCEPT ![r] = [call[r] EXCEPT !.at = "assignmentRow"]]
        BY <1>2, <3>2 DEF InsertCreationRow, GoTo
      <4>3. jobs' = jobs
        BY <1>2 DEF InsertCreationRow
      <4>4. \A x \in Requests : call'[x].job = call[x].job /\ call'[x].provider = call[x].provider
        BY <4>2, <1>0, <2>2 DEF TypeOK, Call
      <4>5. \A x \in Requests \ {r} : call'[x] = call[x]
        BY <4>2 DEF TypeOK
      <4>. QED
        BY <2>2, <3>2, <4>1, <4>2, <4>3, <4>4, <4>5 DEF TypeOK, CallType, WritesProvider
    <3>. QED
      BY <3>1, <3>2
  <2>. QED
    BY <1>0, <1>1, <1>2, <2>1, <2>2, <2>3 DEF InsertCreationRow, TypeOK
<1>3. CASE InsertAssignment(r)
  <2>1. KeepsJobs /\ call[r].at # "idle" /\ \E phase \in Phase \ WritesProvider : GoTo(r, phase)
    BY <1>3 DEF InsertAssignment, KeepsJobs, Phase, WritesProvider
  <2>2. CallType'
    BY <2>1, CallStep
  <2>. QED
    <3>1. call[r].provider \in Providers
      BY <1>0, <1>3, <2>1 DEF InsertAssignment, TypeOK, Call
    <3>2. assignments' \in [Jobs -> Seq(Providers)]
      BY <1>0, <1>3, <2>1, <3>1 DEF InsertAssignment, TypeOK
    <3>. QED
      BY <1>1, <1>3, <2>2, <3>2 DEF InsertAssignment, TypeOK
<1>4. CASE CreateQuote(r)
  <2>1. KeepsJobs /\ call[r].at # "idle" /\ \E phase \in Phase \ WritesProvider : GoTo(r, phase)
    <3>1. KeepsJobs
      BY <1>0, <1>4, MovesType DEF CreateQuote, QuoteMovesJob, KeepsJobs, JobStatus, CustomerMutable
    <3>. QED
      BY <3>1, <1>4 DEF CreateQuote, Phase, WritesProvider
  <2>2. CallType'
    BY <2>1, CallStep
  <2>3. call[r].provider \in Providers
    BY <1>0, <1>4 DEF CreateQuote, TypeOK, Call
  <2>4. jobs' \in [Jobs -> JobRow] /\ history' \in [Jobs -> Seq(HistoryRow)]
    BY <1>0, <1>4, MovesType DEF CreateQuote, QuoteMovesJob, TypeOK, JobStatus, CustomerMutable
  <2>5. quotes' \in Seq(QuoteRow)
    <3>1. [job |-> j, provider |-> call[r].provider, status |-> "SUBMITTED"] \in QuoteRow
      BY <1>0, <1>4, <2>3 DEF CreateQuote, QuoteRow, QuoteStatus, LiveQuote
    <3>. QED
      BY <1>4, <3>1 DEF CreateQuote, TypeOK
  <2>. QED
    BY <1>1, <1>4, <2>2, <2>4, <2>5 DEF CreateQuote, TypeOK
<1>5. CASE AcceptQuote(r)
  <2>. DEFINE q == call[r].quote
  <2>1. j \in Jobs /\ q \in DOMAIN quotes /\ quotes[q] \in QuoteRow /\ q \in Nat
    BY <1>0, <1>5 DEF AcceptQuote, CanAccept, QuotesOn, TypeOK, Call
  <2>2. KeepsJobs /\ call[r].at # "idle" /\ \E phase \in Phase \ WritesProvider : GoTo(r, phase)
    <3>1. \A x \in Jobs : jobs'[x].status = IF x = j THEN "ACCEPTED" ELSE jobs[x].status
      BY <1>t, <1>5, <2>1 DEF AcceptQuote, JobRow
    <3>. QED
      <4>1. KeepsJobs
        BY <3>1 DEF KeepsJobs
      <4>. QED
        BY <1>5, <4>1 DEF AcceptQuote, Phase, WritesProvider
  <2>3. CallType'
    BY <2>2, CallStep
  <2>4. jobs' \in [Jobs -> JobRow]
    <3>. DEFINE row == [jobs[j] EXCEPT !.status = "ACCEPTED", !.agreed = q,
                          !.provider = IF @ = None THEN quotes[q].provider ELSE @]
    <3>1. row \in JobRow
      BY <1>0, <1>5, <2>1, <2>2 DEF JobRow, QuoteRow, JobStatus, AgreedStatus
    <3>2. jobs' = [jobs EXCEPT ![j] = row]
      BY <1>5, <2>1 DEF AcceptQuote, TypeOK
    <3>. HIDE DEF row
    <3>. QED
      BY <3>1, <3>2 DEF TypeOK
  <2>5. quotes' \in Seq(QuoteRow)
    BY <1>5, QuotesIfAcceptedType DEF AcceptQuote, TypeOK
  <2>6. assignments' \in [Jobs -> Seq(Providers)]
    <3>1. quotes[q].provider \in Providers
      BY <2>1 DEF QuoteRow
    <3>. QED
      <4>1. CASE assignments' = [assignments EXCEPT ![j] = Append(@, quotes[q].provider)]
        BY <1>t, <2>1, <3>1, <4>1
      <4>2. CASE assignments' = assignments
        BY <1>t, <4>2
      <4>. QED
        BY <1>5, <4>1, <4>2 DEF AcceptQuote, AssignWinner
  <2>7. history' \in [Jobs -> Seq(HistoryRow)]
    <3>1. [from |-> "QUOTED", to |-> "ACCEPTED"] \in HistoryRow
      BY DEF HistoryRow, JobStatus, CustomerMutable, AgreedStatus
    <3>. QED
      BY <1>5, <2>1, <3>1 DEF AcceptQuote, TypeOK
  <2>. QED
    BY <1>1, <1>5, <2>3, <2>4, <2>5, <2>6, <2>7 DEF AcceptQuote, TypeOK
<1>6. CASE ScheduleJob(r) \/ StartJob(r) \/ CompleteJob(r) \/ CancelJob(r)
  <2>1. /\ {"ACCEPTED", "SCHEDULED", "IN_PROGRESS"} \subseteq JobStatus
        /\ {"SCHEDULED", "IN_PROGRESS", "COMPLETED", "CANCELLED"} \subseteq JobStatus \ {"ABSENT"}
    BY DEF JobStatus, AgreedStatus
  <2>2. call[r].at # "idle" /\ j \in Jobs /\ jobs[j].status \in JobStatus
    BY <1>0, <1>6 DEF ScheduleJob, StartJob, CompleteJob, CancelJob, JobRow
  <2>3. /\ jobs' \in [Jobs -> JobRow]
        /\ history' \in [Jobs -> Seq(HistoryRow)]
        /\ KeepsJobs
    BY <1>6, <2>1, <2>2, MovesType DEF ScheduleJob, StartJob, CompleteJob, CancelJob
  <2>4. \E phase \in Phase \ WritesProvider : GoTo(r, phase)
    BY <1>6 DEF ScheduleJob, StartJob, CompleteJob, CancelJob, Phase, WritesProvider
  <2>5. CallType'
    BY <2>2, <2>3, <2>4, CallStep
  <2>6. notes' \in [Jobs -> Nat]
    <3>1. notes' = notes \/ notes' = [notes EXCEPT ![j] = @ + 1]
      BY <1>6 DEF ScheduleJob, StartJob, CompleteJob, CancelJob
    <3>. QED
      BY <1>t, <2>2, <3>1
  <2>. QED
    BY <1>1, <1>6, <2>3, <2>5, <2>6 DEF ScheduleJob, StartJob, CompleteJob, CancelJob, TypeOK
<1>7. CASE ConfirmJob(r)
  <2>1. KeepsJobs /\ call[r].at # "idle" /\ \E phase \in Phase \ WritesProvider : GoTo(r, phase)
    <3>1. j \in Jobs /\ \A x \in Jobs : jobs'[x].status = IF x = j THEN "CLOSED" ELSE jobs[x].status
      BY <1>t, <1>0, <1>7 DEF ConfirmJob, JobRow
    <3>. QED
      BY <1>7, <3>1 DEF ConfirmJob, KeepsJobs, Phase, WritesProvider
  <2>2. CallType'
    BY <2>1, CallStep
  <2>3. jobs' \in [Jobs -> JobRow]
    BY <1>0, <1>7 DEF ConfirmJob, TypeOK, JobRow, JobStatus, AgreedStatus
  <2>4. history' \in [Jobs -> Seq(HistoryRow)]
    <3>1. /\ [from |-> "COMPLETED", to |-> "CONFIRMED"] \in HistoryRow
          /\ [from |-> "CONFIRMED", to |-> "CLOSED"] \in HistoryRow
      BY DEF HistoryRow, JobStatus, AgreedStatus
    <3>. DEFINE rows == <<[from |-> "COMPLETED", to |-> "CONFIRMED"],
                          [from |-> "CONFIRMED", to |-> "CLOSED"]>>
    <3>2. rows \in Seq(HistoryRow)
      BY <3>1
    <3>3. history[j] \in Seq(HistoryRow)
      BY <1>0, <2>1 DEF TypeOK
    <3>. HIDE DEF rows
    <3>4. history[j] \o rows \in Seq(HistoryRow)
      BY <3>2, <3>3
    <3>5. history' = [history EXCEPT ![j] = @ \o rows]
      BY <1>7 DEF ConfirmJob, rows
    <3>. QED
      BY <3>4, <3>5 DEF TypeOK
  <2>. QED
    BY <1>1, <1>7, <2>2, <2>3, <2>4 DEF ConfirmJob, TypeOK
<1>8. CASE UpdateJob(r) \/ DeleteJob(r)
  <2>1. call[r].at # "idle" /\ j \in Jobs /\ call[r] \in Call
    BY <1>0, <1>8 DEF UpdateJob, DeleteJob
  <2>2. KeepsJobs /\ jobs' \in [Jobs -> JobRow]
    <3>1. /\ [jobs[j] EXCEPT !.location = call[r].location] \in JobRow
          /\ [jobs[j] EXCEPT !.deleted = TRUE] \in JobRow
          /\ [jobs[j] EXCEPT !.location = call[r].location].status = jobs[j].status
          /\ [jobs[j] EXCEPT !.deleted = TRUE].status = jobs[j].status
      BY <1>0, <2>1 DEF JobRow, Call
    <3>2. \/ jobs' = [jobs EXCEPT ![j] = [jobs[j] EXCEPT !.location = call[r].location]]
          \/ jobs' = [jobs EXCEPT ![j] = [jobs[j] EXCEPT !.deleted = TRUE]]
      BY <1>8, <2>1 DEF UpdateJob, DeleteJob
    <3>. QED
      BY <1>t, <2>1, <3>1, <3>2 DEF KeepsJobs
  <2>3. Done(r) \/ \E phase \in Phase \ WritesProvider : GoTo(r, phase)
    BY <1>8 DEF UpdateJob, DeleteJob, Phase, WritesProvider
  <2>4. CallType'
    BY <2>1, <2>2, <2>3, CallStep
  <2>. QED
    BY <1>1, <1>8, <2>2, <2>4 DEF UpdateJob, DeleteJob, TypeOK
<1>9. CASE \/ AnnounceRequest(r) \/ AnnounceQuote(r) \/ AnnounceUpdate(r)
           \/ AnnounceCancel(r) \/ WarnDelete(r) \/ Announce(r)
  BY <1>9, AnnounceType
<1>10. CASE NothingToAnnounce(r) \/ Refuse(r)
  <2>1. call[r].at # "idle" /\ KeepsJobs /\ Done(r)
    BY <1>10 DEF NothingToAnnounce, Refuse, KeepsJobs, Announcing, Transactions
  <2>2. CallType'
    BY <2>1, CallStep
  <2>. QED
    BY <1>1, <1>10, <2>2 DEF NothingToAnnounce, Refuse, TypeOK
<1>. QED
  BY <1>2, <1>3, <1>4, <1>5, <1>6, <1>7, <1>8, <1>9, <1>10 DEF Proceed

LEMMA FailType ==
    ASSUME TypeOK, NEW r \in Requests, Fail(r)
    PROVE  TypeOK'
<1>1. call[r].at # "idle" /\ KeepsJobs
  BY DEF Fail, Die, WarningLost, KeepsJobs
<1>2. Done(r) \/ \E phase \in Phase \ WritesProvider : GoTo(r, phase)
  BY DEF Fail, Die, WarningLost, Phase, Transactions, WritesProvider
<1>3. CallType'
  BY <1>1, <1>2, CallStep
<1>4. faults' \in 0..MaxFaults
  BY FaultAssumption DEF Fail, Die, WarningLost, TypeOK
<1>. QED
  BY <1>3, <1>4 DEF Fail, Die, WarningLost, TypeOK, CallType, WritesProvider

LEMMA NextType == TypeOK /\ [Next]_vars => TypeOK'
<1>. SUFFICES ASSUME TypeOK, [Next]_vars PROVE TypeOK'
  OBVIOUS
<1>1. CASE Next
  BY <1>1, ArriveType, ProceedType, FailType DEF Next
<1>2. CASE UNCHANGED vars
  BY <1>2 DEF vars, TypeOK
<1>. QED
  BY <1>1, <1>2

(* Whatever handlers interleave and die, every table keeps its type, and a   *)
(* handler under way names a job whose row exists.                           *)
THEOREM TypeCorrect == Spec => []TypeOK
BY InitType, NextType, PTL DEF Spec
-----------------------------------------------------------------------------
(* The agreement *)

(* A live quote on an addressed job is its addressee's.  (Not so of declined *)
(* quotes: acceptQuote fills in the provider of an open job, and the quotes  *)
(* it declined belong to others.)                                            *)
OffersFit(j) == \A q \in LiveQuotes(j) : jobs[j].provider \in {None, quotes[q].provider}

(* Quotes are only declined by an acceptance: until then all are live.  This *)
(* is why createQuote may look at live quotes alone to find a duplicate.     *)
AllLiveBefore(j) == jobs[j].status \notin AgreedStatus => QuotesOn(j) = LiveQuotes(j)

Agreed(j) ==
    IF jobs[j].status \in AgreedStatus
    THEN /\ AcceptedQuotes(j) = {jobs[j].agreed}
         /\ \A q \in AcceptedQuotes(j) : quotes[q].provider = jobs[j].provider
         /\ LiveQuotes(j) = {}
    ELSE AcceptedQuotes(j) = {} /\ jobs[j].agreed = 0

Capped(j) ==
    /\ Cardinality(LiveQuotes(j)) <= MaxQuotesPerOpenJob
    /\ \A q1, q2 \in QuotesOn(j) : quotes[q1].provider = quotes[q2].provider => q1 = q2

QuotesFollow(j) ==
    /\ jobs[j].status \in {"ABSENT", "REQUESTED"} => QuotesOn(j) = {}
    /\ jobs[j].status = "QUOTED" => LiveQuotes(j) # {}

JobInv(j) == Agreed(j) /\ Capped(j) /\ QuotesFollow(j) /\ OffersFit(j) /\ AllLiveBefore(j)

IInv == TypeOK /\ \A j \in Jobs : JobInv(j)

-----------------------------------------------------------------------------
(* What a step does to the quotes of a job *)

LEMMA SameQuotes ==
    ASSUME quotes' = quotes, NEW j
    PROVE  /\ QuotesOn(j)' = QuotesOn(j)
           /\ LiveQuotes(j)' = LiveQuotes(j)
           /\ AcceptedQuotes(j)' = AcceptedQuotes(j)
BY DEF QuotesOn, LiveQuotes, AcceptedQuotes

LEMMA LiveQuotesFinite ==
    ASSUME TypeOK, NEW j
    PROVE  IsFiniteSet(LiveQuotes(j)) /\ Cardinality(LiveQuotes(j)) \in Nat
<1>1. DOMAIN quotes = 1..Len(quotes) /\ Len(quotes) \in Nat
  BY DEF TypeOK
<1>2. LiveQuotes(j) \subseteq 1..Len(quotes)
  BY <1>1 DEF LiveQuotes, QuotesOn
<1>3. IsFiniteSet(1..Len(quotes))
  BY <1>1, FS_Interval
<1>4. IsFiniteSet(LiveQuotes(j))
  BY <1>2, <1>3, FS_Subset
<1>. QED
  BY <1>4, FS_CardinalityType

(* Inserting a quote adds it to the quotes of its job, and to no other's. *)
LEMMA InsertedQuote ==
    ASSUME TypeOK, NEW j \in Jobs, NEW p,
           quotes' = Append(quotes, [job |-> j, provider |-> p, status |-> "SUBMITTED"])
    PROVE  \E n : /\ n \notin DOMAIN quotes
                  /\ quotes'[n].provider = p
                  /\ \A q \in DOMAIN quotes : quotes'[q] = quotes[q]
                  /\ QuotesOn(j)' = QuotesOn(j) \cup {n}
                  /\ LiveQuotes(j)' = LiveQuotes(j) \cup {n}
                  /\ AcceptedQuotes(j)' = AcceptedQuotes(j)
                  /\ \A x \in Jobs \ {j} : /\ QuotesOn(x)' = QuotesOn(x)
                                           /\ LiveQuotes(x)' = LiveQuotes(x)
                                           /\ AcceptedQuotes(x)' = AcceptedQuotes(x)
<1>. DEFINE row == [job |-> j, provider |-> p, status |-> "SUBMITTED"]
            n == Len(quotes) + 1
<1>1. /\ Len(quotes) \in Nat
      /\ DOMAIN quotes = 1..Len(quotes)
      /\ DOMAIN quotes' = 1..n
      /\ quotes'[n] = row
      /\ \A q \in DOMAIN quotes : quotes'[q] = quotes[q]
  <2>1. quotes \in Seq(QuoteRow)
    BY DEF TypeOK
  <2>. HIDE DEF row
  <2>2. quotes' = Append(quotes, row)
    BY DEF row
  <2>. QED
    BY <2>1, <2>2
<1>2. DOMAIN quotes' = DOMAIN quotes \cup {n} /\ n \notin DOMAIN quotes
  BY <1>1
<1>3. row.job = j /\ row.provider = p /\ row.status = "SUBMITTED"
  OBVIOUS
<1>. HIDE DEF row, n
<1>4. \A x : QuotesOn(x)' = QuotesOn(x) \cup (IF x = j THEN {n} ELSE {})
  BY <1>1, <1>2, <1>3 DEF QuotesOn
<1>5. \A x : LiveQuotes(x)' = LiveQuotes(x) \cup (IF x = j THEN {n} ELSE {})
  BY <1>1, <1>2, <1>3, <1>4 DEF LiveQuotes, QuotesOn, LiveQuote
<1>6. \A x : AcceptedQuotes(x)' = AcceptedQuotes(x)
  BY <1>1, <1>2, <1>3, <1>4 DEF AcceptedQuotes, QuotesOn
<1>. QED
  BY <1>1, <1>2, <1>3, <1>4, <1>5, <1>6

(* Accepting a quote leaves it the only accepted one of its job if none was, *)
(* leaves no live quote on that job, and touches no other job's quotes.      *)
LEMMA QuoteAccepted ==
    ASSUME TypeOK, NEW j \in Jobs, NEW q \in QuotesOn(j), quotes' = QuotesIfAccepted(j, q)
    PROVE  /\ \A x \in DOMAIN quotes : quotes'[x].provider = quotes[x].provider
           /\ QuotesOn(j)' = QuotesOn(j)
           /\ LiveQuotes(j)' = {}
           /\ AcceptedQuotes(j)' = AcceptedQuotes(j) \cup {q}
           /\ \A x \in Jobs \ {j} : /\ QuotesOn(x)' = QuotesOn(x)
                                    /\ LiveQuotes(x)' = LiveQuotes(x)
                                    /\ AcceptedQuotes(x)' = AcceptedQuotes(x)
                                    /\ \A y \in QuotesOn(x) : quotes'[y] = quotes[y]
<1>1. \A x \in DOMAIN quotes : quotes[x] \in QuoteRow
  BY DEF TypeOK
<1>2. q \in DOMAIN quotes /\ quotes[q].job = j
  BY DEF QuotesOn
<1>3. DOMAIN quotes' = DOMAIN quotes
  BY DEF QuotesIfAccepted
<1>4. \A x \in DOMAIN quotes :
        /\ quotes'[x].job = quotes[x].job
        /\ quotes'[x].provider = quotes[x].provider
        /\ quotes'[x].status = IF x = q THEN "ACCEPTED"
                               ELSE IF x \in LiveQuotes(j) THEN "DECLINED"
                               ELSE quotes[x].status
  BY <1>1 DEF QuotesIfAccepted, QuoteRow
<1>5. \A x : QuotesOn(x)' = QuotesOn(x)
  BY <1>3, <1>4 DEF QuotesOn
<1>6. LiveQuotes(j)' = {}
  BY <1>4, <1>5 DEF LiveQuotes, QuotesOn, LiveQuote
<1>7. AcceptedQuotes(j)' = AcceptedQuotes(j) \cup {q}
  <2>1. \A x : x \in AcceptedQuotes(j)' <=> x \in QuotesOn(j) /\ quotes'[x].status = "ACCEPTED"
    BY <1>5 DEF AcceptedQuotes
  <2>2. \A x \in QuotesOn(j) : quotes'[x].status = "ACCEPTED" <=> x = q \/ quotes[x].status = "ACCEPTED"
    <3>1. \A x \in LiveQuotes(j) : quotes[x].status # "ACCEPTED"
      BY DEF LiveQuotes, LiveQuote
    <3>. QED
      BY <1>4, <3>1 DEF QuotesOn
  <2>. QED
    BY <2>1, <2>2 DEF AcceptedQuotes
<1>8. ASSUME NEW x \in Jobs \ {j} PROVE \A y \in QuotesOn(x) : quotes'[y] = quotes[y]
  BY <1>2 DEF QuotesIfAccepted, LiveQuotes, QuotesOn
<1>. QED
  BY <1>4, <1>5, <1>6, <1>7, <1>8 DEF LiveQuotes, AcceptedQuotes

-----------------------------------------------------------------------------
(* The invariant of one job *)

(* A step that touches neither the agreement columns of a job nor its quotes. *)
LEMMA JobFrame ==
    ASSUME NEW j \in Jobs, JobInv(j),
           jobs'[j].status = jobs[j].status, jobs'[j].provider = jobs[j].provider,
           jobs'[j].agreed = jobs[j].agreed,
           QuotesOn(j)' = QuotesOn(j), LiveQuotes(j)' = LiveQuotes(j),
           AcceptedQuotes(j)' = AcceptedQuotes(j),
           \A q \in QuotesOn(j) : quotes'[q].provider = quotes[q].provider
    PROVE  JobInv(j)'
<1>1. LiveQuotes(j) \subseteq QuotesOn(j) /\ AcceptedQuotes(j) \subseteq QuotesOn(j)
  BY DEF LiveQuotes, AcceptedQuotes
<1>2. Agreed(j)' /\ QuotesFollow(j)' /\ AllLiveBefore(j)'
  BY <1>1 DEF JobInv, Agreed, QuotesFollow, AllLiveBefore
<1>3. Capped(j)'
  BY <1>1 DEF JobInv, Capped
<1>4. OffersFit(j)'
  BY <1>1 DEF JobInv, OffersFit
<1>. QED
  BY <1>2, <1>3, <1>4 DEF JobInv

(* A status move inside the agreed stages, or a withdrawal before them. *)
LEMMA JobMoves ==
    ASSUME NEW j \in Jobs, JobInv(j), quotes' = quotes,
           jobs'[j].provider = jobs[j].provider, jobs'[j].agreed = jobs[j].agreed,
           \/ jobs[j].status \in AgreedStatus /\ jobs'[j].status \in AgreedStatus
           \/ jobs[j].status \in CustomerMutable /\ jobs'[j].status = "CANCELLED"
    PROVE  JobInv(j)'
<1>1. /\ QuotesOn(j)' = QuotesOn(j)
      /\ LiveQuotes(j)' = LiveQuotes(j)
      /\ AcceptedQuotes(j)' = AcceptedQuotes(j)
  BY SameQuotes
<1>2. Agreed(j)'
  BY <1>1 DEF JobInv, Agreed, AgreedStatus, CustomerMutable
<1>3. QuotesFollow(j)' /\ AllLiveBefore(j)'
  BY <1>1 DEF JobInv, QuotesFollow, AllLiveBefore, AgreedStatus, CustomerMutable
<1>4. Capped(j)' /\ OffersFit(j)'
  BY <1>1 DEF JobInv, Capped, OffersFit
<1>. QED
  BY <1>2, <1>3, <1>4 DEF JobInv
-----------------------------------------------------------------------------
(* The actions that change a job's agreement columns or its quotes *)

LEMMA InitInv == Init => IInv
<1>. SUFFICES ASSUME Init, NEW j \in Jobs PROVE JobInv(j)
  BY InitType DEF IInv
<1>1. jobs[j].status = "ABSENT" /\ jobs[j].agreed = 0
  BY DEF Init, NoJob
<1>2. QuotesOn(j) = {} /\ LiveQuotes(j) = {} /\ AcceptedQuotes(j) = {}
  BY DEF Init, QuotesOn, LiveQuotes, AcceptedQuotes
<1>3. Cardinality(LiveQuotes(j)) <= MaxQuotesPerOpenJob
  BY <1>2, FS_EmptySet, CapAssumption
<1>. QED
  BY <1>1, <1>2, <1>3 DEF JobInv, Agreed, Capped, QuotesFollow, OffersFit, AllLiveBefore,
                          AgreedStatus, CustomerMutable

LEMMA CreateJobInv ==
    ASSUME IInv, NEW r \in Requests, NEW j \in Jobs, NEW p, NEW loc, CreateJob(r, j, p, loc),
           NEW x \in Jobs
    PROVE  JobInv(x)'
<1>1. /\ QuotesOn(x)' = QuotesOn(x)
      /\ LiveQuotes(x)' = LiveQuotes(x)
      /\ AcceptedQuotes(x)' = AcceptedQuotes(x)
      /\ quotes' = quotes
  BY SameQuotes DEF CreateJob
<1>2. CASE x # j
  <2>1. jobs'[x] = jobs[x]
    BY <1>2 DEF CreateJob, IInv, TypeOK
  <2>. QED
    BY <1>1, <2>1, JobFrame DEF IInv
<1>3. CASE x = j
  <2>1. jobs[x].status = "ABSENT" /\ jobs'[x].status = "REQUESTED" /\ jobs'[x].agreed = 0
    BY <1>3 DEF CreateJob, IInv, TypeOK, NoJob
  <2>2. QuotesOn(x) = {}
    BY <2>1 DEF IInv, JobInv, QuotesFollow
  <2>3. LiveQuotes(x) = {} /\ AcceptedQuotes(x) = {}
    BY <2>2 DEF LiveQuotes, AcceptedQuotes
  <2>4. Capped(x)'
    BY <1>1, <2>2 DEF IInv, JobInv, Capped
  <2>. QED
    BY <1>1, <2>1, <2>2, <2>3, <2>4 DEF JobInv, Agreed, QuotesFollow, OffersFit, AllLiveBefore,
                                        AgreedStatus, CustomerMutable
<1>. QED
  BY <1>2, <1>3

LEMMA CreateQuoteInv ==
    ASSUME IInv, NEW r \in Requests, CreateQuote(r), NEW x \in Jobs
    PROVE  JobInv(x)'
<1>1. PICK j \in Jobs : j = call[r].job
  BY DEF IInv, TypeOK, CreateQuote
<1>2. PICK p : p = call[r].provider
  OBVIOUS
<1>3. /\ CanQuote(j, p)
      /\ quotes' = Append(quotes, [job |-> j, provider |-> p, status |-> "SUBMITTED"])
      /\ QuoteMovesJob(j)
  BY <1>1, <1>2 DEF CreateQuote
<1>4. PICK n : /\ n \notin DOMAIN quotes
               /\ quotes'[n].provider = p
               /\ \A q \in DOMAIN quotes : quotes'[q] = quotes[q]
               /\ QuotesOn(j)' = QuotesOn(j) \cup {n}
               /\ LiveQuotes(j)' = LiveQuotes(j) \cup {n}
               /\ AcceptedQuotes(j)' = AcceptedQuotes(j)
               /\ \A y \in Jobs \ {j} : /\ QuotesOn(y)' = QuotesOn(y)
                                        /\ LiveQuotes(y)' = LiveQuotes(y)
                                        /\ AcceptedQuotes(y)' = AcceptedQuotes(y)
  BY <1>3, InsertedQuote DEF IInv
<1>5. \A y \in Jobs : /\ jobs'[y].provider = jobs[y].provider
                      /\ jobs'[y].agreed = jobs[y].agreed
                      /\ y # j => jobs'[y].status = jobs[y].status
  BY <1>3 DEF QuoteMovesJob, Moves, IInv, TypeOK, JobRow
<1>6. CASE x # j
  <2>1. \A q \in QuotesOn(x) : quotes'[q].provider = quotes[q].provider
    BY <1>4 DEF QuotesOn
  <2>. QED
    BY <1>4, <1>5, <1>6, <2>1, JobFrame DEF IInv
<1>7. CASE x = j
  <2>1. /\ jobs[j].status \in CustomerMutable
        /\ jobs[j].provider # None => jobs[j].status = "REQUESTED"
        /\ jobs[j].provider \in {None, p}
        /\ ~HasLiveQuote(j, p)
        /\ jobs[j].provider = None => Cardinality(LiveQuotes(j)) < MaxQuotesPerOpenJob
    BY <1>3 DEF CanQuote, IsOpen, CustomerMutable
  <2>2. jobs'[j].status = "QUOTED"
    BY <1>3, <2>1 DEF QuoteMovesJob, Moves, IInv, TypeOK, JobRow, CustomerMutable
  <2>3. JobInv(j) /\ QuotesOn(j) = LiveQuotes(j)
    BY <2>1 DEF IInv, JobInv, AllLiveBefore, CustomerMutable, AgreedStatus
  <2>4. \A q \in QuotesOn(j) : q \in DOMAIN quotes /\ quotes'[q] = quotes[q] /\ q # n
    BY <1>4 DEF QuotesOn
  <2>5. Agreed(j)'
    BY <1>4, <1>5, <2>1, <2>2, <2>3 DEF JobInv, Agreed, AgreedStatus, CustomerMutable
  <2>6. QuotesFollow(j)' /\ AllLiveBefore(j)'
    BY <1>4, <2>2, <2>3 DEF QuotesFollow, AllLiveBefore
  <2>7. OffersFit(j)'
    BY <1>4, <1>5, <2>1, <2>3, <2>4 DEF JobInv, OffersFit
  <2>8. Capped(j)'
    <3>1. IsFiniteSet(LiveQuotes(j)) /\ Cardinality(LiveQuotes(j)) \in Nat
      BY LiveQuotesFinite DEF IInv
    <3>2. Cardinality(LiveQuotes(j) \cup {n}) = Cardinality(LiveQuotes(j)) + 1
      BY <2>3, <2>4, <3>1, FS_AddElement
    <3>3. Cardinality(LiveQuotes(j)) < MaxQuotesPerOpenJob
      <4>1. CASE jobs[j].provider = None
        BY <2>1, <4>1
      <4>2. CASE jobs[j].provider # None
        <5>1. LiveQuotes(j) = {}
          BY <2>1, <2>3, <4>2 DEF JobInv, QuotesFollow
        <5>. QED
          BY <5>1, FS_EmptySet, CapAssumption
      <4>. QED
        BY <4>1, <4>2
    <3>4. Cardinality(LiveQuotes(j)') <= MaxQuotesPerOpenJob
      BY <1>4, <3>1, <3>2, <3>3, CapAssumption
    <3>5. \A q \in QuotesOn(j) : quotes[q].provider # p
      BY <2>1, <2>3 DEF HasLiveQuote
    <3>. QED
      BY <1>4, <2>3, <2>4, <3>4, <3>5 DEF JobInv, Capped
  <2>. QED
    BY <1>7, <2>5, <2>6, <2>7, <2>8 DEF JobInv
<1>. QED
  BY <1>6, <1>7

LEMMA AcceptQuoteInv ==
    ASSUME IInv, NEW r \in Requests, AcceptQuote(r), NEW x \in Jobs
    PROVE  JobInv(x)'
<1>1. PICK j \in Jobs : j = call[r].job
  BY DEF IInv, TypeOK, AcceptQuote
<1>2. PICK q : q = call[r].quote
  OBVIOUS
<1>3. /\ CanAccept(j, q)
      /\ quotes' = QuotesIfAccepted(j, q)
      /\ jobs' = [jobs EXCEPT ![j].status = "ACCEPTED", ![j].agreed = q,
                              ![j].provider = IF @ = None THEN quotes[q].provider ELSE @]
  BY <1>1, <1>2 DEF AcceptQuote
<1>4. /\ q \in QuotesOn(j)
      /\ q \in LiveQuotes(j)
      /\ jobs[j].status = "QUOTED"
  BY <1>3 DEF CanAccept, LiveQuotes, LiveQuote
<1>5. /\ \A y \in DOMAIN quotes : quotes'[y].provider = quotes[y].provider
      /\ QuotesOn(j)' = QuotesOn(j)
      /\ LiveQuotes(j)' = {}
      /\ AcceptedQuotes(j)' = AcceptedQuotes(j) \cup {q}
      /\ \A y \in Jobs \ {j} : /\ QuotesOn(y)' = QuotesOn(y)
                               /\ LiveQuotes(y)' = LiveQuotes(y)
                               /\ AcceptedQuotes(y)' = AcceptedQuotes(y)
  BY <1>3, <1>4, QuoteAccepted DEF IInv
<1>6. /\ \A y \in Jobs \ {j} : jobs'[y] = jobs[y]
      /\ jobs'[j].status = "ACCEPTED"
      /\ jobs'[j].agreed = q
      /\ jobs'[j].provider = IF jobs[j].provider = None THEN quotes[q].provider
                                                        ELSE jobs[j].provider
  BY <1>3 DEF IInv, TypeOK, JobRow
<1>7. CASE x # j
  <2>1. \A y \in QuotesOn(x) : quotes'[y].provider = quotes[y].provider
    BY <1>5 DEF QuotesOn
  <2>. QED
    BY <1>5, <1>6, <1>7, <2>1, JobFrame DEF IInv
<1>8. CASE x = j
  <2>1. JobInv(j)
    BY DEF IInv
  <2>2. AcceptedQuotes(j)' = {q}
    BY <1>4, <1>5, <2>1 DEF JobInv, Agreed, AgreedStatus
  <2>3. jobs'[j].provider = quotes[q].provider
    BY <1>4, <1>6, <2>1 DEF JobInv, OffersFit
  <2>4. quotes'[q].provider = quotes[q].provider
    BY <1>4, <1>5 DEF QuotesOn
  <2>5. Agreed(j)'
    BY <1>5, <1>6, <2>2, <2>3, <2>4 DEF Agreed, AgreedStatus
  <2>6. QuotesFollow(j)' /\ AllLiveBefore(j)' /\ OffersFit(j)'
    BY <1>5, <1>6 DEF QuotesFollow, AllLiveBefore, OffersFit, AgreedStatus
  <2>7. Capped(j)'
    <3>1. Cardinality(LiveQuotes(j)') <= MaxQuotesPerOpenJob
      BY <1>5, FS_EmptySet, CapAssumption
    <3>2. \A y \in QuotesOn(j) : quotes'[y].provider = quotes[y].provider
      BY <1>5 DEF QuotesOn
    <3>. QED
      BY <1>5, <2>1, <3>1, <3>2 DEF JobInv, Capped
  <2>. QED
    BY <1>8, <2>5, <2>6, <2>7 DEF JobInv
<1>. QED
  BY <1>7, <1>8

(* The actions that only move a job's status. *)
StatusMove(j, to) == /\ quotes' = quotes
                     /\ jobs' = [jobs EXCEPT ![j].status = to]
                     /\ \/ jobs[j].status = "ACCEPTED" /\ to = "SCHEDULED"
                        \/ jobs[j].status = "SCHEDULED" /\ to = "IN_PROGRESS"
                        \/ jobs[j].status = "IN_PROGRESS" /\ to = "COMPLETED"
                        \/ jobs[j].status = "COMPLETED" /\ to = "CLOSED"
                        \/ jobs[j].status \in CustomerMutable /\ to = "CANCELLED"

LEMMA StatusMoveInv ==
    ASSUME IInv, NEW j \in Jobs, NEW to, StatusMove(j, to), NEW x \in Jobs
    PROVE  JobInv(x)'
<1>1. /\ quotes' = quotes
      /\ \A y \in Jobs : /\ jobs'[y].provider = jobs[y].provider
                         /\ jobs'[y].agreed = jobs[y].agreed
                         /\ jobs'[y].status = IF y = j THEN to ELSE jobs[y].status
  BY DEF StatusMove, IInv, TypeOK, JobRow
<1>2. CASE x = j
  BY <1>1, <1>2, JobMoves DEF IInv, StatusMove, AgreedStatus
<1>3. CASE x # j
  BY <1>1, <1>3, SameQuotes, JobFrame DEF IInv
<1>. QED
  BY <1>2, <1>3

(* The actions that leave every job's agreement columns and quotes alone. *)
Aside == /\ quotes' = quotes
         /\ \A j \in Jobs : /\ jobs'[j].status = jobs[j].status
                            /\ jobs'[j].provider = jobs[j].provider
                            /\ jobs'[j].agreed = jobs[j].agreed

LEMMA AsideInv == ASSUME IInv, Aside, NEW x \in Jobs PROVE JobInv(x)'
BY SameQuotes, JobFrame DEF IInv, Aside

(* Every step is one of these. *)
LEMMA Effect ==
    ASSUME TypeOK, [Next]_vars
    PROVE  \/ Aside
           \/ \E j \in Jobs, to \in JobStatus : StatusMove(j, to)
           \/ \E r \in Requests : CreateQuote(r) \/ AcceptQuote(r)
           \/ \E r \in Requests, j \in Jobs, p \in Providers \cup {None}, loc \in Locations :
                  CreateJob(r, j, p, loc)
<1>1. ASSUME UNCHANGED <<jobs, quotes>> PROVE Aside
  BY <1>1 DEF Aside
<1>2. CASE UNCHANGED vars
  BY <1>1, <1>2 DEF vars
<1>3. ASSUME NEW r \in Requests, Fail(r) PROVE Aside
  BY <1>1, <1>3 DEF Fail, Die, WarningLost
<1>4. ASSUME NEW r \in Requests, Arrive(r)
      PROVE  \/ Aside
             \/ \E j \in Jobs, p \in Providers \cup {None}, loc \in Locations :
                    CreateJob(r, j, p, loc)
  BY <1>1, <1>4 DEF Arrive, BeginQuote, BeginProviderStep, BeginAccept, BeginConfirm,
                    BeginUpdate, BeginCancel, BeginDelete, Begin
<1>5. ASSUME NEW r \in Requests, Proceed(r)
      PROVE  \/ Aside
             \/ \E j \in Jobs, to \in JobStatus : StatusMove(j, to)
             \/ CreateQuote(r) \/ AcceptQuote(r)
  <2>1. ASSUME ScheduleJob(r) \/ StartJob(r) \/ CompleteJob(r) \/ ConfirmJob(r) \/ CancelJob(r)
        PROVE  \E j \in Jobs, to \in JobStatus : StatusMove(j, to)
    <3>1. call[r].job \in Jobs
      BY <2>1 DEF TypeOK, ScheduleJob, StartJob, CompleteJob, ConfirmJob, CancelJob
    <3>2. \E to \in JobStatus : StatusMove(call[r].job, to)
      BY <2>1 DEF ScheduleJob, StartJob, CompleteJob, ConfirmJob, CancelJob, CanSchedule,
                  CanStart, CanComplete, CanConfirm, CanChange, Moves, StatusMove,
                  AgreedStatus, JobStatus
    <3>. QED
      BY <3>1, <3>2
  <2>2. ASSUME UpdateJob(r) \/ DeleteJob(r) PROVE Aside
    <3>1. /\ quotes' = quotes
          /\ \/ jobs' = [jobs EXCEPT ![call[r].job].location = call[r].location]
             \/ jobs' = [jobs EXCEPT ![call[r].job].deleted = TRUE]
      BY <2>2 DEF UpdateJob, DeleteJob
    <3>2. jobs \in [Jobs -> JobRow]
      BY DEF TypeOK
    <3>3. CASE jobs' = [jobs EXCEPT ![call[r].job].location = call[r].location]
      BY <3>1, <3>2, <3>3 DEF Aside, JobRow
    <3>4. CASE jobs' = [jobs EXCEPT ![call[r].job].deleted = TRUE]
      BY <3>1, <3>2, <3>4 DEF Aside, JobRow
    <3>. QED
      BY <3>1, <3>3, <3>4
  <2>. QED
    BY <1>1, <1>5, <2>1, <2>2
       DEF Proceed, InsertCreationRow, InsertAssignment, AnnounceRequest, AnnounceQuote,
           AnnounceUpdate, AnnounceCancel, WarnDelete, Announce, NothingToAnnounce, Refuse
<1>. QED
  BY <1>2, <1>3, <1>4, <1>5 DEF Next

LEMMA NextInv == IInv /\ [Next]_vars => IInv'
<1>. SUFFICES ASSUME IInv, [Next]_vars PROVE IInv'
  OBVIOUS
<1>1. TypeOK'
  BY NextType DEF IInv
<1>2. ASSUME NEW x \in Jobs PROVE JobInv(x)'
  BY Effect, AsideInv, StatusMoveInv, CreateQuoteInv, AcceptQuoteInv, CreateJobInv DEF IInv
<1>. QED
  BY <1>1, <1>2 DEF IInv

LEMMA Invariance == Spec => []IInv
BY InitInv, NextInv, PTL DEF Spec

-----------------------------------------------------------------------------
(* Theorems *)

(* However accepts, quotes, edits and deletions interleave, a job past       *)
(* QUOTED has exactly one accepted quote: its provider's, for its agreed     *)
(* amount, with no competing quote left live (acceptQuote).                  *)
THEOREM AgreementUnique == Spec => []AgreementIsUnique
<1>1. IInv => AgreementIsUnique
  BY DEF IInv, JobInv, Agreed, AgreementIsUnique
<1>. QED
  BY <1>1, Invariance, PTL

(* However many providers quote at once, an open request never holds more    *)
(* live quotes than the cap, and no provider two quotes on one job: the      *)
(* count and the duplicate check of createQuote are made under the lock.     *)
THEOREM QuoteCap == Spec => []QuoteCapHolds
<1>1. IInv => QuoteCapHolds
  BY DEF IInv, JobInv, Capped, QuoteCapHolds
<1>. QED
  BY <1>1, Invariance, PTL

(* A REQUESTED job has no quotes and a QUOTED one always has a quote the     *)
(* customer can take.                                                        *)
THEOREM QuotedQuotable == Spec => []QuotedMeansQuotable
<1>1. IInv => QuotedMeansQuotable
  BY DEF IInv, JobInv, QuotesFollow, QuotedMeansQuotable
<1>. QED
  BY <1>1, Invariance, PTL

Closed(j) == jobs[j].status = "CANCELLED" \/ jobs[j].deleted
SameOffers(j) == /\ QuotesOn(j)' = QuotesOn(j)
                 /\ \A q \in QuotesOn(j) : quotes'[q] = quotes[q]

LEMMA ClosedStep ==
    ASSUME TypeOK, [Next]_vars, NEW j \in Jobs, Closed(j) PROVE SameOffers(j)
<1>1. CASE quotes' = quotes
  BY <1>1, SameQuotes DEF SameOffers, QuotesOn
<1>2. ASSUME NEW r \in Requests, CreateQuote(r) PROVE SameOffers(j)
  <2>1. PICK jj \in Jobs : jj = call[r].job
    BY <1>2 DEF TypeOK, CreateQuote
  <2>2. jj # j
    BY <1>2, <2>1 DEF CreateQuote, CanQuote, Readable, CustomerMutable, Closed
  <2>3. PICK p : quotes' = Append(quotes, [job |-> jj, provider |-> p, status |-> "SUBMITTED"])
    BY <1>2, <2>1 DEF CreateQuote
  <2>4. /\ QuotesOn(j)' = QuotesOn(j)
        /\ \A q \in DOMAIN quotes : quotes'[q] = quotes[q]
    BY <2>2, <2>3, InsertedQuote
  <2>. QED
    BY <2>4 DEF QuotesOn, SameOffers
<1>3. ASSUME NEW r \in Requests, AcceptQuote(r) PROVE SameOffers(j)
  <2>0. PICK jj \in Jobs : jj = call[r].job
    BY <1>3 DEF TypeOK, AcceptQuote
  <2>1. PICK q : q = call[r].quote
    OBVIOUS
  <2>2. jj # j /\ q \in QuotesOn(jj) /\ quotes' = QuotesIfAccepted(jj, q)
    BY <1>3, <2>0, <2>1 DEF AcceptQuote, CanAccept, Readable, Closed
  <2>. QED
    BY <2>2, QuoteAccepted DEF SameOffers
<1>4. \/ quotes' = quotes
      \/ \E r \in Requests : CreateQuote(r) \/ AcceptQuote(r)
  <2>1. Aside => quotes' = quotes
    BY DEF Aside
  <2>2. \A x, to : StatusMove(x, to) => quotes' = quotes
    BY DEF StatusMove
  <2>3. \A r, x, p, loc : CreateJob(r, x, p, loc) => quotes' = quotes
    BY DEF CreateJob
  <2>. QED
    BY <2>1, <2>2, <2>3, Effect
<1>. QED
  BY <1>1, <1>2, <1>3, <1>4

(* Once a job is cancelled or deleted no quote is added to it and none of    *)
(* its quotes changes, not even by a handler that authorized before:         *)
(* createQuote and acceptQuote look again under the lock.                    *)
THEOREM WithdrawnClosed == Spec => WithdrawnIsClosedToQuotes
<1>1. TypeOK /\ [Next]_vars => [\A j \in Jobs : Closed(j) => SameOffers(j)]_vars
  BY ClosedStep
<1>2. Spec => [][\A j \in Jobs : Closed(j) => SameOffers(j)]_vars
  BY <1>1, TypeCorrect, PTL DEF Spec
<1>. QED
  BY <1>2 DEF WithdrawnIsClosedToQuotes, Closed, SameOffers

(* The location of an agreed job: updateJob looks at the status under the    *)
(* lock, and nothing else writes the address.                                *)
LEMMA LocationKept ==
    ASSUME TypeOK, [Next]_vars, NEW j \in Jobs, jobs[j].status \in AgreedStatus
    PROVE  jobs'[j].location = jobs[j].location
<1>1. jobs \in [Jobs -> JobRow]
  BY DEF TypeOK
<1>2. ASSUME NEW x, NEW from, NEW to, Moves(x, from, to)
      PROVE  jobs'[j].location = jobs[j].location
  BY <1>1, <1>2 DEF Moves, JobRow
<1>3. CASE UNCHANGED jobs
  BY <1>3
<1>4. ASSUME NEW r \in Requests, Arrive(r) PROVE jobs'[j].location = jobs[j].location
  <2>1. CASE UNCHANGED jobs
    BY <2>1
  <2>2. ASSUME NEW x \in Jobs, NEW p, NEW loc, CreateJob(r, x, p, loc)
        PROVE  jobs'[j].location = jobs[j].location
    BY <1>1, <2>2 DEF CreateJob, AgreedStatus
  <2>. QED
    BY <1>4, <2>1, <2>2 DEF Arrive, BeginQuote, BeginProviderStep, BeginAccept, BeginConfirm,
                            BeginUpdate, BeginCancel, BeginDelete, Begin
<1>5. ASSUME NEW r \in Requests, Proceed(r) PROVE jobs'[j].location = jobs[j].location
  <2>1. CASE CreateQuote(r) \/ ScheduleJob(r) \/ StartJob(r) \/ CompleteJob(r) \/ CancelJob(r)
    BY <1>2, <2>1 DEF CreateQuote, QuoteMovesJob, ScheduleJob, StartJob, CompleteJob, CancelJob
  <2>2. CASE AcceptQuote(r)
    <3>1. call[r].job # j
      BY <2>2 DEF AcceptQuote, CanAccept, AgreedStatus
    <3>. QED
      BY <1>1, <2>2, <3>1 DEF AcceptQuote
  <2>3. CASE ConfirmJob(r) \/ DeleteJob(r)
    BY <1>1, <2>3 DEF ConfirmJob, DeleteJob, JobRow
  <2>4. CASE UpdateJob(r)
    BY <1>1, <2>4 DEF UpdateJob, CanChange, CustomerMutable, AgreedStatus, JobRow
  <2>. QED
    BY <1>5, <2>1, <2>2, <2>3, <2>4
       DEF Proceed, InsertCreationRow, InsertAssignment, AnnounceRequest, AnnounceQuote,
           AnnounceUpdate, AnnounceCancel, WarnDelete, Announce, NothingToAnnounce, Refuse
<1>6. ASSUME NEW r \in Requests, Fail(r) PROVE UNCHANGED jobs
  BY <1>6 DEF Fail, Die, WarningLost
<1>. QED
  BY <1>3, <1>4, <1>5, <1>6 DEF Next, vars

Final(j) == /\ jobs'[j].status \in AgreedStatus
            /\ jobs'[j].provider = jobs[j].provider
            /\ jobs'[j].agreed = jobs[j].agreed
            /\ jobs'[j].location = jobs[j].location
            /\ AcceptedQuotes(j)' = AcceptedQuotes(j)

LEMMA FinalStep ==
    ASSUME IInv, [Next]_vars, NEW j \in Jobs, jobs[j].status \in AgreedStatus PROVE Final(j)
<1>1. jobs'[j].location = jobs[j].location
  BY LocationKept DEF IInv
<1>. DEFINE Rest == /\ jobs'[j].status \in AgreedStatus
                    /\ jobs'[j].provider = jobs[j].provider
                    /\ jobs'[j].agreed = jobs[j].agreed
                    /\ AcceptedQuotes(j)' = AcceptedQuotes(j)
<1>2. TypeOK /\ jobs \in [Jobs -> JobRow]
  BY DEF IInv, TypeOK
<1>3. ASSUME Aside PROVE Rest
  <2>1. AcceptedQuotes(j)' = AcceptedQuotes(j)
    BY <1>3, SameQuotes DEF Aside
  <2>. QED
    BY <1>3, <2>1 DEF Aside
<1>4. ASSUME NEW x \in Jobs, NEW to \in JobStatus, StatusMove(x, to) PROVE Rest
  <2>1. AcceptedQuotes(j)' = AcceptedQuotes(j)
    BY <1>4, SameQuotes DEF StatusMove
  <2>. QED
    BY <1>2, <1>4, <2>1 DEF StatusMove, AgreedStatus, CustomerMutable, JobRow
<1>5. ASSUME NEW r \in Requests, CreateQuote(r) PROVE Rest
  <2>0. PICK x \in Jobs : x = call[r].job
    BY <1>2, <1>5 DEF TypeOK, CreateQuote
  <2>1. PICK p : p = call[r].provider
    OBVIOUS
  <2>2. /\ x # j
        /\ quotes' = Append(quotes, [job |-> x, provider |-> p, status |-> "SUBMITTED"])
    BY <1>5, <2>0, <2>1 DEF CreateQuote, CanQuote, CustomerMutable, AgreedStatus
  <2>3. AcceptedQuotes(j)' = AcceptedQuotes(j)
    BY <1>2, <2>2, InsertedQuote
  <2>4. jobs'[j] = jobs[j]
    BY <1>2, <1>5, <2>0, <2>1, <2>2 DEF CreateQuote, QuoteMovesJob, Moves
  <2>. QED
    BY <2>3, <2>4
<1>6. ASSUME NEW r \in Requests, AcceptQuote(r) PROVE Rest
  <2>0. PICK x \in Jobs : x = call[r].job
    BY <1>2, <1>6 DEF TypeOK, AcceptQuote
  <2>1. PICK q : q = call[r].quote
    OBVIOUS
  <2>2. x # j /\ q \in QuotesOn(x) /\ quotes' = QuotesIfAccepted(x, q)
    BY <1>6, <2>0, <2>1 DEF AcceptQuote, CanAccept, AgreedStatus
  <2>3. AcceptedQuotes(j)' = AcceptedQuotes(j)
    BY <1>2, <2>2, QuoteAccepted
  <2>4. jobs'[j] = jobs[j]
    BY <1>2, <1>6, <2>0, <2>1, <2>2 DEF AcceptQuote
  <2>. QED
    BY <2>3, <2>4
<1>7. ASSUME NEW r \in Requests, NEW x \in Jobs, NEW p, NEW loc, CreateJob(r, x, p, loc)
      PROVE  Rest
  <2>1. jobs'[j] = jobs[j] /\ quotes' = quotes
    BY <1>2, <1>7 DEF CreateJob, AgreedStatus
  <2>. QED
    BY <2>1, SameQuotes
<1>8. Rest
  BY <1>2, <1>3, <1>4, <1>5, <1>6, <1>7, Effect
<1>. QED
  BY <1>1, <1>8 DEF Final

(* What was agreed stays agreed: whatever handlers do later, the provider,   *)
(* the amount, the location and the accepted quote of a job do not change.   *)
THEOREM AgreementFinal == Spec => AgreementIsFinal
<1>1. IInv /\ [Next]_vars => [\A j \in Jobs : jobs[j].status \in AgreedStatus => Final(j)]_vars
  BY FinalStep
<1>2. Spec => [][\A j \in Jobs : jobs[j].status \in AgreedStatus => Final(j)]_vars
  BY <1>1, Invariance, PTL DEF Spec
<1>. QED
  BY <1>2 DEF AgreementIsFinal, Final

-----------------------------------------------------------------------------
(* The timeline as a sequence of rows *)

MoveRows(h) == {i \in DOMAIN h : ~IsCreation(h[i])}
CreationRows(h) == DOMAIN h \ MoveRows(h)
Earlier(h, i) == {m \in MoveRows(h) : m < i}

(* Each move starts where the one before it ended, the first at REQUESTED. *)
Chained(h) ==
    \A i \in MoveRows(h) :
        IF Earlier(h, i) = {} THEN h[i].from = "REQUESTED"
        ELSE \E m \in Earlier(h, i) : /\ \A x \in Earlier(h, i) : x <= m
                                      /\ h[m].to = h[i].from

(* The last move ends at status s. *)
EndsAt(h, s) ==
    IF MoveRows(h) = {} THEN s \in {"ABSENT", "REQUESTED"}
    ELSE \E m \in MoveRows(h) : (\A x \in MoveRows(h) : x <= m) /\ h[m].to = s

LEMMA AppendedRow ==
    ASSUME NEW h \in Seq(HistoryRow), NEW row \in HistoryRow, NEW g, g = Append(h, row)
    PROVE  LET n == Len(h) + 1 IN
           /\ g \in Seq(HistoryRow)
           /\ \A i \in DOMAIN h : i \in Nat /\ i < n /\ g[i] = h[i]
           /\ g[n] = row /\ n \in Nat /\ n \notin DOMAIN h
           /\ DOMAIN g = DOMAIN h \cup {n}
<1>1. /\ Len(h) \in Nat
      /\ DOMAIN h = 1..Len(h)
      /\ DOMAIN g = 1..(Len(h) + 1)
      /\ g[Len(h) + 1] = row
      /\ \A i \in 1..Len(h) : g[i] = h[i]
      /\ g \in Seq(HistoryRow)
  OBVIOUS
<1>. QED
  BY <1>1

(* The creation row may come after moves: it changes nothing they say. *)
LEMMA CreationAppended ==
    ASSUME NEW h \in Seq(HistoryRow), NEW row \in HistoryRow, IsCreation(row),
           NEW g, g = Append(h, row), NEW s, Chained(h), EndsAt(h, s), CreationRows(h) = {}
    PROVE  Chained(g) /\ EndsAt(g, s) /\ \A a, b \in CreationRows(g) : a = b
<1>1. PICK n \in Nat : /\ \A i \in DOMAIN h : i \in Nat /\ i < n /\ g[i] = h[i]
                       /\ g[n] = row /\ n \notin DOMAIN h
                       /\ DOMAIN g = DOMAIN h \cup {n}
  BY AppendedRow
<1>2. MoveRows(g) = MoveRows(h) /\ CreationRows(g) = {n}
  BY <1>1 DEF MoveRows, CreationRows
<1>3. \A i : Earlier(g, i) = Earlier(h, i)
  BY <1>2 DEF Earlier
<1>4. \A i \in MoveRows(h) : g[i] = h[i]
  BY <1>1 DEF MoveRows
<1>5. Chained(g)
  <2>1. ASSUME NEW i \in MoveRows(h)
        PROVE  IF Earlier(g, i) = {} THEN g[i].from = "REQUESTED"
               ELSE \E m \in Earlier(g, i) : /\ \A x \in Earlier(g, i) : x <= m
                                             /\ g[m].to = g[i].from
    <3>1. Earlier(g, i) = Earlier(h, i) /\ Earlier(h, i) \subseteq MoveRows(h)
      BY <1>3 DEF Earlier
    <3>. QED
      BY <1>4, <3>1 DEF Chained
  <2>. QED
    BY <1>2, <2>1 DEF Chained
<1>6. EndsAt(g, s)
  BY <1>2, <1>4 DEF EndsAt
<1>. QED
  BY <1>2, <1>5, <1>6

(* A move from where the timeline ends. *)
LEMMA MoveAppended ==
    ASSUME NEW h \in Seq(HistoryRow), NEW row \in HistoryRow, ~IsCreation(row),
           NEW g, g = Append(h, row), NEW s, NEW t, row.from = s, row.to = t,
           Chained(h), EndsAt(h, s)
    PROVE  /\ Chained(g) /\ EndsAt(g, t)
           /\ CreationRows(g) = CreationRows(h)
           /\ g \in Seq(HistoryRow)
<1>1. PICK n \in Nat : /\ \A i \in DOMAIN h : i \in Nat /\ i < n /\ g[i] = h[i]
                       /\ g[n] = row /\ n \notin DOMAIN h
                       /\ DOMAIN g = DOMAIN h \cup {n}
                       /\ g \in Seq(HistoryRow)
  BY AppendedRow
<1>2. MoveRows(g) = MoveRows(h) \cup {n} /\ CreationRows(g) = CreationRows(h)
  BY <1>1 DEF MoveRows, CreationRows
<1>3. \A i \in MoveRows(h) : g[i] = h[i] /\ i \in Nat /\ i < n
  BY <1>1 DEF MoveRows
<1>4. /\ Earlier(g, n) = MoveRows(h)
      /\ \A i \in MoveRows(h) : Earlier(g, i) = Earlier(h, i)
  BY <1>2, <1>3 DEF Earlier
<1>5. Chained(g)
  <2>1. ASSUME NEW i \in MoveRows(h)
        PROVE  IF Earlier(g, i) = {} THEN g[i].from = "REQUESTED"
               ELSE \E m \in Earlier(g, i) : /\ \A x \in Earlier(g, i) : x <= m
                                             /\ g[m].to = g[i].from
    <3>1. Earlier(g, i) = Earlier(h, i) /\ Earlier(h, i) \subseteq MoveRows(h)
      BY <1>4 DEF Earlier
    <3>. QED
      BY <1>3, <3>1 DEF Chained
  <2>2. IF Earlier(g, n) = {} THEN g[n].from = "REQUESTED"
        ELSE \E m \in Earlier(g, n) : /\ \A x \in Earlier(g, n) : x <= m
                                      /\ g[m].to = g[n].from
    <3>1. CASE MoveRows(h) = {}
      BY <1>1, <1>4, <3>1 DEF EndsAt, IsCreation
    <3>2. CASE MoveRows(h) # {}
      <4>1. PICK m \in MoveRows(h) : (\A x \in MoveRows(h) : x <= m) /\ h[m].to = s
        BY <3>2 DEF EndsAt
      <4>. QED
        BY <1>1, <1>3, <1>4, <4>1
    <3>. QED
      BY <3>1, <3>2
  <2>. QED
    BY <1>2, <2>1, <2>2 DEF Chained
<1>6. EndsAt(g, t)
  BY <1>1, <1>2, <1>3 DEF EndsAt
<1>. QED
  BY <1>1, <1>2, <1>5, <1>6

-----------------------------------------------------------------------------
(* The timeline, the status and the completion note of one job *)

(* The handlers that have inserted the job and still owe its creation row. *)
Posting(j) == {r \in Requests : call[r].at = "historyRow" /\ call[r].job = j}

Recorded(j) ==
    /\ Chained(history[j]) /\ EndsAt(history[j], jobs[j].status)
    /\ \A a, b \in CreationRows(history[j]) : a = b
    /\ Posting(j) # {} => CreationRows(history[j]) = {}
    /\ \A a, b \in Posting(j) : a = b
    /\ jobs[j].status = "ABSENT" => DOMAIN history[j] = {}
    /\ notes[j] = IF jobs[j].status \in {"COMPLETED", "CLOSED"} THEN 1 ELSE 0

RInv == TypeOK /\ \A j \in Jobs : Recorded(j)

LEMMA RecordedFrame ==
    ASSUME NEW j, Recorded(j), jobs'[j].status = jobs[j].status,
           history'[j] = history[j], notes'[j] = notes[j], Posting(j)' \subseteq Posting(j)
    PROVE  Recorded(j)'
BY DEF Recorded

LEMMA RecordedMove ==
    ASSUME TypeOK, NEW j \in Jobs, Recorded(j), NEW to \in JobStatus,
           jobs[j].status # "ABSENT", jobs'[j].status = to, to # "ABSENT",
           history'[j] = Append(history[j], [from |-> jobs[j].status, to |-> to]),
           notes'[j] = IF to = "COMPLETED" THEN notes[j] + 1 ELSE notes[j],
           jobs[j].status \notin {"COMPLETED", "CLOSED"}, to # "CLOSED",
           Posting(j)' \subseteq Posting(j)
    PROVE  Recorded(j)'
<1>1. PICK row : row = [from |-> jobs[j].status, to |-> to]
  OBVIOUS
<1>2. row \in HistoryRow /\ ~IsCreation(row) /\ history[j] \in Seq(HistoryRow)
  BY <1>1 DEF TypeOK, JobRow, HistoryRow, IsCreation
<1>3. row.from = jobs[j].status /\ row.to = to /\ history'[j] = Append(history[j], row)
  BY <1>1
<1>4. /\ Chained(history'[j]) /\ EndsAt(history'[j], to)
      /\ CreationRows(history'[j]) = CreationRows(history[j])
  BY <1>2, <1>3, MoveAppended DEF Recorded
<1>5. notes'[j] = IF to \in {"COMPLETED", "CLOSED"} THEN 1 ELSE 0
  BY DEF Recorded
<1>. QED
  BY <1>4, <1>5 DEF Recorded

(* confirmJob appends two rows; CONFIRMED is passed inside the transaction. *)
LEMMA RecordedConfirm ==
    ASSUME TypeOK, NEW j \in Jobs, Recorded(j),
           jobs[j].status = "COMPLETED", jobs'[j].status = "CLOSED",
           history'[j] = history[j] \o <<[from |-> "COMPLETED", to |-> "CONFIRMED"],
                                         [from |-> "CONFIRMED", to |-> "CLOSED"]>>,
           notes'[j] = notes[j], Posting(j)' \subseteq Posting(j)
    PROVE  Recorded(j)'
<1>1. PICK a : a = [from |-> "COMPLETED", to |-> "CONFIRMED"]
  OBVIOUS
<1>2. PICK b : b = [from |-> "CONFIRMED", to |-> "CLOSED"]
  OBVIOUS
<1>3. PICK h : h = history[j]
  OBVIOUS
<1>4. /\ a \in HistoryRow /\ ~IsCreation(a) /\ a.from = "COMPLETED" /\ a.to = "CONFIRMED"
      /\ b \in HistoryRow /\ ~IsCreation(b) /\ b.from = "CONFIRMED" /\ b.to = "CLOSED"
  BY <1>1, <1>2 DEF HistoryRow, JobStatus, AgreedStatus, IsCreation
<1>5. h \in Seq(HistoryRow) /\ Chained(h) /\ EndsAt(h, "COMPLETED")
  BY <1>3 DEF TypeOK, Recorded
<1>6. PICK g : g = Append(h, a)
  OBVIOUS
<1>7. /\ Chained(g) /\ EndsAt(g, "CONFIRMED") /\ CreationRows(g) = CreationRows(h)
      /\ g \in Seq(HistoryRow)
  BY <1>4, <1>5, <1>6, MoveAppended
<1>8. PICK f : f = Append(g, b)
  OBVIOUS
<1>9. Chained(f) /\ EndsAt(f, "CLOSED") /\ CreationRows(f) = CreationRows(g)
  BY <1>4, <1>7, <1>8, MoveAppended
<1>10. f = h \o <<a, b>>
  BY <1>4, <1>5, <1>6, <1>8
<1>11. history'[j] = f
  BY <1>1, <1>2, <1>3, <1>10
<1>. QED
  BY <1>3, <1>7, <1>9, <1>11 DEF Recorded

-----------------------------------------------------------------------------
(* What steps do to the record *)

Shrinks == \A j \in Jobs : Posting(j)' \subseteq Posting(j)

LEMMA Shrinking ==
    ASSUME TypeOK, NEW r \in Requests, NEW c, call' = [call EXCEPT ![r] = c],
           c.at # "historyRow"
    PROVE  Shrinks
<1>1. \A x \in Requests : call'[x] = IF x = r THEN c ELSE call[x]
  BY DEF TypeOK
<1>. QED
  BY <1>1 DEF Shrinks, Posting

LEMMA GoingShrinks ==
    ASSUME TypeOK, NEW r \in Requests,
           Done(r) \/ \E phase \in Phase \ {"historyRow"} : GoTo(r, phase)
    PROVE  Shrinks
<1>1. CASE Done(r)
  <2>1. Idle.at # "historyRow" /\ call' = [call EXCEPT ![r] = Idle]
    BY <1>1 DEF Done, Idle
  <2>. QED
    BY <2>1, Shrinking
<1>2. ASSUME NEW phase \in Phase \ {"historyRow"}, GoTo(r, phase) PROVE Shrinks
  <2>1. call' = [call EXCEPT ![r] = [call[r] EXCEPT !.at = phase]]
    BY <1>2 DEF GoTo
  <2>2. [call[r] EXCEPT !.at = phase].at = phase
    BY DEF TypeOK, Call
  <2>. QED
    BY <2>1, <2>2, Shrinking
<1>. QED
  BY <1>1, <1>2

(* A status change with its row, and the completion note if it is completion. *)
Logs(j, to) ==
    /\ jobs[j].status \notin {"ABSENT", "COMPLETED", "CLOSED"} /\ to \notin {"ABSENT", "CLOSED"}
    /\ \A x \in Jobs : jobs'[x].status = IF x = j THEN to ELSE jobs[x].status
    /\ history' = [history EXCEPT ![j] = Append(@, [from |-> jobs[j].status, to |-> to])]
    /\ notes' = IF to = "COMPLETED" THEN [notes EXCEPT ![j] = @ + 1] ELSE notes
    /\ Shrinks

(* A step that leaves statuses, rows and notes alone. *)
Quiet == /\ history' = history /\ notes' = notes
         /\ \A x \in Jobs : jobs'[x].status = jobs[x].status
         /\ Shrinks

LEMMA MovesLogs ==
    ASSUME TypeOK, NEW j \in Jobs, NEW to \in JobStatus, Moves(j, jobs[j].status, to), Shrinks,
           jobs[j].status \notin {"ABSENT", "COMPLETED", "CLOSED"}, to \notin {"ABSENT", "CLOSED"},
           notes' = IF to = "COMPLETED" THEN [notes EXCEPT ![j] = @ + 1] ELSE notes
    PROVE  Logs(j, to)
<1>1. \A x \in Jobs : jobs'[x].status = IF x = j THEN to ELSE jobs[x].status
  BY DEF Moves, TypeOK, JobRow
<1>. QED
  BY <1>1 DEF Moves, Logs

LEMMA ArriveRecords ==
    ASSUME TypeOK, NEW r \in Requests, Arrive(r)
    PROVE  \/ Quiet
           \/ \E j \in Jobs, p \in Providers \cup {None}, loc \in Locations :
                  CreateJob(r, j, p, loc)
<1>1. ASSUME NEW c, Begin(r, c), c.at # "historyRow" PROVE Quiet
  BY <1>1, Shrinking DEF Begin, Quiet
<1>2. ASSUME NEW j \in Jobs, NEW u \in Users, BeginQuote(r, u, j) PROVE Quiet
  <2>1. [Idle EXCEPT !.at = "quote", !.job = j, !.user = u,
                     !.provider = AuthorOf(j, u)].at # "historyRow"
    BY DEF Idle
  <2>. QED
    BY <1>1, <1>2, <2>1 DEF BeginQuote
<1>3. ASSUME NEW j \in Jobs, NEW u \in Users, NEW t \in {"schedule", "start", "complete"},
             BeginProviderStep(r, u, j, t)
      PROVE  Quiet
  <2>1. [Idle EXCEPT !.at = t, !.job = j, !.user = u].at # "historyRow"
    BY DEF Idle
  <2>. QED
    BY <1>1, <1>3, <2>1 DEF BeginProviderStep
<1>4. ASSUME NEW j \in Jobs, NEW q \in DOMAIN quotes, BeginAccept(r, j, q) PROVE Quiet
  <2>1. [Idle EXCEPT !.at = "accept", !.job = j, !.user = Customer,
                     !.quote = q].at # "historyRow"
    BY DEF Idle
  <2>. QED
    BY <1>1, <1>4, <2>1 DEF BeginAccept
<1>5. ASSUME NEW j \in Jobs, BeginConfirm(r, j) \/ BeginCancel(r, j) PROVE Quiet
  <2>1. \A t \in {"confirm", "cancel"} :
            [Idle EXCEPT !.at = t, !.job = j, !.user = Customer].at # "historyRow"
    BY DEF Idle
  <2>. QED
    BY <1>1, <1>5, <2>1 DEF BeginConfirm, BeginCancel
<1>6. ASSUME NEW j \in Jobs, NEW loc \in Locations, BeginUpdate(r, j, loc) PROVE Quiet
  <2>1. [Idle EXCEPT !.at = "update", !.job = j, !.user = Customer, !.location = loc,
                     !.moved = loc # jobs[j].location].at # "historyRow"
    BY DEF Idle
  <2>. QED
    BY <1>1, <1>6, <2>1 DEF BeginUpdate
<1>7. ASSUME NEW j \in Jobs, BeginDelete(r, j) PROVE Quiet
  <2>1. [Idle EXCEPT !.at = "warnDelete", !.job = j, !.user = Customer,
                     !.provider = jobs[j].provider].at # "historyRow"
    BY DEF Idle
  <2>. QED
    BY <1>1, <1>7, <2>1 DEF BeginDelete
<1>. QED
  BY <1>2, <1>3, <1>4, <1>5, <1>6, <1>7 DEF Arrive

LEMMA ProceedRecords ==
    ASSUME TypeOK, NEW r \in Requests, Proceed(r)
    PROVE  \/ Quiet
           \/ \E j \in Jobs, to \in JobStatus : Logs(j, to)
           \/ ConfirmJob(r) \/ InsertCreationRow(r)
<1>1. ASSUME Done(r) \/ \E phase \in Phase \ {"historyRow"} : GoTo(r, phase) PROVE Shrinks
  BY <1>1, GoingShrinks
<1>2. ASSUME jobs' = jobs, history' = history, notes' = notes, Shrinks PROVE Quiet
  BY <1>2 DEF Quiet
<1>3. CASE \/ AnnounceRequest(r) \/ AnnounceQuote(r) \/ AnnounceUpdate(r) \/ AnnounceCancel(r)
           \/ Announce(r) \/ NothingToAnnounce(r) \/ Refuse(r)
  BY <1>1, <1>2, <1>3 DEF AnnounceRequest, AnnounceQuote, AnnounceUpdate, AnnounceCancel,
                          Announce, NothingToAnnounce, Refuse
<1>4. CASE InsertAssignment(r) \/ WarnDelete(r)
  <2>1. Shrinks
    BY <1>1, <1>4 DEF InsertAssignment, WarnDelete, Phase, Transactions
  <2>. QED
    BY <1>2, <1>4, <2>1 DEF InsertAssignment, WarnDelete
<1>5. CASE UpdateJob(r) \/ DeleteJob(r)
  <2>1. Shrinks
    BY <1>1, <1>5 DEF UpdateJob, DeleteJob, Phase
  <2>2. \A x \in Jobs : jobs'[x].status = jobs[x].status
    <3>1. CASE UpdateJob(r)
      BY <3>1 DEF UpdateJob, TypeOK, JobRow
    <3>2. CASE DeleteJob(r)
      BY <3>2 DEF DeleteJob, TypeOK, JobRow
    <3>. QED
      BY <1>5, <3>1, <3>2
  <2>. QED
    BY <1>5, <2>1, <2>2 DEF Quiet, UpdateJob, DeleteJob
<1>6. CASE ScheduleJob(r) \/ StartJob(r) \/ CompleteJob(r) \/ CancelJob(r)
  <2>1. Shrinks
    BY <1>1, <1>6 DEF ScheduleJob, StartJob, CompleteJob, CancelJob, Phase
  <2>2. PICK j \in Jobs : j = call[r].job
    BY <1>6 DEF TypeOK, ScheduleJob, StartJob, CompleteJob, CancelJob
  <2>3. \E to \in JobStatus : /\ Moves(j, jobs[j].status, to)
                              /\ jobs[j].status \notin {"ABSENT", "COMPLETED", "CLOSED"}
                              /\ to \notin {"ABSENT", "CLOSED"}
                              /\ notes' = IF to = "COMPLETED" THEN [notes EXCEPT ![j] = @ + 1]
                                                              ELSE notes
    BY <1>6, <2>2 DEF ScheduleJob, StartJob, CompleteJob, CancelJob, CanSchedule, CanStart,
                      CanComplete, CanChange, CustomerMutable, JobStatus, AgreedStatus
  <2>. QED
    BY <2>1, <2>3, MovesLogs
<1>7. CASE CreateQuote(r)
  <2>1. Shrinks
    BY <1>1, <1>7 DEF CreateQuote, Phase
  <2>2. PICK j \in Jobs : j = call[r].job
    BY <1>7 DEF TypeOK, CreateQuote
  <2>3. QuoteMovesJob(j) /\ notes' = notes
    BY <1>7, <2>2 DEF CreateQuote
  <2>4. CASE jobs[j].status = "REQUESTED"
    BY <2>1, <2>3, <2>4, MovesLogs DEF QuoteMovesJob, JobStatus, CustomerMutable
  <2>5. CASE jobs[j].status # "REQUESTED"
    BY <1>2, <2>1, <2>3, <2>5 DEF QuoteMovesJob
  <2>. QED
    BY <2>4, <2>5
<1>8. CASE AcceptQuote(r)
  <2>1. Shrinks
    BY <1>1, <1>8 DEF AcceptQuote, Phase
  <2>2. PICK j \in Jobs : j = call[r].job
    BY <1>8 DEF TypeOK, AcceptQuote
  <2>3. /\ jobs[j].status = "QUOTED" /\ notes' = notes
        /\ history' = [history EXCEPT ![j] = Append(@, [from |-> "QUOTED", to |-> "ACCEPTED"])]
        /\ \A x \in Jobs : jobs'[x].status = IF x = j THEN "ACCEPTED" ELSE jobs[x].status
    BY <1>8, <2>2 DEF AcceptQuote, CanAccept, TypeOK, JobRow
  <2>4. Logs(j, "ACCEPTED")
    BY <2>1, <2>3 DEF Logs
  <2>. QED
    BY <2>4 DEF JobStatus, AgreedStatus
<1>. QED
  BY <1>3, <1>4, <1>5, <1>6, <1>7, <1>8 DEF Proceed

LEMMA FailRecords == ASSUME TypeOK, NEW r \in Requests, Fail(r) PROVE Quiet
<1>1. Done(r) \/ \E phase \in Phase \ {"historyRow"} : GoTo(r, phase)
  BY DEF Fail, Die, WarningLost, Phase, Transactions
<1>. QED
  BY <1>1, GoingShrinks DEF Quiet, Fail, Die, WarningLost

-----------------------------------------------------------------------------
LEMMA QuietRecorded == ASSUME RInv, Quiet, NEW x \in Jobs PROVE Recorded(x)'
BY RecordedFrame DEF RInv, Quiet, Shrinks

LEMMA LogsRecorded ==
    ASSUME RInv, NEW j \in Jobs, NEW to \in JobStatus, Logs(j, to), NEW x \in Jobs
    PROVE  Recorded(x)'
<1>1. Recorded(x) /\ history \in [Jobs -> Seq(HistoryRow)] /\ notes \in [Jobs -> Nat]
  BY DEF RInv, TypeOK
<1>2. CASE x = j
  <2>1. /\ history'[j] = Append(history[j], [from |-> jobs[j].status, to |-> to])
        /\ notes'[j] = IF to = "COMPLETED" THEN notes[j] + 1 ELSE notes[j]
    BY <1>1 DEF Logs
  <2>2. Posting(j)' \subseteq Posting(j) /\ jobs'[j].status = to
    BY DEF Logs, Shrinks
  <2>. QED
    BY <1>1, <1>2, <2>1, <2>2, RecordedMove DEF RInv, Logs
<1>3. CASE x # j
  <2>1. jobs'[x].status = jobs[x].status /\ history'[x] = history[x] /\ notes'[x] = notes[x]
    BY <1>1, <1>3 DEF Logs
  <2>. QED
    BY <1>1, <2>1, RecordedFrame DEF Logs, Shrinks
<1>. QED
  BY <1>2, <1>3

LEMMA ConfirmRecorded ==
    ASSUME RInv, NEW r \in Requests, ConfirmJob(r), NEW x \in Jobs
    PROVE  Recorded(x)'
<1>1. PICK j \in Jobs : j = call[r].job
  BY DEF RInv, TypeOK, ConfirmJob
<1>2. Shrinks
  BY GoingShrinks DEF RInv, ConfirmJob, Phase
<1>3. /\ Recorded(x) /\ history \in [Jobs -> Seq(HistoryRow)]
      /\ jobs[j].status = "COMPLETED" /\ notes' = notes
      /\ \A y \in Jobs : jobs'[y].status = IF y = j THEN "CLOSED" ELSE jobs[y].status
  BY <1>1 DEF RInv, TypeOK, JobRow, ConfirmJob, CanConfirm
<1>4. CASE x = j
  <2>1. history'[j] = history[j] \o <<[from |-> "COMPLETED", to |-> "CONFIRMED"],
                                      [from |-> "CONFIRMED", to |-> "CLOSED"]>>
    BY <1>1, <1>3 DEF ConfirmJob
  <2>. QED
    BY <1>2, <1>3, <1>4, <2>1, RecordedConfirm DEF RInv, Shrinks
<1>5. CASE x # j
  <2>1. history'[x] = history[x]
    BY <1>1, <1>3, <1>5 DEF ConfirmJob
  <2>. QED
    BY <1>2, <1>3, <1>5, <2>1, RecordedFrame DEF Shrinks
<1>. QED
  BY <1>4, <1>5

(* Only one handler owes a job its creation row, and then owes it no more. *)
LEMMA CreationRecorded ==
    ASSUME RInv, NEW r \in Requests, InsertCreationRow(r), NEW x \in Jobs
    PROVE  Recorded(x)'
<1>1. PICK j \in Jobs : j = call[r].job
  BY DEF RInv, TypeOK, InsertCreationRow
<1>2. Shrinks
  BY GoingShrinks DEF RInv, InsertCreationRow, Phase
<1>3. /\ Recorded(x) /\ history \in [Jobs -> Seq(HistoryRow)]
      /\ jobs' = jobs /\ notes' = notes
      /\ jobs[j].status # "ABSENT"
  BY <1>1 DEF RInv, TypeOK, InsertCreationRow
<1>4. PICK row : row = [from |-> "ABSENT", to |-> "REQUESTED"]
  OBVIOUS
<1>5. row \in HistoryRow /\ IsCreation(row)
  BY <1>4 DEF HistoryRow, JobStatus, CustomerMutable, IsCreation
<1>6. history' = [history EXCEPT ![j] = Append(@, row)]
  BY <1>1, <1>4 DEF InsertCreationRow
<1>7. CASE x = j
  <2>1. r \in Posting(j)
    BY <1>1 DEF Posting, InsertCreationRow
  <2>2. Posting(j)' = {}
    <3>1. call'[r].at # "historyRow"
      BY DEF RInv, TypeOK, Call, InsertCreationRow, GoTo
    <3>2. r \notin Posting(j)'
      BY <3>1 DEF Posting
    <3>. QED
      BY <1>2, <1>3, <1>7, <2>1, <3>2 DEF Shrinks, Recorded
  <2>3. history'[j] = Append(history[j], row) /\ history[j] \in Seq(HistoryRow)
    BY <1>3, <1>6
  <2>4. /\ Chained(history'[j]) /\ EndsAt(history'[j], jobs[j].status)
        /\ \A a, b \in CreationRows(history'[j]) : a = b
    <3>1. PICK h : h = history[j]
      OBVIOUS
    <3>2. PICK g : g = history'[j]
      OBVIOUS
    <3>3. PICK s : s = jobs[j].status
      OBVIOUS
    <3>4. h \in Seq(HistoryRow) /\ g = Append(h, row)
      BY <2>3, <3>1, <3>2
    <3>5. Chained(h) /\ EndsAt(h, s) /\ CreationRows(h) = {}
      BY <1>3, <1>7, <2>1, <3>1, <3>3 DEF Recorded
    <3>6. Chained(g) /\ EndsAt(g, s) /\ \A a, b \in CreationRows(g) : a = b
      BY <1>5, <3>4, <3>5, CreationAppended
    <3>. QED
      BY <3>2, <3>3, <3>6
  <2>. QED
    BY <1>3, <1>7, <2>2, <2>4 DEF Recorded
<1>8. CASE x # j
  <2>1. history'[x] = history[x]
    BY <1>3, <1>6, <1>8
  <2>. QED
    BY <1>2, <1>3, <2>1, RecordedFrame DEF Shrinks
<1>. QED
  BY <1>7, <1>8

LEMMA CreateRecorded ==
    ASSUME RInv, NEW r \in Requests, NEW j \in Jobs, NEW p, NEW loc, CreateJob(r, j, p, loc),
           NEW x \in Jobs
    PROVE  Recorded(x)'
<1>1. /\ Recorded(x) /\ history' = history /\ notes' = notes
      /\ jobs[j].status = "ABSENT" /\ jobs'[j].status = "REQUESTED"
      /\ \A y \in Jobs \ {j} : jobs'[y] = jobs[y]
  BY DEF RInv, TypeOK, NoJob, CreateJob
<1>2. PICK c : c = [Idle EXCEPT !.at = "historyRow", !.job = j, !.user = Customer,
                                !.provider = p]
  OBVIOUS
<1>3. c.job = j
  BY <1>2 DEF Idle
<1>4. \A y \in Requests : call'[y] = IF y = r THEN c ELSE call[y]
  BY <1>2 DEF RInv, TypeOK, CreateJob
<1>5. CASE x = j
  <2>1. Posting(j) = {}
    BY <1>1 DEF RInv, TypeOK, Posting
  <2>2. Posting(j)' \subseteq {r}
    BY <1>4, <2>1 DEF Posting
  <2>3. MoveRows(history[j]) = {} /\ CreationRows(history[j]) = {}
    BY <1>1, <1>5 DEF Recorded, MoveRows, CreationRows
  <2>. QED
    BY <1>1, <1>5, <2>2, <2>3 DEF Recorded, EndsAt
<1>6. CASE x # j
  <2>1. Posting(x)' = Posting(x)
    BY <1>3, <1>4, <1>6 DEF Posting, RInv, TypeOK, CreateJob, Idle
  <2>. QED
    BY <1>1, <1>6, <2>1, RecordedFrame
<1>. QED
  BY <1>5, <1>6

LEMMA RecordInit == Init => RInv
<1>. SUFFICES ASSUME Init, NEW j \in Jobs PROVE Recorded(j)
  BY InitType DEF RInv
<1>1. jobs[j].status = "ABSENT" /\ notes[j] = 0 /\ history[j] = << >> /\ Posting(j) = {}
  BY DEF Init, NoJob, Posting, Idle
<1>2. MoveRows(history[j]) = {} /\ CreationRows(history[j]) = {}
  BY <1>1 DEF MoveRows, CreationRows
<1>. QED
  BY <1>1, <1>2 DEF Recorded, Chained, EndsAt

LEMMA RecordNext == RInv /\ [Next]_vars => RInv'
<1>. SUFFICES ASSUME RInv, [Next]_vars PROVE RInv'
  OBVIOUS
<1>1. TypeOK'
  BY NextType DEF RInv
<1>2. ASSUME NEW x \in Jobs PROVE Recorded(x)'
  <2>1. CASE UNCHANGED vars
    BY <2>1, QuietRecorded DEF vars, Quiet, Shrinks, Posting
  <2>2. ASSUME NEW r \in Requests, Arrive(r) PROVE Recorded(x)'
    BY <2>2, ArriveRecords, QuietRecorded, CreateRecorded DEF RInv
  <2>3. ASSUME NEW r \in Requests, Proceed(r) PROVE Recorded(x)'
    BY <2>3, ProceedRecords, QuietRecorded, LogsRecorded, ConfirmRecorded, CreationRecorded
       DEF RInv
  <2>4. ASSUME NEW r \in Requests, Fail(r) PROVE Recorded(x)'
    BY <2>4, FailRecords, QuietRecorded DEF RInv
  <2>. QED
    BY <2>1, <2>2, <2>3, <2>4 DEF Next
<1>. QED
  BY <1>1, <1>2 DEF RInv

LEMMA RecordInvariance == Spec => []RInv
BY RecordInit, RecordNext, PTL DEF Spec

(* The rows of job_status_history tell the status of the job, whichever      *)
(* handlers race and although the creation row is written outside any        *)
(* transaction: it may come after rows of moves, once or never.              *)
THEOREM HistoryTold == Spec => []HistoryTellsStatus
<1>1. RInv => HistoryTellsStatus
  <2>. SUFFICES ASSUME RInv, NEW j \in Jobs
                PROVE  LET h == history[j]
                           moves == {i \in DOMAIN h : ~IsCreation(h[i])}
                           Before(i) == {m \in moves : m < i}
                       IN  /\ \A i \in moves :
                                 IF Before(i) = {} THEN h[i].from = "REQUESTED"
                                 ELSE \E m \in Before(i) : /\ \A x \in Before(i) : x <= m
                                                           /\ h[m].to = h[i].from
                           /\ IF moves = {} THEN jobs[j].status \in {"ABSENT", "REQUESTED"}
                              ELSE \E m \in moves : /\ \A x \in moves : x <= m
                                                    /\ h[m].to = jobs[j].status
                           /\ Cardinality(DOMAIN h \ moves) <= 1
    BY DEF HistoryTellsStatus
  <2>1. Cardinality(CreationRows(history[j])) <= 1
    <3>1. CASE CreationRows(history[j]) = {}
      BY <3>1, FS_EmptySet
    <3>2. CASE CreationRows(history[j]) # {}
      <4>1. \A a, b \in CreationRows(history[j]) : a = b
        BY DEF RInv, Recorded
      <4>2. PICK a \in CreationRows(history[j]) : TRUE
        BY <3>2
      <4>3. CreationRows(history[j]) = {a}
        BY <4>1, <4>2
      <4>. QED
        BY <4>3, FS_Singleton
    <3>. QED
      BY <3>1, <3>2
  <2>2. Chained(history[j]) /\ EndsAt(history[j], jobs[j].status)
    BY DEF RInv, Recorded
  <2>. QED
    BY <2>1, <2>2 DEF Chained, EndsAt, Earlier, MoveRows, CreationRows
<1>. QED
  BY <1>1, RecordInvariance, PTL

(* However often a provider retries and whoever races, a job is completed    *)
(* once: completeJob writes its note under the lock that moves the job.      *)
THEOREM OneCompletion == Spec => []CompletedOnce
<1>1. RInv => CompletedOnce
  BY DEF RInv, Recorded, CompletedOnce
<1>. QED
  BY <1>1, RecordInvariance, PTL
-----------------------------------------------------------------------------
(* Who is told *)

Debts == {"announceAccept", "announceCancel"}

AgreementTold(j) ==
    Told("QUOTE_ACCEPTED", j, AddresseeUsers(j)) \/ Owed("announceAccept", j)
WithdrawalTold(j) ==
    \/ Told("JOB_CANCELLED", j, AddresseeUsers(j) \cup QuoterUsers(j))
    \/ Owed("announceCancel", j)

Informed(j) == /\ jobs[j].status \in AgreedStatus => AgreementTold(j)
               /\ jobs[j].status = "CANCELLED" => WithdrawalTold(j)

(* Only the customer accepts: the notice, which leaves its actor out, leaves *)
(* out nobody who acts for a provider.                                       *)
CustomerAccepts == \A r \in Requests : call[r].at \in {"accept", "announceAccept"} =>
                                          call[r].user = Customer

PInv == /\ IInv
        /\ CustomerAccepts
        /\ faults = 0 => \A j \in Jobs : ~jobs[j].deleted => Informed(j)

(* What the steps of a handler have in common. *)
LEMMA ArriveBegins ==
    ASSUME NEW r, Arrive(r)
    PROVE  \/ \E c : Begin(r, c)
           \/ \E j \in Jobs, p \in Providers \cup {None}, loc \in Locations : CreateJob(r, j, p, loc)
<1>1. ASSUME NEW u, NEW j, BeginQuote(r, u, j) PROVE \E c : Begin(r, c)
  BY <1>1 DEF BeginQuote
<1>2. ASSUME NEW u, NEW j, NEW t, BeginProviderStep(r, u, j, t) PROVE \E c : Begin(r, c)
  BY <1>2 DEF BeginProviderStep
<1>3. ASSUME NEW j, NEW q, BeginAccept(r, j, q) PROVE \E c : Begin(r, c)
  BY <1>3 DEF BeginAccept
<1>4. ASSUME NEW j, BeginConfirm(r, j) \/ BeginCancel(r, j) PROVE \E c : Begin(r, c)
  BY <1>4 DEF BeginConfirm, BeginCancel
<1>5. ASSUME NEW j, NEW loc, BeginUpdate(r, j, loc) PROVE \E c : Begin(r, c)
  BY <1>5 DEF BeginUpdate
<1>6. ASSUME NEW j, BeginDelete(r, j) PROVE \E c : Begin(r, c)
  BY <1>6 DEF BeginDelete
<1>. QED
  BY <1>1, <1>2, <1>3, <1>4, <1>5, <1>6 DEF Arrive

Arrives(r) == /\ call[r] = Idle
              /\ \E c : call' = [call EXCEPT ![r] = c]
              /\ faults' = faults /\ notices' = notices

LEMMA ArriveAlone == ASSUME NEW r, Arrive(r) PROVE Arrives(r)
<1>1. ASSUME NEW c, Begin(r, c) PROVE Arrives(r)
  BY <1>1 DEF Begin, Arrives
<1>2. ASSUME NEW j, NEW p, NEW loc, CreateJob(r, j, p, loc) PROVE Arrives(r)
  BY <1>2 DEF CreateJob, Arrives
<1>. QED
  BY <1>1, <1>2, ArriveBegins

Goes(r) == \/ Done(r)
           \/ AcceptQuote(r) /\ GoTo(r, "announceAccept")
           \/ \E phase : phase \notin {"accept", "announceAccept"} /\ GoTo(r, phase)
Soundly(r) == Goes(r) /\ faults' = faults /\ notices \subseteq notices'

LEMMA ProceedSoundly == ASSUME NEW r, Proceed(r) PROVE Soundly(r)
<1>1. CASE InsertCreationRow(r) \/ InsertAssignment(r) \/ DeleteJob(r)
  BY <1>1 DEF InsertCreationRow, InsertAssignment, DeleteJob, Soundly, Goes
<1>2. CASE CreateQuote(r) \/ AcceptQuote(r)
  BY <1>2 DEF CreateQuote, AcceptQuote, Soundly, Goes
<1>3. CASE ScheduleJob(r) \/ StartJob(r) \/ CompleteJob(r) \/ ConfirmJob(r)
  BY <1>3 DEF ScheduleJob, StartJob, CompleteJob, ConfirmJob, Soundly, Goes
<1>4. CASE UpdateJob(r) \/ CancelJob(r)
  BY <1>4 DEF UpdateJob, CancelJob, Soundly, Goes
<1>5. ASSUME NEW kind, NEW j, NEW who, Notify(kind, j, who) PROVE notices \subseteq notices'
  BY <1>5 DEF Notify
<1>6. CASE AnnounceRequest(r) \/ AnnounceQuote(r)
  BY <1>5, <1>6 DEF AnnounceRequest, AnnounceQuote, Soundly, Goes
<1>7. CASE AnnounceUpdate(r) \/ AnnounceCancel(r)
  BY <1>5, <1>7 DEF AnnounceUpdate, AnnounceCancel, Soundly, Goes
<1>8. CASE WarnDelete(r) \/ Announce(r)
  BY <1>5, <1>8 DEF WarnDelete, Announce, Soundly, Goes
<1>9. CASE NothingToAnnounce(r) \/ Refuse(r)
  BY <1>9 DEF NothingToAnnounce, Refuse, Soundly, Goes
<1>. QED
  BY <1>1, <1>2, <1>3, <1>4, <1>6, <1>7, <1>8, <1>9 DEF Proceed

LEMMA NoticesGrow == [Next]_vars => notices \subseteq notices'
<1>1. ASSUME NEW r \in Requests, Arrive(r) PROVE notices' = notices
  BY <1>1, ArriveAlone DEF Arrives
<1>2. ASSUME NEW r \in Requests, Fail(r) PROVE notices' = notices
  BY <1>2 DEF Fail, Die, WarningLost
<1>. QED
  BY <1>1, <1>2, ProceedSoundly DEF Next, vars, Soundly

LEMMA ToldStays ==
    ASSUME [Next]_vars, NEW kind, NEW j, NEW who, Told(kind, j, who)
    PROVE  Told(kind, j, who)'
BY NoticesGrow DEF Told

LEMMA NotifyTells ==
    ASSUME NEW kind, NEW j, NEW who, Notify(kind, j, who)
    PROVE  Told(kind, j, who)'
BY DEF Notify, Told

(* Handlers act alone, and one that owes a notice does nothing but give it.  *)
LEMMA OneHandler ==
    ASSUME TypeOK, NEW r \in Requests, Arrive(r) \/ Proceed(r) \/ Fail(r),
           NEW h \in Requests, h # r
    PROVE  call'[h] = call[h]
<1>1. ASSUME NEW c, call' = [call EXCEPT ![r] = c] PROVE call'[h] = call[h]
  BY <1>1 DEF TypeOK
<1>2. ASSUME Goes(r) PROVE call'[h] = call[h]
  BY <1>1, <1>2 DEF Goes, Done, GoTo
<1>3. CASE Arrive(r)
  BY <1>1, <1>3, ArriveAlone DEF Arrives
<1>4. CASE Proceed(r)
  BY <1>2, <1>4, ProceedSoundly DEF Soundly
<1>5. CASE Fail(r)
  BY <1>2, <1>5 DEF Fail, Die, WarningLost, Goes
<1>. QED
  BY <1>3, <1>4, <1>5

LEMMA DebtorAnnounces ==
    ASSUME NEW r \in Requests, Arrive(r) \/ Proceed(r), call[r].at \in Debts
    PROVE  \/ call[r].at = "announceAccept" /\ Announce(r)
           \/ call[r].at = "announceCancel" /\ AnnounceCancel(r)
           \/ NothingToAnnounce(r)
<1>1. ~Arrive(r)
  <2>1. call[r] # Idle
    BY DEF Idle, Debts
  <2>. QED
    BY <2>1, ArriveAlone DEF Arrives
<1>2. ~(\/ InsertCreationRow(r) \/ InsertAssignment(r) \/ AnnounceRequest(r)
        \/ CreateQuote(r) \/ AnnounceQuote(r) \/ AcceptQuote(r))
  BY DEF Debts, InsertCreationRow, InsertAssignment, AnnounceRequest, CreateQuote,
         AnnounceQuote, AcceptQuote
<1>3. ~(ScheduleJob(r) \/ StartJob(r) \/ CompleteJob(r) \/ ConfirmJob(r))
  BY DEF Debts, ScheduleJob, StartJob, CompleteJob, ConfirmJob
<1>4. ~(\/ UpdateJob(r) \/ AnnounceUpdate(r) \/ CancelJob(r) \/ WarnDelete(r) \/ DeleteJob(r)
        \/ Refuse(r))
  BY DEF Debts, UpdateJob, AnnounceUpdate, CancelJob, WarnDelete, DeleteJob, Refuse, Transactions
<1>5. /\ AnnounceCancel(r) => call[r].at = "announceCancel"
      /\ Announce(r) => call[r].at = "announceAccept"
  BY DEF Debts, AnnounceCancel, Announce, Announcing
<1>. QED
  BY <1>1, <1>2, <1>3, <1>4, <1>5 DEF Proceed

(* A step without a fault is a step of one handler that does not fail.       *)
LEMMA NoFaultNoFailure ==
    ASSUME TypeOK, [Next]_vars, faults' = 0
    PROVE  /\ faults = 0
           /\ UNCHANGED vars \/ \E r \in Requests : Arrive(r) \/ Proceed(r)
<1>1. ASSUME NEW r \in Requests, Fail(r) PROVE FALSE
  BY <1>1 DEF Fail, Die, WarningLost, TypeOK
<1>2. ASSUME NEW r \in Requests, Arrive(r) \/ Proceed(r) PROVE faults' = faults
  BY <1>2, ArriveAlone, ProceedSoundly DEF Arrives, Soundly
<1>. QED
  BY <1>1, <1>2 DEF Next, vars

(* The one handler that makes the agreement, or withdraws the request.       *)
LEMMA WhoSettles ==
    ASSUME TypeOK, NEW r \in Requests, Arrive(r) \/ Proceed(r), NEW j \in Jobs,
           jobs'[j].status # jobs[j].status
    PROVE  \/ jobs'[j].status = "ACCEPTED" /\ AcceptQuote(r) /\ call[r].job = j
           \/ jobs'[j].status = "CANCELLED" /\ CancelJob(r) /\ call[r].job = j
           \/ jobs[j].status \in AgreedStatus
           \/ jobs'[j].status \in CustomerMutable
<1>1. jobs \in [Jobs -> JobRow]
  BY DEF TypeOK
<1>2. CASE jobs' = jobs
  BY <1>2
<1>3. CASE Arrive(r)
  <2>1. ASSUME NEW x \in Jobs, NEW p, NEW loc, CreateJob(r, x, p, loc)
        PROVE  jobs'[j].status = "REQUESTED"
    BY <1>1, <2>1 DEF CreateJob, NoJob
  <2>. QED
    BY <1>2, <1>3, <2>1, ArriveBegins DEF CustomerMutable, Begin
<1>4. ASSUME NEW from, NEW to, Moves(call[r].job, from, to)
      PROVE  call[r].job = j /\ jobs'[j].status = to
  BY <1>1, <1>4 DEF Moves, JobRow
<1>5. CASE ScheduleJob(r) \/ StartJob(r) \/ CompleteJob(r)
  BY <1>4, <1>5 DEF ScheduleJob, StartJob, CompleteJob, CanSchedule, CanStart, CanComplete,
                    AgreedStatus
<1>6. CASE ConfirmJob(r)
  BY <1>1, <1>6 DEF ConfirmJob, CanConfirm, AgreedStatus, JobRow
<1>7. CASE CancelJob(r)
  BY <1>4, <1>7 DEF CancelJob
<1>8. CASE CreateQuote(r)
  BY <1>2, <1>4, <1>8 DEF CreateQuote, QuoteMovesJob, CustomerMutable
<1>9. CASE AcceptQuote(r)
  BY <1>1, <1>9 DEF AcceptQuote, JobRow
<1>10. CASE UpdateJob(r) \/ DeleteJob(r)
  BY <1>1, <1>10 DEF UpdateJob, DeleteJob, JobRow
<1>. QED
  BY <1>2, <1>3, <1>5, <1>6, <1>7, <1>8, <1>9, <1>10
     DEF Proceed, InsertCreationRow, InsertAssignment, AnnounceRequest, AnnounceQuote,
         AnnounceUpdate, AnnounceCancel, WarnDelete, Announce, NothingToAnnounce, Refuse

(* A deletion is for good. *)
LEMMA DeletedStays ==
    ASSUME TypeOK, [Next]_vars, NEW j \in Jobs, jobs[j].status # "ABSENT", jobs[j].deleted
    PROVE  jobs'[j].deleted
<1>1. jobs \in [Jobs -> JobRow]
  BY DEF TypeOK
<1>2. CASE jobs' = jobs
  BY <1>2
<1>3. ASSUME NEW r \in Requests, Arrive(r) PROVE jobs'[j].deleted
  <2>1. ASSUME NEW x \in Jobs, NEW p, NEW loc, CreateJob(r, x, p, loc)
        PROVE  jobs'[j] = jobs[j]
    BY <1>1, <2>1 DEF CreateJob
  <2>. QED
    BY <1>2, <1>3, <2>1, ArriveBegins DEF Begin
<1>4. ASSUME NEW x, NEW from, NEW to, Moves(x, from, to) PROVE jobs'[j].deleted
  BY <1>1, <1>4 DEF Moves, JobRow
<1>5. ASSUME NEW r \in Requests,
             \/ ScheduleJob(r) \/ StartJob(r) \/ CompleteJob(r) \/ CancelJob(r) \/ CreateQuote(r)
      PROVE  jobs'[j].deleted
  BY <1>2, <1>4, <1>5 DEF ScheduleJob, StartJob, CompleteJob, CancelJob, CreateQuote,
                          QuoteMovesJob
<1>6. ASSUME NEW r \in Requests, ConfirmJob(r) \/ UpdateJob(r) \/ DeleteJob(r)
      PROVE  jobs'[j].deleted
  BY <1>1, <1>6 DEF ConfirmJob, UpdateJob, DeleteJob, JobRow
<1>7. ASSUME NEW r \in Requests, AcceptQuote(r) PROVE jobs'[j].deleted
  BY <1>1, <1>7 DEF AcceptQuote, JobRow
<1>8. ASSUME NEW r \in Requests, Fail(r) PROVE jobs' = jobs
  BY <1>8 DEF Fail, Die, WarningLost
<1>. QED
  BY <1>2, <1>3, <1>5, <1>6, <1>7, <1>8
     DEF Next, vars, Proceed, InsertCreationRow, InsertAssignment, AnnounceRequest, AnnounceQuote,
         AnnounceUpdate, AnnounceCancel, WarnDelete, Announce, NothingToAnnounce, Refuse

(* A withdrawn request keeps its addressee, and stays withdrawn.             *)
LEMMA WithdrawnStays ==
    ASSUME TypeOK, [Next]_vars, NEW j \in Jobs, jobs[j].status = "CANCELLED"
    PROVE  /\ jobs'[j].status = "CANCELLED" /\ jobs'[j].provider = jobs[j].provider
           /\ AddresseeUsers(j)' = AddresseeUsers(j)
           /\ QuoterUsers(j)' = QuoterUsers(j)
<1>1. jobs \in [Jobs -> JobRow]
  BY DEF TypeOK
<1>2. jobs'[j].status = "CANCELLED" /\ jobs'[j].provider = jobs[j].provider
  <2>1. CASE Aside
    BY <2>1 DEF Aside
  <2>2. ASSUME NEW x \in Jobs, NEW to \in JobStatus, StatusMove(x, to) PROVE jobs'[j] = jobs[j]
    BY <1>1, <2>2 DEF StatusMove, CustomerMutable
  <2>3. ASSUME NEW r \in Requests, CreateQuote(r) PROVE jobs'[j] = jobs[j]
    BY <1>1, <2>3 DEF CreateQuote, QuoteMovesJob, Moves
  <2>4. ASSUME NEW r \in Requests, AcceptQuote(r) PROVE jobs'[j] = jobs[j]
    BY <1>1, <2>4 DEF AcceptQuote, CanAccept
  <2>5. ASSUME NEW r \in Requests, NEW x \in Jobs, NEW p, NEW loc, CreateJob(r, x, p, loc)
        PROVE  jobs'[j] = jobs[j]
    BY <1>1, <2>5 DEF CreateJob
  <2>. QED
    BY <2>1, <2>2, <2>3, <2>4, <2>5, Effect
<1>3. SameOffers(j)
  BY ClosedStep DEF Closed
<1>4. QuoterUsers(j)' = QuoterUsers(j)
  <2>1. LiveQuotes(j)' = LiveQuotes(j) /\ LiveQuotes(j) \subseteq QuotesOn(j)
    BY <1>3 DEF SameOffers, LiveQuotes
  <2>. QED
    BY <1>3, <2>1 DEF SameOffers, QuoterUsers, UsersOf, Identity
<1>. QED
  BY <1>2, <1>4 DEF AddresseeUsers, IsOpen, UsersOf, Identity

LEMMA AcceptedTold ==
    ASSUME PInv, [Next]_vars, faults' = 0, NEW j \in Jobs, ~jobs'[j].deleted,
           jobs'[j].status \in AgreedStatus
    PROVE  AgreementTold(j)'
<1>1. TypeOK /\ faults = 0
  BY NoFaultNoFailure DEF PInv, IInv
<1>2. CASE jobs[j].status \in AgreedStatus
  <2>1. AddresseeUsers(j)' = AddresseeUsers(j)
    BY <1>2, FinalStep DEF PInv, Final, AddresseeUsers, IsOpen, UsersOf, Identity
  <2>2. ~jobs[j].deleted
    BY <1>1, <1>2, DeletedStays DEF AgreedStatus
  <2>3. AgreementTold(j)
    BY <1>1, <1>2, <2>2 DEF PInv, Informed
  <2>4. CASE Told("QUOTE_ACCEPTED", j, AddresseeUsers(j))
    BY <2>1, <2>4, ToldStays DEF AgreementTold
  <2>5. ASSUME NEW h \in Requests, call[h].at = "announceAccept", call[h].job = j
        PROVE  AgreementTold(j)'
    <3>1. CASE call'[h] = call[h]
      BY <2>5, <3>1 DEF AgreementTold, Owed
    <3>2. CASE Arrive(h) \/ Proceed(h)
      <4>1. Announce(h)
        BY <1>2, <2>2, <2>5, <3>2, DebtorAnnounces
           DEF Debts, NothingToAnnounce, Readable, AgreedStatus
      <4>2. Recipients("announceAccept", j, Customer) = AddresseeUsers(j)
        BY CustomerAssumption DEF Recipients, AddresseeUsers, UsersOf
      <4>3. Notify("QUOTE_ACCEPTED", j, AddresseeUsers(j))
        BY <2>5, <4>1, <4>2 DEF Announce, NoticeOf, PInv, CustomerAccepts
      <4>. QED
        BY <2>1, <4>3, NotifyTells DEF AgreementTold
    <3>. QED
      BY <1>1, <3>1, <3>2, NoFaultNoFailure, OneHandler DEF vars
  <2>. QED
    BY <2>3, <2>4, <2>5 DEF AgreementTold, Owed
<1>3. CASE jobs[j].status \notin AgreedStatus
  <2>1. jobs'[j].status # jobs[j].status
    BY <1>3
  <2>2. PICK r \in Requests : Arrive(r) \/ Proceed(r)
    BY <1>1, <2>1, NoFaultNoFailure DEF vars
  <2>3. AcceptQuote(r) /\ call[r].job = j
    BY <1>1, <1>3, <2>1, <2>2, WhoSettles DEF AgreedStatus, CustomerMutable
  <2>4. call'[r].at = "announceAccept" /\ call'[r].job = j
    BY <1>1, <2>3 DEF AcceptQuote, GoTo, TypeOK, Call
  <2>. QED
    BY <2>4 DEF AgreementTold, Owed
<1>. QED
  BY <1>2, <1>3

LEMMA CancellationTold ==
    ASSUME PInv, [Next]_vars, faults' = 0, NEW j \in Jobs, ~jobs'[j].deleted,
           jobs'[j].status = "CANCELLED"
    PROVE  WithdrawalTold(j)'
<1>1. TypeOK /\ faults = 0
  BY NoFaultNoFailure DEF PInv, IInv
<1>2. CASE jobs[j].status = "CANCELLED"
  <2>1. AddresseeUsers(j)' = AddresseeUsers(j) /\ QuoterUsers(j)' = QuoterUsers(j)
    BY <1>1, <1>2, WithdrawnStays
  <2>2. ~jobs[j].deleted
    BY <1>1, <1>2, DeletedStays
  <2>3. WithdrawalTold(j)
    BY <1>1, <1>2, <2>2 DEF PInv, Informed
  <2>4. CASE Told("JOB_CANCELLED", j, AddresseeUsers(j) \cup QuoterUsers(j))
    BY <2>1, <2>4, ToldStays DEF WithdrawalTold
  <2>5. ASSUME NEW h \in Requests, call[h].at = "announceCancel", call[h].job = j
        PROVE  WithdrawalTold(j)'
    <3>1. CASE call'[h] = call[h]
      BY <2>5, <3>1 DEF WithdrawalTold, Owed
    <3>2. CASE Arrive(h) \/ Proceed(h)
      <4>1. AnnounceCancel(h)
        BY <1>2, <2>2, <2>5, <3>2, DebtorAnnounces DEF Debts, NothingToAnnounce, Readable
      <4>2. Notify("JOB_CANCELLED", j, AddresseeUsers(j) \cup QuoterUsers(j))
        BY <2>5, <4>1 DEF AnnounceCancel, RelyingOn
      <4>. QED
        BY <2>1, <4>2, NotifyTells DEF WithdrawalTold
    <3>. QED
      BY <1>1, <3>1, <3>2, NoFaultNoFailure, OneHandler DEF vars
  <2>. QED
    BY <2>3, <2>4, <2>5 DEF WithdrawalTold, Owed
<1>3. CASE jobs[j].status # "CANCELLED"
  <2>1. PICK r \in Requests : Arrive(r) \/ Proceed(r)
    BY <1>1, <1>3, NoFaultNoFailure DEF vars
  <2>2. jobs[j].status \notin AgreedStatus
    BY FinalStep DEF PInv, Final, AgreedStatus
  <2>3. CancelJob(r) /\ call[r].job = j
    BY <1>1, <1>3, <2>1, <2>2, WhoSettles DEF CustomerMutable
  <2>4. call'[r].at = "announceCancel" /\ call'[r].job = j
    BY <1>1, <2>3 DEF CancelJob, GoTo, TypeOK, Call
  <2>. QED
    BY <2>4 DEF WithdrawalTold, Owed
<1>. QED
  BY <1>2, <1>3

(* A handler comes to "accept" only by BeginAccept, and keeps its user.      *)
LEMMA AccepterIsCustomer == ASSUME TypeOK, CustomerAccepts, [Next]_vars PROVE CustomerAccepts'
<1>. SUFFICES ASSUME NEW h \in Requests, call'[h].at \in {"accept", "announceAccept"}
              PROVE  call'[h].user = Customer
  BY DEF CustomerAccepts
<1>1. CASE call'[h] = call[h]
  BY <1>1 DEF CustomerAccepts
<1>2. ASSUME Done(h) PROVE FALSE
  BY <1>2 DEF Done, Idle, TypeOK
<1>3. ASSUME NEW c, Begin(h, c) PROVE call'[h] = c
  BY <1>3 DEF Begin, TypeOK
<1>4. CASE Arrive(h)
  <2>1. ASSUME NEW j, NEW p, NEW loc, CreateJob(h, j, p, loc) PROVE FALSE
    BY <2>1 DEF CreateJob, Idle, TypeOK
  <2>2. ASSUME NEW u, NEW j, BeginQuote(h, u, j) PROVE FALSE
    BY <1>3, <2>2 DEF BeginQuote, Idle
  <2>3. ASSUME NEW u, NEW j, NEW t \in {"schedule", "start", "complete"},
               BeginProviderStep(h, u, j, t)
        PROVE  FALSE
    BY <1>3, <2>3 DEF BeginProviderStep, Idle
  <2>4. ASSUME NEW j, BeginConfirm(h, j) \/ BeginCancel(h, j) \/ BeginDelete(h, j) PROVE FALSE
    BY <1>3, <2>4 DEF BeginConfirm, BeginCancel, BeginDelete, Idle
  <2>5. ASSUME NEW j, NEW loc, BeginUpdate(h, j, loc) PROVE FALSE
    BY <1>3, <2>5 DEF BeginUpdate, Idle
  <2>6. ASSUME NEW j, NEW q, BeginAccept(h, j, q) PROVE call'[h].user = Customer
    BY <1>3, <2>6 DEF BeginAccept, Idle
  <2>. QED
    BY <1>4, <2>1, <2>2, <2>3, <2>4, <2>5, <2>6 DEF Arrive
<1>5. ASSUME NEW phase, GoTo(h, phase) PROVE call'[h].at = phase /\ call'[h].user = call[h].user
  BY <1>5 DEF GoTo, TypeOK, Call
<1>6. CASE AcceptQuote(h)
  BY <1>5, <1>6 DEF AcceptQuote, CustomerAccepts
<1>7. CASE Proceed(h) /\ ~AcceptQuote(h)
  BY <1>2, <1>5, <1>7, ProceedSoundly DEF Soundly, Goes
<1>8. CASE Fail(h)
  BY <1>2, <1>5, <1>8 DEF Fail, Die, WarningLost
<1>. QED
  BY <1>1, <1>4, <1>6, <1>7, <1>8, OneHandler DEF Next, vars

LEMMA InformedNext == PInv /\ [Next]_vars => PInv'
<1>. SUFFICES ASSUME PInv, [Next]_vars PROVE PInv'
  OBVIOUS
<1>1. IInv' /\ CustomerAccepts'
  BY NextInv, AccepterIsCustomer DEF PInv, IInv
<1>2. ASSUME faults' = 0, NEW j \in Jobs, ~jobs'[j].deleted PROVE Informed(j)'
  BY <1>2, AcceptedTold, CancellationTold DEF Informed
<1>. QED
  BY <1>1, <1>2 DEF PInv

(* As long as no handler died and no notification failed, the provider's     *)
(* people have been told of an acceptance, and of a cancellation everybody   *)
(* who relied on the request, or the handler that made the change is still   *)
(* to tell them; no other handler can get in between and spoil it.           *)
THEOREM EveryPartyTold == Spec => []PartiesAreTold
<1>1. Init => PInv
  <2>. SUFFICES ASSUME Init PROVE PInv
    OBVIOUS
  <2>1. \A j \in Jobs : Informed(j)
    BY DEF Init, NoJob, Informed, AgreedStatus
  <2>2. CustomerAccepts
    BY DEF Init, Idle, CustomerAccepts
  <2>. QED
    BY <2>1, <2>2, InitInv DEF PInv
<1>2. PInv => PartiesAreTold
  BY DEF PInv, Informed, AgreementTold, WithdrawalTold, PartiesAreTold
<1>. QED
  BY <1>1, <1>2, InformedNext, PTL DEF Spec

-----------------------------------------------------------------------------
(* The agreement is implemented *)

Offers(j) == {quotes[q].provider : q \in LiveQuotes(j)}

(* What the agreement sees of one job stays as it is. *)
Unseen(j) == /\ jobs'[j].status = jobs[j].status
             /\ Offers(j)' = Offers(j)
             /\ Winner(j)' = Winner(j)

-----------------------------------------------------------------------------
(* The mapping, job by job *)

LEMMA OffersFrame ==
    ASSUME NEW j, LiveQuotes(j)' = LiveQuotes(j), AcceptedQuotes(j)' = AcceptedQuotes(j),
           \A q \in QuotesOn(j) : quotes'[q].provider = quotes[q].provider
    PROVE  Offers(j)' = Offers(j) /\ Winner(j)' = Winner(j)
<1>1. LiveQuotes(j) \subseteq QuotesOn(j) /\ AcceptedQuotes(j) \subseteq QuotesOn(j)
  BY DEF LiveQuotes, AcceptedQuotes
<1>2. Offers(j)' = Offers(j)
  BY <1>1 DEF Offers
<1>3. Winner(j)' = Winner(j)
  <2>1. PICK A : A = AcceptedQuotes(j)
    OBVIOUS
  <2>2. PICK c : c = CHOOSE q \in A : TRUE
    OBVIOUS
  <2>3. Winner(j) = IF A = {} THEN None ELSE quotes[c].provider
    BY <2>1, <2>2 DEF Winner
  <2>4. Winner(j)' = IF A = {} THEN None ELSE quotes'[c].provider
    BY <2>1, <2>2 DEF Winner
  <2>5. A # {} => c \in QuotesOn(j)
    BY <1>1, <2>1, <2>2
  <2>. QED
    BY <2>3, <2>4, <2>5
<1>. QED
  BY <1>2, <1>3

LEMMA SameQuotesUnseen ==
    ASSUME quotes' = quotes, NEW j
    PROVE  Offers(j)' = Offers(j) /\ Winner(j)' = Winner(j)
BY SameQuotes, OffersFrame

(* The providers with a live quote are no more than the live quotes. *)
LEMMA OffersCounted ==
    ASSUME TypeOK, NEW j
    PROVE  /\ IsFiniteSet(Offers(j))
           /\ Cardinality(Offers(j)) \in Nat
           /\ Cardinality(Offers(j)) <= Cardinality(LiveQuotes(j))
<1>. DEFINE f == [q \in LiveQuotes(j) |-> quotes[q].provider]
<1>1. f \in Surjection(LiveQuotes(j), Offers(j))
  <2>1. f \in [LiveQuotes(j) -> Offers(j)]
    BY DEF Offers
  <2>2. \A p \in Offers(j) : \E q \in LiveQuotes(j) : f[q] = p
    BY DEF Offers
  <2>. QED
    BY <2>1, <2>2 DEF Surjection
<1>2. IsFiniteSet(LiveQuotes(j))
  BY LiveQuotesFinite
<1>. HIDE DEF f
<1>3. IsFiniteSet(Offers(j)) /\ Cardinality(Offers(j)) <= Cardinality(LiveQuotes(j))
  BY <1>1, <1>2, FS_Surjection
<1>. QED
  BY <1>3, FS_CardinalityType

-----------------------------------------------------------------------------
(* The three variables of the agreement *)

Stages == [j \in Jobs |-> jobs[j].status]
OffersOf == [j \in Jobs |-> Offers(j)]
Winners == [j \in Jobs |-> Winner(j)]

(* A step that one job at most can be seen to take. *)
LEMMA OneJobSeen ==
    ASSUME NEW j \in Jobs, \A x \in Jobs \ {j} : Unseen(x)
    PROVE  /\ Stages' = [Stages EXCEPT ![j] = jobs'[j].status]
           /\ OffersOf' = [OffersOf EXCEPT ![j] = Offers(j)']
           /\ Winners' = [Winners EXCEPT ![j] = Winner(j)']
BY DEF Unseen, Stages, OffersOf, Winners

(* The instance has a Cardinality of its own. *)
LEMMA AgreementCardinality == \A S : Agreement!Cardinality(S) = Cardinality(S)
BY DEF Agreement!Cardinality, Cardinality

(* Instance operators, with the mapping applied. *)
LEMMA AgreementInit ==
    ASSUME Stages = [j \in Jobs |-> "ABSENT"], OffersOf = [j \in Jobs |-> {}],
           Winners = [j \in Jobs |-> None]
    PROVE  Agreement!Init
BY DEF Agreement!Init, Stages, OffersOf, Offers, Winners

LEMMA AgreementStutters ==
    ASSUME \A j \in Jobs : Unseen(j)
    PROVE  UNCHANGED Agreement!agreementVars
<1>1. Stages' = Stages /\ OffersOf' = OffersOf /\ Winners' = Winners
  BY DEF Unseen, Stages, OffersOf, Winners
<1>. QED
  BY <1>1 DEF Agreement!agreementVars, Stages, OffersOf, Offers, Winners

-----------------------------------------------------------------------------
(* Each kind of step is a step of the agreement *)

LEMMA AsideStutters == ASSUME Aside PROVE UNCHANGED Agreement!agreementVars
<1>1. \A j \in Jobs : Unseen(j)
  BY SameQuotesUnseen DEF Aside, Unseen
<1>. QED
  BY <1>1, AgreementStutters

LEMMA CreateJobPosts ==
    ASSUME IInv, NEW r \in Requests, NEW j \in Jobs, NEW p, NEW loc, CreateJob(r, j, p, loc)
    PROVE  Agreement!Post(j)
<1>1. /\ jobs[j].status = "ABSENT" /\ jobs'[j].status = "REQUESTED"
      /\ \A x \in Jobs \ {j} : jobs'[x] = jobs[x]
      /\ quotes' = quotes
  BY DEF IInv, TypeOK, CreateJob, NoJob
<1>2. \A x \in Jobs : Offers(x)' = Offers(x) /\ Winner(x)' = Winner(x)
  BY <1>1, SameQuotesUnseen
<1>3. /\ Stages[j] = "ABSENT"
      /\ Stages' = [Stages EXCEPT ![j] = "REQUESTED"]
      /\ OffersOf' = OffersOf /\ Winners' = Winners
  BY <1>1, <1>2 DEF Stages, OffersOf, Winners
<1>. QED
  BY <1>3 DEF Agreement!Post, Stages, OffersOf, Offers, Winners

LEMMA StatusMoveAdvances ==
    ASSUME IInv, NEW j \in Jobs, NEW to, StatusMove(j, to)
    PROVE  Agreement!Advance(j) \/ Agreement!Withdraw(j)
<1>1. /\ jobs'[j].status = to
      /\ \A x \in Jobs \ {j} : jobs'[x] = jobs[x]
      /\ quotes' = quotes
  BY DEF IInv, TypeOK, JobRow, StatusMove
<1>2. \A x \in Jobs : Offers(x)' = Offers(x) /\ Winner(x)' = Winner(x)
  BY <1>1, SameQuotesUnseen
<1>3. /\ Stages' = [Stages EXCEPT ![j] = to]
      /\ OffersOf' = OffersOf /\ Winners' = Winners
      /\ Stages[j] = jobs[j].status
  BY <1>1, <1>2 DEF Stages, OffersOf, Winners
<1>4. CASE jobs[j].status \in CustomerMutable /\ to = "CANCELLED"
  BY <1>3, <1>4 DEF CustomerMutable, Agreement!Withdraw, Stages, OffersOf, Offers, Winners
<1>5. CASE jobs[j].status \in DOMAIN Agreement!NextStage /\ to = Agreement!NextStage[jobs[j].status]
  BY <1>3, <1>5 DEF Agreement!Advance, Stages, OffersOf, Offers, Winners
<1>. QED
  BY <1>4, <1>5 DEF StatusMove, Agreement!NextStage

LEMMA CreateQuoteOffers ==
    ASSUME IInv, NEW r \in Requests, CreateQuote(r)
    PROVE  \E j \in Jobs, p \in Providers : Agreement!Offer(j, p)
<1>1. PICK j \in Jobs : j = call[r].job
  BY DEF IInv, TypeOK, CreateQuote
<1>2. PICK p \in Providers : p = call[r].provider
  BY DEF IInv, TypeOK, CreateQuote, Call
<1>3. /\ CanQuote(j, p)
      /\ quotes' = Append(quotes, [job |-> j, provider |-> p, status |-> "SUBMITTED"])
      /\ QuoteMovesJob(j)
  BY <1>1, <1>2 DEF CreateQuote
<1>4. PICK n : /\ n \notin DOMAIN quotes
               /\ quotes'[n].provider = p
               /\ \A q \in DOMAIN quotes : quotes'[q] = quotes[q]
               /\ QuotesOn(j)' = QuotesOn(j) \cup {n}
               /\ LiveQuotes(j)' = LiveQuotes(j) \cup {n}
               /\ AcceptedQuotes(j)' = AcceptedQuotes(j)
               /\ \A y \in Jobs \ {j} : /\ QuotesOn(y)' = QuotesOn(y)
                                        /\ LiveQuotes(y)' = LiveQuotes(y)
                                        /\ AcceptedQuotes(y)' = AcceptedQuotes(y)
  BY <1>3, InsertedQuote DEF IInv
<1>5. /\ jobs[j].status \in CustomerMutable
      /\ jobs[j].provider # None => jobs[j].status = "REQUESTED"
      /\ ~HasLiveQuote(j, p)
      /\ jobs[j].provider = None => Cardinality(LiveQuotes(j)) < MaxQuotesPerOpenJob
  BY <1>3 DEF CanQuote, IsOpen, CustomerMutable
<1>6. /\ jobs'[j].status = "QUOTED"
      /\ \A x \in Jobs \ {j} : jobs'[x].status = jobs[x].status
  BY <1>3, <1>5 DEF QuoteMovesJob, Moves, IInv, TypeOK, JobRow, CustomerMutable
<1>7. p \notin Offers(j)
  BY <1>5 DEF Offers, HasLiveQuote
<1>8. Cardinality(Offers(j)) < MaxQuotesPerOpenJob
  <2>1. CASE jobs[j].provider = None
    BY <1>5, <2>1, OffersCounted, LiveQuotesFinite, CapAssumption DEF IInv
  <2>2. CASE jobs[j].provider # None
    <3>1. LiveQuotes(j) = {}
      BY <1>5, <2>2 DEF IInv, JobInv, QuotesFollow, LiveQuotes
    <3>2. Offers(j) = {}
      BY <3>1 DEF Offers
    <3>. QED
      BY <3>2, FS_EmptySet, CapAssumption
  <2>. QED
    BY <2>1, <2>2
<1>9. \A x \in Jobs : \A q \in QuotesOn(x) : quotes'[q] = quotes[q]
  BY <1>4 DEF QuotesOn
<1>10. \A x \in Jobs \ {j} : Unseen(x)
  BY <1>4, <1>6, <1>9, OffersFrame DEF Unseen
<1>11. Offers(j)' = Offers(j) \cup {p}
  <2>1. \A q \in LiveQuotes(j) : quotes'[q].provider = quotes[q].provider
    BY <1>9 DEF LiveQuotes
  <2>2. Offers(j)' = {quotes'[q].provider : q \in LiveQuotes(j) \cup {n}}
    BY <1>4 DEF Offers
  <2>. QED
    BY <1>4, <2>1, <2>2 DEF Offers
<1>12. AcceptedQuotes(j) = {} /\ Winner(j) = None /\ Winner(j)' = None
  BY <1>4, <1>5 DEF IInv, JobInv, Agreed, AgreedStatus, CustomerMutable, Winner
<1>13. /\ Stages' = [Stages EXCEPT ![j] = "QUOTED"]
       /\ OffersOf' = [OffersOf EXCEPT ![j] = Offers(j) \cup {p}]
       /\ Winners' = Winners
  BY <1>6, <1>10, <1>11, <1>12 DEF Unseen, Stages, OffersOf, Winners
<1>14. /\ Stages[j] \in {"REQUESTED", "QUOTED"}
       /\ OffersOf[j] = Offers(j)
  BY <1>5 DEF Stages, OffersOf, CustomerMutable
<1>. QED
  BY <1>7, <1>8, <1>13, <1>14, AgreementCardinality DEF Agreement!Offer, Stages, OffersOf, Offers, Winners

LEMMA AcceptQuoteAgrees ==
    ASSUME IInv, NEW r \in Requests, AcceptQuote(r)
    PROVE  \E j \in Jobs, p \in Providers : Agreement!Agree(j, p)
<1>1. PICK j \in Jobs : j = call[r].job
  BY DEF IInv, TypeOK, AcceptQuote
<1>2. PICK q : q = call[r].quote
  OBVIOUS
<1>3. /\ q \in QuotesOn(j) /\ q \in LiveQuotes(j)
      /\ jobs[j].status = "QUOTED"
      /\ quotes' = QuotesIfAccepted(j, q)
  BY <1>1, <1>2 DEF AcceptQuote, CanAccept, LiveQuotes, LiveQuote
<1>4. PICK p \in Providers : p = quotes[q].provider
  <2>1. q \in DOMAIN quotes /\ quotes \in Seq(QuoteRow)
    BY <1>3 DEF IInv, TypeOK, QuotesOn
  <2>2. quotes[q] \in QuoteRow
    BY <2>1
  <2>. QED
    BY <2>2 DEF QuoteRow
<1>5. /\ \A x \in DOMAIN quotes : quotes'[x].provider = quotes[x].provider
      /\ LiveQuotes(j)' = {}
      /\ AcceptedQuotes(j)' = AcceptedQuotes(j) \cup {q}
      /\ \A x \in Jobs \ {j} : /\ LiveQuotes(x)' = LiveQuotes(x)
                               /\ AcceptedQuotes(x)' = AcceptedQuotes(x)
  BY <1>3, QuoteAccepted DEF IInv
<1>6. jobs'[j].status = "ACCEPTED" /\ \A x \in Jobs \ {j} : jobs'[x] = jobs[x]
  BY <1>1, <1>2 DEF AcceptQuote, IInv, TypeOK, JobRow
<1>7. \A x \in Jobs \ {j} : Unseen(x)
  <2>1. \A x \in Jobs : \A y \in QuotesOn(x) : quotes'[y].provider = quotes[y].provider
    BY <1>5 DEF QuotesOn
  <2>. QED
    BY <1>5, <1>6, <2>1, OffersFrame DEF Unseen
<1>8. p \in Offers(j) /\ Offers(j)' = {}
  BY <1>3, <1>4, <1>5 DEF Offers
<1>9. Winner(j)' = p
  <2>1. AcceptedQuotes(j)' = {q}
    BY <1>3, <1>5 DEF IInv, JobInv, Agreed, AgreedStatus
  <2>2. quotes'[q].provider = p
    BY <1>3, <1>4, <1>5 DEF QuotesOn
  <2>3. PICK A : A = AcceptedQuotes(j)'
    OBVIOUS
  <2>4. (CHOOSE x \in A : TRUE) = q
    BY <2>1, <2>3
  <2>. QED
    BY <2>1, <2>2, <2>3, <2>4 DEF Winner
<1>10. /\ Stages' = [Stages EXCEPT ![j] = "ACCEPTED"]
       /\ OffersOf' = [OffersOf EXCEPT ![j] = {}]
       /\ Winners' = [Winners EXCEPT ![j] = p]
  BY <1>6, <1>7, <1>8, <1>9 DEF Unseen, Stages, OffersOf, Winners
<1>11. Stages[j] = "QUOTED" /\ p \in OffersOf[j]
  BY <1>3, <1>8 DEF Stages, OffersOf
<1>. QED
  BY <1>10, <1>11 DEF Agreement!Agree, Stages, OffersOf, Offers, Winners

-----------------------------------------------------------------------------
LEMMA InitImplements == Init => Agreement!Init
<1>. SUFFICES ASSUME Init PROVE Agreement!Init
  OBVIOUS
<1>1. \A j \in Jobs : jobs[j].status = "ABSENT" /\ LiveQuotes(j) = {} /\ AcceptedQuotes(j) = {}
  BY DEF Init, NoJob, LiveQuotes, AcceptedQuotes, QuotesOn
<1>2. \A j \in Jobs : Offers(j) = {} /\ Winner(j) = None
  BY <1>1 DEF Offers, Winner
<1>. QED
  BY <1>1, <1>2, AgreementInit DEF Stages, OffersOf, Winners

LEMMA StepImplements == IInv /\ [Next]_vars => [Agreement!Next]_(Agreement!agreementVars)
<1>. SUFFICES ASSUME IInv, [Next]_vars
              PROVE  Agreement!Next \/ UNCHANGED Agreement!agreementVars
  OBVIOUS
<1>1. CASE Aside
  BY <1>1, AsideStutters
<1>2. ASSUME NEW j \in Jobs, NEW to \in JobStatus, StatusMove(j, to) PROVE Agreement!Next
  BY <1>2, StatusMoveAdvances DEF Agreement!Next
<1>3. ASSUME NEW r \in Requests, CreateQuote(r) \/ AcceptQuote(r) PROVE Agreement!Next
  BY <1>3, CreateQuoteOffers, AcceptQuoteAgrees DEF Agreement!Next
<1>4. ASSUME NEW r \in Requests, NEW j \in Jobs, NEW p, NEW loc, CreateJob(r, j, p, loc)
      PROVE  Agreement!Next
  BY <1>4, CreateJobPosts DEF Agreement!Next
<1>. QED
  BY <1>1, <1>2, <1>3, <1>4, Effect DEF IInv

(* The rows that createJob, createQuote, acceptQuote and the later           *)
(* transactions write, in whatever order handlers come to them, show a       *)
(* request that collects offers, one agreement, and work that advances a     *)
(* stage at a time, or a withdrawal before there was an agreement.           *)
THEOREM AgreementImplemented == Spec => ImplementsAgreement
<1>1. Spec => Agreement!Spec
  BY InitImplements, StepImplements, Invariance, PTL DEF Spec, Agreement!Spec
<1>. QED
  BY <1>1 DEF ImplementsAgreement
-----------------------------------------------------------------------------
(* The in-memory stores *)

(* What the maps of the in-memory stores may hold. *)
MemRow == [status : JobStatus, provider : Providers \cup {None}, agreed : Nat,
           location : Locations \cup {None}]
MemFields == {"jobs", "deleted", "quotes", "quotesHistory", "execHistory", "updates"}
MemType == /\ DOMAIN mem = MemFields
           /\ mem.jobs \in [Jobs -> MemRow]
           /\ mem.updates \in [Jobs -> Nat]

(* The row, the deletion and the note of job j in both. *)
SameJob(j) ==
    /\ mem.jobs[j] = [status |-> jobs[j].status, provider |-> jobs[j].provider,
                      agreed |-> jobs[j].agreed, location |-> jobs[j].location]
    /\ jobs[j].deleted <=> j \in mem.deleted
    /\ mem.updates[j] = notes[j]

(* A job deleted late goes on in the in-memory stores, and is never again    *)
(* in a status in which it takes quotes: the quotes still agree.             *)
MemJob(j) == IF DeletedLate(j) THEN MemStatus(j) \notin CustomerMutable ELSE SameJob(j)

(* A row not yet inserted is not deleted either.                              *)
Uninserted(j) == jobs[j].status = "ABSENT" => ~jobs[j].deleted

MInv == /\ TypeOK /\ MemType /\ mem.quotes = quotes
        /\ \A j \in Jobs : MemJob(j) /\ Uninserted(j)

LEMMA LockstepSteps == [LockstepNext]_lockstep => [Next]_vars
BY DEF LockstepNext, lockstep, Next, Submit, ServiceStep, ServeBoth, AfterCommit, Arrive

(* What a transaction does to the tables the stores share, by its phase. *)
LEMMA Transacted ==
    ASSUME NEW r, call[r].at \in Transactions, Proceed(r)
    PROVE  \/ ~Permitted(call[r]) /\ UNCHANGED <<jobs, quotes, history, notes>>
           \/ call[r].at = "quote" /\ CreateQuote(r)
           \/ call[r].at = "accept" /\ AcceptQuote(r)
           \/ call[r].at = "schedule" /\ ScheduleJob(r)
           \/ call[r].at = "start" /\ StartJob(r)
           \/ call[r].at = "complete" /\ CompleteJob(r)
           \/ call[r].at = "confirm" /\ ConfirmJob(r)
           \/ call[r].at = "update" /\ UpdateJob(r)
           \/ call[r].at = "cancel" /\ CancelJob(r)
           \/ call[r].at = "delete" /\ DeleteJob(r)
<1>1. Refuse(r) => ~Permitted(call[r]) /\ UNCHANGED <<jobs, quotes, history, notes>>
  BY DEF Refuse
<1>2. ~(\/ InsertCreationRow(r) \/ InsertAssignment(r) \/ AnnounceRequest(r) \/ AnnounceQuote(r)
        \/ AnnounceUpdate(r) \/ AnnounceCancel(r) \/ WarnDelete(r) \/ Announce(r)
        \/ NothingToAnnounce(r))
  BY DEF Transactions, InsertCreationRow, InsertAssignment, AnnounceRequest, AnnounceQuote,
         AnnounceUpdate, AnnounceCancel, WarnDelete, Announce, NothingToAnnounce, Announcing
<1>3. /\ CreateQuote(r) => call[r].at = "quote"
      /\ AcceptQuote(r) => call[r].at = "accept"
      /\ ScheduleJob(r) => call[r].at = "schedule"
      /\ StartJob(r) => call[r].at = "start"
      /\ CompleteJob(r) => call[r].at = "complete"
      /\ ConfirmJob(r) => call[r].at = "confirm"
      /\ UpdateJob(r) => call[r].at = "update"
      /\ CancelJob(r) => call[r].at = "cancel"
      /\ DeleteJob(r) => call[r].at = "delete"
  <2>1. /\ CreateQuote(r) => call[r].at = "quote"
        /\ AcceptQuote(r) => call[r].at = "accept"
    BY DEF CreateQuote, AcceptQuote
  <2>2. /\ ScheduleJob(r) => call[r].at = "schedule"
        /\ StartJob(r) => call[r].at = "start"
        /\ CompleteJob(r) => call[r].at = "complete"
    BY DEF ScheduleJob, StartJob, CompleteJob
  <2>3. /\ ConfirmJob(r) => call[r].at = "confirm"
        /\ UpdateJob(r) => call[r].at = "update"
        /\ CancelJob(r) => call[r].at = "cancel"
        /\ DeleteJob(r) => call[r].at = "delete"
    BY DEF ConfirmJob, UpdateJob, CancelJob, DeleteJob
  <2>. QED
    BY <2>1, <2>2, <2>3
<1>. QED
  BY <1>1, <1>2, <1>3 DEF Proceed

(* The stores read the same quotes, and the same of a job they agree on. *)
LEMMA SameReads ==
    ASSUME MInv, NEW j \in Jobs
    PROVE  /\ MemQuotesOn(j) = QuotesOn(j) /\ MemLive(j) = LiveQuotes(j)
           /\ \A p : HasQuoteFromProvider(j, p) <=> HasLiveQuote(j, p)
           /\ ~DeletedLate(j) => /\ MemStatus(j) = jobs[j].status
                                 /\ mem.jobs[j].provider = jobs[j].provider
                                 /\ mem.jobs[j].location = jobs[j].location
                                 /\ GetJobById(j) <=> Readable(j)
           /\ DeletedLate(j) => ~Readable(j) /\ MemStatus(j) \notin CustomerMutable
<1>1. MemQuotesOn(j) = QuotesOn(j)
  BY DEF MInv, MemQuotesOn, QuotesOn
<1>2. MemLive(j) = LiveQuotes(j)
  BY <1>1 DEF MInv, MemLive, LiveQuotes
<1>3. \A p : HasQuoteFromProvider(j, p) <=> HasLiveQuote(j, p)
  BY <1>2 DEF MInv, HasQuoteFromProvider, HasLiveQuote
<1>4. ASSUME ~DeletedLate(j)
      PROVE  /\ MemStatus(j) = jobs[j].status
             /\ mem.jobs[j].provider = jobs[j].provider
             /\ mem.jobs[j].location = jobs[j].location
             /\ GetJobById(j) <=> Readable(j)
  <2>1. SameJob(j)
    BY <1>4 DEF MInv, MemJob
  <2>. QED
    BY <2>1 DEF SameJob, MemStatus, GetJobById, Readable
<1>5. DeletedLate(j) => ~Readable(j) /\ MemStatus(j) \notin CustomerMutable
  BY DEF DeletedLate, Readable, MInv, MemJob
<1>. QED
  BY <1>1, <1>2, <1>3, <1>4, <1>5

(* The checks of the two stores are the same, save for jobs deleted late and *)
(* for deletion itself; and no deleted job is quoted or agreed on in either. *)
LEMMA SameChecks ==
    ASSUME MInv, NEW j \in Jobs
    PROVE  /\ \A p : MemCanQuote(j, p) <=> CanQuote(j, p)
           /\ \A q : MemCanAccept(j, q) <=> CanAccept(j, q)
           /\ RequireMutable(j) <=> CanChange(j)
           /\ ~DeletedLate(j) => /\ MemCanSchedule(j) <=> CanSchedule(j)
                                 /\ MemCanStart(j) <=> CanStart(j)
<1>1. \A p : MemCanQuote(j, p) <=> CanQuote(j, p)
  <2>1. CASE DeletedLate(j)
    BY <2>1, SameReads DEF MemCanQuote, CanQuote, CustomerMutable
  <2>2. CASE ~DeletedLate(j)
    BY <2>2, SameReads DEF MemCanQuote, CanQuote, MemIsOpen, IsOpen
  <2>. QED
    BY <2>1, <2>2
<1>2. \A q : MemCanAccept(j, q) <=> CanAccept(j, q)
  <2>1. CASE DeletedLate(j)
    BY <2>1, SameReads DEF MemCanAccept, CanAccept, CustomerMutable
  <2>2. CASE ~DeletedLate(j)
    BY <2>2, SameReads DEF MInv, MemCanAccept, CanAccept
  <2>. QED
    BY <2>1, <2>2
<1>3. RequireMutable(j) <=> CanChange(j)
  BY SameReads DEF RequireMutable, CanChange
<1>4. ~DeletedLate(j) => /\ MemCanSchedule(j) <=> CanSchedule(j)
                         /\ MemCanStart(j) <=> CanStart(j)
  BY SameReads DEF MInv, MemCanSchedule, CanSchedule, AcceptedQuotes, MemCanStart, CanStart
<1>. QED
  BY <1>1, <1>2, <1>3, <1>4

(* A job that no step touches in either store. *)
Untouched(x) == /\ jobs'[x] = jobs[x] /\ notes'[x] = notes[x]
                /\ mem'.jobs[x] = mem.jobs[x] /\ mem'.updates[x] = mem.updates[x]
                /\ x \in mem'.deleted <=> x \in mem.deleted

LEMMA UntouchedAgrees ==
    ASSUME NEW x \in Jobs, MemJob(x), Untouched(x) PROVE MemJob(x)'
BY DEF MemJob, SameJob, DeletedLate, MemStatus, Untouched

(* What a write of the in-memory stores leaves in the fields that are read. *)
Holds(m, rows, dels, offers, marks) ==
    /\ DOMAIN m = MemFields
    /\ m.jobs = rows /\ m.deleted = dels /\ m.quotes = offers /\ m.updates = marks

(* A table of jobs after one of them moved, and of notes after n were added. *)
MovedTo(rows, j, to) == [rows EXCEPT ![j].status = to]
Marked(marks, j, n) == [marks EXCEPT ![j] = marks[j] + n]

LEMMA MemWrites ==
    ASSUME MemType, NEW j \in Jobs
    PROVE  /\ \A p, loc : Holds(MemCreateJob(j, p, loc),
                  [mem.jobs EXCEPT ![j] = [status |-> "REQUESTED", provider |-> p, agreed |-> 0,
                                           location |-> loc]], mem.deleted, mem.quotes, mem.updates)
           /\ \A loc : Holds(MemUpdateJob(j, loc), [mem.jobs EXCEPT ![j].location = loc],
                             mem.deleted, mem.quotes, mem.updates)
           /\ Holds(MemCancelJob(j), MovedTo(mem.jobs, j, "CANCELLED"),
                    mem.deleted, mem.quotes, mem.updates)
           /\ Holds(MemDeleteJob(j), mem.jobs, mem.deleted \cup {j}, mem.quotes, mem.updates)
           /\ Holds(MemScheduleJob(j), MovedTo(mem.jobs, j, "SCHEDULED"),
                    mem.deleted, mem.quotes, mem.updates)
           /\ Holds(MemStartJob(j), MovedTo(mem.jobs, j, "IN_PROGRESS"),
                    mem.deleted, mem.quotes, mem.updates)
           /\ Holds(MemCompleteJob(j), MovedTo(mem.jobs, j, "COMPLETED"),
                    mem.deleted, mem.quotes, Marked(mem.updates, j, 1))
           /\ Holds(MemConfirmJob(j), MovedTo(mem.jobs, j, "CLOSED"),
                    mem.deleted, mem.quotes, mem.updates)
<1>1. \A p, loc : Holds(MemCreateJob(j, p, loc),
          [mem.jobs EXCEPT ![j] = [status |-> "REQUESTED", provider |-> p, agreed |-> 0,
                                   location |-> loc]], mem.deleted, mem.quotes, mem.updates)
  BY DEF MemType, MemFields, Holds, MemCreateJob
<1>2. \A loc : Holds(MemUpdateJob(j, loc), [mem.jobs EXCEPT ![j].location = loc],
                     mem.deleted, mem.quotes, mem.updates)
  BY DEF MemType, MemFields, Holds, MemUpdateJob
<1>3. Holds(MemCancelJob(j), MovedTo(mem.jobs, j, "CANCELLED"),
            mem.deleted, mem.quotes, mem.updates)
  BY DEF MemType, MemFields, Holds, MovedTo, MemCancelJob
<1>4. Holds(MemDeleteJob(j), mem.jobs, mem.deleted \cup {j}, mem.quotes, mem.updates)
  BY DEF MemType, MemFields, Holds, MemDeleteJob
<1>5. Holds(MemScheduleJob(j), MovedTo(mem.jobs, j, "SCHEDULED"),
            mem.deleted, mem.quotes, mem.updates)
  BY DEF MemType, MemFields, Holds, MovedTo, MemScheduleJob
<1>6. Holds(MemStartJob(j), MovedTo(mem.jobs, j, "IN_PROGRESS"),
            mem.deleted, mem.quotes, mem.updates)
  BY DEF MemType, MemFields, Holds, MovedTo, MemStartJob
<1>7. Holds(MemCompleteJob(j), MovedTo(mem.jobs, j, "COMPLETED"),
            mem.deleted, mem.quotes, Marked(mem.updates, j, 1))
  BY DEF MemType, MemFields, Holds, MovedTo, Marked, MemCompleteJob
<1>8. Holds(MemConfirmJob(j), MovedTo(mem.jobs, j, "CLOSED"),
            mem.deleted, mem.quotes, mem.updates)
  BY DEF MemType, MemFields, Holds, MovedTo, MemConfirmJob
<1>. QED
  BY <1>1, <1>2, <1>3, <1>4, <1>5, <1>6, <1>7, <1>8

(* A row of the in-memory jobs after an acceptance of quote q, of provider w, *)
(* and the jobs after it, as the store writes them and at once.               *)
Payee(row, w) == IF row.provider = None THEN w ELSE row.provider
Taken(row, q, w) == [status |-> "ACCEPTED", provider |-> Payee(row, w), agreed |-> q,
                     location |-> row.location]
Taking(rows, j, q, w) ==
    [rows EXCEPT ![j].status = "ACCEPTED", ![j].agreed = q, ![j].provider = Payee(rows[j], w)]
Took(rows, j, q, w) == [rows EXCEPT ![j] = Taken(rows[j], q, w)]

LEMMA TakenRow ==
    ASSUME NEW rows \in [Jobs -> MemRow], NEW j \in Jobs, NEW q \in Nat, NEW w \in Providers
    PROVE  Taking(rows, j, q, w) = Took(rows, j, q, w)
<1>1. rows[j] \in MemRow
  OBVIOUS
<1>2. PICK v : v = Payee(rows[j], w) /\ v \in Providers \cup {None}
  BY <1>1 DEF MemRow, Payee
<1>3. PICK t : t = [status |-> "ACCEPTED", provider |-> v, agreed |-> q,
                    location |-> rows[j].location]
  OBVIOUS
<1>4. PICK R : R = MemRow
  OBVIOUS
<1>0. PICK r1, r2, r3 : /\ r1 = [rows EXCEPT ![j].status = "ACCEPTED"]
                        /\ r2 = [r1 EXCEPT ![j].agreed = q]
                        /\ r3 = [r2 EXCEPT ![j].provider = v]
  OBVIOUS
<1>5. rows \in [Jobs -> R]
  BY <1>4
<1>6. r1 \in [Jobs -> R] /\ r1[j] = [rows[j] EXCEPT !.status = "ACCEPTED"]
  <2>1. [rows[j] EXCEPT !.status = "ACCEPTED"] \in R
    BY <1>1, <1>4 DEF MemRow, JobStatus, AgreedStatus
  <2>. QED
    BY <1>0, <1>5, <2>1
<1>7. r2 \in [Jobs -> R] /\ r2[j] = [r1[j] EXCEPT !.agreed = q]
  <2>1. [r1[j] EXCEPT !.agreed = q] \in R
    <3>1. r1[j] \in MemRow
      BY <1>4, <1>6
    <3>. QED
      BY <1>4, <3>1 DEF MemRow
  <2>. QED
    BY <1>0, <1>6, <2>1
<1>8. r3 \in [Jobs -> R] /\ r3[j] = [r2[j] EXCEPT !.provider = v]
  <2>1. [r2[j] EXCEPT !.provider = v] \in R
    <3>1. r2[j] \in MemRow
      BY <1>4, <1>7
    <3>. QED
      BY <1>2, <1>4, <3>1 DEF MemRow
  <2>. QED
    BY <1>0, <1>7, <2>1
<1>9. r3[j] = t
  <2>1. r1[j] = [status |-> "ACCEPTED", provider |-> rows[j].provider, agreed |-> rows[j].agreed,
                 location |-> rows[j].location]
    BY <1>1, <1>6 DEF MemRow
  <2>2. r2[j] = [status |-> "ACCEPTED", provider |-> rows[j].provider, agreed |-> q,
                 location |-> rows[j].location]
    BY <1>7, <2>1
  <2>. QED
    BY <1>3, <1>8, <2>2
<1>10. \A x \in Jobs \ {j} : r3[x] = rows[x]
  <2>1. \A x \in Jobs \ {j} : r1[x] = rows[x]
    BY <1>0, <1>5
  <2>2. \A x \in Jobs \ {j} : r2[x] = r1[x]
    BY <1>0, <1>6
  <2>3. \A x \in Jobs \ {j} : r3[x] = r2[x]
    BY <1>0, <1>7
  <2>. QED
    BY <2>1, <2>2, <2>3
<1>11. r3 = [rows EXCEPT ![j] = t]
  BY <1>5, <1>8, <1>9, <1>10
<1>12. Taken(rows[j], q, w) = t
  BY <1>2, <1>3 DEF Taken
<1>13. Taking(rows, j, q, w) = r3
  BY <1>0, <1>2 DEF Taking
<1>14. Took(rows, j, q, w) = [rows EXCEPT ![j] = t]
  BY <1>12 DEF Took
<1>. QED
  BY <1>11, <1>13, <1>14

LEMMA MemOffers ==
    ASSUME MemType, NEW j \in Jobs, NEW p, NEW q
    PROVE  /\ Holds(MemCreateQuote(j, p),
                    IF MemStatus(j) = "REQUESTED" THEN [mem.jobs EXCEPT ![j].status = "QUOTED"]
                    ELSE mem.jobs,
                    mem.deleted,
                    Append(mem.quotes, [job |-> j, provider |-> p, status |-> "SUBMITTED"]),
                    mem.updates)
           /\ q \in Nat /\ mem.quotes[q].provider \in Providers =>
              Holds(MemAcceptQuote(j, q),
                    [mem.jobs EXCEPT ![j] = Taken(mem.jobs[j], q, mem.quotes[q].provider)],
                    mem.deleted,
                    [x \in DOMAIN mem.quotes |->
                        IF x = q THEN [mem.quotes[x] EXCEPT !.status = "ACCEPTED"]
                        ELSE IF x \in MemLive(j) THEN [mem.quotes[x] EXCEPT !.status = "DECLINED"]
                        ELSE mem.quotes[x]],
                    mem.updates)
<1>1. Holds(MemCreateQuote(j, p),
            IF MemStatus(j) = "REQUESTED" THEN [mem.jobs EXCEPT ![j].status = "QUOTED"] ELSE mem.jobs,
            mem.deleted, Append(mem.quotes, [job |-> j, provider |-> p, status |-> "SUBMITTED"]),
            mem.updates)
  <2>1. CASE MemStatus(j) = "REQUESTED"
    BY <2>1 DEF MemType, MemFields, Holds, MemCreateQuote
  <2>2. CASE MemStatus(j) # "REQUESTED"
    BY <2>2 DEF MemType, MemFields, Holds, MemCreateQuote
  <2>. QED
    BY <2>1, <2>2
<1>2. ASSUME q \in Nat, mem.quotes[q].provider \in Providers
      PROVE  Holds(MemAcceptQuote(j, q),
                   [mem.jobs EXCEPT ![j] = Taken(mem.jobs[j], q, mem.quotes[q].provider)],
                   mem.deleted,
                   [x \in DOMAIN mem.quotes |->
                       IF x = q THEN [mem.quotes[x] EXCEPT !.status = "ACCEPTED"]
                       ELSE IF x \in MemLive(j) THEN [mem.quotes[x] EXCEPT !.status = "DECLINED"]
                       ELSE mem.quotes[x]],
                   mem.updates)
  <2>1. PICK rows, w, v, r1, r2, new :
           /\ rows = mem.jobs /\ w = mem.quotes[q].provider
           /\ v = Payee(rows[j], w)
           /\ r1 = [rows EXCEPT ![j].status = "ACCEPTED"]
           /\ r2 = [r1 EXCEPT ![j].agreed = q]
           /\ new = [r2 EXCEPT ![j].provider = v]
    OBVIOUS
  <2>2. w \in Providers /\ q \in Nat /\ rows \in [Jobs -> MemRow]
    BY <1>2, <2>1 DEF MemType
  <2>3. new = [mem.jobs EXCEPT ![j] = Taken(mem.jobs[j], q, w)]
    <3>1. new = Taking(rows, j, q, w)
      BY <2>1 DEF Taking
    <3>2. Taking(rows, j, q, w) = Took(rows, j, q, w)
      BY <2>2, TakenRow
    <3>. QED
      BY <2>1, <3>1, <3>2 DEF Took
  <2>5. new = [mem.jobs EXCEPT ![j].status = "ACCEPTED", ![j].agreed = q,
                               ![j].provider = IF @ = None THEN w ELSE @]
    <3>1. rows[j] \in MemRow
      BY <2>2
    <3>2. /\ r1 = [mem.jobs EXCEPT ![j].status = "ACCEPTED"]
          /\ r1[j].provider = mem.jobs[j].provider
          /\ r2 = [r1 EXCEPT ![j].agreed = q]
          /\ r2[j].provider = r1[j].provider
      BY <2>1, <2>2, <3>1 DEF MemRow
    <3>3. v = IF r2[j].provider = None THEN w ELSE r2[j].provider
      BY <2>1, <3>2 DEF Payee
    <3>. QED
      BY <2>1, <3>2, <3>3
  <2>4. Holds(MemAcceptQuote(j, q), new, mem.deleted,
              [x \in DOMAIN mem.quotes |->
                  IF x = q THEN [mem.quotes[x] EXCEPT !.status = "ACCEPTED"]
                  ELSE IF x \in MemLive(j) THEN [mem.quotes[x] EXCEPT !.status = "DECLINED"]
                  ELSE mem.quotes[x]],
              mem.updates)
    BY <2>1, <2>5 DEF MemType, MemFields, Holds, MemAcceptQuote
  <2>. QED
    BY <2>1, <2>3, <2>4
<1>. QED
  BY <1>1, <1>2

(* Both stores move the job's status, and write the same notes. *)
LEMMA BothMove ==
    ASSUME MInv, NEW j \in Jobs, NEW to \in JobStatus, NEW n \in {0, 1},
           ~DeletedLate(j) \/ to \notin CustomerMutable,
           jobs' = MovedTo(jobs, j, to), quotes' = quotes, notes' = Marked(notes, j, n),
           Holds(mem', MovedTo(mem.jobs, j, to), mem.deleted, mem.quotes,
                 Marked(mem.updates, j, n)),
           jobs[j].status \in CustomerMutable => ~jobs[j].deleted
    PROVE  MemType' /\ mem'.quotes = quotes' /\ \A x \in Jobs : MemJob(x)'
<1>0. /\ jobs \in [Jobs -> JobRow] /\ notes \in [Jobs -> Nat]
      /\ MemType /\ mem.quotes = quotes /\ \A x \in Jobs : MemJob(x)
  BY DEF MInv, TypeOK
<1>1. /\ \A x \in Jobs \ {j} : /\ jobs'[x] = jobs[x] /\ notes'[x] = notes[x]
                               /\ mem'.jobs[x] = mem.jobs[x] /\ mem'.updates[x] = mem.updates[x]
      /\ jobs'[j].status = to /\ jobs'[j].provider = jobs[j].provider
      /\ jobs'[j].agreed = jobs[j].agreed /\ jobs'[j].location = jobs[j].location
      /\ jobs'[j].deleted = jobs[j].deleted
      /\ mem'.jobs[j] = [mem.jobs[j] EXCEPT !.status = to]
      /\ notes'[j] = notes[j] + n /\ mem'.updates[j] = mem.updates[j] + n
      /\ mem'.deleted = mem.deleted /\ mem'.quotes = mem.quotes
  BY <1>0 DEF JobRow, MemType, MemRow, Holds, MovedTo, Marked
<1>2. MemType'
  BY <1>0 DEF MemType, MemRow, Holds, MovedTo, Marked
<1>3. mem.jobs[j] \in MemRow
  BY <1>0 DEF MemType
<1>4. MemJob(j)'
  <2>1. CASE DeletedLate(j)
    <3>1. MemStatus(j)' = to /\ to \notin CustomerMutable
      BY <1>1, <1>3, <2>1 DEF MemStatus, MemRow
    <3>2. DeletedLate(j)'
      BY <1>1, <2>1, <3>1 DEF DeletedLate
    <3>. QED
      BY <3>1, <3>2 DEF MemJob
  <2>2. CASE ~DeletedLate(j)
    <3>1. ~jobs[j].deleted /\ SameJob(j)
      BY <1>0, <2>2 DEF DeletedLate, MemJob
    <3>2. ~DeletedLate(j)'
      BY <1>1, <3>1 DEF DeletedLate
    <3>3. SameJob(j)'
      BY <1>1, <1>3, <3>1 DEF SameJob, MemRow
    <3>. QED
      BY <3>2, <3>3 DEF MemJob
  <2>. QED
    BY <2>1, <2>2
<1>5. \A x \in Jobs \ {j} : MemJob(x)'
  BY <1>0, <1>1, UntouchedAgrees DEF Untouched
<1>. QED
  BY <1>0, <1>1, <1>2, <1>4, <1>5

(* The SQL store refuses what the in-memory one may still do to a job that   *)
(* was deleted late, or neither does anything.                               *)
LEMMA OnlyMemMoves ==
    ASSUME MInv, NEW j \in Jobs, NEW to \in JobStatus \ CustomerMutable,
           NEW marks, DeletedLate(j), DeletedLate(j)',
           \A x \in Jobs \ {j} : jobs'[x] = jobs[x] /\ notes'[x] = notes[x], quotes' = quotes,
           \/ mem' = mem
           \/ /\ Holds(mem', MovedTo(mem.jobs, j, to), mem.deleted, mem.quotes, marks)
              /\ marks \in [Jobs -> Nat]
              /\ \A x \in Jobs \ {j} : marks[x] = mem.updates[x]
    PROVE  MemType' /\ mem'.quotes = quotes' /\ \A x \in Jobs : MemJob(x)'
<1>0. MemType /\ mem.quotes = quotes /\ \A x \in Jobs : MemJob(x)
  BY DEF MInv
<1>1. MemType'
  BY <1>0 DEF MemType, MemRow, Holds, MovedTo
<1>2. \A x \in Jobs \ {j} : Untouched(x)
  BY <1>0 DEF Untouched, Holds, MovedTo, MemType
<1>3. MemStatus(j)' \notin CustomerMutable
  BY <1>0 DEF MemStatus, MemType, MemRow, Holds, MovedTo, MemJob
<1>4. \A x \in Jobs : MemJob(x)'
  BY <1>0, <1>2, <1>3, UntouchedAgrees DEF MemJob
<1>5. mem'.quotes = quotes'
  BY <1>0 DEF Holds
<1>. QED
  BY <1>1, <1>4, <1>5

(* The check and the write of either store for a call, by its phase. *)
LEMMA Served ==
    ASSUME NEW c
    PROVE  /\ c.at = "quote" => /\ Permitted(c) <=> CanQuote(c.job, c.provider)
                                /\ MemPermits(c) <=> MemCanQuote(c.job, c.provider)
                                /\ MemResult(c) = MemCreateQuote(c.job, c.provider)
           /\ c.at = "accept" => /\ Permitted(c) <=> CanAccept(c.job, c.quote)
                                 /\ MemPermits(c) <=> MemCanAccept(c.job, c.quote)
                                 /\ MemResult(c) = MemAcceptQuote(c.job, c.quote)
           /\ c.at = "schedule" => /\ Permitted(c) <=> CanSchedule(c.job)
                                   /\ MemPermits(c) <=> MemCanSchedule(c.job)
                                   /\ MemResult(c) = MemScheduleJob(c.job)
           /\ c.at = "start" => /\ Permitted(c) <=> CanStart(c.job)
                                /\ MemPermits(c) <=> MemCanStart(c.job)
                                /\ MemResult(c) = MemStartJob(c.job)
           /\ c.at = "complete" => /\ Permitted(c) <=> CanComplete(c.job)
                                   /\ MemPermits(c) <=> MemCanComplete(c.job)
                                   /\ MemResult(c) = MemCompleteJob(c.job)
           /\ c.at = "confirm" => /\ Permitted(c) <=> CanConfirm(c.job)
                                  /\ MemPermits(c) <=> MemCanConfirm(c.job)
                                  /\ MemResult(c) = MemConfirmJob(c.job)
           /\ c.at = "update" => /\ Permitted(c) <=> CanChange(c.job)
                                 /\ MemPermits(c) <=> RequireMutable(c.job)
                                 /\ MemResult(c) = MemUpdateJob(c.job, c.location)
           /\ c.at = "cancel" => /\ Permitted(c) <=> CanChange(c.job)
                                 /\ MemPermits(c) <=> RequireMutable(c.job)
                                 /\ MemResult(c) = MemCancelJob(c.job)
           /\ c.at = "delete" => /\ Permitted(c)
                                 /\ MemPermits(c) <=> RequireMutable(c.job)
                                 /\ MemResult(c) = MemDeleteJob(c.job)
BY DEF Permitted, MemPermits, MemResult

Agreeing == MemType /\ mem.quotes = quotes /\ \A x \in Jobs : MemJob(x)

LEMMA NeitherServes ==
    ASSUME MInv, mem' = mem, UNCHANGED <<jobs, quotes, notes>> PROVE Agreeing'
<1>1. \A x \in Jobs : Untouched(x)
  BY DEF Untouched
<1>. QED
  BY <1>1, UntouchedAgrees DEF MInv, Agreeing, MemType

(* A step that moves one job the same way in both stores. *)
LEMMA OneJobAgrees ==
    ASSUME MInv, NEW j \in Jobs,
           \A x \in Jobs \ {j} : jobs'[x] = jobs[x] /\ mem'.jobs[x] = mem.jobs[x],
           notes' = notes, Readable(j), jobs'[j].deleted = jobs[j].deleted,
           mem'.deleted = mem.deleted, mem'.updates = mem.updates,
           mem'.jobs[j] = [status |-> jobs'[j].status, provider |-> jobs'[j].provider,
                           agreed |-> jobs'[j].agreed, location |-> jobs'[j].location]
    PROVE  \A x \in Jobs : MemJob(x)'
<1>1. \A x \in Jobs \ {j} : MemJob(x)'
  BY UntouchedAgrees DEF MInv, Untouched
<1>2. ~DeletedLate(j) /\ ~jobs[j].deleted
  BY DEF DeletedLate, Readable
<1>3. ~DeletedLate(j)'
  BY <1>2 DEF DeletedLate
<1>4. SameJob(j)
  BY <1>2 DEF MInv, MemJob
<1>5. SameJob(j)'
  BY <1>4 DEF SameJob
<1>. QED
  BY <1>1, <1>3, <1>5 DEF MemJob

(* A quote or an acceptance is permitted by both stores or by neither. *)
LEMMA OffersServed ==
    ASSUME MInv, NEW r \in Requests, ServeBoth(r), call[r].at \in {"quote", "accept"}
    PROVE  Agreeing'
<1>0. PICK c : c = call[r]
  OBVIOUS
<1>1. PICK j, p, q : j = c.job /\ p = c.provider /\ q = c.quote
  OBVIOUS
<1>2. j \in Jobs /\ MemType /\ mem.quotes = quotes /\ TypeOK /\ jobs \in [Jobs -> JobRow]
  BY <1>0, <1>1 DEF MInv, TypeOK
<1>3. mem' = IF MemPermits(c) THEN MemResult(c) ELSE mem
  BY <1>0 DEF ServeBoth
<1>4. ASSUME \A x \in Jobs \ {j} : jobs'[x] = jobs[x] /\ mem'.jobs[x] = mem.jobs[x],
             notes' = notes, Readable(j), jobs'[j].deleted = jobs[j].deleted,
             mem'.deleted = mem.deleted, mem'.updates = mem.updates,
             mem'.jobs[j] = [status |-> jobs'[j].status, provider |-> jobs'[j].provider,
                             agreed |-> jobs'[j].agreed, location |-> jobs'[j].location]
      PROVE  \A x \in Jobs : MemJob(x)'
  BY <1>2, <1>4, OneJobAgrees
<1>5. ASSUME ~DeletedLate(j)
      PROVE  mem.jobs[j] = [status |-> jobs[j].status, provider |-> jobs[j].provider,
                            agreed |-> jobs[j].agreed, location |-> jobs[j].location]
  BY <1>2, <1>5 DEF MInv, MemJob, SameJob
<1>6. CASE c.at = "quote"
  <2>1. MemPermits(c) <=> Permitted(c)
    BY <1>1, <1>2, <1>6, Served, SameChecks
  <2>2. CASE ~Permitted(c)
    <3>1. mem' = mem
      BY <1>3, <2>1, <2>2
    <3>2. UNCHANGED <<jobs, quotes, notes>>
      BY <1>0, <1>1, <1>6, <2>2, Transacted, Served DEF ServeBoth, CreateQuote
    <3>. QED
      BY <3>1, <3>2, NeitherServes
  <2>3. CASE Permitted(c)
    <3>1. CreateQuote(r)
      BY <1>0, <1>6, <2>3, Transacted DEF ServeBoth
    <3>2. /\ CanQuote(j, p)
          /\ quotes' = Append(quotes, [job |-> j, provider |-> p, status |-> "SUBMITTED"])
          /\ QuoteMovesJob(j) /\ notes' = notes
      BY <1>0, <1>1, <3>1 DEF CreateQuote
    <3>3. mem' = MemCreateQuote(j, p)
      BY <1>1, <1>3, <1>6, <2>1, <2>3, Served
    <3>4. Readable(j) /\ ~DeletedLate(j)
      BY <3>2 DEF CanQuote, Readable, DeletedLate
    <3>5. MemStatus(j) = jobs[j].status
      BY <1>2, <3>4, SameReads
    <3>6. Holds(mem', IF jobs[j].status = "REQUESTED" THEN [mem.jobs EXCEPT ![j].status = "QUOTED"]
                      ELSE mem.jobs,
                mem.deleted,
                Append(quotes, [job |-> j, provider |-> p, status |-> "SUBMITTED"]), mem.updates)
      BY <1>2, <3>3, <3>5, MemOffers
    <3>7. jobs' = IF jobs[j].status = "REQUESTED" THEN [jobs EXCEPT ![j].status = "QUOTED"] ELSE jobs
      BY <3>2 DEF QuoteMovesJob, Moves
    <3>8. MemType'
      <4>1. [mem.jobs EXCEPT ![j].status = "QUOTED"] \in [Jobs -> MemRow]
        BY <1>2 DEF MemType, MemRow, JobStatus, CustomerMutable
      <4>. QED
        BY <1>2, <3>6, <4>1 DEF MemType, Holds
    <3>9. \A x \in Jobs \ {j} : jobs'[x] = jobs[x] /\ mem'.jobs[x] = mem.jobs[x]
      BY <1>2, <3>6, <3>7 DEF Holds, MemType
    <3>10. /\ jobs'[j].deleted = jobs[j].deleted
           /\ mem'.jobs[j] = [status |-> jobs'[j].status, provider |-> jobs'[j].provider,
                              agreed |-> jobs'[j].agreed, location |-> jobs'[j].location]
      <4>1. CASE jobs[j].status = "REQUESTED"
        <5>1. /\ jobs'[j].status = "QUOTED" /\ jobs'[j].provider = jobs[j].provider
              /\ jobs'[j].agreed = jobs[j].agreed /\ jobs'[j].location = jobs[j].location
              /\ jobs'[j].deleted = jobs[j].deleted
          BY <1>2, <3>7, <4>1 DEF JobRow
        <5>2. PICK rows : rows = mem.jobs
          OBVIOUS
        <5>3. mem'.jobs = [rows EXCEPT ![j].status = "QUOTED"] /\ rows \in [Jobs -> MemRow]
          BY <1>2, <3>6, <4>1, <5>2 DEF Holds, MemType
        <5>4. mem'.jobs[j] = [rows[j] EXCEPT !.status = "QUOTED"]
          <6>1. PICK R : R = MemRow
            OBVIOUS
          <6>2. rows \in [Jobs -> R]
            BY <5>3, <6>1
          <6>3. [rows EXCEPT ![j].status = "QUOTED"][j] = [rows[j] EXCEPT !.status = "QUOTED"]
            BY <1>2, <6>2
          <6>. QED
            BY <5>3, <6>3
        <5>5. rows[j] = [status |-> jobs[j].status, provider |-> jobs[j].provider,
                         agreed |-> jobs[j].agreed, location |-> jobs[j].location]
          BY <1>5, <3>4, <5>2
        <5>6. mem'.jobs[j] = [status |-> "QUOTED", provider |-> jobs[j].provider,
                              agreed |-> jobs[j].agreed, location |-> jobs[j].location]
          BY <5>4, <5>5
        <5>. QED
          BY <5>1, <5>6
      <4>2. CASE jobs[j].status # "REQUESTED"
        BY <1>2, <1>5, <3>4, <3>6, <3>7, <4>2 DEF Holds, MemType, JobRow
      <4>. QED
        BY <4>1, <4>2
    <3>11. mem'.deleted = mem.deleted /\ mem'.updates = mem.updates /\ mem'.quotes = quotes'
      BY <3>2, <3>6 DEF Holds
    <3>12. \A x \in Jobs : MemJob(x)'
      BY <1>4, <3>2, <3>4, <3>9, <3>10, <3>11
    <3>. QED
      BY <3>8, <3>11, <3>12 DEF Agreeing
  <2>. QED
    BY <2>2, <2>3
<1>7. CASE c.at = "accept"
  <2>1. MemPermits(c) <=> Permitted(c)
    BY <1>1, <1>2, <1>7, Served, SameChecks
  <2>2. CASE ~Permitted(c)
    <3>1. mem' = mem
      BY <1>3, <2>1, <2>2
    <3>2. ~AcceptQuote(r)
      <4>1. AcceptQuote(r) => CanAccept(j, q)
        BY <1>0, <1>1 DEF AcceptQuote
      <4>. QED
        BY <1>1, <1>7, <2>2, <4>1, Served
    <3>3. UNCHANGED <<jobs, quotes, notes>>
      BY <1>0, <1>7, <3>2, Transacted DEF ServeBoth
    <3>. QED
      BY <3>1, <3>3, NeitherServes
  <2>3. CASE Permitted(c)
    <3>1. AcceptQuote(r)
      BY <1>0, <1>7, <2>3, Transacted DEF ServeBoth
    <3>2. /\ CanAccept(j, q)
          /\ quotes' = QuotesIfAccepted(j, q)
          /\ jobs' = [jobs EXCEPT ![j].status = "ACCEPTED", ![j].agreed = q,
                          ![j].provider = IF @ = None THEN quotes[q].provider ELSE @]
          /\ notes' = notes
      BY <1>0, <1>1, <3>1 DEF AcceptQuote
    <3>3. mem' = MemAcceptQuote(j, q)
      BY <1>1, <1>3, <1>7, <2>1, <2>3, Served
    <3>4. Readable(j) /\ ~DeletedLate(j)
      BY <3>2 DEF CanAccept, Readable, DeletedLate
    <3>5. MemLive(j) = LiveQuotes(j)
      BY <1>2, SameReads
    <3>6. q \in DOMAIN quotes
      BY <3>2 DEF CanAccept, QuotesOn
    <3>7. quotes[q] \in QuoteRow /\ q \in Nat
      BY <1>2, <3>6 DEF TypeOK
    <3>8. PICK w : w = quotes[q].provider /\ w \in Providers
      BY <3>7 DEF QuoteRow
    <3>9. Holds(mem', [mem.jobs EXCEPT ![j] = Taken(mem.jobs[j], q, w)],
                mem.deleted, QuotesIfAccepted(j, q), mem.updates)
      BY <1>2, <3>3, <3>5, <3>7, <3>8, MemOffers DEF QuotesIfAccepted
    <3>10. /\ MemType'
           /\ \A x \in Jobs \ {j} : jobs'[x] = jobs[x] /\ mem'.jobs[x] = mem.jobs[x]
      <4>1. Taken(mem.jobs[j], q, w) \in MemRow
        <5>1. mem.jobs[j] \in MemRow
          BY <1>2 DEF MemType
        <5>. QED
          BY <3>7, <3>8, <5>1 DEF Taken, Payee, MemRow, JobStatus, AgreedStatus
      <4>2. \A x \in Jobs \ {j} : jobs'[x] = jobs[x]
        BY <1>2, <3>2
      <4>. QED
        BY <1>2, <3>9, <4>1, <4>2 DEF MemType, Holds
    <3>13. /\ jobs'[j].deleted = jobs[j].deleted
           /\ mem'.jobs[j] = [status |-> jobs'[j].status, provider |-> jobs'[j].provider,
                              agreed |-> jobs'[j].agreed, location |-> jobs'[j].location]
      <4>1. /\ jobs'[j].status = "ACCEPTED" /\ jobs'[j].agreed = q
            /\ jobs'[j].provider = IF jobs[j].provider = None THEN w ELSE jobs[j].provider
            /\ jobs'[j].location = jobs[j].location /\ jobs'[j].deleted = jobs[j].deleted
        BY <1>2, <3>2, <3>8 DEF JobRow
      <4>2. mem'.jobs[j] = Taken(mem.jobs[j], q, w)
        BY <1>2, <3>9 DEF Holds, MemType
      <4>3. mem.jobs[j].provider = jobs[j].provider /\ mem.jobs[j].location = jobs[j].location
        BY <1>5, <3>4
      <4>. QED
        BY <4>1, <4>2, <4>3 DEF Taken, Payee
    <3>11. mem'.deleted = mem.deleted /\ mem'.updates = mem.updates /\ mem'.quotes = quotes'
      BY <3>2, <3>9 DEF Holds
    <3>12. \A x \in Jobs : MemJob(x)'
      BY <1>4, <3>2, <3>4, <3>10, <3>11, <3>13
    <3>. QED
      BY <3>10, <3>11, <3>12 DEF Agreeing
  <2>. QED
    BY <2>2, <2>3
<1>. QED
  BY <1>0, <1>6, <1>7

(* A transaction that moves the job's status, where each store's own checks  *)
(* let it.                                                                   *)
LEMMA MoveServed ==
    ASSUME MInv, NEW j \in Jobs, NEW to \in JobStatus \ CustomerMutable, NEW n \in {0, 1},
           NEW sql, NEW memory,
           ~DeletedLate(j) => (sql <=> memory),
           sql /\ jobs[j].status \in CustomerMutable => ~jobs[j].deleted,
           sql => jobs' = MovedTo(jobs, j, to) /\ notes' = Marked(notes, j, n),
           ~sql => jobs' = jobs /\ notes' = notes,
           quotes' = quotes,
           memory => Holds(mem', MovedTo(mem.jobs, j, to), mem.deleted, mem.quotes,
                           Marked(mem.updates, j, n)),
           ~memory => mem' = mem
    PROVE  Agreeing'
<1>1. CASE DeletedLate(j)
  <2>1. /\ \A x \in Jobs \ {j} : jobs'[x] = jobs[x] /\ notes'[x] = notes[x]
        /\ DeletedLate(j)'
    <3>0. jobs \in [Jobs -> JobRow] /\ notes \in [Jobs -> Nat]
      BY DEF MInv, TypeOK
    <3>1. CASE sql
      BY <1>1, <3>0, <3>1 DEF MovedTo, Marked, DeletedLate, JobRow
    <3>2. CASE ~sql
      BY <1>1, <3>2 DEF DeletedLate
    <3>. QED
      BY <3>1, <3>2
  <2>2. PICK marks : marks = Marked(mem.updates, j, n)
    OBVIOUS
  <2>3. marks \in [Jobs -> Nat] /\ \A x \in Jobs \ {j} : marks[x] = mem.updates[x]
    BY <2>2 DEF MInv, MemType, Marked
  <2>4. MemType' /\ mem'.quotes = quotes' /\ \A x \in Jobs : MemJob(x)'
    BY <1>1, <2>1, <2>2, <2>3, OnlyMemMoves
  <2>. QED
    BY <2>4 DEF Agreeing
<1>2. CASE ~DeletedLate(j) /\ sql
  <2>1. MemType' /\ mem'.quotes = quotes' /\ \A x \in Jobs : MemJob(x)'
    BY <1>2, BothMove
  <2>. QED
    BY <2>1 DEF Agreeing
<1>3. CASE ~DeletedLate(j) /\ ~sql
  BY <1>3, NeitherServes
<1>. QED
  BY <1>1, <1>2, <1>3

LEMMA MovesServed ==
    ASSUME MInv, NEW r \in Requests, ServeBoth(r),
           call[r].at \in {"schedule", "start", "complete", "confirm", "cancel"}
    PROVE  Agreeing'
<1>0. PICK c, j : c = call[r] /\ j = c.job
  OBVIOUS
<1>1. /\ j \in Jobs /\ MemType
      /\ jobs \in [Jobs -> JobRow] /\ notes \in [Jobs -> Nat] /\ mem.updates \in [Jobs -> Nat]
  BY <1>0 DEF MInv, TypeOK, MemType
<1>2. mem' = IF MemPermits(c) THEN MemResult(c) ELSE mem
  BY <1>0 DEF ServeBoth
<1>3. call[r].at \in Transactions /\ Proceed(r)
  BY DEF ServeBoth
<1>4. notes = Marked(notes, j, 0) /\ mem.updates = Marked(mem.updates, j, 0)
  BY <1>1 DEF Marked
<1>5. CASE c.at = "schedule"
  <2>1. /\ ScheduleJob(r) \/ (~Permitted(c) /\ UNCHANGED <<jobs, quotes, notes>>)
        /\ ScheduleJob(r) => /\ CanSchedule(j) /\ jobs' = MovedTo(jobs, j, "SCHEDULED") /\ quotes' = quotes
                             /\ notes' = notes
    <3>1. ScheduleJob(r) \/ (~Permitted(c) /\ UNCHANGED <<jobs, quotes, notes>>)
      BY <1>0, <1>3, <1>5, Transacted
    <3>2. ScheduleJob(r) => /\ CanSchedule(j) /\ jobs' = MovedTo(jobs, j, "SCHEDULED") /\ quotes' = quotes
                            /\ notes' = notes
      BY <1>0 DEF ScheduleJob, Moves, MovedTo
    <3>. QED
      BY <3>1, <3>2
  <2>2. /\ (Permitted(c) <=> CanSchedule(j)) /\ (MemPermits(c) <=> MemCanSchedule(j))
        /\ MemResult(c) = MemScheduleJob(j)
    BY <1>0, <1>5, Served
  <2>3. ~DeletedLate(j) => (CanSchedule(j) <=> MemCanSchedule(j))
    BY <1>1, SameChecks
  <2>4. CanSchedule(j) /\ jobs[j].status \in CustomerMutable => ~jobs[j].deleted
    BY DEF CanSchedule, Readable
  <2>5. Holds(MemScheduleJob(j), MovedTo(mem.jobs, j, "SCHEDULED"), mem.deleted, mem.quotes, mem.updates)
    BY <1>1, MemWrites
  <2>6. "SCHEDULED" \in JobStatus \ CustomerMutable
    BY DEF JobStatus, AgreedStatus, CustomerMutable
  <2>7. /\ CanSchedule(j) => jobs' = MovedTo(jobs, j, "SCHEDULED") /\ notes' = Marked(notes, j, 0)
        /\ ~CanSchedule(j) => jobs' = jobs /\ notes' = notes
        /\ quotes' = quotes
        /\ MemCanSchedule(j) => Holds(mem', MovedTo(mem.jobs, j, "SCHEDULED"), mem.deleted, mem.quotes,
                                 Marked(mem.updates, j, 0))
        /\ ~MemCanSchedule(j) => mem' = mem
    BY <1>2, <1>4, <2>1, <2>2, <2>5
  <2>. QED
    BY <1>1, <2>3, <2>4, <2>6, <2>7, MoveServed
<1>6. CASE c.at = "start"
  <2>1. /\ StartJob(r) \/ (~Permitted(c) /\ UNCHANGED <<jobs, quotes, notes>>)
        /\ StartJob(r) => /\ CanStart(j) /\ jobs' = MovedTo(jobs, j, "IN_PROGRESS") /\ quotes' = quotes
                          /\ notes' = notes
    <3>1. StartJob(r) \/ (~Permitted(c) /\ UNCHANGED <<jobs, quotes, notes>>)
      BY <1>0, <1>3, <1>6, Transacted
    <3>2. StartJob(r) => /\ CanStart(j) /\ jobs' = MovedTo(jobs, j, "IN_PROGRESS") /\ quotes' = quotes
                         /\ notes' = notes
      BY <1>0 DEF StartJob, Moves, MovedTo
    <3>. QED
      BY <3>1, <3>2
  <2>2. /\ (Permitted(c) <=> CanStart(j)) /\ (MemPermits(c) <=> MemCanStart(j))
        /\ MemResult(c) = MemStartJob(j)
    BY <1>0, <1>6, Served
  <2>3. ~DeletedLate(j) => (CanStart(j) <=> MemCanStart(j))
    BY <1>1, SameChecks
  <2>4. CanStart(j) /\ jobs[j].status \in CustomerMutable => ~jobs[j].deleted
    BY DEF CanStart, Readable
  <2>5. Holds(MemStartJob(j), MovedTo(mem.jobs, j, "IN_PROGRESS"), mem.deleted, mem.quotes, mem.updates)
    BY <1>1, MemWrites
  <2>6. "IN_PROGRESS" \in JobStatus \ CustomerMutable
    BY DEF JobStatus, AgreedStatus, CustomerMutable
  <2>7. /\ CanStart(j) => jobs' = MovedTo(jobs, j, "IN_PROGRESS") /\ notes' = Marked(notes, j, 0)
        /\ ~CanStart(j) => jobs' = jobs /\ notes' = notes
        /\ quotes' = quotes
        /\ MemCanStart(j) => Holds(mem', MovedTo(mem.jobs, j, "IN_PROGRESS"), mem.deleted, mem.quotes,
                                 Marked(mem.updates, j, 0))
        /\ ~MemCanStart(j) => mem' = mem
    BY <1>2, <1>4, <2>1, <2>2, <2>5
  <2>. QED
    BY <1>1, <2>3, <2>4, <2>6, <2>7, MoveServed
<1>7. CASE c.at = "complete"
  <2>1. /\ CompleteJob(r) \/ (~Permitted(c) /\ UNCHANGED <<jobs, quotes, notes>>)
        /\ CompleteJob(r) => /\ CanComplete(j) /\ jobs' = MovedTo(jobs, j, "COMPLETED") /\ quotes' = quotes
                             /\ notes' = Marked(notes, j, 1)
    <3>1. CompleteJob(r) \/ (~Permitted(c) /\ UNCHANGED <<jobs, quotes, notes>>)
      BY <1>0, <1>3, <1>7, Transacted
    <3>2. CompleteJob(r) => /\ CanComplete(j) /\ jobs' = MovedTo(jobs, j, "COMPLETED") /\ quotes' = quotes
                            /\ notes' = Marked(notes, j, 1)
      BY <1>0 DEF CompleteJob, Moves, MovedTo, Marked
    <3>. QED
      BY <3>1, <3>2
  <2>2. /\ (Permitted(c) <=> CanComplete(j)) /\ (MemPermits(c) <=> MemCanComplete(j))
        /\ MemResult(c) = MemCompleteJob(j)
    BY <1>0, <1>7, Served
  <2>3. ~DeletedLate(j) => (CanComplete(j) <=> MemCanComplete(j))
    BY <1>1, SameReads DEF CanComplete, MemCanComplete, Readable, DeletedLate, CustomerMutable
  <2>4. CanComplete(j) /\ jobs[j].status \in CustomerMutable => ~jobs[j].deleted
    BY DEF CanComplete, CustomerMutable
  <2>5. Holds(MemCompleteJob(j), MovedTo(mem.jobs, j, "COMPLETED"), mem.deleted, mem.quotes, Marked(mem.updates, j, 1))
    BY <1>1, MemWrites
  <2>6. "COMPLETED" \in JobStatus \ CustomerMutable
    BY DEF JobStatus, AgreedStatus, CustomerMutable
  <2>7. /\ CanComplete(j) => jobs' = MovedTo(jobs, j, "COMPLETED") /\ notes' = Marked(notes, j, 1)
        /\ ~CanComplete(j) => jobs' = jobs /\ notes' = notes
        /\ quotes' = quotes
        /\ MemCanComplete(j) => Holds(mem', MovedTo(mem.jobs, j, "COMPLETED"), mem.deleted, mem.quotes,
                                 Marked(mem.updates, j, 1))
        /\ ~MemCanComplete(j) => mem' = mem
    BY <1>2, <1>4, <2>1, <2>2, <2>5
  <2>. QED
    BY <1>1, <2>3, <2>4, <2>6, <2>7, MoveServed
<1>8. CASE c.at = "confirm"
  <2>1. /\ ConfirmJob(r) \/ (~Permitted(c) /\ UNCHANGED <<jobs, quotes, notes>>)
        /\ ConfirmJob(r) => /\ CanConfirm(j) /\ jobs' = MovedTo(jobs, j, "CLOSED") /\ quotes' = quotes
                            /\ notes' = notes
    <3>1. ConfirmJob(r) \/ (~Permitted(c) /\ UNCHANGED <<jobs, quotes, notes>>)
      BY <1>0, <1>3, <1>8, Transacted
    <3>2. ConfirmJob(r) => /\ CanConfirm(j) /\ jobs' = MovedTo(jobs, j, "CLOSED") /\ quotes' = quotes
                           /\ notes' = notes
      BY <1>0 DEF ConfirmJob, MovedTo
    <3>. QED
      BY <3>1, <3>2
  <2>2. /\ (Permitted(c) <=> CanConfirm(j)) /\ (MemPermits(c) <=> MemCanConfirm(j))
        /\ MemResult(c) = MemConfirmJob(j)
    BY <1>0, <1>8, Served
  <2>3. ~DeletedLate(j) => (CanConfirm(j) <=> MemCanConfirm(j))
    BY <1>1, SameReads DEF CanConfirm, MemCanConfirm, Readable, DeletedLate, CustomerMutable
  <2>4. CanConfirm(j) /\ jobs[j].status \in CustomerMutable => ~jobs[j].deleted
    BY DEF CanConfirm, CustomerMutable
  <2>5. Holds(MemConfirmJob(j), MovedTo(mem.jobs, j, "CLOSED"), mem.deleted, mem.quotes, mem.updates)
    BY <1>1, MemWrites
  <2>6. "CLOSED" \in JobStatus \ CustomerMutable
    BY DEF JobStatus, AgreedStatus, CustomerMutable
  <2>7. /\ CanConfirm(j) => jobs' = MovedTo(jobs, j, "CLOSED") /\ notes' = Marked(notes, j, 0)
        /\ ~CanConfirm(j) => jobs' = jobs /\ notes' = notes
        /\ quotes' = quotes
        /\ MemCanConfirm(j) => Holds(mem', MovedTo(mem.jobs, j, "CLOSED"), mem.deleted, mem.quotes,
                                 Marked(mem.updates, j, 0))
        /\ ~MemCanConfirm(j) => mem' = mem
    BY <1>2, <1>4, <2>1, <2>2, <2>5
  <2>. QED
    BY <1>1, <2>3, <2>4, <2>6, <2>7, MoveServed
<1>9. CASE c.at = "cancel"
  <2>1. /\ CancelJob(r) \/ (~Permitted(c) /\ UNCHANGED <<jobs, quotes, notes>>)
        /\ CancelJob(r) => /\ CanChange(j) /\ jobs' = MovedTo(jobs, j, "CANCELLED") /\ quotes' = quotes
                           /\ notes' = notes
    <3>1. CancelJob(r) \/ (~Permitted(c) /\ UNCHANGED <<jobs, quotes, notes>>)
      BY <1>0, <1>3, <1>9, Transacted
    <3>2. CancelJob(r) => /\ CanChange(j) /\ jobs' = MovedTo(jobs, j, "CANCELLED") /\ quotes' = quotes
                          /\ notes' = notes
      BY <1>0 DEF CancelJob, Moves, MovedTo
    <3>. QED
      BY <3>1, <3>2
  <2>2. /\ (Permitted(c) <=> CanChange(j)) /\ (MemPermits(c) <=> RequireMutable(j))
        /\ MemResult(c) = MemCancelJob(j)
    BY <1>0, <1>9, Served
  <2>3. ~DeletedLate(j) => (CanChange(j) <=> RequireMutable(j))
    BY <1>1, SameChecks
  <2>4. CanChange(j) /\ jobs[j].status \in CustomerMutable => ~jobs[j].deleted
    BY DEF CanChange, Readable
  <2>5. Holds(MemCancelJob(j), MovedTo(mem.jobs, j, "CANCELLED"), mem.deleted, mem.quotes, mem.updates)
    BY <1>1, MemWrites
  <2>6. "CANCELLED" \in JobStatus \ CustomerMutable
    BY DEF JobStatus, AgreedStatus, CustomerMutable
  <2>7. /\ CanChange(j) => jobs' = MovedTo(jobs, j, "CANCELLED") /\ notes' = Marked(notes, j, 0)
        /\ ~CanChange(j) => jobs' = jobs /\ notes' = notes
        /\ quotes' = quotes
        /\ RequireMutable(j) => Holds(mem', MovedTo(mem.jobs, j, "CANCELLED"), mem.deleted, mem.quotes,
                                 Marked(mem.updates, j, 0))
        /\ ~RequireMutable(j) => mem' = mem
    BY <1>2, <1>4, <2>1, <2>2, <2>5
  <2>. QED
    BY <1>1, <2>3, <2>4, <2>6, <2>7, MoveServed
<1>. QED
  BY <1>0, <1>5, <1>6, <1>7, <1>8, <1>9

(* An edit is refused by both stores or by neither. *)
LEMMA UpdateServed ==
    ASSUME MInv, NEW r \in Requests, ServeBoth(r), call[r].at = "update"
    PROVE  Agreeing'
<1>0. PICK c, j, loc : c = call[r] /\ j = c.job /\ loc = c.location
  OBVIOUS
<1>1. /\ j \in Jobs /\ MemType /\ jobs \in [Jobs -> JobRow] /\ mem.quotes = quotes
      /\ loc \in Locations \cup {None}
  BY <1>0 DEF MInv, TypeOK, Call
<1>2. mem' = IF MemPermits(c) THEN MemResult(c) ELSE mem
  BY <1>0 DEF ServeBoth
<1>3. UpdateJob(r) \/ (~Permitted(c) /\ UNCHANGED <<jobs, quotes, notes>>)
  <2>1. call[r].at \in Transactions /\ Proceed(r)
    BY DEF ServeBoth
  <2>. QED
    BY <1>0, <2>1, Transacted
<1>4. UpdateJob(r) => /\ CanChange(j) /\ jobs' = [jobs EXCEPT ![j].location = loc]
                      /\ quotes' = quotes /\ notes' = notes
  BY <1>0 DEF UpdateJob
<1>5. (Permitted(c) <=> CanChange(j)) /\ (MemPermits(c) <=> CanChange(j))
      /\ MemResult(c) = MemUpdateJob(j, loc)
  <2>1. RequireMutable(j) <=> CanChange(j)
    BY <1>1, SameChecks
  <2>. QED
    BY <1>0, <2>1, Served
<1>6. CASE ~CanChange(j)
  BY <1>2, <1>3, <1>4, <1>5, <1>6, NeitherServes
<1>7. CASE CanChange(j)
  <2>1. /\ jobs' = [jobs EXCEPT ![j].location = loc] /\ quotes' = quotes /\ notes' = notes
        /\ mem' = MemUpdateJob(j, loc)
    BY <1>2, <1>3, <1>4, <1>5, <1>7
  <2>2. PICK rows : rows = mem.jobs /\ rows \in [Jobs -> MemRow]
    BY <1>1 DEF MemType
  <2>3. Holds(mem', [rows EXCEPT ![j].location = loc], mem.deleted, mem.quotes, mem.updates)
    BY <1>1, <2>1, <2>2, MemWrites
  <2>4. Readable(j) /\ ~DeletedLate(j)
    BY <1>7 DEF CanChange, Readable, DeletedLate
  <2>5. rows[j] = [status |-> jobs[j].status, provider |-> jobs[j].provider,
                   agreed |-> jobs[j].agreed, location |-> jobs[j].location]
    BY <1>1, <2>2, <2>4 DEF MInv, MemJob, SameJob
  <2>6. PICK new : new = [rows EXCEPT ![j].location = loc]
    OBVIOUS
  <2>7. /\ new \in [Jobs -> MemRow]
        /\ \A x \in Jobs \ {j} : new[x] = rows[x]
        /\ new[j] = [rows[j] EXCEPT !.location = loc]
    <3>1. PICK R : R = MemRow
      OBVIOUS
    <3>2. rows[j] \in MemRow
      BY <1>1, <2>2
    <3>3. [rows[j] EXCEPT !.location = loc] \in R
      BY <1>1, <3>1, <3>2 DEF MemRow
    <3>. QED
      BY <1>1, <2>2, <2>6, <3>1, <3>3
  <2>8. new[j] = [status |-> jobs[j].status, provider |-> jobs[j].provider,
                  agreed |-> jobs[j].agreed, location |-> loc]
    BY <2>5, <2>7
  <2>9. /\ \A x \in Jobs \ {j} : jobs'[x] = jobs[x]
        /\ jobs'[j].status = jobs[j].status /\ jobs'[j].provider = jobs[j].provider
        /\ jobs'[j].agreed = jobs[j].agreed /\ jobs'[j].location = loc
        /\ jobs'[j].deleted = jobs[j].deleted
    BY <1>1, <2>1 DEF JobRow
  <2>10. /\ mem'.jobs = new /\ mem'.deleted = mem.deleted /\ mem'.updates = mem.updates
         /\ mem'.quotes = mem.quotes
    BY <2>3, <2>6 DEF Holds
  <2>11. MemType'
    BY <1>1, <2>3, <2>7, <2>10 DEF MemType, Holds
  <2>12. \A x \in Jobs : MemJob(x)'
    <3>1. \A x \in Jobs \ {j} : jobs'[x] = jobs[x] /\ mem'.jobs[x] = mem.jobs[x]
      BY <2>2, <2>7, <2>9, <2>10
    <3>2. mem'.jobs[j] = [status |-> jobs'[j].status, provider |-> jobs'[j].provider,
                          agreed |-> jobs'[j].agreed, location |-> jobs'[j].location]
      BY <2>8, <2>9, <2>10
    <3>. QED
      BY <1>1, <2>1, <2>4, <2>9, <2>10, <3>1, <3>2, OneJobAgrees
  <2>. QED
    BY <1>1, <2>1, <2>10, <2>11, <2>12 DEF Agreeing
<1>. QED
  BY <1>6, <1>7

(* MySQL always deletes; the in-memory store does while the job is mutable,   *)
(* and a job it keeps is one MySQL has deleted late, or deleted before.       *)
LEMMA DeleteServed ==
    ASSUME MInv, NEW r \in Requests, ServeBoth(r), call[r].at = "delete"
    PROVE  Agreeing'
<1>0. PICK c, j : c = call[r] /\ j = c.job
  OBVIOUS
<1>1. j \in Jobs /\ MemType /\ jobs \in [Jobs -> JobRow] /\ mem.quotes = quotes
  BY <1>0 DEF MInv, TypeOK
<1>2. mem' = IF CanChange(j) THEN MemDeleteJob(j) ELSE mem
  <2>1. mem' = IF MemPermits(c) THEN MemResult(c) ELSE mem
    BY <1>0 DEF ServeBoth
  <2>2. RequireMutable(j) <=> CanChange(j)
    BY <1>1, SameChecks
  <2>. QED
    BY <1>0, <2>1, <2>2, Served
<1>3. jobs' = [jobs EXCEPT ![j].deleted = TRUE] /\ quotes' = quotes /\ notes' = notes
  <2>1. call[r].at \in Transactions /\ Proceed(r)
    BY DEF ServeBoth
  <2>2. Permitted(c)
    BY <1>0, Served
  <2>3. DeleteJob(r)
    BY <1>0, <2>1, <2>2, Transacted
  <2>. QED
    BY <1>0, <2>3 DEF DeleteJob
<1>4. /\ \A x \in Jobs \ {j} : jobs'[x] = jobs[x]
      /\ jobs'[j].status = jobs[j].status /\ jobs'[j].provider = jobs[j].provider
      /\ jobs'[j].agreed = jobs[j].agreed /\ jobs'[j].location = jobs[j].location
      /\ jobs'[j].deleted = TRUE
  BY <1>1, <1>3 DEF JobRow
<1>5. CASE CanChange(j)
  <2>1. Holds(mem', mem.jobs, mem.deleted \cup {j}, mem.quotes, mem.updates)
    BY <1>1, <1>2, <1>5, MemWrites
  <2>2. MemType' /\ mem'.quotes = quotes'
    BY <1>1, <1>3, <2>1 DEF MemType, Holds
  <2>3. \A x \in Jobs \ {j} : MemJob(x)'
    <3>1. \A x \in Jobs \ {j} : Untouched(x)
      BY <1>3, <1>4, <2>1 DEF Untouched, Holds
    <3>. QED
      BY <3>1, UntouchedAgrees DEF MInv
  <2>4. MemJob(j)'
    <3>1. ~DeletedLate(j) /\ ~DeletedLate(j)'
      BY <1>4, <1>5 DEF DeletedLate, CanChange, Readable
    <3>2. SameJob(j)
      BY <1>1, <3>1 DEF MInv, MemJob
    <3>3. SameJob(j)'
      BY <1>3, <1>4, <2>1, <3>2 DEF SameJob, Holds
    <3>. QED
      BY <3>1, <3>3 DEF MemJob
  <2>. QED
    BY <2>2, <2>3, <2>4 DEF Agreeing
<1>6. CASE ~CanChange(j)
  <2>1. mem' = mem
    BY <1>2, <1>6
  <2>2. \A x \in Jobs \ {j} : MemJob(x)'
    <3>1. \A x \in Jobs \ {j} : Untouched(x)
      BY <1>3, <1>4, <2>1 DEF Untouched
    <3>. QED
      BY <3>1, UntouchedAgrees DEF MInv
  <2>3. MemJob(j)'
    <3>1. CASE jobs[j].deleted
      <4>1. jobs'[j].deleted <=> jobs[j].deleted
        BY <1>4, <3>1
      <4>2. MemJob(j)
        BY <1>1 DEF MInv
      <4>. QED
        BY <1>3, <1>4, <2>1, <4>1, <4>2 DEF MemJob, SameJob, DeletedLate, MemStatus
    <3>2. CASE ~jobs[j].deleted
      <4>1. jobs[j].status \notin CustomerMutable /\ ~DeletedLate(j)
        BY <1>6, <3>2 DEF CanChange, Readable, DeletedLate, CustomerMutable
      <4>2. MemStatus(j) = jobs[j].status
        BY <1>1, <4>1, SameReads
      <4>3. MemStatus(j)' \notin CustomerMutable /\ DeletedLate(j)'
        BY <1>4, <2>1, <4>1, <4>2 DEF MemStatus, DeletedLate
      <4>. QED
        BY <4>3 DEF MemJob
    <3>. QED
      BY <3>1, <3>2
  <2>. QED
    BY <1>1, <1>3, <2>1, <2>2, <2>3 DEF Agreeing, MemType
<1>. QED
  BY <1>5, <1>6

(* The first INSERT writes the same row in both. *)
LEMMA SubmitServed ==
    ASSUME MInv, NEW r \in Requests, Submit(r)
    PROVE  Agreeing'
<1>0. PICK j \in Jobs, p \in Providers \cup {None}, loc \in Locations :
          CreateJob(r, j, p, loc) /\ mem' = MemCreateJob(j, p, loc)
  BY DEF Submit
<1>1. MemType /\ jobs \in [Jobs -> JobRow] /\ mem.quotes = quotes
  BY DEF MInv, TypeOK
<1>2. PICK row, dto : /\ row = [NoJob EXCEPT !.status = "REQUESTED", !.provider = p,
                                            !.location = loc]
                      /\ dto = [status |-> "REQUESTED", provider |-> p, agreed |-> 0,
                                 location |-> loc]
  OBVIOUS
<1>3. /\ jobs[j].status = "ABSENT" /\ jobs' = [jobs EXCEPT ![j] = row]
      /\ quotes' = quotes /\ notes' = notes
  BY <1>0, <1>2 DEF CreateJob
<1>9. /\ row.status = "REQUESTED" /\ row.provider = p /\ row.agreed = 0
      /\ row.location = loc /\ row.deleted = FALSE
  <2>1. PICK a, b : /\ a = [NoJob EXCEPT !.status = "REQUESTED"]
                    /\ b = [a EXCEPT !.provider = p]
    OBVIOUS
  <2>2. /\ DOMAIN a = DOMAIN NoJob /\ a.status = "REQUESTED" /\ a.agreed = 0
        /\ a.deleted = FALSE
    BY <2>1 DEF NoJob
  <2>3. DOMAIN NoJob = {"status", "provider", "agreed", "location", "deleted"}
    BY DEF NoJob
  <2>4. /\ DOMAIN b = DOMAIN a /\ b.status = "REQUESTED" /\ b.agreed = 0
        /\ b.deleted = FALSE /\ b.provider = p
    BY <2>1, <2>2, <2>3
  <2>5. row = [b EXCEPT !.location = loc]
    BY <1>2, <2>1
  <2>. QED
    BY <2>2, <2>3, <2>4, <2>5
<1>4. Holds(mem', [mem.jobs EXCEPT ![j] = dto], mem.deleted, mem.quotes, mem.updates)
  BY <1>0, <1>1, <1>2, MemWrites
<1>5. dto \in MemRow
  BY <1>2 DEF MemRow, JobStatus, CustomerMutable
<1>6. MemType' /\ mem'.quotes = quotes'
  BY <1>1, <1>3, <1>4, <1>5 DEF MemType, Holds
<1>7. \A x \in Jobs \ {j} : MemJob(x)'
  <2>1. \A x \in Jobs \ {j} : Untouched(x)
    BY <1>1, <1>3, <1>4 DEF Untouched, Holds, MemType
  <2>. QED
    BY <2>1, UntouchedAgrees DEF MInv
<1>8. MemJob(j)'
  <2>1. jobs'[j] = row /\ mem'.jobs[j] = dto
    BY <1>1, <1>3, <1>4 DEF Holds, MemType
  <2>2. ~DeletedLate(j) /\ ~jobs[j].deleted /\ ~DeletedLate(j)'
    BY <1>3, <1>9, <2>1 DEF MInv, Uninserted, DeletedLate
  <2>3. SameJob(j)
    BY <2>2 DEF MInv, MemJob
  <2>4. SameJob(j)'
    <3>1. mem'.jobs[j] = [status |-> jobs'[j].status, provider |-> jobs'[j].provider,
                          agreed |-> jobs'[j].agreed, location |-> jobs'[j].location]
      BY <1>2, <1>9, <2>1
    <3>2. mem'.deleted = mem.deleted /\ mem'.updates = mem.updates /\ notes' = notes
      BY <1>3, <1>4 DEF Holds
    <3>3. ~jobs[j].deleted /\ ~jobs'[j].deleted
      BY <1>9, <2>1, <2>2
    <3>. QED
      BY <2>3, <3>1, <3>2, <3>3 DEF SameJob
  <2>. QED
    BY <2>2, <2>4 DEF MemJob
<1>. QED
  BY <1>6, <1>7, <1>8 DEF Agreeing

LEMMA AbsentStays ==
    ASSUME TypeOK, [Next]_vars, NEW j \in Jobs, jobs'[j].status = "ABSENT"
    PROVE  jobs'[j] = jobs[j]
<1>1. jobs \in [Jobs -> JobRow]
  BY DEF TypeOK
<1>2. \A r \in Requests : call[r].at # "idle" => /\ call[r].job \in Jobs
                                                 /\ jobs[call[r].job].status # "ABSENT"
  BY DEF TypeOK
<1>3. ASSUME NEW r \in Requests, Arrive(r) PROVE jobs'[j] = jobs[j]
  <2>1. ASSUME NEW x \in Jobs, NEW p, NEW loc, CreateJob(r, x, p, loc)
        PROVE  jobs'[j] = jobs[j]
    BY <1>1, <2>1 DEF CreateJob, NoJob
  <2>. QED
    BY <1>3, <2>1, ArriveBegins DEF Begin
<1>4. ASSUME NEW x, NEW from, NEW to, Moves(x, from, to), to # "ABSENT" PROVE jobs'[j] = jobs[j]
  BY <1>1, <1>4 DEF Moves, JobRow
<1>5. ASSUME NEW r \in Requests,
             \/ ScheduleJob(r) \/ StartJob(r) \/ CompleteJob(r) \/ CancelJob(r) \/ CreateQuote(r)
      PROVE  jobs'[j] = jobs[j]
  <2>1. CASE jobs' = jobs
    BY <2>1
  <2>. QED
    BY <1>4, <1>5, <2>1 DEF ScheduleJob, StartJob, CompleteJob, CancelJob, CreateQuote, QuoteMovesJob
<1>6. ASSUME NEW r \in Requests, ConfirmJob(r) PROVE jobs'[j] = jobs[j]
  BY <1>1, <1>6 DEF ConfirmJob, JobRow
<1>7. ASSUME NEW r \in Requests, UpdateJob(r) \/ DeleteJob(r) PROVE jobs'[j] = jobs[j]
  BY <1>1, <1>2, <1>7 DEF UpdateJob, DeleteJob, JobRow
<1>8. ASSUME NEW r \in Requests, AcceptQuote(r) PROVE jobs'[j] = jobs[j]
  BY <1>1, <1>8 DEF AcceptQuote, JobRow
<1>9. ASSUME NEW r \in Requests, Fail(r) PROVE jobs' = jobs
  BY <1>9 DEF Fail, Die, WarningLost
<1>. QED
  BY <1>3, <1>5, <1>6, <1>7, <1>8, <1>9
     DEF Next, vars, Proceed, InsertCreationRow, InsertAssignment, AnnounceRequest, AnnounceQuote,
         AnnounceUpdate, AnnounceCancel, WarnDelete, Announce, NothingToAnnounce, Refuse

(* What follows a commit is no transaction. *)
LEMMA CommitsApart ==
    ASSUME NEW r, AfterCommit(r)
    PROVE  ~(\/ CreateQuote(r) \/ AcceptQuote(r) \/ ScheduleJob(r) \/ StartJob(r)
             \/ CompleteJob(r) \/ ConfirmJob(r) \/ UpdateJob(r) \/ CancelJob(r) \/ DeleteJob(r)
             \/ Refuse(r))
<1>1. call[r].at \notin Transactions
  BY DEF AfterCommit
<1>2. ~CreateQuote(r) /\ ~AcceptQuote(r) /\ ~ScheduleJob(r) /\ ~StartJob(r) /\ ~CompleteJob(r)
  BY <1>1 DEF Transactions, CreateQuote, AcceptQuote, ScheduleJob, StartJob, CompleteJob
<1>3. ~ConfirmJob(r) /\ ~UpdateJob(r) /\ ~CancelJob(r) /\ ~DeleteJob(r) /\ ~Refuse(r)
  BY <1>1 DEF Transactions, ConfirmJob, UpdateJob, CancelJob, DeleteJob, Refuse
<1>. QED
  BY <1>2, <1>3

(* The services' own steps write none of the tables the stores share. *)
LEMMA ServicesRead ==
    ASSUME NEW r \in Requests, ServiceStep(r) \/ AfterCommit(r)
    PROVE  mem' = mem /\ UNCHANGED <<jobs, quotes, notes>>
<1>1. CASE ServiceStep(r)
  <2>1. ASSUME NEW x, NEW p, NEW loc, CreateJob(r, x, p, loc) PROVE UNCHANGED <<quotes, notes>>
    BY <2>1 DEF CreateJob
  <2>. QED
    BY <1>1, <2>1, ArriveBegins DEF ServiceStep, Begin
<1>2. CASE AfterCommit(r)
  BY <1>2, CommitsApart
     DEF AfterCommit, Proceed, InsertCreationRow, InsertAssignment, AnnounceRequest, AnnounceQuote,
         AnnounceUpdate, AnnounceCancel, WarnDelete, Announce, NothingToAnnounce
<1>. QED
  BY <1>1, <1>2

LEMMA LockstepStep == MInv /\ [LockstepNext]_lockstep => MInv'
<1>. SUFFICES ASSUME MInv, [LockstepNext]_lockstep PROVE MInv'
  OBVIOUS
<1>0. TypeOK /\ [Next]_vars
  BY LockstepSteps DEF MInv
<1>1. TypeOK'
  BY <1>0, NextType
<1>2. \A j \in Jobs : Uninserted(j)'
  BY <1>0, AbsentStays DEF MInv, Uninserted
<1>3. Agreeing'
  <2>1. CASE UNCHANGED lockstep
    BY <2>1, NeitherServes DEF lockstep, vars
  <2>2. ASSUME NEW r \in Requests, ServeBoth(r) PROVE Agreeing'
    <3>1. call[r].at \in Transactions
      BY <2>2 DEF ServeBoth
    <3>. QED
      BY <2>2, <3>1, OffersServed, MovesServed, UpdateServed, DeleteServed DEF Transactions
  <2>3. ASSUME NEW r \in Requests, ServiceStep(r) \/ AfterCommit(r) PROVE Agreeing'
    BY <2>3, ServicesRead, NeitherServes
  <2>. QED
    BY <2>1, <2>2, <2>3, SubmitServed DEF LockstepNext
<1>. QED
  BY <1>1, <1>2, <1>3 DEF MInv, Agreeing

LEMMA LockstepStart == LockstepInit => MInv
<1>. SUFFICES ASSUME LockstepInit PROVE MInv
  OBVIOUS
<1>1. TypeOK
  BY InitType DEF LockstepInit
<1>2. MemType /\ mem.quotes = quotes
  BY DEF LockstepInit, Init, MemInit, MemType, MemFields, MemRow, JobStatus
<1>3. \A j \in Jobs : SameJob(j) /\ ~DeletedLate(j) /\ Uninserted(j)
  BY DEF LockstepInit, Init, MemInit, SameJob, NoJob, DeletedLate, Uninserted
<1>. QED
  BY <1>1, <1>2, <1>3 DEF MInv, MemJob

(* Whatever calls were made, in whatever order and overlapping as they may,  *)
(* the maps and arrays of the in-memory stores hold the jobs, quotes and     *)
(* notes of the tables: no check of one store is missing or stricter in the  *)
(* other and no assignment is forgotten, but for the jobs that MySQL deletes *)
(* past the point where the in-memory store would.                           *)
THEOREM StoresKeepStep == LockstepSpec => []StoresAgree
<1>1. MInv => StoresAgree
  <2>. SUFFICES ASSUME MInv, NEW j \in Jobs, ~DeletedLate(j) PROVE SameJob(j)
    BY DEF StoresAgree, SameJob, MInv
  <2>. QED
    BY DEF MInv, MemJob
<1>. QED
  BY <1>1, LockstepStart, LockstepStep, PTL DEF LockstepSpec

(* The endpoints' own writes, photos and notes of work, change no job.       *)
THEOREM StoresKeepStepUnderApi == ApiSpec => []StoresAgree
<1>1. ApiInit => LockstepInit
  BY DEF ApiInit
<1>2. [ApiNext]_apiVars => [LockstepNext]_lockstep
  BY DEF ApiNext, apiVars
<1>3. ApiSpec => LockstepSpec
  BY <1>1, <1>2, PTL DEF ApiSpec, LockstepSpec
<1>. QED
  BY <1>3, StoresKeepStep, PTL
-----------------------------------------------------------------------------
(* Who sees what *)

(* What the stores' reads return for a job of the model, and for its quotes. *)
LEMMA SqlJob ==
    ASSUME NEW j \in Jobs, MarketplaceRow(Sql, j)
    PROVE  Readable(j) /\ Sql.job[j] = JobDto(j)
<1>1. Sql.job[j] = JobRead(j, j \in Jobs /\ Readable(j), JobDto(j))
  BY DEF Sql, JobIds
<1>2. Readable(j)
  BY <1>1, OutsidersAssumption DEF JobRead, MarketplaceRow
<1>. QED
  BY <1>1, <1>2 DEF JobRead

LEMMA SqlQuotes ==
    ASSUME NEW j \in Jobs, NEW q \in QuotesOf(Sql, j)
    PROVE  q \in QuotesOn(j) /\ Sql.quote[q] = quotes[q]
<1>1. /\ DOMAIN Sql.quote = QuoteIds
      /\ \A x \in QuoteIds : Sql.quote[x] = GetQuoteById(x)
  BY DEF Sql
<1>2. q \in QuoteIds /\ GetQuoteById(q) # None /\ GetQuoteById(q).job = j
  BY <1>1 DEF QuotesOf
<1>3. q \in DOMAIN quotes
  BY <1>2, OutsidersAssumption DEF GetQuoteById, TheirQuote
<1>. QED
  BY <1>1, <1>2, <1>3 DEF GetQuoteById, QuotesOn

(* The endpoints that show a job with all its quotes answer its addressee,   *)
(* when whoever asks is no customer.                                         *)
LEMMA ShownToAddressee ==
    ASSUME NEW v, NEW u \in Users, NEW j, NEW reply
    PROVE  /\ ~IsCustomer(u)
           /\ AuthorizeProviderJob(v, u, j, reply) = 200 => IsAddressedTo(v, u, j)
           /\ AuthorizeJobQuotes(v, u, j, reply) = 200 => IsAddressedTo(v, u, j)
           /\ AuthorizeJobViewer(v, u, j, reply) = 200 => IsAddressedTo(v, u, j)
<1>1. ~IsCustomer(u)
  BY CallersAssumption, CustomerAssumption DEF IsCustomer
<1>2. AuthorizeProviderJob(v, u, j, reply) = 200 => IsAddressedTo(v, u, j)
  BY DEF AuthorizeProviderJob, Numeric, ResolveIdentity, Found
<1>3. AuthorizeJobQuotes(v, u, j, reply) = 200 => IsAddressedTo(v, u, j)
  BY <1>1 DEF AuthorizeJobQuotes, Found
<1>4. AuthorizeJobViewer(v, u, j, reply) = 200 => IsAddressedTo(v, u, j)
  BY <1>3 DEF AuthorizeJobViewer, Numeric
<1>. QED
  BY <1>1, <1>2, <1>3, <1>4

(* A quote on a job is its addressee's own, or the job is agreed.            *)
LEMMA AddresseesQuotes ==
    ASSUME IInv, NEW u \in Users, NEW j \in Jobs, IsAddressedTo(Sql, u, j), NEW q \in QuotesOn(j)
    PROVE  \/ quotes[q].provider \in Identity(u)
           \/ jobs[j].status \in AgreedStatus /\ u \in AddresseeUsers(j)
<1>1. jobs[j].provider \in Identity(u)
  <2>1. Sql.job[j] = JobDto(j)
    BY SqlJob DEF IsAddressedTo
  <2>2. Sql.job[j].provider = jobs[j].provider
    BY <2>1 DEF JobDto
  <2>. QED
    BY <2>2 DEF IsAddressedTo, ProviderRefs
<1>2. jobs[j].provider # None
  <2>1. Identity(u) \subseteq Providers
    BY ProfilesAssumption DEF Identity, Range
  <2>. QED
    BY <1>1, <2>1, NoneAssumption
<1>3. CASE jobs[j].status \in AgreedStatus
  BY <1>1, <1>2, <1>3 DEF AddresseeUsers, IsOpen, UsersOf
<1>4. CASE jobs[j].status \notin AgreedStatus
  <2>1. q \in LiveQuotes(j)
    BY <1>4 DEF IInv, JobInv, AllLiveBefore
  <2>2. quotes[q].provider = jobs[j].provider
    BY <1>2, <2>1 DEF IInv, JobInv, OffersFit
  <2>. QED
    BY <1>1, <2>2
<1>. QED
  BY <1>3, <1>4

LEMMA ShownAreMine ==
    ASSUME IInv, NEW u \in Users, NEW j \in Jobs, NEW q \in QuotesShown(Sql, u, j)
    PROVE  /\ q \in QuotesOf(Sql, j)
           /\ \/ quotes[q].provider \in Identity(u)
              \/ jobs[j].status \in AgreedStatus /\ u \in AddresseeUsers(j)
<1>1. q \in QuotesOf(Sql, j)
  BY DEF QuotesShown, ToProviderRequest, WithQuotes
<1>2. q \in QuotesOn(j) /\ Sql.quote[q] = quotes[q]
  BY <1>1, SqlQuotes
<1>3. CASE q \in ToProviderRequest(Sql, u, j)
  BY <1>2, <1>3 DEF ToProviderRequest, ProviderRefs
<1>4. CASE q \notin ToProviderRequest(Sql, u, j)
  <2>1. \/ 200 \in {ScheduleJobReply(Sql, u, j, TRUE), StartJobReply(Sql, u, j),
                     CompleteJobReply(Sql, u, j, TRUE), GetTimelineReply(Sql, u, j),
                     ListJobQuotesReply(Sql, u, j)}
        \/ GetQuoteReply(Sql, u, q) = 200
    BY <1>4 DEF QuotesShown
  <2>2. Sql.quote[q].job = j
    BY <1>1 DEF QuotesOf
  <2>3. IsAddressedTo(Sql, u, j)
    <3>1. CASE GetQuoteReply(Sql, u, q) = 200
      BY <2>2, <3>1, ShownToAddressee DEF GetQuoteReply, Numeric
    <3>2. CASE ScheduleJobReply(Sql, u, j, TRUE) = 200
      <4>1. PICK reply : AuthorizeProviderJob(Sql, u, j, reply) = 200
        BY <3>2 DEF ScheduleJobReply
      <4>. QED
        BY <4>1, ShownToAddressee
    <3>3. CASE StartJobReply(Sql, u, j) = 200
      <4>1. PICK reply : AuthorizeProviderJob(Sql, u, j, reply) = 200
        BY <3>3 DEF StartJobReply
      <4>. QED
        BY <4>1, ShownToAddressee
    <3>4. CASE CompleteJobReply(Sql, u, j, TRUE) = 200
      <4>1. PICK reply : AuthorizeProviderJob(Sql, u, j, reply) = 200
        BY <3>4 DEF CompleteJobReply
      <4>. QED
        BY <4>1, ShownToAddressee
    <3>5. CASE GetTimelineReply(Sql, u, j) = 200
      BY <3>5, ShownToAddressee DEF GetTimelineReply
    <3>6. CASE ListJobQuotesReply(Sql, u, j) = 200
      BY <3>6, ShownToAddressee DEF ListJobQuotesReply, Numeric
    <3>. QED
      BY <2>1, <3>1, <3>2, <3>3, <3>4, <3>5, <3>6
  <2>. QED
    BY <1>1, <1>2, <2>3, AddresseesQuotes
<1>. QED
  BY <1>3, <1>4

(* A job that can be read is read, whole, and so is every quote on it.       *)
LEMMA RowRead ==
    ASSUME TypeOK, NEW j \in Jobs, Readable(j)
    PROVE  /\ MarketplaceRow(Sql, j) /\ Sql.job[j] = JobDto(j)
           /\ Sql.job[j].status = jobs[j].status /\ Sql.job[j].customer = Customer
           /\ Sql.job[j].provider = jobs[j].provider /\ Sql.job[j].location = jobs[j].location
           /\ j # Garbled
<1>1. Sql.job[j] = JobDto(j)
  BY DEF Sql, JobIds, JobRead
<1>2. jobs[j] \in JobRow
  BY DEF TypeOK
<1>3. JobDto(j) # None
  BY <1>2, RowsAssumption DEF JobDto, JobRow
<1>. QED
  BY <1>1, <1>3, OutsidersAssumption DEF JobDto, MarketplaceRow

LEMMA QuotesRead ==
    ASSUME TypeOK, NEW j \in Jobs
    PROVE  /\ QuotesOf(Sql, j) = QuotesOn(j)
           /\ LiveQuotesOf(Sql, j) = LiveQuotes(j)
           /\ \A q \in QuotesOn(j) : Sql.quote[q] = quotes[q] /\ q # Garbled
<1>1. /\ DOMAIN Sql.quote = QuoteIds
      /\ \A x \in QuoteIds : Sql.quote[x] = GetQuoteById(x)
  BY DEF Sql
<1>2. ASSUME NEW q \in QuotesOn(j)
      PROVE  q \in QuotesOf(Sql, j) /\ Sql.quote[q] = quotes[q] /\ q # Garbled
  <2>1. q \in DOMAIN quotes /\ quotes[q] \in QuoteRow /\ quotes[q].job = j /\ q \in Nat
    BY DEF QuotesOn, TypeOK
  <2>2. Sql.quote[q] = quotes[q]
    BY <1>1, <2>1 DEF QuoteIds, GetQuoteById
  <2>. QED
    BY <1>1, <2>1, <2>2, RowsAssumption, OutsidersAssumption DEF QuotesOf, QuoteIds
<1>. QED
  BY <1>2, SqlQuotes DEF LiveQuotesOf, LiveQuotes

LEMMA AddresseePasses ==
    ASSUME NEW u \in Users, NEW j \in Jobs
    PROVE  /\ ~IsCustomer(u) /\ IsProvider(u)
           /\ ProviderRefs(u) = Identity(u) /\ Garbled \notin {j}
<1>1. ~IsCustomer(u) /\ IsProvider(u)
  BY CallersAssumption, CustomerAssumption DEF IsCustomer, IsProvider
<1>. QED
  BY <1>1, OutsidersAssumption DEF ProviderRefs

(* What the list adds: every quote of a job that is the caller's to do, or   *)
(* that they have quoted and nobody has yet.                                 *)
LEMMA ListedAreOpen ==
    ASSUME IInv, NEW u \in Users, NEW j \in ProviderInbox(u), NEW q \in QuotesOf(Sql, j)
    PROVE  \/ quotes[q].provider \in Identity(u)
           \/ jobs[j].status \in AgreedStatus /\ u \in AddresseeUsers(j)
           \/ jobs[j].provider = None /\ HasQuote(Sql, u, j)
<1>1. j \in Jobs /\ Readable(j)
  BY DEF ProviderInbox
<1>2. PICK p \in Identity(u) : jobs[j].provider = p \/ (IsOpen(j) /\ HasLiveQuote(j, p))
  BY DEF ProviderInbox
<1>3. TypeOK
  BY DEF IInv
<1>4. CASE jobs[j].provider = p
  <2>1. IsAddressedTo(Sql, u, j)
    BY <1>1, <1>2, <1>3, <1>4, RowRead, AddresseePasses DEF IsAddressedTo
  <2>2. q \in QuotesOn(j)
    BY <1>1, SqlQuotes
  <2>. QED
    BY <1>1, <2>1, <2>2, AddresseesQuotes
<1>5. CASE IsOpen(j) /\ HasLiveQuote(j, p)
  <2>1. HasQuote(Sql, u, j)
    BY <1>1, <1>2, <1>3, <1>5, QuotesRead, AddresseePasses DEF HasLiveQuote, HasQuote, LiveQuotes
  <2>. QED
    BY <1>5, <2>1 DEF IsOpen
<1>. QED
  BY <1>2, <1>4, <1>5

LEMMA NoPeeking == IInv => NoPeekingBeforeQuoting
<1>. SUFFICES ASSUME IInv, NEW u \in Users, NEW j \in Jobs,
                     ~(jobs[j].status \in AgreedStatus /\ u \in AddresseeUsers(j))
              PROVE  LET mine == {q \in QuotesOf(Sql, j) : quotes[q].provider \in Identity(u)}
                     IN  /\ QuotesShown(Sql, u, j) \subseteq mine
                         /\ \/ QuotesListed(Sql, u, j) \subseteq mine
                            \/ jobs[j].provider = None /\ HasQuote(Sql, u, j)
  BY DEF NoPeekingBeforeQuoting
<1>1. ASSUME NEW q \in QuotesShown(Sql, u, j)
      PROVE  q \in QuotesOf(Sql, j) /\ quotes[q].provider \in Identity(u)
  BY ShownAreMine
<1>2. CASE jobs[j].provider = None /\ HasQuote(Sql, u, j)
  BY <1>1, <1>2
<1>3. CASE ~(jobs[j].provider = None /\ HasQuote(Sql, u, j))
  <2>1. ASSUME NEW q \in QuotesListed(Sql, u, j)
        PROVE  q \in QuotesOf(Sql, j) /\ quotes[q].provider \in Identity(u)
    <3>1. j \in ProviderInbox(u) /\ q \in QuotesOf(Sql, j)
      BY DEF QuotesListed, WithQuotes
    <3>. QED
      BY <1>3, <3>1, ListedAreOpen
  <2>. QED
    BY <1>1, <2>1
<1>. QED
  BY <1>2, <1>3

LEMMA ApiInvariance == ApiSpec => []IInv
<1>1. ApiInit => Init
  BY DEF ApiInit, LockstepInit
<1>2. [ApiNext]_apiVars => [LockstepNext]_lockstep
  BY DEF ApiNext, apiVars
<1>3. [ApiNext]_apiVars => [Next]_vars
  BY <1>2, LockstepSteps
<1>. QED
  BY <1>1, <1>3, InitInv, NextInv, PTL DEF ApiSpec

(* Nobody reads another's price before having named their own.  On an        *)
(* addressed job every live quote is the addressee's; on an open one every   *)
(* endpoint but the list filters by the provider (toProviderRequest); and    *)
(* the list shows all the quotes of a request, but only to who has one on    *)
(* it.                                                                       *)
THEOREM NobodyPeeks == ApiSpec => []NoPeekingBeforeQuoting
BY NoPeeking, ApiInvariance, PTL

-----------------------------------------------------------------------------
(* What is answered of an id that is not the caller's to see *)

(* The board and the inbox look at MayView before anything else of the job.  *)
LEMMA RequestsUnknown ==
    ASSUME NEW v, NEW u, NEW j, NEW ok, j # Garbled, ~MayView(v, u, j)
    PROVE  RequestsController(v, u, j, ok)
              = <<ListProviderRequestsReply(u, ok), ResolveIdentity(u, 404),
                  ListOpenRequestsReply(u, ok), ResolveIdentity(u, 404),
                  ResolveIdentity(u, Valid(ok, 404))>>
<1>1. GetProviderRequestReply(v, u, j) = ResolveIdentity(u, 404)
  BY DEF GetProviderRequestReply, Numeric, Found
<1>2. GetOpenRequestReply(v, u, j) = ResolveIdentity(u, 404)
  BY DEF GetOpenRequestReply, Numeric, Found
<1>3. CreateQuoteReply(v, u, j, ok) = ResolveIdentity(u, Valid(ok, 404))
  <2>1. PICK x : CreateQuoteReply(v, u, j, ok)
                    = ResolveIdentity(u, Numeric({j}, Valid(ok, Found(MayView(v, u, j), x))))
    BY DEF CreateQuoteReply
  <2>. QED
    BY <2>1 DEF Numeric, Found
<1>. QED
  BY <1>1, <1>2, <1>3 DEF RequestsController

LEMMA JobsUnknown ==
    ASSUME NEW v, NEW u, NEW j, NEW ok, j # Garbled, ~Owned(v, u, j)
    PROVE  JobsController(v, u, j, ok)
              = <<RequireCustomer(u, 404), RequireCustomer(u, Valid(ok, 404)),
                  RequireCustomer(u, 404), RequireCustomer(u, 404),
                  RequireCustomer(u, 404), ListMyJobsReply(u, ok)>>
<1>1. \A x : Numeric({j}, x) = x /\ RequireOwnedJob(v, u, j, x) = 404
  BY DEF Numeric, RequireOwnedJob, Found
<1>2. GetMyJobByIdReply(v, u, j) = RequireCustomer(u, 404)
  BY <1>1 DEF GetMyJobByIdReply
<1>3. UpdateJobReply(v, u, j, ok) = RequireCustomer(u, Valid(ok, 404))
  <2>1. PICK x : UpdateJobReply(v, u, j, ok)
                    = RequireCustomer(u, Numeric({j}, Valid(ok, RequireOwnedJob(v, u, j, x))))
    BY DEF UpdateJobReply
  <2>. QED
    BY <1>1, <2>1
<1>4. CancelJobReply(v, u, j) = RequireCustomer(u, 404)
  <2>1. PICK x : CancelJobReply(v, u, j)
                    = RequireCustomer(u, Numeric({j}, RequireOwnedJob(v, u, j, x)))
    BY DEF CancelJobReply
  <2>. QED
    BY <1>1, <2>1
<1>5. DeleteJobReply(v, u, j) = RequireCustomer(u, 404)
  <2>1. PICK x : DeleteJobReply(v, u, j)
                    = RequireCustomer(u, Numeric({j}, RequireOwnedJob(v, u, j, x)))
    BY DEF DeleteJobReply
  <2>. QED
    BY <1>1, <2>1
<1>6. UploadRequestImageReply(v, u, j, 0, ok) = RequireCustomer(u, 404)
  <2>1. PICK x : UploadRequestImageReply(v, u, j, 0, ok)
                    = Numeric({j}, RequireCustomer(u, RequireOwnedJob(v, u, j, x)))
    BY DEF UploadRequestImageReply
  <2>. QED
    BY <1>1, <2>1
<1>. QED
  BY <1>2, <1>3, <1>4, <1>5, <1>6 DEF JobsController

(* The guards of a job that is neither the caller's nor addressed to them.   *)
LEMMA ForeignJob ==
    ASSUME NEW v, NEW u, NEW j, j # Garbled, IsCustomer(u) \/ IsProvider(u),
           ~Owned(v, u, j), ~IsAddressedTo(v, u, j)
    PROVE  /\ \A x : AuthorizeProviderJob(v, u, j, x) = ResolveIdentity(u, 404)
           /\ \A x : AuthorizeCustomerJob(v, u, j, x) = RequireCustomer(u, 404)
           /\ \A x : AuthorizeJobQuotes(v, u, j, x) = 404
           /\ \A x : AuthorizeJobViewer(v, u, j, x) = 404
<1>1. \A x : AuthorizeProviderJob(v, u, j, x) = ResolveIdentity(u, 404)
  BY DEF AuthorizeProviderJob, Numeric, Found
<1>2. \A x : AuthorizeCustomerJob(v, u, j, x) = RequireCustomer(u, 404)
  BY DEF AuthorizeCustomerJob, Numeric, RequireOwnedJob, Found
<1>3. \A x : AuthorizeJobQuotes(v, u, j, x) = 404
  BY DEF AuthorizeJobQuotes, Found
<1>4. \A x : AuthorizeJobViewer(v, u, j, x) = 404
  BY <1>3 DEF AuthorizeJobViewer, Numeric
<1>. QED
  BY <1>1, <1>2, <1>3, <1>4

UnknownOffer(u, q) == <<Numeric({q}, RequireCustomer(u, 404)), ResolveIdentity(u, 404),
                        ResolveIdentity(u, 404), 404>>

LEMMA QuotesUnknown ==
    ASSUME NEW v, NEW u, NEW j, NEW q, NEW ok, j # Garbled, IsCustomer(u) \/ IsProvider(u),
           ~Owned(v, u, j), ~IsAddressedTo(v, u, j)
    PROVE  QuotesController(v, u, j, q, ok) = UnknownOffer(u, q)
<1>1. AcceptQuoteReply(v, u, j, q) = Numeric({q}, RequireCustomer(u, 404))
  <2>1. PICK x : AcceptQuoteReply(v, u, j, q)
                    = Numeric({j, q}, RequireCustomer(u, RequireOwnedJob(v, u, j, x)))
    BY DEF AcceptQuoteReply
  <2>. QED
    BY <2>1 DEF Numeric, RequireOwnedJob, Found
<1>2. ScheduleJobReply(v, u, j, ok) = ResolveIdentity(u, 404)
  <2>1. PICK x : ScheduleJobReply(v, u, j, ok) = AuthorizeProviderJob(v, u, j, x)
    BY DEF ScheduleJobReply
  <2>. QED
    BY <2>1, ForeignJob
<1>3. StartJobReply(v, u, j) = ResolveIdentity(u, 404)
  <2>1. PICK x : StartJobReply(v, u, j) = AuthorizeProviderJob(v, u, j, x)
    BY DEF StartJobReply
  <2>. QED
    BY <2>1, ForeignJob
<1>4. ListJobQuotesReply(v, u, j) = 404
  BY ForeignJob DEF ListJobQuotesReply, Numeric
<1>. QED
  BY <1>1, <1>2, <1>3, <1>4 DEF QuotesController, UnknownOffer

UnknownWork(u, i) ==
    <<ResolveIdentity(u, 404), 404, Numeric({i}, 404), Numeric({i}, ResolveIdentity(u, 404)),
      ResolveIdentity(u, 404), 404, ResolveIdentity(u, 404), RequireCustomer(u, 404), 404>>

LEMMA ExecutionUnknown ==
    ASSUME NEW v, NEW u, NEW j, NEW i, NEW ok, j # Garbled, IsCustomer(u) \/ IsProvider(u),
           ~Owned(v, u, j), ~IsAddressedTo(v, u, j)
    PROVE  ExecutionController(v, u, j, i, ok) = UnknownWork(u, i)
<1>1. UploadImageReply(v, u, j, ok) = ResolveIdentity(u, 404)
  <2>1. PICK x : UploadImageReply(v, u, j, ok) = AuthorizeProviderJob(v, u, j, x)
    BY DEF UploadImageReply
  <2>. QED
    BY <2>1, ForeignJob
<1>2. ListImagesReply(v, u, j) = 404 /\ ListUpdatesReply(v, u, j) = 404
      /\ GetTimelineReply(v, u, j) = 404
  BY ForeignJob DEF ListImagesReply, ListUpdatesReply, GetTimelineReply
<1>3. GetImageFileReply(v, u, j, i) = Numeric({i}, 404)
  <2>1. PICK x : GetImageFileReply(v, u, j, i) = Numeric({i}, AuthorizeJobViewer(v, u, j, x))
    BY DEF GetImageFileReply
  <2>. QED
    BY <2>1, ForeignJob
<1>4. DeleteImageReply(v, u, j, i) = Numeric({i}, ResolveIdentity(u, 404))
  <2>1. PICK x : DeleteImageReply(v, u, j, i) = Numeric({i}, AuthorizeProviderJob(v, u, j, x))
    BY DEF DeleteImageReply
  <2>. QED
    BY <2>1, ForeignJob
<1>5. CreateUpdateReply(v, u, j, ok) = ResolveIdentity(u, 404)
  <2>1. PICK x : CreateUpdateReply(v, u, j, ok) = AuthorizeProviderJob(v, u, j, x)
    BY DEF CreateUpdateReply
  <2>. QED
    BY <2>1, ForeignJob
<1>6. CompleteJobReply(v, u, j, ok) = ResolveIdentity(u, 404)
  <2>1. PICK x : CompleteJobReply(v, u, j, ok) = AuthorizeProviderJob(v, u, j, x)
    BY DEF CompleteJobReply
  <2>. QED
    BY <2>1, ForeignJob
<1>7. ConfirmJobReply(v, u, j) = RequireCustomer(u, 404)
  <2>1. PICK x : ConfirmJobReply(v, u, j) = AuthorizeCustomerJob(v, u, j, x)
    BY DEF ConfirmJobReply
  <2>. QED
    BY <2>1, ForeignJob
<1>. QED
  BY <1>1, <1>2, <1>3, <1>4, <1>5, <1>6, <1>7 DEF ExecutionController, UnknownWork

(* A quote, or a photo, of another job is looked for after the job is found. *)
LEMMA OtherJobsQuote ==
    ASSUME NEW v, NEW u, NEW j, NEW q, NEW ok, q # Garbled, j # Garbled, q \notin QuotesOf(v, j)
    PROVE  QuotesController(v, u, j, q, ok)
              = <<RequireCustomer(u, RequireOwnedJob(v, u, j, 404)), ScheduleJobReply(v, u, j, ok),
                  StartJobReply(v, u, j), ListJobQuotesReply(v, u, j)>>
<1>1. PICK x : AcceptQuoteReply(v, u, j, q)
                  = Numeric({j, q}, RequireCustomer(u, RequireOwnedJob(v, u, j,
                        IF q \notin QuotesOf(v, j) THEN 404 ELSE x)))
  BY DEF AcceptQuoteReply
<1>2. AcceptQuoteReply(v, u, j, q) = RequireCustomer(u, RequireOwnedJob(v, u, j, 404))
  BY <1>1 DEF Numeric
<1>. QED
  BY <1>2 DEF QuotesController

LEMMA OtherJobsPhoto ==
    ASSUME NEW v, NEW u, NEW j, NEW i, NEW ok, i # Garbled, ~ImageOf(v, j, i)
    PROVE  ExecutionController(v, u, j, i, ok)
              = <<UploadImageReply(v, u, j, ok), ListImagesReply(v, u, j),
                  AuthorizeJobViewer(v, u, j, 404), AuthorizeProviderJob(v, u, j, 404),
                  CreateUpdateReply(v, u, j, ok), ListUpdatesReply(v, u, j),
                  CompleteJobReply(v, u, j, ok), ConfirmJobReply(v, u, j),
                  GetTimelineReply(v, u, j)>>
<1>1. GetImageFileReply(v, u, j, i) = AuthorizeJobViewer(v, u, j, 404)
  BY DEF GetImageFileReply, Numeric, Found
<1>2. DeleteImageReply(v, u, j, i) = AuthorizeProviderJob(v, u, j, 404)
  <2>1. PICK x : DeleteImageReply(v, u, j, i)
                    = Numeric({i}, AuthorizeProviderJob(v, u, j, Found(ImageOf(v, j, i), x)))
    BY DEF DeleteImageReply
  <2>. QED
    BY <2>1 DEF Numeric, Found
<1>. QED
  BY <1>1, <1>2 DEF ExecutionController

(* The id of no row reads as nothing. *)
LEMMA NothingThere ==
    ASSUME TypeOK, NEW u
    PROVE  /\ Nowhere # Garbled
           /\ ~MayView(Sql, u, Nowhere) /\ ~Owned(Sql, u, Nowhere)
           /\ ~IsAddressedTo(Sql, u, Nowhere)
           /\ Sql.quote[Nowhere] = None /\ Sql.quote[Garbled] = None
           /\ Sql.image[Nowhere] = None
<1>1. Sql.job[Nowhere] = None
  <2>1. Sql.job[Nowhere] = JobRead(Nowhere, Nowhere \in Jobs /\ Readable(Nowhere), JobDto(Nowhere))
    BY DEF Sql, JobIds
  <2>. QED
    BY <2>1, OutsidersAssumption DEF JobRead
<1>2. ~MarketplaceRow(Sql, Nowhere)
  BY <1>1 DEF MarketplaceRow
<1>3. /\ ~MayView(Sql, u, Nowhere) /\ ~Owned(Sql, u, Nowhere)
      /\ ~IsAddressedTo(Sql, u, Nowhere)
  BY <1>2 DEF MayView, Owned, IsAddressedTo, OpenRequest
<1>4. Sql.quote[Nowhere] = None /\ Sql.quote[Garbled] = None
  <2>1. Nowhere \notin DOMAIN quotes /\ Garbled \notin DOMAIN quotes
    BY OutsidersAssumption DEF TypeOK
  <2>2. GetQuoteById(Nowhere) = None /\ GetQuoteById(Garbled) = None
    BY <2>1, OutsidersAssumption DEF GetQuoteById
  <2>. QED
    BY <2>2 DEF Sql, QuoteIds
<1>5. Sql.image[Nowhere] = None
  <2>1. GetImageById(Nowhere) = None
    BY OutsidersAssumption DEF GetImageById
  <2>. QED
    BY <2>1 DEF Sql, ImageIds
<1>. QED
  BY <1>3, <1>4, <1>5, OutsidersAssumption

LEMMA Unknown == TypeOK => ForeignIdsAreUnknown
<1>. SUFFICES
        ASSUME TypeOK, NEW u \in {c \in Callers : IsCustomer(c) \/ IsProvider(c)},
               NEW ok \in BOOLEAN, NEW j \in JobIds \ {Garbled}
        PROVE  /\ ~MayView(Sql, u, j) =>
                     RequestsController(Sql, u, j, ok) = RequestsController(Sql, u, Nowhere, ok)
               /\ ~Owned(Sql, u, j) /\ ~IsAddressedTo(Sql, u, j) =>
                     /\ JobsController(Sql, u, j, ok) = JobsController(Sql, u, Nowhere, ok)
                     /\ \A q \in QuoteIds : QuotesController(Sql, u, j, q, ok)
                                              = QuotesController(Sql, u, Nowhere, q, ok)
                     /\ \A i \in ImageIds : ExecutionController(Sql, u, j, i, ok)
                                              = ExecutionController(Sql, u, Nowhere, i, ok)
                     /\ \A q \in QuotesOf(Sql, j) :
                           GetQuoteReply(Sql, u, q) = GetQuoteReply(Sql, u, Nowhere)
               /\ \A q \in QuoteIds \ {Garbled} : q \notin QuotesOf(Sql, j) =>
                     QuotesController(Sql, u, j, q, ok) = QuotesController(Sql, u, j, Nowhere, ok)
               /\ \A i \in ImageIds \ {Garbled} : ~ImageOf(Sql, j, i) =>
                     ExecutionController(Sql, u, j, i, ok) = ExecutionController(Sql, u, j, Nowhere, ok)
  BY DEF ForeignIdsAreUnknown
<1>1. ASSUME ~MayView(Sql, u, j)
      PROVE  RequestsController(Sql, u, j, ok) = RequestsController(Sql, u, Nowhere, ok)
  BY <1>1, RequestsUnknown, NothingThere
<1>2. ASSUME ~Owned(Sql, u, j), ~IsAddressedTo(Sql, u, j)
      PROVE  /\ JobsController(Sql, u, j, ok) = JobsController(Sql, u, Nowhere, ok)
             /\ \A q \in QuoteIds : QuotesController(Sql, u, j, q, ok)
                                      = QuotesController(Sql, u, Nowhere, q, ok)
             /\ \A i \in ImageIds : ExecutionController(Sql, u, j, i, ok)
                                      = ExecutionController(Sql, u, Nowhere, i, ok)
             /\ \A q \in QuotesOf(Sql, j) :
                   GetQuoteReply(Sql, u, q) = GetQuoteReply(Sql, u, Nowhere)
  <2>1. JobsController(Sql, u, j, ok) = JobsController(Sql, u, Nowhere, ok)
    BY <1>2, JobsUnknown, NothingThere
  <2>2. \A q : QuotesController(Sql, u, j, q, ok) = QuotesController(Sql, u, Nowhere, q, ok)
    <3>. SUFFICES ASSUME NEW q
                  PROVE  QuotesController(Sql, u, j, q, ok) = QuotesController(Sql, u, Nowhere, q, ok)
      OBVIOUS
    <3>1. ~Owned(Sql, u, Nowhere) /\ ~IsAddressedTo(Sql, u, Nowhere) /\ Nowhere # Garbled
      BY NothingThere
    <3>2. IsCustomer(u) \/ IsProvider(u)
      OBVIOUS
    <3>3. j # Garbled
      OBVIOUS
    <3>5. QuotesController(Sql, u, j, q, ok) = UnknownOffer(u, q)
      BY <1>2, <3>2, <3>3, QuotesUnknown
    <3>6. QuotesController(Sql, u, Nowhere, q, ok) = UnknownOffer(u, q)
      BY <3>1, <3>2, QuotesUnknown
    <3>. QED
      BY <3>5, <3>6
  <2>3. \A i : ExecutionController(Sql, u, j, i, ok) = ExecutionController(Sql, u, Nowhere, i, ok)
    <3>. SUFFICES ASSUME NEW i
                  PROVE  ExecutionController(Sql, u, j, i, ok)
                            = ExecutionController(Sql, u, Nowhere, i, ok)
      OBVIOUS
    <3>1. ~Owned(Sql, u, Nowhere) /\ ~IsAddressedTo(Sql, u, Nowhere) /\ Nowhere # Garbled
      BY NothingThere
    <3>2. IsCustomer(u) \/ IsProvider(u)
      OBVIOUS
    <3>3. j # Garbled
      OBVIOUS
    <3>5. ExecutionController(Sql, u, j, i, ok) = UnknownWork(u, i)
      BY <1>2, <3>2, <3>3, ExecutionUnknown
    <3>6. ExecutionController(Sql, u, Nowhere, i, ok) = UnknownWork(u, i)
      BY <3>1, <3>2, ExecutionUnknown
    <3>. QED
      BY <3>5, <3>6
  <2>4. ASSUME NEW q \in QuotesOf(Sql, j)
        PROVE  GetQuoteReply(Sql, u, q) = GetQuoteReply(Sql, u, Nowhere)
    <3>1. Sql.quote[q] # None /\ Sql.quote[q].job = j /\ q # Garbled
      BY NothingThere DEF QuotesOf
    <3>2. AuthorizeJobQuotes(Sql, u, j, 200) = 404
      BY <1>2, ForeignJob
    <3>3. GetQuoteReply(Sql, u, q) = 404
      BY <3>1, <3>2 DEF GetQuoteReply, Numeric
    <3>4. GetQuoteReply(Sql, u, Nowhere) = 404
      BY NothingThere DEF GetQuoteReply, Numeric
    <3>. QED
      BY <3>3, <3>4
  <2>. QED
    BY <2>1, <2>2, <2>3, <2>4
<1>3. ASSUME NEW q \in QuoteIds \ {Garbled}, q \notin QuotesOf(Sql, j)
      PROVE  QuotesController(Sql, u, j, q, ok) = QuotesController(Sql, u, j, Nowhere, ok)
  <2>1. Nowhere \notin QuotesOf(Sql, j) /\ Nowhere # Garbled
    BY NothingThere DEF QuotesOf
  <2>. QED
    BY <1>3, <2>1, OtherJobsQuote
<1>4. ASSUME NEW i \in ImageIds \ {Garbled}, ~ImageOf(Sql, j, i)
      PROVE  ExecutionController(Sql, u, j, i, ok) = ExecutionController(Sql, u, j, Nowhere, ok)
  <2>1. ~ImageOf(Sql, j, Nowhere) /\ Nowhere # Garbled
    BY NothingThere DEF ImageOf
  <2>. QED
    BY <1>4, <2>1, OtherJobsPhoto
<1>. QED
  BY <1>1, <1>2, <1>3, <1>4

(* Whatever a customer or a provider sends about a job, a quote or a photo   *)
(* that is not theirs to see, every endpoint answers as if there were no     *)
(* such id: each handler finds the job before it looks at its state.         *)
THEOREM IdsCannotBeProbed == ApiSpec => []ForeignIdsAreUnknown
<1>1. IInv => ForeignIdsAreUnknown
  BY Unknown DEF IInv
<1>. QED
  BY <1>1, ApiInvariance, PTL

-----------------------------------------------------------------------------
(* The screens *)

(* A row is never left at CONFIRMED: confirmJob passes it on to CLOSED.      *)
NeverConfirmed == \A j \in Jobs : jobs[j].status # "CONFIRMED"

LEMMA ConfirmedIsPassed ==
    ASSUME TypeOK, NeverConfirmed, [Next]_vars
    PROVE  NeverConfirmed'
<1>1. CASE Aside
  BY <1>1 DEF Aside, NeverConfirmed
<1>2. ASSUME NEW j \in Jobs, NEW to \in JobStatus, StatusMove(j, to) PROVE NeverConfirmed'
  <2>1. to # "CONFIRMED"
    BY <1>2 DEF StatusMove
  <2>. QED
    BY <1>2, <2>1 DEF StatusMove, NeverConfirmed, TypeOK, JobRow
<1>3. ASSUME NEW r \in Requests, CreateQuote(r) PROVE NeverConfirmed'
  <2>. PICK j : j = call[r].job
    OBVIOUS
  <2>1. QuoteMovesJob(j)
    BY <1>3 DEF CreateQuote
  <2>2. CASE jobs' = jobs
    BY <2>2 DEF NeverConfirmed
  <2>3. CASE jobs' = [jobs EXCEPT ![j].status = "QUOTED"]
    BY <2>3 DEF NeverConfirmed, TypeOK, JobRow
  <2>. QED
    BY <2>1, <2>2, <2>3 DEF QuoteMovesJob, Moves
<1>4. ASSUME NEW r \in Requests, AcceptQuote(r) PROVE NeverConfirmed'
  BY <1>4 DEF AcceptQuote, NeverConfirmed, TypeOK, JobRow
<1>5. ASSUME NEW r \in Requests, NEW j \in Jobs, NEW p \in Providers \cup {None},
             NEW loc \in Locations, CreateJob(r, j, p, loc)
      PROVE  NeverConfirmed'
  BY <1>5 DEF CreateJob, NeverConfirmed, TypeOK, JobRow, NoJob
<1>. QED
  BY <1>1, <1>2, <1>3, <1>4, <1>5, Effect

(* What lets a reply pass: the customer's own job, and the addressee's.      *)
LEMMA CustomerPasses ==
    ASSUME TypeOK, NEW j \in Jobs, Readable(j)
    PROVE  /\ IsCustomer(Customer) /\ ~IsProvider(Customer)
           /\ Owned(Sql, Customer, j) /\ MarketplaceRow(Sql, j) /\ Garbled \notin {j}
<1>1. IsCustomer(Customer) /\ ~IsProvider(Customer)
  BY CallersAssumption, CustomerAssumption DEF IsCustomer, IsProvider
<1>. QED
  BY <1>1, RowRead DEF Owned

LEMMA CustomerViews ==
    ASSUME TypeOK, NEW j \in Jobs, Readable(j)
    PROVE  \A reply : AuthorizeJobViewer(Sql, Customer, j, reply) = reply
BY CustomerPasses DEF AuthorizeJobViewer, AuthorizeJobQuotes, Numeric, Found

LEMMA AddresseeViews ==
    ASSUME NEW u \in Users, NEW j \in Jobs, IsAddressedTo(Sql, u, j)
    PROVE  \A reply : AuthorizeJobViewer(Sql, u, j, reply) = reply
BY AddresseePasses DEF AuthorizeJobViewer, AuthorizeJobQuotes, Numeric, Found, IsAddressedTo

LEMMA PhotoIds ==
    ASSUME NEW j \in Jobs PROVE WorkPhoto(j) # Garbled /\ RequestPhoto(j) # Garbled
<1>1. WorkPhoto(j) \in WorkPhotos /\ RequestPhoto(j) \in RequestPhotos
  BY DEF WorkPhotos, RequestPhotos
<1>. QED
  BY <1>1, OutsidersAssumption

(* The photos a screen loads are photos of the job.                          *)
LEMMA PhotosLoad ==
    ASSUME NEW u, NEW j \in Jobs, NEW i \in Photos(j),
           \A reply : AuthorizeJobViewer(Sql, u, j, reply) = reply
    PROVE  FetchImageBlob(u, j, i) = 200
<1>1. ImageOf(Sql, j, i) /\ i # Garbled
  BY PhotoIds DEF Photos
<1>. QED
  BY <1>1 DEF FetchImageBlob, GetImageFileReply, Numeric, Found

LEMMA WorkLoads ==
    ASSUME NEW u, NEW j \in Jobs, \A reply : AuthorizeJobViewer(Sql, u, j, reply) = reply
    PROVE  LoadWork(u, j) \subseteq {200}
BY PhotosLoad
   DEF LoadWork, LoadPhotoBlobs, ListJobImagesCall, ListImagesReply, ListJobUpdatesCall,
       ListUpdatesReply, GetJobTimelineCall, GetTimelineReply

LEMMA ButtonIs ==
    ASSUME NEW shown \in BOOLEAN, NEW reply
    PROVE  (Button(shown, reply).shown <=> shown) /\ Button(shown, reply).reply = reply
BY DEF Button

LEMMA CustomerOffers ==
    ASSUME TypeOK, NEW j \in Jobs, Readable(j)
    PROVE  /\ GetJobCall(Customer, j) = 200
           /\ LoadWork(Customer, j) \subseteq {200}
           /\ \A b \in CustomerButtons(Customer, j) : b.shown <=> b.reply = 200
           /\ LET b == ConfirmDelete(Customer, j) IN b.shown => b.reply = 200
<1>. USE DEF Conflict, InState, Valid, Numeric, RequireCustomer, RequireOwnedJob,
             AuthorizeCustomerJob, Found
<1>1. GetJobCall(Customer, j) = 200 /\ DeleteJobCall(Customer, j) = 200
  <2>1. Sql.job[j].status \in Sql.deletes
    <3>1. Sql.job[j].status = jobs[j].status
      BY RowRead
    <3>2. jobs[j].status \in JobStatus
      BY DEF TypeOK, JobRow
    <3>3. Sql.deletes = JobStatus
      BY DEF Sql
    <3>. QED
      BY <3>1, <3>2, <3>3
  <2>. QED
    BY <2>1, CustomerPasses DEF GetJobCall, GetMyJobByIdReply, DeleteJobCall, DeleteJobReply
<1>2. /\ CanMutate(j) <=> UpdateJobCall(Customer, j) = 200
      /\ CanMutate(j) <=> CancelJobCall(Customer, j) = 200
  BY CustomerPasses, RowRead
     DEF UpdateJobCall, UpdateJobReply, CancelJobCall, CancelJobReply, Mutable, CanMutate,
         IsCustomerMutable, CustomerMutable
<1>3. CanConfirmJob(j) <=> ConfirmJobCall(Customer, j) = 200
  <2>1. PICK x : x = InState(Sql.job[j].status = "COMPLETED", 200)
    OBVIOUS
  <2>2. ConfirmJobCall(Customer, j) = x
    BY <2>1, CustomerPasses DEF ConfirmJobCall, ConfirmJobReply
  <2>. QED
    BY <2>1, <2>2, RowRead DEF CanConfirmJob
<1>4. ASSUME NEW q \in QuotesOf(Sql, j)
      PROVE  CanAcceptQuote(j, q) <=> AcceptQuoteCall(Customer, j, q) = 200
  <2>1. Garbled \notin {j, q} /\ Sql.quote[q] = quotes[q]
    BY QuotesRead, RowRead
  <2>3. PICK x : x = Conflict(quotes[q].status = "ACCEPTED",
                     InState(quotes[q].status = "SUBMITTED" /\ Sql.job[j].status = "QUOTED", 200))
    OBVIOUS
  <2>4. AcceptQuoteCall(Customer, j, q) = x
    BY <2>1, <2>3, <1>4, CustomerPasses DEF AcceptQuoteCall, AcceptQuoteReply
  <2>. QED
    BY <2>3, <2>4, RowRead DEF CanAcceptQuote
<1>5. \A b \in CustomerButtons(Customer, j) : b.shown <=> b.reply = 200
  <2>1. /\ CanMutate(j) \in BOOLEAN /\ CanConfirmJob(j) \in BOOLEAN
        /\ \A q : CanAcceptQuote(j, q) \in BOOLEAN
    BY DEF CanMutate, IsCustomerMutable, CanConfirmJob, CanAcceptQuote
  <2>. QED
    BY <1>2, <1>3, <1>4, <2>1, ButtonIs
       DEF CustomerButtons, SaveEdit, ConfirmCancel, ConfirmCompletion, ConfirmAccept
<1>6. ConfirmDelete(Customer, j).reply = 200
  BY <1>1 DEF ConfirmDelete, Button
<1>. QED
  BY <1>1, <1>5, <1>6, WorkLoads, CustomerViews

(* Who may act on an agreed job is who sees their own quote accepted.        *)
LEMMA AcceptedIsAddressed ==
    ASSUME IInv, NEW u \in Users, NEW j \in Jobs, Readable(j), jobs[j].status \in AgreedStatus
    PROVE  /\ AcceptedQuote(u, j) <=> IsAddressedTo(Sql, u, j)
           /\ \E q \in QuotesOf(Sql, j) : Sql.quote[q].status = "ACCEPTED"
           /\ ~IsOpen(j)
<1>1. /\ AcceptedQuotes(j) = {jobs[j].agreed}
      /\ \A q \in AcceptedQuotes(j) : quotes[q].provider = jobs[j].provider
  BY DEF IInv, JobInv, Agreed
<1>2. PICK q : q \in AcceptedQuotes(j)
  BY <1>1
<1>3. q \in QuotesOn(j) /\ quotes[q].status = "ACCEPTED" /\ quotes[q].provider = jobs[j].provider
  BY <1>1, <1>2 DEF AcceptedQuotes
<1>4. jobs[j].provider # None
  <2>1. quotes[q] \in QuoteRow
    BY <1>3 DEF QuotesOn, IInv, TypeOK
  <2>. QED
    BY <1>3, <2>1, NoneAssumption DEF QuoteRow
<1>5. IsAddressedTo(Sql, u, j) <=> jobs[j].provider \in Identity(u)
  BY RowRead, AddresseePasses DEF IsAddressedTo, IInv
<1>6. AcceptedQuote(u, j) <=> jobs[j].provider \in Identity(u)
  <2>1. \A x : x \in ToProviderRequest(Sql, u, j)
                 <=> x \in QuotesOn(j) /\ quotes[x].provider \in Identity(u)
    BY QuotesRead, AddresseePasses DEF ToProviderRequest, IInv
  <2>2. \A x \in QuotesOn(j) : quotes[x].status = "ACCEPTED" => quotes[x].provider = jobs[j].provider
    BY <1>1 DEF AcceptedQuotes
  <2>. QED
    BY <1>3, <2>1, <2>2 DEF AcceptedQuote
<1>. QED
  BY <1>3, <1>4, <1>5, <1>6, QuotesRead DEF IsOpen, IInv

(* What the inbox lists can be opened, and of the board what one profile of  *)
(* the caller matches.                                                       *)
LEMMA ListedOpens ==
    ASSUME TypeOK, NEW u \in Users
    PROVE  /\ LoadInbox(u) = {200} /\ LoadBoard(u) = 200
           /\ \A j \in OpenRequests(u) : BoardRow(u, j)
<1>1. ListProviderRequestsCall(u) = 200 /\ ListOpenRequestsCall(u) = 200
  <2>1. IsProvider(u)
    BY CallersAssumption DEF IsProvider
  <2>. QED
    BY <2>1 DEF ListProviderRequestsCall, ListProviderRequestsReply, ListOpenRequestsCall,
                ListOpenRequestsReply, ResolveIdentity, Valid
<1>2. ASSUME NEW j \in ProviderInbox(u) PROVE GetProviderRequestCall(u, j) = 200
  <2>1. j \in Jobs /\ Readable(j)
    BY DEF ProviderInbox
  <2>2. PICK p \in Identity(u) : jobs[j].provider = p \/ (IsOpen(j) /\ HasLiveQuote(j, p))
    BY DEF ProviderInbox
  <2>3. jobs[j].provider = p => IsAddressedTo(Sql, u, j)
    BY <2>1, RowRead, AddresseePasses DEF IsAddressedTo
  <2>4. HasLiveQuote(j, p) => HasQuote(Sql, u, j)
    BY <2>1, QuotesRead, AddresseePasses DEF HasLiveQuote, HasQuote, LiveQuotes
  <2>5. IsOpen(j) => OpenRequest(Sql, j)
    BY <2>1, RowRead DEF IsOpen, OpenRequest
  <2>6. MayView(Sql, u, j)
    BY <2>2, <2>3, <2>4, <2>5 DEF MayView
  <2>. QED
    BY <2>1, <2>6, AddresseePasses DEF GetProviderRequestCall, GetProviderRequestReply,
                                              ResolveIdentity, Numeric, Found
<1>3. ASSUME NEW j \in OpenRequests(u) PROVE BoardRow(u, j)
  <2>1. /\ j \in Jobs /\ Readable(j) /\ IsOpen(j)
        /\ \A p \in Identity(u) : ~HasLiveQuote(j, p)
    BY DEF OpenRequests
  <2>2. /\ OpenRequest(Sql, j)
        /\ CanQuoteOpenRequest(Sql, u, j)
             <=> \E p \in Identity(u) : jobs[j].location \in Serves[p]
    BY <2>1, RowRead, AddresseePasses DEF IsOpen, OpenRequest, CanQuoteOpenRequest
  <2>3. ~HasQuote(Sql, u, j)
    BY <2>1, QuotesRead, AddresseePasses DEF HasLiveQuote, HasQuote, LiveQuotes
  <2>4. ~IsAddressedTo(Sql, u, j)
    <3>1. Identity(u) \subseteq Providers
      BY ProfilesAssumption DEF Identity, Range
    <3>. QED
      BY <2>1, <2>2, <3>1, AddresseePasses, NoneAssumption DEF IsAddressedTo, OpenRequest
  <2>5. MayView(Sql, u, j) <=> \E p \in Identity(u) : jobs[j].location \in Serves[p]
    BY <2>2, <2>3, <2>4 DEF MayView
  <2>6. OpenBoardRow(u, j) = IF MayView(Sql, u, j) THEN 200 ELSE 404
    BY <2>1, <2>2, AddresseePasses
       DEF OpenBoardRow, GetOpenRequestCall, GetOpenRequestReply, ResolveIdentity, Numeric, Found
  <2>. QED
    BY <2>5, <2>6 DEF BoardRow
<1>. QED
  BY <1>1, <1>2, <1>3 DEF LoadInbox, LoadBoard

LEMMA ProviderOffers ==
    ASSUME IInv, NEW u \in Users, NEW j \in Jobs, Readable(j)
    PROVE  /\ \A b \in ProviderButtons(u, j) : b.shown <=> b.reply = 200
           /\ \A i \in Photos(j) : PhotoOffer(u, j, i)
<1>1. TypeOK
  BY DEF IInv
<1>2. Sql.job[j].status = jobs[j].status
  BY <1>1, RowRead
<1>3. jobs[j].status \in AgreedStatus => (AcceptedQuote(u, j) <=> IsAddressedTo(Sql, u, j))
  BY AcceptedIsAddressed
<1>4. CanScheduleJob(u, j) <=> ScheduleJobCall(u, j) = 200
  <2>. DEFINE accepted == \E q \in QuotesOf(Sql, j) : Sql.quote[q].status = "ACCEPTED"
  <2>1. AuthorizeProviderJob(Sql, u, j, IF Sql.job[j].status = "ACCEPTED" /\ accepted THEN 200 ELSE 422) = 200
          <=> IsAddressedTo(Sql, u, j) /\ Sql.job[j].status = "ACCEPTED" /\ accepted
    <3>. HIDE DEF accepted
    <3>. QED
      BY AddresseePasses DEF AuthorizeProviderJob, ResolveIdentity, Numeric, Found
  <2>2. ScheduleJobCall(u, j)
          = AuthorizeProviderJob(Sql, u, j, IF Sql.job[j].status = "ACCEPTED" /\ accepted THEN 200 ELSE 422)
    BY Zenon DEF ScheduleJobCall, ScheduleJobReply, Valid, InState
  <2>3. jobs[j].status = "ACCEPTED" => accepted
    BY AcceptedIsAddressed DEF AgreedStatus
  <2>. HIDE DEF accepted
  <2>. QED
    BY <1>2, <1>3, <2>1, <2>2, <2>3 DEF CanScheduleJob, AgreedStatus
<1>5. CanStartJob(u, j) <=> StartJobCall(u, j) = 200
  <2>1. PICK x : x = InState(Sql.job[j].status = "SCHEDULED", 200)
    OBVIOUS
  <2>2. StartJobCall(u, j) = IF IsAddressedTo(Sql, u, j) THEN x ELSE 404
    BY <1>1, <2>1, AddresseePasses
       DEF StartJobCall, StartJobReply, AuthorizeProviderJob, ResolveIdentity, Numeric, Found
  <2>. QED
    BY <1>2, <1>3, <2>1, <2>2 DEF CanStartJob, AgreedStatus, InState
<1>6. PICK x : x = InState(Sql.job[j].status = "IN_PROGRESS", 200)
  OBVIOUS
<1>7. /\ UploadJobImageCall(u, j) = IF IsAddressedTo(Sql, u, j) THEN x ELSE 404
      /\ CreateJobUpdateCall(u, j) = IF IsAddressedTo(Sql, u, j) THEN x ELSE 404
      /\ CompleteJobCall(u, j) = IF IsAddressedTo(Sql, u, j) THEN x ELSE 404
  BY <1>1, <1>6, AddresseePasses
     DEF UploadJobImageCall, UploadImageReply, CreateJobUpdateCall, CreateUpdateReply,
         CompleteJobCall, CompleteJobReply, Documenting, Valid, AuthorizeProviderJob,
         ResolveIdentity, Numeric, Found
<1>8. CanCompleteJob(u, j) <=> IsAddressedTo(Sql, u, j) /\ x = 200
  BY <1>2, <1>3, <1>6 DEF CanCompleteJob, AgreedStatus, InState
<1>9. ASSUME NEW i \in Photos(j)
      PROVE  /\ CanCompleteJob(u, j) =>
                   DeleteJobImageCall(u, j, i) = IF Sql.image[i].uploader = u THEN 200 ELSE 403
             /\ DeleteJobImageCall(u, j, i) = 200 => CanCompleteJob(u, j)
  <2>1. ImageOf(Sql, j, i) /\ i # Garbled
    BY PhotoIds DEF Photos
  <2>2. PICK y : y = IF Sql.image[i].uploader = u THEN 200 ELSE 403
    OBVIOUS
  <2>3. DeleteJobImageCall(u, j, i)
          = IF IsAddressedTo(Sql, u, j) THEN InState(Sql.job[j].status = "IN_PROGRESS", y) ELSE 404
    BY <1>1, <2>1, <2>2, AddresseePasses
       DEF DeleteJobImageCall, DeleteImageReply, Documenting, Found, Numeric,
           AuthorizeProviderJob, ResolveIdentity
  <2>. QED
    BY <1>6, <1>8, <2>2, <2>3 DEF InState
<1>10. /\ CanScheduleJob(u, j) \in BOOLEAN /\ CanStartJob(u, j) \in BOOLEAN
       /\ CanCompleteJob(u, j) \in BOOLEAN
  BY DEF CanScheduleJob, CanStartJob, CanCompleteJob, AcceptedQuote
<1>11. \A b \in {OnSchedule(u, j), ConfirmStart(u, j)} : b.shown <=> b.reply = 200
  BY <1>4, <1>5, <1>10, ButtonIs DEF OnSchedule, ConfirmStart
<1>12. \A b \in {OnFileSelected(u, j), SaveNote(u, j), ConfirmComplete(u, j)} :
           b.shown <=> b.reply = 200
  BY <1>6, <1>7, <1>8, <1>10, ButtonIs DEF OnFileSelected, SaveNote, ConfirmComplete, InState
<1>13. \A i \in Photos(j) : PhotoOffer(u, j, i)
  BY <1>9, <1>10, ButtonIs DEF DeletePhoto, PhotoOffer
<1>. QED
  BY <1>11, <1>12, <1>13 DEF ProviderButtons

(* The form of a quote is shown on a request nobody has quoted.              *)
LEMMA FormTakesAQuote ==
    ASSUME IInv, NEW u \in Users, NEW j \in Jobs, MayView(Sql, u, j), Readable(j),
           OnSubmit(u, j).shown
    PROVE  OnSubmit(u, j).reply = 200
<1>1. TypeOK
  BY DEF IInv
<1>2. QuoteFormShown(u, j)
  <2>1. QuoteFormShown(u, j) \in BOOLEAN
    BY DEF QuoteFormShown, CreatedQuote, AcceptedQuote
  <2>. QED
    BY <2>1, ButtonIs DEF OnSubmit
<1>3. jobs[j].status = "REQUESTED" /\ Sql.job[j].status = "REQUESTED"
  BY <1>1, <1>2, RowRead DEF QuoteFormShown
<1>4. LiveQuotesOf(Sql, j) = {}
  BY <1>1, <1>3, QuotesRead DEF IInv, JobInv, QuotesFollow, LiveQuotes
<1>5. ~Full(Sql, j)
  <2>1. Cardinality({}) = 0
    BY FS_EmptySet
  <2>. QED
    BY <1>4, <2>1, CapAssumption DEF Full
<1>6. Quotable(Sql, j) /\ ~QuotedBy(Sql, j, Author(Sql, u, j))
  BY <1>3, <1>4 DEF Quotable, QuotedBy
<1>7. CreateQuoteCall(u, j) = 200
  BY <1>1, <1>5, <1>6, AddresseePasses
     DEF CreateQuoteCall, CreateQuoteReply, Valid, Found, Conflict, InState,
           ResolveIdentity, Numeric
<1>. QED
  BY <1>7 DEF OnSubmit, Button

(* A step of a marketplace job is offered exactly when its call would go     *)
(* through, and what the inbox shows, and the work record of what was        *)
(* opened, is there to be read: flags of the screens and checks of the       *)
(* services say the same of every job calls can bring about.  Where they do  *)
(* not, the answer is the one OffersMeetAnswers names: 403 to who deletes    *)
(* another's photo, 404 to a row of the board no one profile matches.        *)
THEOREM OffersAreAnswered == ApiSpec => []OffersMeetAnswers
<1>1. Init => NeverConfirmed
  BY DEF Init, NeverConfirmed, NoJob
<1>2. [ApiNext]_apiVars => [Next]_vars
  BY LockstepSteps DEF ApiNext, apiVars
<1>3. IInv /\ NeverConfirmed /\ [ApiNext]_apiVars => NeverConfirmed'
  BY <1>2, ConfirmedIsPassed DEF IInv
<1>4. IInv /\ NeverConfirmed => OffersMeetAnswers
  <2>. SUFFICES ASSUME IInv, NeverConfirmed PROVE OffersMeetAnswers
    OBVIOUS
  <2>1. TypeOK
    BY DEF IInv
  <2>2. LoadJobs(Customer) = {200}
    <3>1. IsCustomer(Customer)
      BY CallersAssumption DEF IsCustomer
    <3>2. ListMyJobsCall(Customer) = 200
      BY <3>1 DEF ListMyJobsCall, ListMyJobsReply, RequireCustomer, Valid
    <3>. QED
      BY <2>1, <3>2, CustomerOffers DEF LoadJobs, CustomerJobs
  <2>3. ASSUME NEW u \in Users, NEW j \in Jobs, GetProviderRequestCall(u, j) = 200
        PROVE  /\ LoadWork(u, j) \subseteq {200}
               /\ \A b \in ProviderButtons(u, j) : b.shown <=> b.reply = 200
               /\ \A i \in Photos(j) : PhotoOffer(u, j, i)
               /\ OnSubmit(u, j).shown => OnSubmit(u, j).reply = 200
    <3>1. MayView(Sql, u, j)
      <4>1. GetProviderRequestCall(u, j) = Found(MayView(Sql, u, j), 200)
        BY AddresseePasses DEF GetProviderRequestCall, GetProviderRequestReply,
                               ResolveIdentity, Numeric
      <4>. QED
        BY <2>3, <4>1 DEF Found
    <3>2. Readable(j)
      BY <3>1, SqlJob DEF MayView, IsAddressedTo, OpenRequest
    <3>3. jobs[j].status \in AgreedStatus => IsAddressedTo(Sql, u, j)
      <4>1. jobs[j].status \in AgreedStatus => ~OpenRequest(Sql, j)
        BY <2>1, <3>2, AcceptedIsAddressed, RowRead DEF OpenRequest, IsOpen
      <4>. QED
        BY <3>1, <4>1 DEF MayView
    <3>4. jobs[j].status \in Worked => jobs[j].status \in AgreedStatus
      BY DEF Worked, AgreedStatus, NeverConfirmed
    <3>5. LoadWork(u, j) \subseteq {200}
      <4>1. CASE jobs[j].status \in Worked
        BY <3>3, <3>4, <4>1, WorkLoads, AddresseeViews
      <4>2. CASE jobs[j].status \notin Worked
        BY <4>2 DEF LoadWork
      <4>. QED
        BY <4>1, <4>2
    <3>. QED
      BY <3>1, <3>2, <3>5, ProviderOffers, FormTakesAQuote
  <2>. QED
    BY <2>1, <2>2, <2>3, CustomerOffers, ListedOpens DEF OffersMeetAnswers, CustomerJobs
<1>5. ApiInit => Init
  BY DEF ApiInit, LockstepInit
<1>. QED
  BY <1>1, <1>3, <1>4, <1>5, ApiInvariance, PTL DEF ApiSpec
-----------------------------------------------------------------------------
(* What is answered on either store *)

(* What a read of job j and its quotes returns, by either kind of store.     *)
Reads(v, j) ==
    /\ v.job[j] # None /\ v.job[j].source = "MARKETPLACE" /\ v.job[j].customer = Customer
    /\ v.job[j].status = jobs[j].status /\ v.job[j].provider = jobs[j].provider
    /\ v.job[j].location = jobs[j].location
    /\ QuotesOf(v, j) = QuotesOn(j) /\ LiveQuotesOf(v, j) = LiveQuotes(j)
    /\ \A q \in QuotesOn(j) : v.quote[q] = quotes[q]

LEMMA SqlReads == ASSUME TypeOK, NEW j \in Jobs, Readable(j) PROVE Reads(Sql, j)
BY RowRead, QuotesRead DEF Reads, MarketplaceRow

LEMMA MemReads == ASSUME MInv, NEW j \in Jobs, Readable(j) PROVE Reads(Mem, j)
<1>1. TypeOK /\ mem.quotes = quotes /\ SameJob(j) /\ ~DeletedLate(j)
  BY DEF MInv, MemJob, DeletedLate, Readable
<1>2. GetJobById(j) /\ MemStatus(j) = jobs[j].status
  BY <1>1, SameReads
<1>3. MemJobDto(j) = JobDto(j)
  BY <1>1, <1>2 DEF SameJob, MemJobDto, JobDto
<1>4. Mem.job[j] = JobDto(j) /\ Sql.job[j] = JobDto(j)
  BY <1>2, <1>3 DEF Mem, Sql, JobIds, JobRead
<1>5. /\ DOMAIN Mem.quote = DOMAIN Sql.quote
      /\ \A x \in DOMAIN Sql.quote : Mem.quote[x] = Sql.quote[x]
  <2>1. \A x : MemGetQuoteById(x) = GetQuoteById(x)
    BY <1>1 DEF MemGetQuoteById, GetQuoteById
  <2>. QED
    BY <2>1 DEF Mem, Sql
<1>6. QuotesOf(Mem, j) = QuotesOf(Sql, j)
  BY <1>5 DEF QuotesOf
<1>7. \A x \in QuotesOf(Sql, j) : Mem.quote[x] = Sql.quote[x]
  BY <1>5 DEF QuotesOf
<1>8. LiveQuotesOf(Mem, j) = LiveQuotesOf(Sql, j)
  BY <1>6, <1>7 DEF LiveQuotesOf
<1>9. Reads(Sql, j)
  BY <1>1, SqlReads
<1>. QED
  BY <1>4, <1>6, <1>7, <1>8, <1>9 DEF Reads

(* What the checks of the handlers come to for a job that is read.           *)
LEMMA MayIs ==
    ASSUME NEW v, NEW j \in Jobs, NEW u \in Callers, Readable(j), Reads(v, j)
    PROVE  /\ MarketplaceRow(v, j) /\ Garbled \notin {j}
           /\ IsProvider(u) <=> u \in Users
           /\ IsCustomer(u) /\ Owned(v, u, j) <=> u = Customer
           /\ IsProvider(u) /\ IsAddressedTo(v, u, j) <=> u \in Users /\ Addressed(u, j)
<1>1. MarketplaceRow(v, j) /\ Garbled \notin {j}
  BY OutsidersAssumption DEF Reads, MarketplaceRow
<1>2. IsProvider(u) <=> u \in Users
  BY CallersAssumption DEF IsProvider
<1>3. IsCustomer(u) /\ Owned(v, u, j) <=> u = Customer
  <2>1. Owned(v, u, j) <=> u = Customer
    BY <1>1 DEF Owned, Reads
  <2>2. IsCustomer(Customer)
    BY CallersAssumption DEF IsCustomer
  <2>. QED
    BY <2>1, <2>2
<1>4. ASSUME u \in Users PROVE IsAddressedTo(v, u, j) <=> Addressed(u, j)
  <2>1. IsAddressedTo(v, u, j) <=> jobs[j].provider \in Identity(u)
    BY <1>1, <1>2, <1>4 DEF IsAddressedTo, ProviderRefs, Reads
  <2>2. Identity(u) \subseteq Providers
    BY <1>4, ProfilesAssumption DEF Identity, Range
  <2>. QED
    BY <1>4, <2>1, <2>2, NoneAssumption DEF Addressed, AddresseeUsers, IsOpen, UsersOf
<1>. QED
  BY <1>1, <1>2, <1>3, <1>4

LEMMA OwnerReplies ==
    ASSUME NEW v, NEW j \in Jobs, NEW u \in Callers, Readable(j), Reads(v, j), TypeOK
    PROVE  /\ \A q \in QuotesOn(j) :
                 AcceptQuoteReply(v, u, j, q) = 200 <=> u = Customer /\ CanAccept(j, q)
           /\ ConfirmJobReply(v, u, j) = 200 <=> u = Customer /\ CanConfirm(j)
           /\ UpdateJobReply(v, u, j, TRUE) = 200 <=> u = Customer /\ CanChange(j)
           /\ CancelJobReply(v, u, j) = 200 <=> u = Customer /\ CanChange(j)
           /\ UploadRequestImageReply(v, u, j, docs[j].request, TRUE) = 200
                <=> u = Customer /\ CanAddPhoto(j)
<1>. USE DEF Numeric, Found, Conflict, InState, Valid, RequireCustomer, RequireOwnedJob
<1>1. IsCustomer(u) /\ Owned(v, u, j) <=> u = Customer
  BY MayIs
<1>2. Garbled \notin {j} /\ v.job[j].status = jobs[j].status
  BY MayIs DEF Reads
<1>3. Mutable(v, j) <=> jobs[j].status \in CustomerMutable
  BY <1>2 DEF Mutable
<1>4. ASSUME NEW q \in QuotesOn(j)
      PROVE  AcceptQuoteReply(v, u, j, q) = 200 <=> u = Customer /\ CanAccept(j, q)
  <2>1. q \in QuotesOf(v, j) /\ v.quote[q] = quotes[q] /\ Garbled \notin {j, q}
    BY <1>2, OutsidersAssumption DEF Reads, QuotesOn, TypeOK
  <2>. QED
    BY <1>1, <1>2, <2>1 DEF AcceptQuoteReply, CanAccept
<1>5. ConfirmJobReply(v, u, j) = 200 <=> u = Customer /\ CanConfirm(j)
  BY <1>1, <1>2 DEF ConfirmJobReply, AuthorizeCustomerJob, CanConfirm
<1>6. UpdateJobReply(v, u, j, TRUE) = 200 <=> u = Customer /\ CanChange(j)
  BY <1>1, <1>2, <1>3 DEF UpdateJobReply, CanChange
<1>7. CancelJobReply(v, u, j) = 200 <=> u = Customer /\ CanChange(j)
  BY <1>1, <1>2, <1>3 DEF CancelJobReply, CanChange
<1>9. UploadRequestImageReply(v, u, j, docs[j].request, TRUE) = 200
        <=> u = Customer /\ CanAddPhoto(j)
  BY <1>1, <1>2, <1>3 DEF UploadRequestImageReply, CanAddPhoto
<1>. QED
  BY <1>4, <1>5, <1>6, <1>7, <1>9

(* The service deletes what the store it runs on lets it delete.             *)
LEMMA DeleteReplies ==
    ASSUME NEW v, NEW j \in Jobs, NEW u \in Callers, Readable(j), Reads(v, j)
    PROVE  /\ u # Customer => DeleteJobReply(v, u, j) # 200
           /\ u = Customer => DeleteJobReply(v, u, j)
                                = IF jobs[j].status \in v.deletes THEN 200 ELSE 409
<1>1. IsCustomer(u) /\ Owned(v, u, j) <=> u = Customer
  BY MayIs
<1>2. Garbled \notin {j} /\ v.job[j].status = jobs[j].status
  BY MayIs DEF Reads
<1>. QED
  BY <1>1, <1>2 DEF DeleteJobReply, Numeric, Found, Conflict, RequireCustomer, RequireOwnedJob

LEMMA WorkerReplies ==
    ASSUME NEW v, NEW j \in Jobs, NEW u \in Callers, Readable(j), Reads(v, j)
    PROVE  /\ ScheduleJobReply(v, u, j, TRUE) = 200
                <=> u \in Users /\ Addressed(u, j) /\ CanSchedule(j)
           /\ StartJobReply(v, u, j) = 200 <=> u \in Users /\ Addressed(u, j) /\ CanStart(j)
           /\ CompleteJobReply(v, u, j, TRUE) = 200
                <=> u \in Users /\ Addressed(u, j) /\ CanComplete(j)
           /\ UploadImageReply(v, u, j, TRUE) = 200
                <=> u \in Users /\ Addressed(u, j) /\ CanDocument(j)
           /\ CreateUpdateReply(v, u, j, TRUE) = 200
                <=> u \in Users /\ Addressed(u, j) /\ CanDocument(j)
<1>. USE DEF Numeric, Found, ResolveIdentity
<1>1. IsProvider(u) /\ IsAddressedTo(v, u, j) <=> u \in Users /\ Addressed(u, j)
  BY MayIs
<1>2. Garbled \notin {j} /\ v.job[j].status = jobs[j].status
  BY MayIs DEF Reads
<1>3. ScheduleJobReply(v, u, j, TRUE) = 200 <=> u \in Users /\ Addressed(u, j) /\ CanSchedule(j)
  <2>. DEFINE accepted == \E q \in QuotesOf(v, j) : v.quote[q].status = "ACCEPTED"
  <2>0. PICK reply : reply = IF v.job[j].status = "ACCEPTED" /\ accepted THEN 200 ELSE 422
    OBVIOUS
  <2>1. ScheduleJobReply(v, u, j, TRUE) = AuthorizeProviderJob(v, u, j, reply)
    BY <2>0, Zenon DEF ScheduleJobReply, Valid, InState
  <2>2. accepted <=> AcceptedQuotes(j) # {}
    BY DEF Reads, AcceptedQuotes
  <2>3. AuthorizeProviderJob(v, u, j, reply) = 200
          <=> u \in Users /\ Addressed(u, j) /\ reply = 200
    BY <1>1, <1>2 DEF AuthorizeProviderJob
  <2>4. reply = 200 <=> CanSchedule(j)
    <3>. HIDE DEF accepted
    <3>. QED
      BY <1>2, <2>0, <2>2 DEF CanSchedule
  <2>. QED
    BY <2>1, <2>3, <2>4, Zenon
<1>4. StartJobReply(v, u, j) = 200 <=> u \in Users /\ Addressed(u, j) /\ CanStart(j)
  BY <1>1, <1>2 DEF StartJobReply, AuthorizeProviderJob, InState, CanStart
<1>5. CompleteJobReply(v, u, j, TRUE) = 200 <=> u \in Users /\ Addressed(u, j) /\ CanComplete(j)
  BY <1>1, <1>2 DEF CompleteJobReply, AuthorizeProviderJob, InState, Valid, CanComplete
<1>6. /\ UploadImageReply(v, u, j, TRUE) = 200
           <=> u \in Users /\ Addressed(u, j) /\ CanDocument(j)
      /\ CreateUpdateReply(v, u, j, TRUE) = 200
           <=> u \in Users /\ Addressed(u, j) /\ CanDocument(j)
  BY <1>1, <1>2 DEF UploadImageReply, CreateUpdateReply, AuthorizeProviderJob, Documenting,
                    InState, Valid, CanDocument
<1>. QED
  BY <1>3, <1>4, <1>5, <1>6

LEMMA PhotoReply ==
    ASSUME NEW v, NEW j \in Jobs, NEW u \in Callers, Readable(j), Reads(v, j),
           v.image[WorkPhoto(j)] = GetWorkPhoto(docs, j), docs[j].work \in Users \cup {None}
    PROVE  DeleteImageReply(v, u, j, WorkPhoto(j)) = 200
             <=> u \in Users /\ Addressed(u, j) /\ docs[j].work = u /\ CanDocument(j)
<1>. USE DEF Numeric, Found, ResolveIdentity, AuthorizeProviderJob
<1>1. IsProvider(u) /\ IsAddressedTo(v, u, j) <=> u \in Users /\ Addressed(u, j)
  BY MayIs
<1>2. Garbled \notin {j} /\ Garbled \notin {WorkPhoto(j)} /\ v.job[j].status = jobs[j].status
  BY MayIs, PhotoIds DEF Reads
<1>3. CASE docs[j].work = None
  <2>1. ~ImageOf(v, j, WorkPhoto(j))
    BY <1>3 DEF ImageOf, GetWorkPhoto
  <2>2. u \in Users => docs[j].work # u
    BY <1>3, NoneAssumption
  <2>. QED
    BY <1>1, <1>2, <2>1, <2>2 DEF DeleteImageReply
<1>4. CASE docs[j].work # None
  <2>1. v.image[WorkPhoto(j)] = Image(j, docs[j].work)
    BY <1>4 DEF GetWorkPhoto
  <2>2. Image(j, docs[j].work) # None
    BY <1>4, RowsAssumption DEF Image
  <2>3. ImageOf(v, j, WorkPhoto(j)) /\ v.image[WorkPhoto(j)].uploader = docs[j].work
    BY <2>1, <2>2 DEF ImageOf, Image
  <2>. QED
    BY <1>1, <1>2, <2>3 DEF DeleteImageReply, Documenting, InState, CanDocument
<1>. QED
  BY <1>3, <1>4

LEMMA QuoteReply ==
    ASSUME NEW v, NEW j \in Jobs, NEW u \in Callers, Readable(j), Reads(v, j), TypeOK
    PROVE  CreateQuoteReply(v, u, j, TRUE) = 200
             <=> u \in Users /\ CanViewRequest(j, u) /\ CanQuote(j, AuthorOf(j, u))
<1>1. Garbled \notin {j} /\ MarketplaceRow(v, j) /\ (IsProvider(u) <=> u \in Users)
  BY MayIs
<1>2. CASE u \notin Users
  <2>1. PICK x : CreateQuoteReply(v, u, j, TRUE) = ResolveIdentity(u, x)
    BY Zenon DEF CreateQuoteReply
  <2>2. ResolveIdentity(u, x) # 200
    BY <1>1, <1>2 DEF ResolveIdentity
  <2>. QED
    BY <1>2, <2>1, <2>2, Zenon
<1>3. CASE u \in Users
  <2>1. OpenRequest(v, j) <=> IsOpen(j)
    BY <1>1 DEF OpenRequest, IsOpen, Reads
  <2>2. Author(v, u, j) = AuthorOf(j, u)
    BY <2>1 DEF Author, AuthorOf, Reads
  <2>3. ProviderRefs(u) = Identity(u)
    BY <1>1, <1>3 DEF ProviderRefs
  <2>4. MayView(v, u, j) <=> CanViewRequest(j, u)
    <3>1. IsAddressedTo(v, u, j) <=> jobs[j].provider \in Identity(u)
      BY <1>1, <2>3 DEF IsAddressedTo, Reads
    <3>2. HasQuote(v, u, j) <=> \E p \in Identity(u) : HasLiveQuote(j, p)
      <4>1. \A q \in LiveQuotes(j) : v.quote[q] = quotes[q]
        BY DEF Reads, LiveQuotes
      <4>. QED
        BY <2>3, <4>1 DEF HasQuote, HasLiveQuote, Reads
    <3>3. CanQuoteOpenRequest(v, u, j) <=> \E p \in Identity(u) : jobs[j].location \in Serves[p]
      BY <2>3 DEF CanQuoteOpenRequest, Reads
    <3>4. IsOpen(j) => jobs[j].provider \notin Identity(u)
      <4>1. Identity(u) \subseteq Providers
        BY <1>3, ProfilesAssumption DEF Identity, Range
      <4>. QED
        BY <4>1, NoneAssumption DEF IsOpen
    <3>. QED
      BY <2>1, <3>1, <3>2, <3>3, <3>4 DEF MayView, CanViewRequest
  <2>5. QuotedBy(v, j, Author(v, u, j)) <=> HasLiveQuote(j, AuthorOf(j, u))
    <3>1. \A q \in LiveQuotes(j) : v.quote[q] = quotes[q]
      BY DEF Reads, LiveQuotes
    <3>. QED
      BY <2>2, <3>1 DEF QuotedBy, HasLiveQuote, Reads
  <2>6. Full(v, j) <=> IsOpen(j) /\ ~(Cardinality(LiveQuotes(j)) < MaxQuotesPerOpenJob)
    BY <2>1, LiveQuotesFinite, CapAssumption DEF Full, Reads
  <2>7. Quotable(v, j) <=> IF IsOpen(j) THEN jobs[j].status \in CustomerMutable
                           ELSE jobs[j].status = "REQUESTED"
    BY <2>1 DEF Quotable, Mutable, Reads, CustomerMutable
  <2>8. ~IsOpen(j) => AuthorOf(j, u) = jobs[j].provider
    BY DEF AuthorOf
  <2>9. CanQuote(j, AuthorOf(j, u))
          <=> ~QuotedBy(v, j, Author(v, u, j)) /\ ~Full(v, j) /\ Quotable(v, j)
    BY <2>5, <2>6, <2>7, <2>8 DEF CanQuote, IsOpen
  <2>. QED
    BY <1>1, <1>3, <2>4, <2>9
       DEF CreateQuoteReply, ResolveIdentity, Numeric, Valid, Found, Conflict, InState
<1>. QED
  BY <1>2, <1>3
(* The photos and notes of a job that is not deleted.                        *)
DocRow == [request : Nat, work : Users \cup {None}, update : Users \cup {None}]
SameDocs == /\ docs \in [Jobs -> DocRow] /\ memDocs \in [Jobs -> DocRow]
            /\ \A j \in Jobs : ~jobs[j].deleted => docs[j] = memDocs[j]

LEMMA SameWrite ==
    ASSUME SameDocs, jobs' = jobs, NEW j \in Jobs, ~jobs[j].deleted,
           NEW b \in BOOLEAN, NEW c \in BOOLEAN, b <=> c,
           NEW field \in {"request", "work", "update"}, NEW value,
           [docs[j] EXCEPT ![field] = value] \in DocRow, Write(j, field, value, b, c)
    PROVE  SameDocs'
<1>1. PICK row : row = [docs[j] EXCEPT ![field] = value] /\ row \in DocRow
  OBVIOUS
<1>2. docs[j] = memDocs[j] /\ docs \in [Jobs -> DocRow] /\ memDocs \in [Jobs -> DocRow]
  BY DEF SameDocs
<1>3. CASE ~b
  BY <1>3 DEF Write, SameDocs
<1>4. CASE b
  <2>1. /\ docs' = [docs EXCEPT ![j] = row]
        /\ memDocs' = [memDocs EXCEPT ![j] = row]
    BY <1>1, <1>2, <1>4 DEF Write
  <2>. QED
    BY <1>1, <2>1 DEF SameDocs
<1>. QED
  BY <1>3, <1>4

(* Whoever may write a photo or a note in one store, may in the other.       *)
LEMMA SameDocChecks ==
    ASSUME MInv, NEW j \in Jobs, Readable(j)
    PROVE  /\ RequireInProgressMarketplaceJob(j) <=> CanDocument(j)
           /\ docs[j] = memDocs[j] => (MemCanAddPhoto(j) <=> CanAddPhoto(j))
           /\ MemCanComplete(j) <=> CanComplete(j)
           /\ MemCanConfirm(j) <=> CanConfirm(j)
<1>1. ~DeletedLate(j)
  BY DEF DeletedLate, Readable
<1>2. GetJobById(j) /\ MemStatus(j) = jobs[j].status
  BY <1>1, SameReads
<1>. QED
  BY <1>2 DEF RequireInProgressMarketplaceJob, CanDocument, MemCanAddPhoto, CanAddPhoto,
              MemCanComplete, CanComplete, MemCanConfirm, CanConfirm

LEMMA DocsStep == MInv /\ SameDocs /\ [ApiNext]_apiVars => SameDocs'
<1>. SUFFICES ASSUME MInv, SameDocs, [ApiNext]_apiVars PROVE SameDocs'
  OBVIOUS
<1>1. CASE UNCHANGED <<docs, memDocs>> /\ [LockstepNext]_lockstep
  <2>1. [Next]_vars
    BY <1>1, LockstepSteps
  <2>3. ASSUME NEW j \in Jobs, ~jobs'[j].deleted PROVE ~jobs[j].deleted
    BY <2>1, <2>3, DeletedStays DEF MInv, Uninserted
  <2>. QED
    BY <1>1, <2>3 DEF SameDocs
<1>2. ASSUME UNCHANGED lockstep, NEW j \in Jobs,
             \/ CreateRequestImage(j)
             \/ \E u \in Users : CreateImage(u, j) \/ CreateUpdate(u, j) \/ DeleteImage(u, j)
      PROVE  SameDocs'
  <2>1. Readable(j) /\ ~jobs[j].deleted /\ jobs' = jobs
    BY <1>2 DEF CreateRequestImage, CreateImage, CreateUpdate, DeleteImage, Readable, lockstep, vars
  <2>2. docs[j] \in DocRow /\ docs[j] = memDocs[j]
    BY <2>1 DEF SameDocs
  <2>3. /\ RequireInProgressMarketplaceJob(j) <=> CanDocument(j)
        /\ MemCanAddPhoto(j) <=> CanAddPhoto(j)
        /\ RequireInProgressMarketplaceJob(j) \in BOOLEAN /\ CanDocument(j) \in BOOLEAN
        /\ MemCanAddPhoto(j) \in BOOLEAN /\ CanAddPhoto(j) \in BOOLEAN
    <3>1. /\ RequireInProgressMarketplaceJob(j) \in BOOLEAN /\ CanDocument(j) \in BOOLEAN
          /\ MemCanAddPhoto(j) \in BOOLEAN /\ CanAddPhoto(j) \in BOOLEAN
      BY DEF RequireInProgressMarketplaceJob, CanDocument, MemCanAddPhoto, CanAddPhoto
    <3>. QED
      BY <2>1, <2>2, <3>1, SameDocChecks
  <2>4. CASE CreateRequestImage(j)
    <3>1. PICK n : n = docs[j].request + 1 /\ n \in Nat
      BY <2>2 DEF DocRow
    <3>2. [docs[j] EXCEPT !["request"] = n] \in DocRow
      BY <2>2, <3>1 DEF DocRow
    <3>3. Write(j, "request", n, CanAddPhoto(j), MemCanAddPhoto(j))
      BY <2>4, <3>1 DEF CreateRequestImage
    <3>. QED
      BY <2>1, <2>3, <3>2, <3>3, SameWrite
  <2>5. ASSUME NEW u \in Users, CreateImage(u, j) PROVE SameDocs'
    <3>1. [docs[j] EXCEPT !["work"] = u] \in DocRow
      BY <2>2 DEF DocRow
    <3>2. Write(j, "work", u, CanDocument(j), RequireInProgressMarketplaceJob(j))
      BY <2>5 DEF CreateImage
    <3>. QED
      BY <2>1, <2>3, <3>1, <3>2, SameWrite
  <2>6. ASSUME NEW u \in Users, CreateUpdate(u, j) PROVE SameDocs'
    <3>1. [docs[j] EXCEPT !["update"] = u] \in DocRow
      BY <2>2 DEF DocRow
    <3>2. Write(j, "update", u, CanDocument(j), RequireInProgressMarketplaceJob(j))
      BY <2>6 DEF CreateUpdate
    <3>. QED
      BY <2>1, <2>3, <3>1, <3>2, SameWrite
  <2>7. ASSUME NEW u \in Users, DeleteImage(u, j) PROVE SameDocs'
    <3>1. [docs[j] EXCEPT !["work"] = None] \in DocRow
      BY <2>2 DEF DocRow
    <3>2. PICK b \in BOOLEAN, c \in BOOLEAN :
              /\ b <=> CanDocument(j) /\ docs[j].work = u
              /\ c <=> RequireInProgressMarketplaceJob(j) /\ memDocs[j].work = u
      OBVIOUS
    <3>3. b <=> c
      BY <2>2, <2>3, <3>2
    <3>4. Write(j, "work", None, b, c)
      BY <2>7, <3>2 DEF DeleteImage, Write
    <3>. QED
      BY <2>1, <3>1, <3>3, <3>4, SameWrite
  <2>. QED
    BY <1>2, <2>4, <2>5, <2>6, <2>7, Zenon
<1>. QED
  BY <1>1, <1>2 DEF ApiNext, apiVars

LEMMA DocsStart == ApiInit => SameDocs
<1>. SUFFICES ASSUME ApiInit PROVE SameDocs
  OBVIOUS
<1>1. NoDocs \in DocRow
  BY DEF NoDocs, DocRow
<1>. QED
  BY <1>1 DEF ApiInit, SameDocs
(* The services answer what the transaction and the in-memory store would do. *)
LEMMA RepliesFollow ==
    ASSUME MInv, SameDocs, NEW j \in Jobs, Readable(j), NEW v, Reads(v, j),
           v.image[WorkPhoto(j)] = GetWorkPhoto(docs, j)
    PROVE  RepliesAre(v, j)
<1>1. TypeOK /\ ~DeletedLate(j) /\ docs[j] = memDocs[j] /\ docs[j].work \in Users \cup {None}
  BY DEF MInv, SameDocs, DeletedLate, Readable, DocRow
<1>2. /\ \A p : MemCanQuote(j, p) <=> CanQuote(j, p)
      /\ \A q : MemCanAccept(j, q) <=> CanAccept(j, q)
      /\ RequireMutable(j) <=> CanChange(j)
      /\ MemCanSchedule(j) <=> CanSchedule(j)
      /\ MemCanStart(j) <=> CanStart(j)
  BY <1>1, SameChecks
<1>3. /\ RequireInProgressMarketplaceJob(j) <=> CanDocument(j)
      /\ MemCanAddPhoto(j) <=> CanAddPhoto(j)
      /\ MemCanComplete(j) <=> CanComplete(j)
      /\ MemCanConfirm(j) <=> CanConfirm(j)
  BY <1>1, SameDocChecks
<1>4. ASSUME NEW u \in Callers PROVE ToOwner(v, u, j)
  <2>0. /\ \A q \in QuotesOn(j) :
              AcceptQuoteReply(v, u, j, q) = 200 <=> u = Customer /\ CanAccept(j, q)
        /\ ConfirmJobReply(v, u, j) = 200 <=> u = Customer /\ CanConfirm(j)
        /\ UpdateJobReply(v, u, j, TRUE) = 200 <=> u = Customer /\ CanChange(j)
        /\ CancelJobReply(v, u, j) = 200 <=> u = Customer /\ CanChange(j)
        /\ UploadRequestImageReply(v, u, j, docs[j].request, TRUE) = 200
             <=> u = Customer /\ CanAddPhoto(j)
    BY <1>1, OwnerReplies
  <2>1. \A q \in QuotesOn(j) :
            Only(u = Customer /\ Readable(j), CanAccept(j, q), MemCanAccept(j, q),
                 AcceptQuoteReply(v, u, j, q))
    BY <1>2, <2>0 DEF Only
  <2>2. Only(u = Customer /\ Readable(j), CanConfirm(j), MemCanConfirm(j), ConfirmJobReply(v, u, j))
    BY <1>3, <2>0 DEF Only
  <2>3. /\ Only(u = Customer /\ Readable(j), CanChange(j), RequireMutable(j),
                UpdateJobReply(v, u, j, TRUE))
        /\ Only(u = Customer /\ Readable(j), CanChange(j), RequireMutable(j), CancelJobReply(v, u, j))
    BY <1>2, <2>0 DEF Only
  <2>4. Only(u = Customer /\ Readable(j), CanAddPhoto(j), MemCanAddPhoto(j),
             UploadRequestImageReply(v, u, j, docs[j].request, TRUE))
    BY <1>3, <2>0 DEF Only
  <2>. QED
    BY <2>1, <2>2, <2>3, <2>4, Zenon DEF ToOwner
<1>5. ASSUME NEW u \in Callers PROVE ToAddressee(v, u, j)
  <2>0. /\ CreateQuoteReply(v, u, j, TRUE) = 200
             <=> u \in Users /\ CanViewRequest(j, u) /\ CanQuote(j, AuthorOf(j, u))
    BY <1>1, QuoteReply
  <2>6. DeleteImageReply(v, u, j, WorkPhoto(j)) = 200
          <=> u \in Users /\ Addressed(u, j) /\ docs[j].work = u /\ CanDocument(j)
    BY <1>1, PhotoReply
  <2>5. /\ ScheduleJobReply(v, u, j, TRUE) = 200
              <=> u \in Users /\ Addressed(u, j) /\ CanSchedule(j)
        /\ StartJobReply(v, u, j) = 200 <=> u \in Users /\ Addressed(u, j) /\ CanStart(j)
        /\ CompleteJobReply(v, u, j, TRUE) = 200
              <=> u \in Users /\ Addressed(u, j) /\ CanComplete(j)
        /\ UploadImageReply(v, u, j, TRUE) = 200
              <=> u \in Users /\ Addressed(u, j) /\ CanDocument(j)
        /\ CreateUpdateReply(v, u, j, TRUE) = 200
              <=> u \in Users /\ Addressed(u, j) /\ CanDocument(j)
    BY WorkerReplies
  <2>. DEFINE may == u \in Users /\ Readable(j) /\ Addressed(u, j)
  <2>1. Only(u \in Users /\ CanViewRequest(j, u), CanQuote(j, AuthorOf(j, u)),
             MemCanQuote(j, AuthorOf(j, u)), CreateQuoteReply(v, u, j, TRUE))
    BY <1>2, <2>0 DEF Only
  <2>2. /\ Only(may, CanSchedule(j), MemCanSchedule(j), ScheduleJobReply(v, u, j, TRUE))
        /\ Only(may, CanStart(j), MemCanStart(j), StartJobReply(v, u, j))
    BY <1>2, <2>5 DEF Only
  <2>3. /\ Only(may, CanComplete(j), MemCanComplete(j), CompleteJobReply(v, u, j, TRUE))
        /\ Only(may, CanDocument(j), RequireInProgressMarketplaceJob(j),
                UploadImageReply(v, u, j, TRUE))
        /\ Only(may, CanDocument(j), RequireInProgressMarketplaceJob(j),
                CreateUpdateReply(v, u, j, TRUE))
    BY <1>3, <2>5 DEF Only
  <2>4. Only(may /\ docs[j].work = u, CanDocument(j), RequireInProgressMarketplaceJob(j),
             DeleteImageReply(v, u, j, WorkPhoto(j)))
    BY <1>3, <2>6 DEF Only
  <2>. QED
    BY <2>1, <2>2, <2>3, <2>4, Zenon DEF ToAddressee
<1>. QED
  BY <1>4, <1>5, Zenon DEF RepliesAre

(* Where the two stores hold the same, they list the same.                   *)
LEMMA ListsFollow == MInv => SameLists
<1>. SUFFICES ASSUME MInv PROVE SameLists
  OBVIOUS
<1>1. ASSUME NEW j \in Jobs, ~DeletedLate(j)
      PROVE  /\ Readable(j) <=> GetJobById(j)
             /\ \A u \in Users : j \in ProviderInbox(u) <=> j \in MemProviderInbox(u)
             /\ \A u \in Users :
                    j \in OpenRequests(u)
                      <=> /\ j \in MemOpenRequests(u)
                          /\ Cardinality(LiveQuotes(j)) < MaxQuotesPerOpenJob
  <2>1. /\ MemStatus(j) = jobs[j].status /\ mem.jobs[j].provider = jobs[j].provider
        /\ mem.jobs[j].location = jobs[j].location /\ (GetJobById(j) <=> Readable(j))
        /\ \A p : HasQuoteFromProvider(j, p) <=> HasLiveQuote(j, p)
    BY <1>1, SameReads
  <2>2. ASSUME NEW u \in Users PROVE j \in ProviderInbox(u) <=> j \in MemProviderInbox(u)
    BY <2>1 DEF ProviderInbox, MemProviderInbox, IsOpen, MemIsOpen
  <2>3. ASSUME NEW u \in Users
        PROVE  j \in OpenRequests(u)
                 <=> /\ j \in MemOpenRequests(u)
                     /\ Cardinality(LiveQuotes(j)) < MaxQuotesPerOpenJob
    BY <2>1 DEF OpenRequests, MemOpenRequests, IsOpen, MemIsOpen
  <2>. QED
    BY <2>1, <2>2, <2>3
<1>2. \A j \in Jobs : Cardinality(LiveQuotes(j)) < MaxQuotesPerOpenJob
                       <=> ~(Cardinality(LiveQuotes(j)) >= MaxQuotesPerOpenJob)
  BY LiveQuotesFinite, CapAssumption DEF MInv
<1>. DEFINE same == {j \in Jobs : ~DeletedLate(j)}
            full == {j \in Jobs : Cardinality(LiveQuotes(j)) >= MaxQuotesPerOpenJob}
<1>3. CustomerJobs \cap same = MemCustomerJobs \cap same
  BY <1>1 DEF CustomerJobs, MemCustomerJobs
<1>4. ASSUME NEW u \in Users
      PROVE  ProviderInbox(u) \cap same = MemProviderInbox(u) \cap same
  <2>1. ProviderInbox(u) \subseteq Jobs /\ MemProviderInbox(u) \subseteq Jobs
    BY DEF ProviderInbox, MemProviderInbox
  <2>. QED
    BY <1>1, <2>1
<1>5. ASSUME NEW u \in Users
      PROVE  OpenRequests(u) \cap same = (MemOpenRequests(u) \cap same) \ full
  <2>1. OpenRequests(u) \subseteq Jobs /\ MemOpenRequests(u) \subseteq Jobs
    BY DEF OpenRequests, MemOpenRequests
  <2>. QED
    BY <1>1, <1>2, <2>1
<1>. QED
  BY <1>3, <1>4, <1>5, Zenon DEF SameLists

LEMMA RepliesAgree == MInv /\ SameDocs => SameReplies
<1>. SUFFICES ASSUME MInv, SameDocs, NEW j \in Jobs, Readable(j)
              PROVE  /\ RepliesAre(Sql, j) /\ RepliesAre(Mem, j)
                     /\ \A u \in Callers : Deletions(u, j)
                     /\ docs[j] = memDocs[j]
                     /\ HasActiveQuotes(Sql, j) = HasActiveQuotes(Mem, j)
  BY DEF SameReplies, CustomerJobs
<1>1. TypeOK /\ docs[j] = memDocs[j]
  BY DEF MInv, SameDocs, Readable
<1>2. Reads(Sql, j) /\ Reads(Mem, j)
  BY <1>1, SqlReads, MemReads
<1>3. HasActiveQuotes(Sql, j) = HasActiveQuotes(Mem, j)
  BY <1>2 DEF HasActiveQuotes, Reads
<1>4. /\ Sql.image[WorkPhoto(j)] = GetWorkPhoto(docs, j)
      /\ Mem.image[WorkPhoto(j)] = GetWorkPhoto(docs, j)
  <2>1. PICK i : i = WorkPhoto(j) /\ i[2] = j /\ i \in WorkPhotos
    BY DEF WorkPhotos, WorkPhoto
  <2>4. i \notin RequestPhotos /\ i # Theirs
    BY <2>1, OutsidersAssumption DEF RequestPhotos, RequestPhoto, WorkPhoto
  <2>2. /\ GetImageById(WorkPhoto(j)) = GetWorkPhoto(docs, j)
        /\ MemGetImageById(WorkPhoto(j)) = GetWorkPhoto(memDocs, j)
    <3>1. GetImageById(i) = GetWorkPhoto(docs, i[2])
      BY <2>1, <2>4 DEF GetImageById
    <3>2. MemGetImageById(i) = GetWorkPhoto(memDocs, i[2])
      BY <2>1, <2>4 DEF MemGetImageById
    <3>. QED
      BY <2>1, <3>1, <3>2
  <2>3. GetWorkPhoto(memDocs, j) = GetWorkPhoto(docs, j)
    BY <1>1 DEF GetWorkPhoto
  <2>. QED
    BY <2>1, <2>2, <2>3 DEF Sql, Mem, ImageIds
<1>5. ASSUME NEW u \in Callers PROVE Deletions(u, j)
  <2>1. RequireMutable(j) <=> jobs[j].status \in CustomerMutable
    <3>1. SameJob(j) /\ ~DeletedLate(j) /\ mem.quotes = quotes
      BY DEF MInv, MemJob, DeletedLate, Readable
    <3>. QED
      BY <1>1, <3>1, SameChecks DEF CanChange
  <2>2. Sql.deletes = JobStatus /\ Mem.deletes = CustomerMutable
    BY DEF Sql, Mem
  <2>3. jobs[j].status \in JobStatus
    BY <1>1 DEF TypeOK, JobRow
  <2>4. /\ u # Customer => DeleteJobReply(Sql, u, j) # 200 /\ DeleteJobReply(Mem, u, j) # 200
        /\ u = Customer => /\ DeleteJobReply(Sql, u, j) = 200
                           /\ DeleteJobReply(Mem, u, j)
                                = IF jobs[j].status \in CustomerMutable THEN 200 ELSE 409
    BY <1>2, <2>2, <2>3, DeleteReplies
  <2>. QED
    BY <2>1, <2>4 DEF Deletions
<1>. QED
  BY <1>1, <1>2, <1>3, <1>4, <1>5, RepliesFollow
-----------------------------------------------------------------------------
(* Timelines on either store, when calls come one at a time *)

(* What the tests of the stores do: the next call is made when the last one  *)
(* has been answered.  (Of two calls that overlap, one may write its row     *)
(* before the other's creation row, which the in-memory store makes up.)     *)
OneAtATime == \A r, s \in Requests : r = s

(* The rows the in-memory stores keep are of no cancellation.                *)
KeptRow == {row \in HistoryRow : row.to # "CANCELLED"}
KeptType == /\ DOMAIN mem = MemFields
            /\ mem.quotesHistory \in [Jobs -> Seq(KeptRow)]
            /\ mem.execHistory \in [Jobs -> Seq(KeptRow)]

(* A job has been inserted, and its creation row not yet.                    *)
RowOwed(j) == \E r \in Requests : call[r].at = "historyRow" /\ call[r].job = j

(* The table holds what the in-memory stores say, and a cancellation besides. *)
Recounted(j) ==
    /\ jobs[j].status \notin {"COMPLETED", "CLOSED"} => mem.execHistory[j] = << >>
    /\ IF jobs[j].status = "ABSENT" \/ RowOwed(j)
       THEN /\ jobs[j].status \in {"ABSENT", "REQUESTED"}
            /\ history[j] = << >> /\ mem.quotesHistory[j] = << >>
       ELSE IF jobs[j].status = "CANCELLED"
       THEN \E last \in HistoryRow :
               last.to = "CANCELLED" /\ history[j] = Append(ListStatusHistory(j), last)
       ELSE history[j] = ListStatusHistory(j)

TInv == KeptType /\ \A j \in Jobs : ~jobs[j].deleted => Recounted(j)

(* Appending to the last part of a record appends to the record. *)
LEMMA RecordGrows ==
    ASSUME NEW S, NEW a \in Seq(S), NEW q \in Seq(S), NEW e \in Seq(S), NEW x \in Seq(S)
    PROVE  /\ (a \o q) \o (e \o x) = ((a \o q) \o e) \o x
           /\ (a \o (q \o x)) \o << >> = ((a \o q) \o << >>) \o x
<1>1. a \o q \in Seq(S) /\ q \o x \in Seq(S) /\ e \o x \in Seq(S) /\ a \o (q \o x) \in Seq(S)
  BY ConcatProperties
<1>2. (a \o q) \o (e \o x) = ((a \o q) \o e) \o x
  BY <1>1, ConcatAssociative
<1>3. (a \o q) \o x = a \o (q \o x)
  BY ConcatAssociative
<1>4. (a \o (q \o x)) \o << >> = a \o (q \o x) /\ (a \o q) \o << >> = a \o q
  BY <1>1, ConcatEmptySeq
<1>. QED
  BY <1>2, <1>3, <1>4

CreationRow == [from |-> "ABSENT", to |-> "REQUESTED"]

LEMMA ListIs ==
    ASSUME KeptType, NEW j \in Jobs
    PROVE  /\ ListStatusHistory(j) = (<<CreationRow>> \o mem.quotesHistory[j]) \o mem.execHistory[j]
           /\ <<CreationRow>> \in Seq(KeptRow)
           /\ mem.quotesHistory[j] \in Seq(KeptRow) /\ mem.execHistory[j] \in Seq(KeptRow)
           /\ ListStatusHistory(j) \in Seq(KeptRow)
<1>1. CreationRow \in KeptRow
  BY DEF CreationRow, KeptRow, HistoryRow, JobStatus, CustomerMutable
<1>2. <<CreationRow>> \in Seq(KeptRow)
  BY <1>1
<1>3. mem.quotesHistory[j] \in Seq(KeptRow) /\ mem.execHistory[j] \in Seq(KeptRow)
  BY DEF KeptType
<1>4. (<<CreationRow>> \o mem.quotesHistory[j]) \o mem.execHistory[j] \in Seq(KeptRow)
  BY <1>2, <1>3, ConcatProperties
<1>. QED
  BY <1>2, <1>3, <1>4 DEF ListStatusHistory, CreationRow

(* The steps of a job's record. *)
Still(j) == /\ jobs'[j].status = jobs[j].status /\ (RowOwed(j)' <=> RowOwed(j))
            /\ history'[j] = history[j]
            /\ mem'.quotesHistory[j] = mem.quotesHistory[j]
            /\ mem'.execHistory[j] = mem.execHistory[j]

LEMMA StillTold == ASSUME NEW j \in Jobs, Recounted(j), Still(j) PROVE Recounted(j)'
BY DEF Recounted, Still, ListStatusHistory

(* createQuote, acceptQuote, scheduleJob and startJob. *)
LEMMA QuotingTold ==
    ASSUME NEW j \in Jobs, KeptType, KeptType', Recounted(j), ~RowOwed(j), ~RowOwed(j)', NEW row \in KeptRow,
           jobs[j].status \in {"REQUESTED", "QUOTED", "ACCEPTED", "SCHEDULED"},
           jobs'[j].status \notin {"ABSENT", "CANCELLED", "COMPLETED", "CLOSED"},
           history'[j] = Append(history[j], row),
           mem'.quotesHistory[j] = Append(mem.quotesHistory[j], row),
           mem'.execHistory[j] = mem.execHistory[j]
    PROVE  Recounted(j)'
<1>1. PICK q, e, h : q = mem.quotesHistory[j] /\ e = mem.execHistory[j] /\ h = history[j]
  OBVIOUS
<1>2. e = << >> /\ h = (<<CreationRow>> \o q) \o e
  BY <1>1, ListIs DEF Recounted
<1>3. q \in Seq(KeptRow) /\ <<CreationRow>> \in Seq(KeptRow) /\ h \in Seq(KeptRow)
  BY <1>1, <1>2, ListIs
<1>4. Append(q, row) = q \o <<row>> /\ Append(h, row) = h \o <<row>> /\ <<row>> \in Seq(KeptRow)
  BY <1>3, AppendIsConcat
<1>5. Append(h, row) = (<<CreationRow>> \o Append(q, row)) \o << >>
  BY <1>2, <1>3, <1>4, RecordGrows
<1>6. history'[j] = ListStatusHistory(j)'
  BY <1>1, <1>2, <1>5 DEF ListStatusHistory, CreationRow
<1>. QED
  BY <1>1, <1>2, <1>6 DEF Recounted

(* completeJob and confirmJob. *)
LEMMA ExecutionTold ==
    ASSUME NEW j \in Jobs, KeptType, Recounted(j), ~RowOwed(j), ~RowOwed(j)', NEW rows \in Seq(KeptRow),
           jobs[j].status \in {"IN_PROGRESS", "COMPLETED"},
           jobs'[j].status \in {"COMPLETED", "CLOSED"},
           history'[j] = history[j] \o rows,
           mem'.quotesHistory[j] = mem.quotesHistory[j],
           mem'.execHistory[j] = mem.execHistory[j] \o rows
    PROVE  Recounted(j)'
<1>1. PICK q, e, h : q = mem.quotesHistory[j] /\ e = mem.execHistory[j] /\ h = history[j]
  OBVIOUS
<1>2. h = (<<CreationRow>> \o q) \o e
  BY <1>1, ListIs DEF Recounted
<1>3. q \in Seq(KeptRow) /\ e \in Seq(KeptRow) /\ <<CreationRow>> \in Seq(KeptRow)
  BY <1>1, ListIs
<1>4. h \o rows = (<<CreationRow>> \o q) \o (e \o rows)
  BY <1>2, <1>3, RecordGrows
<1>5. history'[j] = ListStatusHistory(j)'
  BY <1>1, <1>4 DEF ListStatusHistory, CreationRow
<1>. QED
  BY <1>5 DEF Recounted

LEMMA CreationTold ==
    ASSUME NEW j \in Jobs, KeptType, Recounted(j), RowOwed(j), ~RowOwed(j)', jobs[j].status # "ABSENT",
           jobs'[j].status = jobs[j].status,
           history'[j] = Append(history[j], CreationRow),
           mem'.quotesHistory[j] = mem.quotesHistory[j],
           mem'.execHistory[j] = mem.execHistory[j]
    PROVE  Recounted(j)'
<1>1. /\ jobs[j].status = "REQUESTED" /\ history[j] = << >>
      /\ mem.quotesHistory[j] = << >> /\ mem.execHistory[j] = << >>
  BY DEF Recounted
<1>2. history'[j] = <<CreationRow>>
  BY <1>1
<1>3. <<CreationRow>> \in Seq(KeptRow)
  BY ListIs
<1>4. (<<CreationRow>> \o << >>) \o << >> = <<CreationRow>>
  BY <1>3, ConcatEmptySeq
<1>5. history'[j] = ListStatusHistory(j)'
  BY <1>1, <1>2, <1>4 DEF ListStatusHistory, CreationRow
<1>. QED
  BY <1>1, <1>5 DEF Recounted

LEMMA CancelTold ==
    ASSUME NEW j \in Jobs, Recounted(j), ~RowOwed(j), ~RowOwed(j)', NEW last \in HistoryRow,
           last.to = "CANCELLED",
           jobs[j].status \in CustomerMutable, jobs'[j].status = "CANCELLED",
           history'[j] = Append(history[j], last),
           mem'.quotesHistory[j] = mem.quotesHistory[j],
           mem'.execHistory[j] = mem.execHistory[j]
    PROVE  Recounted(j)'
<1>1. history[j] = ListStatusHistory(j) /\ mem.execHistory[j] = << >>
  BY DEF Recounted, CustomerMutable
<1>2. ListStatusHistory(j)' = ListStatusHistory(j)
  BY DEF ListStatusHistory
<1>. QED
  BY <1>1, <1>2 DEF Recounted
(* What a write of the in-memory stores leaves in the two histories. *)
Keeps(m, q, e) == DOMAIN m = MemFields /\ m.quotesHistory = q /\ m.execHistory = e
WithRow(h, j, row) == [h EXCEPT ![j] = Append(h[j], row)]
WithRows(h, j, rows) == [h EXCEPT ![j] = h[j] \o rows]
MoveRow(s, t) == [from |-> s, to |-> t]

LEMMA KeptWrites ==
    ASSUME KeptType, NEW j \in Jobs
    PROVE  /\ \A p, loc : Keeps(MemCreateJob(j, p, loc), mem.quotesHistory, mem.execHistory)
           /\ \A loc : Keeps(MemUpdateJob(j, loc), mem.quotesHistory, mem.execHistory)
           /\ Keeps(MemCancelJob(j), mem.quotesHistory, mem.execHistory)
           /\ Keeps(MemDeleteJob(j), mem.quotesHistory, mem.execHistory)
           /\ Keeps(MemScheduleJob(j),
                    WithRow(mem.quotesHistory, j, MoveRow("ACCEPTED", "SCHEDULED")), mem.execHistory)
           /\ Keeps(MemStartJob(j),
                    WithRow(mem.quotesHistory, j, MoveRow("SCHEDULED", "IN_PROGRESS")),
                    mem.execHistory)
           /\ Keeps(MemCompleteJob(j), mem.quotesHistory,
                    WithRow(mem.execHistory, j, MoveRow("IN_PROGRESS", "COMPLETED")))
           /\ Keeps(MemConfirmJob(j), mem.quotesHistory,
                    WithRows(mem.execHistory, j, <<MoveRow("COMPLETED", "CONFIRMED"),
                                                   MoveRow("CONFIRMED", "CLOSED")>>))
<1>. USE DEF KeptType, MemFields, Keeps, WithRow, WithRows, MoveRow
<1>1. /\ \A p, loc : Keeps(MemCreateJob(j, p, loc), mem.quotesHistory, mem.execHistory)
      /\ \A loc : Keeps(MemUpdateJob(j, loc), mem.quotesHistory, mem.execHistory)
  BY DEF MemCreateJob, MemUpdateJob
<1>2. /\ Keeps(MemCancelJob(j), mem.quotesHistory, mem.execHistory)
      /\ Keeps(MemDeleteJob(j), mem.quotesHistory, mem.execHistory)
  BY DEF MemCancelJob, MemDeleteJob
<1>3. Keeps(MemScheduleJob(j),
            WithRow(mem.quotesHistory, j, MoveRow("ACCEPTED", "SCHEDULED")), mem.execHistory)
  BY DEF MemScheduleJob
<1>4. Keeps(MemStartJob(j),
            WithRow(mem.quotesHistory, j, MoveRow("SCHEDULED", "IN_PROGRESS")), mem.execHistory)
  BY DEF MemStartJob
<1>5. Keeps(MemCompleteJob(j), mem.quotesHistory,
            WithRow(mem.execHistory, j, MoveRow("IN_PROGRESS", "COMPLETED")))
  BY DEF MemCompleteJob
<1>6. Keeps(MemConfirmJob(j), mem.quotesHistory,
            WithRows(mem.execHistory, j, <<MoveRow("COMPLETED", "CONFIRMED"),
                                           MoveRow("CONFIRMED", "CLOSED")>>))
  BY DEF MemConfirmJob
<1>. QED
  BY <1>1, <1>2, <1>3, <1>4, <1>5, <1>6

LEMMA KeptOffers ==
    ASSUME KeptType, NEW j \in Jobs
    PROVE  /\ \A p : IF MemStatus(j) = "REQUESTED"
                     THEN Keeps(MemCreateQuote(j, p),
                                WithRow(mem.quotesHistory, j, MoveRow("REQUESTED", "QUOTED")),
                                mem.execHistory)
                     ELSE Keeps(MemCreateQuote(j, p), mem.quotesHistory, mem.execHistory)
           /\ \A q : Keeps(MemAcceptQuote(j, q),
                           WithRow(mem.quotesHistory, j, MoveRow("QUOTED", "ACCEPTED")),
                           mem.execHistory)
<1>. USE DEF KeptType, MemFields, Keeps, WithRow, MoveRow
<1>1. ASSUME NEW p, MemStatus(j) = "REQUESTED"
      PROVE  Keeps(MemCreateQuote(j, p),
                   WithRow(mem.quotesHistory, j, MoveRow("REQUESTED", "QUOTED")), mem.execHistory)
  BY <1>1 DEF MemCreateQuote
<1>2. ASSUME NEW p, MemStatus(j) # "REQUESTED"
      PROVE  Keeps(MemCreateQuote(j, p), mem.quotesHistory, mem.execHistory)
  BY <1>2 DEF MemCreateQuote
<1>3. ASSUME NEW q
      PROVE  Keeps(MemAcceptQuote(j, q),
                   WithRow(mem.quotesHistory, j, MoveRow("QUOTED", "ACCEPTED")), mem.execHistory)
  BY DEF MemAcceptQuote
<1>. QED
  BY <1>1, <1>2, <1>3

LEMMA KeptRows ==
    ASSUME NEW s \in JobStatus, NEW t \in JobStatus \ {"CANCELLED"} PROVE MoveRow(s, t) \in KeptRow
BY DEF MoveRow, KeptRow, HistoryRow

LEMMA OneRowAdded ==
    ASSUME NEW h \in [Jobs -> Seq(KeptRow)], NEW j \in Jobs, NEW row \in KeptRow
    PROVE  WithRow(h, j, row) = WithRows(h, j, <<row>>) /\ <<row>> \in Seq(KeptRow)
<1>1. Append(h[j], row) = h[j] \o <<row>>
  BY AppendIsConcat
<1>. QED
  BY <1>1 DEF WithRow, WithRows

(* What the in-memory stores make of a call, in the two histories.           *)
LEMMA MemKeeps ==
    ASSUME KeptType, NEW r \in Requests, ServeBoth(r), NEW j \in Jobs, j = call[r].job
    PROVE  /\ KeptType'
           /\ \A x \in Jobs \ {j} : /\ mem'.quotesHistory[x] = mem.quotesHistory[x]
                                    /\ mem'.execHistory[x] = mem.execHistory[x]
<1>0. PICK c : c = call[r]
  OBVIOUS
<1>1. /\ c.at \in Transactions /\ c.job = j
      /\ mem' = IF MemPermits(c) THEN MemResult(c) ELSE mem
  BY <1>0 DEF ServeBoth
<1>2. PICK qh, eh : qh = mem.quotesHistory /\ eh = mem.execHistory
  OBVIOUS
<1>3. qh \in [Jobs -> Seq(KeptRow)] /\ eh \in [Jobs -> Seq(KeptRow)]
  BY <1>2 DEF KeptType
<1>4. ASSUME Keeps(mem', qh, eh)
      PROVE  /\ KeptType'
             /\ \A x \in Jobs \ {j} : mem'.quotesHistory[x] = qh[x] /\ mem'.execHistory[x] = eh[x]
  BY <1>3, <1>4 DEF Keeps, KeptType
<1>5. ASSUME NEW s \in JobStatus, NEW t \in JobStatus \ {"CANCELLED"},
             \/ Keeps(mem', WithRow(qh, j, MoveRow(s, t)), eh)
             \/ Keeps(mem', qh, WithRow(eh, j, MoveRow(s, t)))
      PROVE  /\ KeptType'
             /\ \A x \in Jobs \ {j} : mem'.quotesHistory[x] = qh[x] /\ mem'.execHistory[x] = eh[x]
  <2>1. PICK row : row = MoveRow(s, t) /\ row \in KeptRow
    BY KeptRows
  <2>2. /\ WithRow(qh, j, row) = WithRows(qh, j, <<row>>)
        /\ WithRow(eh, j, row) = WithRows(eh, j, <<row>>) /\ <<row>> \in Seq(KeptRow)
    BY <1>3, <2>1, OneRowAdded
  <2>5. PICK rows : rows = <<row>> /\ rows \in Seq(KeptRow)
    BY <2>2
  <2>6. qh[j] \o rows \in Seq(KeptRow) /\ eh[j] \o rows \in Seq(KeptRow)
    BY <1>3, <2>5, ConcatProperties
  <2>7. PICK qn, en : qn = WithRows(qh, j, rows) /\ en = WithRows(eh, j, rows)
    OBVIOUS
  <2>3. qn \in [Jobs -> Seq(KeptRow)] /\ \A x \in Jobs \ {j} : qn[x] = qh[x]
    BY <1>3, <2>6, <2>7 DEF WithRows
  <2>4. en \in [Jobs -> Seq(KeptRow)] /\ \A x \in Jobs \ {j} : en[x] = eh[x]
    BY <1>3, <2>6, <2>7 DEF WithRows
  <2>8. qn = WithRow(qh, j, MoveRow(s, t)) /\ en = WithRow(eh, j, MoveRow(s, t))
    BY <2>1, <2>2, <2>5, <2>7
  <2>. QED
    BY <1>3, <1>5, <2>3, <2>4, <2>8 DEF Keeps, KeptType
<1>6. ASSUME Keeps(mem', qh, WithRows(eh, j, <<MoveRow("COMPLETED", "CONFIRMED"),
                                             MoveRow("CONFIRMED", "CLOSED")>>))
      PROVE  /\ KeptType'
             /\ \A x \in Jobs \ {j} : mem'.quotesHistory[x] = qh[x] /\ mem'.execHistory[x] = eh[x]
  <2>1. PICK rows : rows = <<MoveRow("COMPLETED", "CONFIRMED"), MoveRow("CONFIRMED", "CLOSED")>>
    OBVIOUS
  <2>2. rows \in Seq(KeptRow)
    <3>1. MoveRow("COMPLETED", "CONFIRMED") \in KeptRow /\ MoveRow("CONFIRMED", "CLOSED") \in KeptRow
      BY KeptRows DEF JobStatus, AgreedStatus
    <3>. QED
      BY <2>1, <3>1
  <2>4. eh[j] \o rows \in Seq(KeptRow)
    BY <1>3, <2>2, ConcatProperties
  <2>5. PICK en : en = WithRows(eh, j, rows)
    OBVIOUS
  <2>3. en \in [Jobs -> Seq(KeptRow)] /\ \A x \in Jobs \ {j} : en[x] = eh[x]
    BY <1>3, <2>4, <2>5 DEF WithRows
  <2>. QED
    BY <1>3, <1>6, <2>1, <2>3, <2>5 DEF Keeps, KeptType
<1>7. CASE ~MemPermits(c)
  BY <1>1, <1>2, <1>4, <1>7 DEF Keeps, KeptType
<1>8. CASE MemPermits(c)
  <2>0. mem' = MemResult(c)
    BY <1>1, <1>8
  <2>1. CASE c.at \in {"update", "cancel", "delete"}
    BY <1>1, <1>2, <1>4, <2>0, <2>1, KeptWrites, Served
  <2>2. CASE c.at = "quote"
    <3>1. "REQUESTED" \in JobStatus /\ "QUOTED" \in JobStatus
      BY DEF JobStatus, CustomerMutable
    <3>. QED
      BY <1>1, <1>2, <1>4, <1>5, <2>0, <2>2, <3>1, KeptOffers, Served
  <2>3. CASE c.at \in {"accept", "schedule", "start"}
    <3>1. {"QUOTED", "ACCEPTED", "SCHEDULED", "IN_PROGRESS"} \subseteq JobStatus
      BY DEF JobStatus, CustomerMutable, AgreedStatus
    <3>2. CASE c.at = "accept"
      BY <1>1, <1>2, <1>5, <2>0, <3>1, <3>2, KeptOffers, Served
    <3>3. CASE c.at = "schedule"
      BY <1>1, <1>2, <1>5, <2>0, <3>1, <3>3, KeptWrites, Served
    <3>4. CASE c.at = "start"
      BY <1>1, <1>2, <1>5, <2>0, <3>1, <3>4, KeptWrites, Served
    <3>. QED
      BY <2>3, <3>2, <3>3, <3>4
  <2>4. CASE c.at = "complete"
    <3>1. {"IN_PROGRESS", "COMPLETED"} \subseteq JobStatus
      BY DEF JobStatus, AgreedStatus
    <3>. QED
      BY <1>1, <1>2, <1>5, <2>0, <2>4, <3>1, KeptWrites, Served
  <2>5. CASE c.at = "confirm"
    BY <1>1, <1>2, <1>6, <2>0, <2>5, KeptWrites, Served
  <2>. QED
    BY <1>1, <2>1, <2>2, <2>3, <2>4, <2>5 DEF Transactions
<1>. QED
  BY <1>2, <1>7, <1>8
(* A move that the quotes store makes.                                       *)
LEMMA QuotingServed ==
    ASSUME TypeOK, KeptType, KeptType', NEW j \in Jobs, Recounted(j), ~RowOwed(j), ~RowOwed(j)',
           NEW s \in {"REQUESTED", "QUOTED", "ACCEPTED", "SCHEDULED"},
           NEW t \in {"QUOTED", "ACCEPTED", "SCHEDULED", "IN_PROGRESS"},
           jobs[j].status = s, jobs'[j].status = t,
           history' = [history EXCEPT ![j] = Append(@, [from |-> s, to |-> t])],
           Keeps(mem', WithRow(mem.quotesHistory, j, MoveRow(s, t)), mem.execHistory)
    PROVE  Recounted(j)'
<1>1. PICK row : row = MoveRow(s, t) /\ row \in KeptRow
  <2>1. s \in JobStatus /\ t \in JobStatus \ {"CANCELLED"}
    BY DEF JobStatus, CustomerMutable, AgreedStatus
  <2>. QED
    BY <2>1, KeptRows
<1>2. row = [from |-> s, to |-> t]
  BY <1>1 DEF MoveRow
<1>3. history'[j] = Append(history[j], row)
  BY <1>2 DEF TypeOK
<1>4. PICK q, e : q = mem.quotesHistory /\ e = mem.execHistory
  OBVIOUS
<1>5. q \in [Jobs -> Seq(KeptRow)]
  BY <1>4 DEF KeptType
<1>6. PICK qn : qn = WithRow(q, j, row)
  OBVIOUS
<1>7. qn[j] = Append(q[j], row)
  BY <1>5, <1>6 DEF WithRow
<1>8. /\ mem'.quotesHistory[j] = Append(mem.quotesHistory[j], row)
      /\ mem'.execHistory[j] = mem.execHistory[j]
  BY <1>1, <1>4, <1>6, <1>7 DEF Keeps
<1>. QED
  BY <1>1, <1>3, <1>8, QuotingTold

(* The moves that the execution store makes.                                 *)
LEMMA ExecutionServed ==
    ASSUME TypeOK, KeptType, NEW j \in Jobs, Recounted(j), ~RowOwed(j), ~RowOwed(j)',
           NEW rows \in Seq(KeptRow),
           jobs[j].status \in {"IN_PROGRESS", "COMPLETED"},
           jobs'[j].status \in {"COMPLETED", "CLOSED"},
           history' = [history EXCEPT ![j] = @ \o rows],
           Keeps(mem', mem.quotesHistory, WithRows(mem.execHistory, j, rows))
    PROVE  Recounted(j)'
<1>1. history'[j] = history[j] \o rows
  BY DEF TypeOK
<1>2. PICK q, e : q = mem.quotesHistory /\ e = mem.execHistory
  OBVIOUS
<1>3. e \in [Jobs -> Seq(KeptRow)]
  BY <1>2 DEF KeptType
<1>4. PICK en : en = WithRows(e, j, rows)
  OBVIOUS
<1>5. en[j] = e[j] \o rows
  BY <1>3, <1>4 DEF WithRows
<1>6. /\ mem'.quotesHistory[j] = mem.quotesHistory[j]
      /\ mem'.execHistory[j] = mem.execHistory[j] \o rows
  BY <1>2, <1>4, <1>5 DEF Keeps
<1>. QED
  BY <1>1, <1>6, ExecutionTold

(* A transaction of either store: the quotes store's.                        *)
LEMMA QuotesStoreTold ==
    ASSUME TypeOK, KeptType, KeptType', NEW r \in Requests, NEW c, c = call[r],
           NEW j \in Jobs, j = c.job,
           MemStatus(j) = jobs[j].status, Recounted(j), ~RowOwed(j), ~RowOwed(j)',
           \/ CreateQuote(r) /\ mem' = MemCreateQuote(j, c.provider)
           \/ AcceptQuote(r) /\ mem' = MemAcceptQuote(j, c.quote)
           \/ ScheduleJob(r) /\ mem' = MemScheduleJob(j)
           \/ StartJob(r) /\ mem' = MemStartJob(j)
    PROVE  Recounted(j)'
<1>0. ASSUME NEW from, NEW to, Moves(j, from, to)
      PROVE  /\ jobs'[j].status = to
             /\ history' = [history EXCEPT ![j] = Append(@, [from |-> from, to |-> to])]
  BY <1>0 DEF Moves, TypeOK, JobRow
<1>1. CASE CreateQuote(r) /\ mem' = MemCreateQuote(j, c.provider)
  <2>1. QuoteMovesJob(j)
    BY <1>1 DEF CreateQuote
  <2>2. CASE jobs[j].status = "REQUESTED"
    <3>1. Moves(j, "REQUESTED", "QUOTED")
      BY <2>1, <2>2 DEF QuoteMovesJob
    <3>2. Keeps(mem', WithRow(mem.quotesHistory, j, MoveRow("REQUESTED", "QUOTED")),
                mem.execHistory)
      BY <1>1, <2>2, KeptOffers
    <3>. QED
      BY <1>0, <2>2, <3>1, <3>2, QuotingServed
  <2>3. CASE jobs[j].status # "REQUESTED"
    <3>1. Keeps(mem', mem.quotesHistory, mem.execHistory)
      BY <1>1, <2>3, KeptOffers
    <3>2. Still(j)
      BY <2>1, <2>3, <3>1 DEF QuoteMovesJob, Still, Keeps
    <3>. QED
      BY <3>2, StillTold
  <2>. QED
    BY <2>2, <2>3
<1>2. CASE AcceptQuote(r) /\ mem' = MemAcceptQuote(j, c.quote)
  <2>1. /\ jobs[j].status = "QUOTED" /\ jobs'[j].status = "ACCEPTED"
        /\ history' = [history EXCEPT ![j] = Append(@, [from |-> "QUOTED", to |-> "ACCEPTED"])]
    BY <1>2 DEF AcceptQuote, CanAccept, TypeOK, JobRow
  <2>2. Keeps(mem', WithRow(mem.quotesHistory, j, MoveRow("QUOTED", "ACCEPTED")),
              mem.execHistory)
    BY <1>2, KeptOffers
  <2>. QED
    BY <2>1, <2>2, QuotingServed
<1>3. CASE ScheduleJob(r) /\ mem' = MemScheduleJob(j)
  <2>1. jobs[j].status = "ACCEPTED" /\ Moves(j, "ACCEPTED", "SCHEDULED")
    BY <1>3 DEF ScheduleJob, CanSchedule
  <2>2. Keeps(mem', WithRow(mem.quotesHistory, j, MoveRow("ACCEPTED", "SCHEDULED")),
              mem.execHistory)
    BY <1>3, KeptWrites
  <2>. QED
    BY <1>0, <2>1, <2>2, QuotingServed
<1>4. CASE StartJob(r) /\ mem' = MemStartJob(j)
  <2>1. jobs[j].status = "SCHEDULED" /\ Moves(j, "SCHEDULED", "IN_PROGRESS")
    BY <1>4 DEF StartJob, CanStart
  <2>2. Keeps(mem', WithRow(mem.quotesHistory, j, MoveRow("SCHEDULED", "IN_PROGRESS")),
              mem.execHistory)
    BY <1>4, KeptWrites
  <2>. QED
    BY <1>0, <2>1, <2>2, QuotingServed
<1>. QED
  BY <1>1, <1>2, <1>3, <1>4
(* The execution store's. *)
LEMMA ExecutionStoreTold ==
    ASSUME TypeOK, KeptType, NEW r \in Requests, NEW j \in Jobs, j = call[r].job,
           Recounted(j), ~RowOwed(j), ~RowOwed(j)',
           \/ CompleteJob(r) /\ mem' = MemCompleteJob(j)
           \/ ConfirmJob(r) /\ mem' = MemConfirmJob(j)
    PROVE  Recounted(j)'
<1>1. /\ \A row \in KeptRow : <<row>> \in Seq(KeptRow)
      /\ \A a, b \in KeptRow : <<a, b>> \in Seq(KeptRow)
  OBVIOUS
<1>2. CASE CompleteJob(r) /\ mem' = MemCompleteJob(j)
  <2>1. PICK row : row = MoveRow("IN_PROGRESS", "COMPLETED") /\ row \in KeptRow
    BY KeptRows DEF JobStatus, AgreedStatus
  <2>2. /\ jobs[j].status = "IN_PROGRESS"
        /\ Moves(j, "IN_PROGRESS", "COMPLETED")
    BY <1>2 DEF CompleteJob, CanComplete
  <2>3. jobs'[j].status = "COMPLETED" /\ history' = [history EXCEPT ![j] = Append(@, row)]
    BY <2>1, <2>2 DEF Moves, TypeOK, JobRow, MoveRow
  <2>4. PICK h : h = history[j] /\ h \in Seq(HistoryRow) /\ row \in HistoryRow
    BY <2>1 DEF TypeOK, KeptRow
  <2>5. Append(h, row) = h \o <<row>>
    BY <2>4, AppendIsConcat
  <2>6. history' = [history EXCEPT ![j] = @ \o <<row>>]
    BY <2>3, <2>4, <2>5
  <2>7. Keeps(mem', mem.quotesHistory, WithRow(mem.execHistory, j, row))
    BY <1>2, <2>1, KeptWrites
  <2>8. PICK e : e = mem.execHistory /\ e \in [Jobs -> Seq(KeptRow)]
    BY DEF KeptType
  <2>9. WithRow(e, j, row) = WithRows(e, j, <<row>>)
    BY <2>1, <2>8, OneRowAdded
  <2>10. Keeps(mem', mem.quotesHistory, WithRows(mem.execHistory, j, <<row>>))
    BY <2>7, <2>8, <2>9
  <2>. QED
    BY <1>1, <2>1, <2>2, <2>3, <2>6, <2>10, ExecutionServed
<1>3. CASE ConfirmJob(r) /\ mem' = MemConfirmJob(j)
  <2>1. PICK a, b : /\ a = MoveRow("COMPLETED", "CONFIRMED") /\ a \in KeptRow
                    /\ b = MoveRow("CONFIRMED", "CLOSED") /\ b \in KeptRow
    BY KeptRows DEF JobStatus, AgreedStatus
  <2>2. PICK rows : rows = <<a, b>> /\ rows \in Seq(KeptRow)
    BY <1>1, <2>1
  <2>3. jobs[j].status = "COMPLETED" /\ jobs'[j].status = "CLOSED"
    BY <1>3 DEF ConfirmJob, CanConfirm, TypeOK, JobRow
  <2>4. history' = [history EXCEPT ![j] = @ \o rows]
    BY <1>3, <2>1, <2>2 DEF ConfirmJob, MoveRow
  <2>5. Keeps(mem', mem.quotesHistory, WithRows(mem.execHistory, j, rows))
    BY <1>3, <2>1, <2>2, KeptWrites
  <2>. QED
    BY <2>2, <2>3, <2>4, <2>5, ExecutionServed
<1>. QED
  BY <1>2, <1>3

(* The jobs store's.  A job deleted is listed no more. *)
LEMMA JobsStoreTold ==
    ASSUME TypeOK, KeptType, NEW r \in Requests, NEW c, c = call[r],
           NEW j \in Jobs, j = c.job, Recounted(j), ~RowOwed(j), ~RowOwed(j)', ~jobs'[j].deleted,
           \/ UpdateJob(r) /\ mem' = MemUpdateJob(j, c.location)
           \/ CancelJob(r) /\ mem' = MemCancelJob(j)
           \/ DeleteJob(r)
    PROVE  Recounted(j)'
<1>1. CASE UpdateJob(r) /\ mem' = MemUpdateJob(j, c.location)
  <2>1. Keeps(mem', mem.quotesHistory, mem.execHistory)
    BY <1>1, KeptWrites
  <2>2. jobs'[j].status = jobs[j].status /\ history' = history
    BY <1>1 DEF UpdateJob, TypeOK, JobRow
  <2>. QED
    BY <2>1, <2>2, StillTold DEF Still, Keeps
<1>2. CASE CancelJob(r) /\ mem' = MemCancelJob(j)
  <2>1. PICK s \in CustomerMutable : s = jobs[j].status
    BY <1>2 DEF CancelJob, CanChange
  <2>2. PICK last : last = [from |-> s, to |-> "CANCELLED"]
    OBVIOUS
  <2>5. last \in HistoryRow /\ last.to = "CANCELLED"
    BY <2>1, <2>2 DEF HistoryRow, JobStatus
  <2>3. /\ jobs'[j].status = "CANCELLED"
        /\ history'[j] = Append(history[j], last)
    BY <1>2, <2>1, <2>2 DEF CancelJob, Moves, TypeOK, JobRow
  <2>4. Keeps(mem', mem.quotesHistory, mem.execHistory)
    BY <1>2, KeptWrites
  <2>. QED
    BY <2>1, <2>3, <2>4, <2>5, CancelTold DEF Keeps
<1>3. CASE DeleteJob(r)
  BY <1>3 DEF DeleteJob, TypeOK, JobRow
<1>. QED
  BY <1>1, <1>2, <1>3

(* A transaction writes its own job, and leaves no handler at the creation row. *)
LEMMA TransactionAside ==
    ASSUME TypeOK, NEW r \in Requests, call[r].at \in Transactions, Proceed(r),
           NEW x \in Jobs \ {call[r].job}
    PROVE  jobs'[x] = jobs[x] /\ history'[x] = history[x]
<1>1. PICK j : j = call[r].job
  OBVIOUS
<1>2. ASSUME NEW from, NEW to, Moves(j, from, to)
      PROVE  jobs'[x] = jobs[x] /\ history'[x] = history[x]
  BY <1>1, <1>2 DEF Moves, TypeOK
<1>3. CASE \/ CreateQuote(r) \/ ScheduleJob(r) \/ StartJob(r) \/ CompleteJob(r) \/ CancelJob(r)
  BY <1>1, <1>2, <1>3 DEF CreateQuote, QuoteMovesJob, ScheduleJob, StartJob, CompleteJob, CancelJob
<1>4. CASE AcceptQuote(r)
  BY <1>1, <1>4 DEF AcceptQuote, TypeOK
<1>5. CASE ConfirmJob(r) \/ UpdateJob(r) \/ DeleteJob(r)
  BY <1>1, <1>5 DEF ConfirmJob, UpdateJob, DeleteJob, TypeOK
<1>6. CASE ~Permitted(call[r]) /\ UNCHANGED <<jobs, quotes, history, notes>>
  BY <1>6
<1>. QED
  BY <1>3, <1>4, <1>5, <1>6, Transacted
LEMMA NoneOwed ==
    ASSUME OneAtATime, NEW r \in Requests, call[r].at # "historyRow" PROVE \A x : ~RowOwed(x)
BY DEF OneAtATime, RowOwed

LEMMA StaysSettled == ASSUME Shrinks, NEW x \in Jobs, ~RowOwed(x) PROVE ~RowOwed(x)'
BY DEF Shrinks, Posting, RowOwed

LEMMA TransactionShrinks ==
    ASSUME TypeOK, NEW r \in Requests, call[r].at \in Transactions, Proceed(r) PROVE Shrinks
<1>1. CASE InsertCreationRow(r)
  BY <1>1 DEF InsertCreationRow, Transactions
<1>2. CASE ConfirmJob(r)
  BY <1>2, GoingShrinks DEF ConfirmJob, Phase
<1>. QED
  BY <1>1, <1>2, ProceedRecords DEF Quiet, Logs

(* One call served by both stores. *)
LEMMA ServedTold ==
    ASSUME OneAtATime, MInv, TInv, NEW r \in Requests, ServeBoth(r) PROVE TInv'
<1>0. PICK c : c = call[r]
  OBVIOUS
<1>1. /\ c.at \in Transactions /\ Proceed(r) /\ TypeOK
      /\ mem' = IF MemPermits(c) THEN MemResult(c) ELSE mem
  BY <1>0 DEF ServeBoth, MInv
<1>2. PICK j \in Jobs : j = c.job /\ jobs[j].status # "ABSENT"
  BY <1>0, <1>1 DEF TypeOK, Transactions
<1>3. KeptType /\ KeptType'
  BY <1>0, <1>2, MemKeeps DEF TInv
<1>4. \A x \in Jobs : ~RowOwed(x) /\ ~RowOwed(x)'
  <2>1. \A x : ~RowOwed(x)
    BY <1>0, <1>1, NoneOwed DEF Transactions
  <2>. QED
    BY <1>0, <1>1, <2>1, TransactionShrinks, StaysSettled
<1>5. ASSUME NEW x \in Jobs \ {j}, ~jobs'[x].deleted PROVE Recounted(x)'
  <2>1. /\ jobs'[x] = jobs[x] /\ history'[x] = history[x]
        /\ mem'.quotesHistory[x] = mem.quotesHistory[x]
        /\ mem'.execHistory[x] = mem.execHistory[x]
    BY <1>0, <1>1, <1>2, <1>3, TransactionAside, MemKeeps
  <2>2. Recounted(x) /\ Still(x)
    BY <1>4, <1>5, <2>1 DEF TInv, Still
  <2>. QED
    BY <2>2, StillTold
<1>6. ASSUME ~jobs'[j].deleted PROVE Recounted(j)'
  <2>0. [Next]_vars
    BY <1>1 DEF Next
  <2>1. ~jobs[j].deleted /\ Recounted(j)
    BY <1>1, <1>2, <1>6, <2>0, DeletedStays DEF TInv
  <2>2. Readable(j) /\ ~DeletedLate(j)
    BY <1>2, <2>1 DEF Readable, DeletedLate
  <2>3. MemStatus(j) = jobs[j].status
    BY <2>2, SameReads
  <2>4. c.at # "delete" => (Permitted(c) <=> MemPermits(c))
    BY <1>1, <1>2, <2>2, SameChecks, SameDocChecks, Served DEF Transactions
  <2>5. CASE ~Permitted(call[r]) /\ UNCHANGED <<jobs, quotes, history, notes>>
    <3>1. mem' = mem
      BY <1>0, <1>1, <2>4, <2>5, Served
    <3>. QED
      BY <1>4, <2>1, <2>5, <3>1, StillTold DEF Still
  <2>6. CASE \/ c.at = "quote" /\ CreateQuote(r)
             \/ c.at = "accept" /\ AcceptQuote(r)
             \/ c.at = "schedule" /\ ScheduleJob(r)
             \/ c.at = "start" /\ StartJob(r)
    <3>1. Permitted(c)
      BY <1>0, <2>6, Served DEF CreateQuote, AcceptQuote, ScheduleJob, StartJob
    <3>2. mem' = MemResult(c)
      BY <1>1, <2>4, <2>6, <3>1
    <3>3. \/ CreateQuote(r) /\ mem' = MemCreateQuote(j, c.provider)
          \/ AcceptQuote(r) /\ mem' = MemAcceptQuote(j, c.quote)
          \/ ScheduleJob(r) /\ mem' = MemScheduleJob(j)
          \/ StartJob(r) /\ mem' = MemStartJob(j)
      BY <1>2, <2>6, <3>2, Served
    <3>. QED
      BY <1>0, <1>1, <1>2, <1>3, <1>4, <2>1, <2>3, <3>3, QuotesStoreTold
  <2>7. CASE \/ c.at = "complete" /\ CompleteJob(r)
             \/ c.at = "confirm" /\ ConfirmJob(r)
    <3>1. Permitted(c)
      BY <1>0, <2>7, Served DEF CompleteJob, ConfirmJob
    <3>2. mem' = MemResult(c)
      BY <1>1, <2>4, <2>7, <3>1
    <3>3. \/ CompleteJob(r) /\ mem' = MemCompleteJob(j)
          \/ ConfirmJob(r) /\ mem' = MemConfirmJob(j)
      BY <1>2, <2>7, <3>2, Served
    <3>. QED
      BY <1>0, <1>1, <1>2, <1>3, <1>4, <2>1, <3>3, ExecutionStoreTold
  <2>8. CASE \/ c.at = "update" /\ UpdateJob(r)
             \/ c.at = "cancel" /\ CancelJob(r)
             \/ c.at = "delete" /\ DeleteJob(r)
    <3>1. c.at # "delete" => Permitted(c)
      BY <1>0, <2>8, Served DEF UpdateJob, CancelJob
    <3>2. c.at # "delete" => mem' = MemResult(c)
      BY <1>1, <2>4, <3>1
    <3>3. \/ UpdateJob(r) /\ mem' = MemUpdateJob(j, c.location)
          \/ CancelJob(r) /\ mem' = MemCancelJob(j)
          \/ DeleteJob(r)
      BY <1>2, <2>8, <3>2, Served
    <3>. QED
      BY <1>0, <1>1, <1>2, <1>3, <1>4, <1>6, <2>1, <3>3, JobsStoreTold
  <2>. QED
    BY <1>0, <1>1, <2>5, <2>6, <2>7, <2>8, Transacted
<1>. QED
  BY <1>3, <1>5, <1>6 DEF TInv

(* A request posted: its creation row is owed, and nothing is written.       *)
LEMMA SubmittedTold ==
    ASSUME OneAtATime, MInv, TInv, NEW r \in Requests, Submit(r) PROVE TInv'
<1>0. PICK j \in Jobs, p \in Providers \cup {None}, loc \in Locations :
          CreateJob(r, j, p, loc) /\ mem' = MemCreateJob(j, p, loc)
  BY DEF Submit
<1>1. KeptType /\ Keeps(mem', mem.quotesHistory, mem.execHistory)
  BY <1>0, KeptWrites DEF TInv
<1>2. KeptType'
  BY <1>1 DEF KeptType, Keeps
<1>3. /\ call[r].at = "idle" /\ jobs[j].status = "ABSENT" /\ history' = history
      /\ TypeOK
  BY <1>0 DEF CreateJob, Idle, MInv
<1>4. \A x : ~RowOwed(x)
  BY <1>3, NoneOwed
<1>5. ASSUME NEW x \in Jobs
      PROVE  (x # j => jobs'[x] = jobs[x]) /\ (x = j => jobs'[x].status = "REQUESTED")
  BY <1>0, <1>3 DEF CreateJob, TypeOK, JobRow, NoJob
<1>6. \A x \in Jobs : RowOwed(x)' <=> x = j
  <2>1. PICK c : /\ c = [Idle EXCEPT !.at = "historyRow", !.job = j, !.user = Customer,
                                     !.provider = p]
                 /\ call' = [call EXCEPT ![r] = c]
    BY <1>0 DEF CreateJob
  <2>2. c.at = "historyRow" /\ c.job = j
    BY <2>1 DEF Idle
  <2>3. call' \in [Requests -> {c}]
    BY <2>1 DEF OneAtATime, TypeOK, MInv
  <2>. QED
    BY <2>2, <2>3 DEF RowOwed
<1>7. ASSUME NEW x \in Jobs \ {j}, ~jobs'[x].deleted PROVE Recounted(x)'
  <2>1. Recounted(x) /\ Still(x)
    BY <1>1, <1>3, <1>4, <1>5, <1>6, <1>7 DEF TInv, Still, Keeps
  <2>. QED
    BY <2>1, StillTold
<1>8. Recounted(j)'
  <2>1. Recounted(j)
    BY <1>3 DEF TInv, MInv, Uninserted
  <2>. QED
    BY <1>1, <1>3, <1>5, <1>6, <2>1 DEF Recounted, Keeps
<1>. QED
  BY <1>2, <1>7, <1>8 DEF TInv

(* The services' own steps write no row but the creation row.                *)
LEMMA ServicesRow ==
    ASSUME TypeOK, NEW r \in Requests, ServiceStep(r) \/ AfterCommit(r)
    PROVE  IF call[r].at = "historyRow" THEN AfterCommit(r) /\ InsertCreationRow(r)
                                        ELSE history' = history /\ Shrinks
<1>1. jobs' = jobs
  BY ServicesRead
<1>2. CASE ServiceStep(r)
  <2>1. ASSUME NEW x \in Jobs, NEW p, NEW loc, CreateJob(r, x, p, loc) PROVE FALSE
    BY <1>1, <2>1 DEF CreateJob, TypeOK, JobRow, NoJob
  <2>2. Quiet
    BY <1>2, <2>1, ArriveRecords DEF ServiceStep
  <2>3. call[r].at # "historyRow"
    BY <1>2, ArriveAlone DEF ServiceStep, Arrives, Idle
  <2>. QED
    BY <2>2, <2>3 DEF Quiet
<1>3. CASE AfterCommit(r)
  <2>2. CASE InsertCreationRow(r)
    BY <1>3, <2>2 DEF InsertCreationRow
  <2>3. CASE ~InsertCreationRow(r)
    <3>1. \/ InsertAssignment(r) \/ AnnounceRequest(r) \/ AnnounceQuote(r) \/ AnnounceUpdate(r)
          \/ AnnounceCancel(r) \/ WarnDelete(r) \/ Announce(r) \/ NothingToAnnounce(r)
      BY <1>3, <2>3, CommitsApart DEF AfterCommit, Proceed
    <3>2. history' = history /\ call[r].at # "historyRow"
      BY <3>1 DEF InsertAssignment, AnnounceRequest, AnnounceQuote, AnnounceUpdate,
                  AnnounceCancel, WarnDelete, Announce, NothingToAnnounce, Announcing
    <3>3. Done(r) \/ \E phase \in Phase \ {"historyRow"} : GoTo(r, phase)
      BY <3>1 DEF InsertAssignment, AnnounceRequest, AnnounceQuote, AnnounceUpdate,
                  AnnounceCancel, WarnDelete, Announce, NothingToAnnounce, Phase, Transactions
    <3>. QED
      BY <3>2, <3>3, GoingShrinks
  <2>. QED
    BY <2>2, <2>3
<1>. QED
  BY <1>2, <1>3

LEMMA ServicesTold ==
    ASSUME OneAtATime, MInv, TInv, NEW r \in Requests, ServiceStep(r) \/ AfterCommit(r)
    PROVE  TInv'
<1>1. mem' = mem /\ jobs' = jobs /\ TypeOK
  BY ServicesRead DEF MInv
<1>2. KeptType /\ KeptType'
  BY <1>1 DEF TInv, KeptType
<1>3. CASE call[r].at # "historyRow"
  <2>1. history' = history /\ Shrinks /\ \A x : ~RowOwed(x)
    BY <1>1, <1>3, ServicesRow, NoneOwed
  <2>2. ASSUME NEW x \in Jobs, ~jobs'[x].deleted PROVE Recounted(x)'
    <3>1. Recounted(x) /\ ~RowOwed(x)'
      BY <1>1, <2>1, <2>2, StaysSettled DEF TInv
    <3>. QED
      BY <1>1, <2>1, <3>1, StillTold DEF Still
  <2>. QED
    BY <1>2, <2>2 DEF TInv
<1>4. CASE call[r].at = "historyRow"
  <2>1. InsertCreationRow(r)
    BY <1>1, <1>4, ServicesRow
  <2>2. PICK j \in Jobs : j = call[r].job /\ jobs[j].status # "ABSENT"
    BY <1>1, <1>4 DEF TypeOK
  <2>3. \A x \in Jobs : RowOwed(x) <=> x = j
    BY <1>4, <2>2 DEF RowOwed, OneAtATime
  <2>4. \A x \in Jobs : ~RowOwed(x)'
    <3>1. PICK phase : phase # "historyRow" /\ GoTo(r, phase)
      BY <2>1 DEF InsertCreationRow
    <3>2. call'[r].at # "historyRow"
      BY <1>1, <3>1 DEF GoTo, TypeOK, Call
    <3>. QED
      BY <3>2 DEF RowOwed, OneAtATime
  <2>5. /\ \A x \in Jobs \ {j} : history'[x] = history[x]
        /\ history'[j] = Append(history[j], CreationRow)
    BY <1>1, <2>1, <2>2 DEF InsertCreationRow, TypeOK, CreationRow
  <2>6. ASSUME NEW x \in Jobs, ~jobs'[x].deleted PROVE Recounted(x)'
    <3>1. Recounted(x)
      BY <1>1, <2>6 DEF TInv
    <3>2. CASE x = j
      BY <1>1, <1>2, <2>2, <2>3, <2>4, <2>5, <3>1, <3>2, CreationTold
    <3>3. CASE x # j
      BY <1>1, <2>3, <2>4, <2>5, <3>1, <3>3, StillTold DEF Still
    <3>. QED
      BY <3>2, <3>3
  <2>. QED
    BY <1>2, <2>6 DEF TInv
<1>. QED
  BY <1>3, <1>4

LEMMA TimelineStep == OneAtATime /\ MInv /\ TInv /\ [LockstepNext]_lockstep => TInv'
<1>. SUFFICES ASSUME OneAtATime, MInv, TInv, [LockstepNext]_lockstep PROVE TInv'
  OBVIOUS
<1>1. CASE UNCHANGED lockstep
  <2>1. ASSUME NEW x \in Jobs, ~jobs'[x].deleted PROVE Recounted(x)'
    <3>1. Recounted(x)
      BY <1>1, <2>1 DEF TInv, lockstep, vars
    <3>2. Still(x)
      BY <1>1 DEF Still, RowOwed, lockstep, vars
    <3>. QED
      BY <3>1, <3>2, StillTold
  <2>. QED
    BY <1>1, <2>1 DEF TInv, KeptType, lockstep
<1>. QED
  BY <1>1, SubmittedTold, ServedTold, ServicesTold DEF LockstepNext

LEMMA TimelineStart == LockstepInit => TInv
<1>. SUFFICES ASSUME LockstepInit PROVE TInv
  OBVIOUS
<1>1. /\ jobs = [j \in Jobs |-> NoJob] /\ history = [j \in Jobs |-> << >>]
      /\ DOMAIN mem = MemFields
      /\ mem.quotesHistory = [j \in Jobs |-> << >>] /\ mem.execHistory = [j \in Jobs |-> << >>]
  BY DEF LockstepInit, Init, MemInit, MemFields
<1>2. << >> \in Seq(KeptRow)
  OBVIOUS
<1>. QED
  BY <1>1, <1>2 DEF TInv, KeptType, Recounted, NoJob

(* Left without its cancellation, the history is the list.                   *)
LEMMA WithoutLast ==
    ASSUME NEW list \in Seq(KeptRow), NEW h,
           \/ h = list
           \/ \E last \in HistoryRow : last.to = "CANCELLED" /\ h = Append(list, last)
    PROVE  WithoutCancellation(h) = list
<1>1. /\ list = [k \in 1..Len(list) |-> list[k]] /\ DOMAIN list = 1..Len(list)
      /\ \A k \in DOMAIN list : list[k].to # "CANCELLED"
  BY DEF KeptRow
<1>2. CASE h = list
  BY <1>1, <1>2 DEF WithoutCancellation
<1>3. ASSUME NEW last \in HistoryRow, last.to = "CANCELLED", h = Append(list, last)
      PROVE  WithoutCancellation(h) = list
  <2>1. /\ DOMAIN h = 1..(Len(list) + 1) /\ h[Len(list) + 1] = last
        /\ \A k \in 1..Len(list) : h[k] = list[k]
    BY <1>3
  <2>2. {k \in DOMAIN h : h[k].to # "CANCELLED"} = 1..Len(list)
    <3>1. \A k \in 1..Len(list) : k \in DOMAIN h /\ h[k].to # "CANCELLED"
      BY <1>1, <2>1
    <3>2. \A k \in DOMAIN h : k \in 1..Len(list) \/ h[k].to = "CANCELLED"
      <4>1. \A k \in DOMAIN h : k \in 1..Len(list) \/ k = Len(list) + 1
        BY <2>1
      <4>. QED
        BY <1>3, <2>1, <4>1
    <3>. QED
      BY <3>1, <3>2
  <2>. QED
    BY <1>1, <2>1, <2>2 DEF WithoutCancellation
<1>. QED
  BY <1>2, <1>3

LEMMA TimelinesFollow == MInv /\ SameDocs /\ TInv => SameTimelines
<1>. SUFFICES ASSUME MInv, SameDocs, TInv, Between, NEW j \in Jobs, Readable(j)
              PROVE  BuildTimelineEvents(WithoutCancellation(history[j]), notes[j], docs[j])
                       = BuildTimelineEvents(ListStatusHistory(j), mem.updates[j], memDocs[j])
  BY DEF SameTimelines, CustomerJobs
<1>1. Recounted(j) /\ ~RowOwed(j) /\ jobs[j].status # "ABSENT" /\ ~jobs[j].deleted
  BY DEF TInv, Readable, RowOwed, Between, Idle
<1>2. docs[j] = memDocs[j] /\ mem.updates[j] = notes[j]
  BY <1>1 DEF SameDocs, MInv, MemJob, SameJob, DeletedLate
<1>3. PICK list : list = ListStatusHistory(j) /\ list \in Seq(KeptRow)
  BY ListIs DEF TInv
<1>4. \/ history[j] = list
      \/ \E last \in HistoryRow : last.to = "CANCELLED" /\ history[j] = Append(list, last)
  BY <1>1, <1>3 DEF Recounted
<1>5. WithoutCancellation(history[j]) = list
  BY <1>3, <1>4, WithoutLast
<1>. QED
  BY <1>2, <1>3, <1>5
LEMMA ApiStores == ApiSpec => [](MInv /\ SameDocs)
<1>1. ApiInit => MInv /\ SameDocs
  BY LockstepStart, DocsStart DEF ApiInit
<1>2. [ApiNext]_apiVars => [LockstepNext]_lockstep
  BY DEF ApiNext, apiVars
<1>3. MInv /\ SameDocs /\ [ApiNext]_apiVars => (MInv /\ SameDocs)'
  BY <1>2, LockstepStep, DocsStep
<1>. QED
  BY <1>1, <1>3, PTL DEF ApiSpec

(* A test that passes against the in-memory stores says the same of the      *)
(* deployed ones: for every caller and every endpoint, a well-formed call is *)
(* answered 200 exactly when the MySQL transaction goes through, and exactly *)
(* when the in-memory store lets it, however the calls before it overlapped; *)
(* and the lists of jobs read the same.  The one call of which this is not   *)
(* so is the deletion of a job past its gate: 200 deployed, 409 in a test.   *)
THEOREM EitherStoreAnswersAlike == ApiSpec => [](SameLists /\ SameReplies)
<1>1. MInv /\ SameDocs => SameLists /\ SameReplies
  BY ListsFollow, RepliesAgree
<1>. QED
  BY <1>1, ApiStores, PTL

(* And when the next call is made once the last one is answered, as the      *)
(* tests of the stores make them, so do the timelines, but for the           *)
(* cancellation that the in-memory execution store never reads.              *)
THEOREM EitherStoreTellsAlike ==
    ASSUME OneAtATime PROVE ApiSpec => []AnswersAgree
<1>1. ApiInit => TInv
  BY TimelineStart DEF ApiInit
<1>2. [ApiNext]_apiVars => [LockstepNext]_lockstep
  BY DEF ApiNext, apiVars
<1>3. MInv /\ TInv /\ [ApiNext]_apiVars => TInv'
  BY <1>2, TimelineStep
<1>4. MInv /\ SameDocs /\ TInv => AnswersAgree
  BY ListsFollow, RepliesAgree, TimelinesFollow DEF AnswersAgree
<1>. QED
  BY <1>1, <1>3, <1>4, ApiStores, PTL DEF ApiSpec
=============================================================================
