---------------------------- MODULE MarketplaceApi ----------------------------
(***************************************************************************)
(* Who may call the endpoints of the jobs, quotes and execution modules,   *)
(* and what each answers.  The jobs are those of MarketplaceJob; beside    *)
(* them stand an agreed job of another customer with another provider,     *)
(* Theirs, and an internal job of a business, Internal, which do not       *)
(* change.  The photos and the progress note of the work are added, as     *)
(* rows of the MySQL and of the in-memory stores.                          *)
(*                                                                         *)
(* The services are written against the interfaces of the stores, and so   *)
(* are the replies: v is what a store's reads return.  A reply is the      *)
(* status code of the first check that fails, in the order the handler     *)
(* makes them, and 200 for any success.  An account without a session is   *)
(* told 401 by the router before all of this.  Whether a body, a query or  *)
(* a file is well formed is one boolean, ok.                               *)
(***************************************************************************)
EXTENDS MemoryMarketplace

CONSTANTS
    Callers,                   \* accounts
    Roles,                     \* Roles[u]: the roles of the account
    Rival,                     \* another customer
    Theirs, Internal,          \* the rows described above
    Nowhere, Garbled,          \* an id of no row, and an id that is no number
    MaxRequestImages           \* MAX_REQUEST_IMAGES_PER_JOB

ProviderRoles == {"PROFESSIONAL", "BUSINESS_OWNER", "BUSINESS_MANAGER"}

ASSUME CallersAssumption ==
    /\ Users \cup {Customer, Rival} \subseteq Callers
    /\ Rival \notin Users \cup {Customer}
    /\ \A u \in Callers : u \in Users <=> Roles[u] \cap ProviderRoles # {}
    /\ \A u \in Callers : u \in {Customer, Rival} <=> "CUSTOMER" \in Roles[u]

(* Ids of the photos of a job: the provider's, of the work, and the          *)
(* customer's, of the request; one id stands for those of a kind.            *)
WorkPhoto(j) == <<"work", j>>
RequestPhoto(j) == <<"request", j>>
WorkPhotos == {WorkPhoto(j) : j \in Jobs}
RequestPhotos == {RequestPhoto(j) : j \in Jobs}

(* The four stand for ids of no job, quote or photo of the model. *)
ASSUME OutsidersAssumption ==
    /\ {Theirs, Internal, Nowhere, Garbled} \cap (Jobs \cup WorkPhotos \cup RequestPhotos) = {}
    /\ \A x \in {Theirs, Internal, Nowhere, Garbled} : x \notin Nat
    /\ Nowhere \notin {Theirs, Internal, Garbled} /\ Garbled \notin {Theirs, Internal}

(* SQL NULL is no row. *)
ASSUME RowsAssumption ==
    /\ None \notin QuoteRow
    /\ None \notin [source : {"MARKETPLACE"}, status : JobStatus, customer : {Customer},
                    provider : Providers \cup {None}, location : Locations \cup {None}]
    /\ None \notin [job : Jobs, uploader : Users]

VARIABLES
    docs,       \* docs[j]: the job's request photos, and who wrote its work photo and note
    memDocs     \* the same of the in-memory stores

apiVars == <<lockstep, docs, memDocs>>

NoDocs == [request |-> 0, work |-> None, update |-> None]
TheirDocs == [request |-> 0, work |-> Nowhere, update |-> Nowhere]

-----------------------------------------------------------------------------
(* What the stores return: rows, or None. *)

JobIds == Jobs \cup {Theirs, Internal, Nowhere, Garbled}
QuoteIds == DOMAIN quotes \cup {Theirs, Nowhere, Garbled}
ImageIds == WorkPhotos \cup RequestPhotos \cup {Theirs, Nowhere, Garbled}

Elsewhere(j) == [source |-> IF j = Internal THEN "INTERNAL" ELSE "MARKETPLACE",
                 status |-> "IN_PROGRESS", customer |-> Rival, provider |-> Nowhere,
                 location |-> None]

(* getJobById, and the rows other modules hand out. *)
JobDto(j) == [source |-> "MARKETPLACE", status |-> jobs[j].status, customer |-> Customer,
              provider |-> jobs[j].provider, location |-> jobs[j].location]
MemJobDto(j) == [source |-> "MARKETPLACE", status |-> MemStatus(j), customer |-> Customer,
                 provider |-> mem.jobs[j].provider, location |-> mem.jobs[j].location]

JobRead(j, found, dto) == IF j \in Jobs /\ found THEN dto
                          ELSE IF j \in {Theirs, Internal} THEN Elsewhere(j) ELSE None

(* getQuoteById does not look at the job. *)
TheirQuote == [job |-> Theirs, provider |-> Nowhere, status |-> "ACCEPTED"]
GetQuoteById(q) == IF q \in DOMAIN quotes THEN quotes[q]
                   ELSE IF q = Theirs THEN TheirQuote ELSE None
MemGetQuoteById(q) == IF q \in DOMAIN mem.quotes THEN mem.quotes[q]
                      ELSE IF q = Theirs THEN TheirQuote ELSE None

(* getImageById: both kinds are rows of job_images, but the in-memory      *)
(* execution store only ever holds the provider's own.                     *)
Image(j, by) == [job |-> j, uploader |-> by]
GetWorkPhoto(table, j) ==
    IF table[j].work = None THEN None ELSE Image(j, table[j].work)
GetRequestPhoto(j) == IF docs[j].request = 0 THEN None ELSE Image(j, Customer)

GetImageById(i) ==
    CASE i \in WorkPhotos -> GetWorkPhoto(docs, i[2])
      [] i \in RequestPhotos -> GetRequestPhoto(i[2])
      [] i = Theirs -> Image(Theirs, Nowhere)
      [] OTHER -> None
MemGetImageById(i) ==
    CASE i \in WorkPhotos -> GetWorkPhoto(memDocs, i[2])
      [] i = Theirs -> Image(Theirs, Nowhere)
      [] OTHER -> None

(* What a delete of either store accepts: the MySQL one does not ask. *)
Sql == [deletes |-> JobStatus,
        job |-> [j \in JobIds |-> JobRead(j, j \in Jobs /\ Readable(j), JobDto(j))],
        quote |-> [q \in QuoteIds |-> GetQuoteById(q)],
        image |-> [i \in ImageIds |-> GetImageById(i)]]
Mem == [deletes |-> CustomerMutable,
        job |-> [j \in JobIds |-> JobRead(j, j \in Jobs /\ GetJobById(j), MemJobDto(j))],
        quote |-> [q \in QuoteIds |-> MemGetQuoteById(q)],
        image |-> [i \in ImageIds |-> MemGetImageById(i)]]

QuotesOf(v, j) == {q \in DOMAIN v.quote : v.quote[q] # None /\ v.quote[q].job = j}
LiveQuotesOf(v, j) == {q \in QuotesOf(v, j) : v.quote[q].status \in LiveQuote}

-----------------------------------------------------------------------------
(* The photos and the progress note.  Bound: one work photo and one        *)
(* progress note of a job at a time.                                       *)

ApiInit == /\ LockstepInit
           /\ docs = [j \in Jobs |-> NoDocs]
           /\ memDocs = docs

Addressed(u, j) == jobs[j].provider # None /\ u \in AddresseeUsers(j)

(* Mutant: the in-memory jobs store does not look at the status. *)
MemCanAddPhotoLate(j) == GetJobById(j) /\ memDocs[j].request < MaxRequestImages

CanAddPhoto(j) == jobs[j].status \in CustomerMutable /\ docs[j].request < MaxRequestImages
MemCanAddPhoto(j) == /\ GetJobById(j)
                     /\ MemStatus(j) \in CustomerMutable
                     /\ memDocs[j].request < MaxRequestImages

CanDocument(j) == jobs[j].status = "IN_PROGRESS"
RequireInProgressMarketplaceJob(j) == GetJobById(j) /\ MemStatus(j) = "IN_PROGRESS"

(* Either store does the write its own checks allow. *)
Write(j, field, value, allowed, memAllowed) ==
    /\ docs' = IF allowed THEN [docs EXCEPT ![j][field] = value] ELSE docs
    /\ memDocs' = IF memAllowed THEN [memDocs EXCEPT ![j][field] = value] ELSE memDocs

CreateRequestImage(j) ==
    /\ Readable(j)
    /\ Write(j, "request", docs[j].request + 1, CanAddPhoto(j), MemCanAddPhoto(j))
CreateImage(u, j) ==
    /\ Readable(j) /\ Addressed(u, j) /\ docs[j].work = None
    /\ Write(j, "work", u, CanDocument(j), RequireInProgressMarketplaceJob(j))
CreateUpdate(u, j) ==
    /\ Readable(j) /\ Addressed(u, j) /\ docs[j].update = None
    /\ Write(j, "update", u, CanDocument(j), RequireInProgressMarketplaceJob(j))
DeleteImage(u, j) ==
    /\ Readable(j) /\ Addressed(u, j) /\ docs[j].work # None
    /\ Write(j, "work", None, CanDocument(j) /\ docs[j].work = u,
             RequireInProgressMarketplaceJob(j) /\ memDocs[j].work = u)

ApiNext ==
    \/ LockstepNext /\ UNCHANGED <<docs, memDocs>>
    \/ /\ Between /\ UNCHANGED lockstep
       /\ \E j \in Jobs :
             \/ CreateRequestImage(j)
             \/ \E u \in Users : CreateImage(u, j) \/ CreateUpdate(u, j) \/ DeleteImage(u, j)
ApiSpec == ApiInit /\ [][ApiNext]_apiVars

-----------------------------------------------------------------------------
(* The checks the handlers share: each answers, or lets the reply pass.    *)

Numeric(ids, reply) == IF Garbled \in ids THEN 400 ELSE reply
Valid(ok, reply) == IF ok THEN reply ELSE 422
Found(b, reply) == IF b THEN reply ELSE 404
Conflict(b, reply) == IF b THEN 409 ELSE reply
InState(b, reply) == IF b THEN reply ELSE 422

IsCustomer(u) == "CUSTOMER" \in Roles[u]
IsProvider(u) == Roles[u] \cap ProviderRoles # {}
ProviderRefs(u) == IF IsProvider(u) THEN Identity(u) ELSE {}

ResolveIdentity(u, reply) == IF IsProvider(u) THEN reply ELSE 403
RequireCustomer(u, reply) == IF IsCustomer(u) THEN reply ELSE 403

MarketplaceRow(v, j) == v.job[j] # None /\ v.job[j].source = "MARKETPLACE"
Owned(v, u, j) == MarketplaceRow(v, j) /\ v.job[j].customer = u
IsAddressedTo(v, u, j) == MarketplaceRow(v, j) /\ v.job[j].provider \in ProviderRefs(u)
OpenRequest(v, j) == MarketplaceRow(v, j) /\ v.job[j].provider = None
HasQuote(v, u, j) == \E q \in LiveQuotesOf(v, j) : v.quote[q].provider \in ProviderRefs(u)
CanQuoteOpenRequest(v, u, j) == \E p \in ProviderRefs(u) : v.job[j].location \in Serves[p]
MayView(v, u, j) ==
    \/ IsAddressedTo(v, u, j)
    \/ OpenRequest(v, j) /\ (HasQuote(v, u, j) \/ CanQuoteOpenRequest(v, u, j))

(* Mutant: whose request it is, is asked after it was found. *)
RequireThenOwned(v, u, j, reply) ==
    Found(MarketplaceRow(v, j), IF Owned(v, u, j) THEN reply ELSE 403)

RequireOwnedJob(v, u, j, reply) == Found(Owned(v, u, j), reply)
AuthorizeProviderJob(v, u, j, reply) ==
    Numeric({j}, ResolveIdentity(u, Found(IsAddressedTo(v, u, j), reply)))
AuthorizeCustomerJob(v, u, j, reply) ==
    Numeric({j}, RequireCustomer(u, RequireOwnedJob(v, u, j, reply)))

(* Here the job is looked up before the role is. *)
AuthorizeJobQuotes(v, u, j, reply) ==
    CASE ~MarketplaceRow(v, j) -> 404
      [] MarketplaceRow(v, j) /\ IsCustomer(u) -> Found(Owned(v, u, j), reply)
      [] MarketplaceRow(v, j) /\ IsProvider(u) -> Found(IsAddressedTo(v, u, j), reply)
      [] OTHER -> 403
AuthorizeJobViewer(v, u, j, reply) == Numeric({j}, AuthorizeJobQuotes(v, u, j, reply))

-----------------------------------------------------------------------------
(* The customer's requests. *)

Mutable(v, j) == v.job[j].status \in CustomerMutable

ListMyJobsReply(u, ok) == RequireCustomer(u, Valid(ok, 200))
GetMyJobByIdReply(v, u, j) == RequireCustomer(u, Numeric({j}, RequireOwnedJob(v, u, j, 200)))
UpdateJobReply(v, u, j, ok) ==
    RequireCustomer(u, Numeric({j}, Valid(ok, RequireOwnedJob(v, u, j,
        Conflict(~Mutable(v, j), 200)))))
CancelJobReply(v, u, j) ==
    RequireCustomer(u, Numeric({j}, RequireOwnedJob(v, u, j, Conflict(~Mutable(v, j), 200))))
DeleteJobReply(v, u, j) ==
    RequireCustomer(u, Numeric({j}, RequireOwnedJob(v, u, j,
        Conflict(v.job[j].status \notin v.deletes, 200))))
UploadRequestImageReply(v, u, j, photos, ok) ==
    Numeric({j}, RequireCustomer(u, RequireOwnedJob(v, u, j, Valid(ok,
        Conflict(~Mutable(v, j), InState(photos < MaxRequestImages, 200))))))

(* The advisory that goes with an edit. *)
HasActiveQuotes(v, j) == LiveQuotesOf(v, j) # {}

-----------------------------------------------------------------------------
(* The provider's requests. *)

Author(v, u, j) == IF OpenRequest(v, j) THEN Head(Profiles[u]) ELSE v.job[j].provider
QuotedBy(v, j, p) == \E q \in LiveQuotesOf(v, j) : v.quote[q].provider = p
Full(v, j) == OpenRequest(v, j) /\ Cardinality(LiveQuotesOf(v, j)) >= MaxQuotesPerOpenJob
Quotable(v, j) == v.job[j].status = "REQUESTED" \/ (OpenRequest(v, j) /\ Mutable(v, j))

ListProviderRequestsReply(u, ok) == ResolveIdentity(u, Valid(ok, 200))
GetProviderRequestReply(v, u, j) ==
    ResolveIdentity(u, Numeric({j}, Found(MayView(v, u, j), 200)))
ListOpenRequestsReply(u, ok) == ResolveIdentity(u, Valid(ok, 200))
GetOpenRequestReply(v, u, j) ==
    ResolveIdentity(u, Numeric({j}, Found(OpenRequest(v, j) /\ MayView(v, u, j), 200)))
CreateQuoteReply(v, u, j, ok) ==
    ResolveIdentity(u, Numeric({j}, Valid(ok, Found(MayView(v, u, j),
        Conflict(QuotedBy(v, j, Author(v, u, j)), Conflict(Full(v, j),
            InState(Quotable(v, j), 200)))))))

-----------------------------------------------------------------------------
(* Quotes, acceptance and the schedule. *)

ListJobQuotesReply(v, u, j) == Numeric({j}, AuthorizeJobQuotes(v, u, j, 200))
GetQuoteReply(v, u, q) ==
    Numeric({q}, IF v.quote[q] = None THEN 404 ELSE AuthorizeJobQuotes(v, u, v.quote[q].job, 200))
AcceptQuoteReply(v, u, j, q) ==
    Numeric({j, q}, RequireCustomer(u, RequireOwnedJob(v, u, j,
        IF q \notin QuotesOf(v, j) THEN 404
        ELSE Conflict(v.quote[q].status = "ACCEPTED",
                 InState(v.quote[q].status = "SUBMITTED" /\ v.job[j].status = "QUOTED", 200)))))
ScheduleJobReply(v, u, j, ok) ==
    AuthorizeProviderJob(v, u, j, Valid(ok,
        InState(/\ v.job[j].status = "ACCEPTED"
                /\ \E q \in QuotesOf(v, j) : v.quote[q].status = "ACCEPTED", 200)))
StartJobReply(v, u, j) ==
    AuthorizeProviderJob(v, u, j, InState(v.job[j].status = "SCHEDULED", 200))

-----------------------------------------------------------------------------
(* Execution. *)

ImageOf(v, j, i) == v.image[i] # None /\ v.image[i].job = j
Documenting(v, j, reply) == InState(v.job[j].status = "IN_PROGRESS", reply)

UploadImageReply(v, u, j, ok) ==
    AuthorizeProviderJob(v, u, j, Documenting(v, j, Valid(ok, 200)))
ListImagesReply(v, u, j) == AuthorizeJobViewer(v, u, j, 200)
GetImageFileReply(v, u, j, i) ==
    Numeric({i}, AuthorizeJobViewer(v, u, j, Found(ImageOf(v, j, i), 200)))
DeleteImageReply(v, u, j, i) ==
    Numeric({i}, AuthorizeProviderJob(v, u, j, Found(ImageOf(v, j, i),
        Documenting(v, j, IF v.image[i].uploader = u THEN 200 ELSE 403))))
CreateUpdateReply(v, u, j, ok) ==
    AuthorizeProviderJob(v, u, j, Documenting(v, j, Valid(ok, 200)))
ListUpdatesReply(v, u, j) == AuthorizeJobViewer(v, u, j, 200)
CompleteJobReply(v, u, j, ok) ==
    AuthorizeProviderJob(v, u, j, Valid(ok, InState(v.job[j].status = "IN_PROGRESS", 200)))
ConfirmJobReply(v, u, j) ==
    AuthorizeCustomerJob(v, u, j, InState(v.job[j].status = "COMPLETED", 200))
GetTimelineReply(v, u, j) == AuthorizeJobViewer(v, u, j, 200)

-----------------------------------------------------------------------------
(* The handlers of the three controllers. *)

JobsController(v, u, j, ok) ==
    <<GetMyJobByIdReply(v, u, j), UpdateJobReply(v, u, j, ok), CancelJobReply(v, u, j),
      DeleteJobReply(v, u, j), UploadRequestImageReply(v, u, j, 0, ok), ListMyJobsReply(u, ok)>>
RequestsController(v, u, j, ok) ==
    <<ListProviderRequestsReply(u, ok), GetProviderRequestReply(v, u, j),
      ListOpenRequestsReply(u, ok), GetOpenRequestReply(v, u, j), CreateQuoteReply(v, u, j, ok)>>
QuotesController(v, u, j, q, ok) ==
    <<AcceptQuoteReply(v, u, j, q), ScheduleJobReply(v, u, j, ok), StartJobReply(v, u, j),
      ListJobQuotesReply(v, u, j)>>
ExecutionController(v, u, j, i, ok) ==
    <<UploadImageReply(v, u, j, ok), ListImagesReply(v, u, j), GetImageFileReply(v, u, j, i),
      DeleteImageReply(v, u, j, i), CreateUpdateReply(v, u, j, ok), ListUpdatesReply(v, u, j),
      CompleteJobReply(v, u, j, ok), ConfirmJobReply(v, u, j), GetTimelineReply(v, u, j)>>

(* Mutant: every quote of the job, as the customer sees it. *)
ToRequestWithQuotes(v, u, j) == QuotesOf(v, j)

(* The quotes each projection of a job shows a provider: the request, as   *)
(* the detail and the board show it, the job with its quotes, and the list *)
(* of the requests addressed to them or answered by them.                  *)
ToProviderRequest(v, u, j) == {q \in QuotesOf(v, j) : v.quote[q].provider \in ProviderRefs(u)}
WithQuotes(v, j) == QuotesOf(v, j)

QuotesShown(v, u, j) ==
    UNION {IF 200 \in {GetProviderRequestReply(v, u, j), GetOpenRequestReply(v, u, j)}
               THEN ToProviderRequest(v, u, j) ELSE {},
           IF 200 \in {ScheduleJobReply(v, u, j, TRUE), StartJobReply(v, u, j),
                       CompleteJobReply(v, u, j, TRUE), GetTimelineReply(v, u, j),
                       ListJobQuotesReply(v, u, j)}
               THEN WithQuotes(v, j) ELSE {},
           {q \in QuotesOf(v, j) : GetQuoteReply(v, u, q) = 200}}
QuotesListed(v, u, j) == IF j \in ProviderInbox(u) THEN WithQuotes(v, j) ELSE {}

(* buildTimelineEvents, without the times that order them. *)
BuildTimelineEvents(moves, completions, d) ==
    {<<"status", k, moves[k]>> : k \in DOMAIN moves}
      \cup {<<"update", completions, d.update>>} \cup {<<"image", d.work>>}

-----------------------------------------------------------------------------
(* What a service answers is what its store would do: a well-formed call   *)
(* is answered 200 exactly when the MySQL transaction goes through, and    *)
(* exactly when the in-memory store lets it; and the lists, photos, notes  *)
(* and timelines read afterwards are the same on both.  So a test that     *)
(* passes against the in-memory stores says the same of the deployed ones, *)
(* with one exception: deleting a job the customer may no longer change is *)
(* answered 200 by the deployed service, and 409 in a test.                *)
Only(who, can, memCan, reply) == (reply = 200 <=> who /\ can) /\ (reply = 200 <=> who /\ memCan)

ToOwner(v, u, j) ==
    LET own == u = Customer /\ Readable(j) IN
    /\ \A q \in QuotesOn(j) :
          Only(own, CanAccept(j, q), MemCanAccept(j, q), AcceptQuoteReply(v, u, j, q))
    /\ Only(own, CanConfirm(j), MemCanConfirm(j), ConfirmJobReply(v, u, j))
    /\ Only(own, CanChange(j), RequireMutable(j), UpdateJobReply(v, u, j, TRUE))
    /\ Only(own, CanChange(j), RequireMutable(j), CancelJobReply(v, u, j))
    /\ Only(own, CanAddPhoto(j), MemCanAddPhoto(j),
            UploadRequestImageReply(v, u, j, docs[j].request, TRUE))

ToAddressee(v, u, j) ==
    LET may == u \in Users /\ Readable(j) /\ Addressed(u, j) IN
    /\ Only(u \in Users /\ CanViewRequest(j, u), CanQuote(j, AuthorOf(j, u)),
            MemCanQuote(j, AuthorOf(j, u)), CreateQuoteReply(v, u, j, TRUE))
    /\ Only(may, CanSchedule(j), MemCanSchedule(j), ScheduleJobReply(v, u, j, TRUE))
    /\ Only(may, CanStart(j), MemCanStart(j), StartJobReply(v, u, j))
    /\ Only(may, CanComplete(j), MemCanComplete(j), CompleteJobReply(v, u, j, TRUE))
    /\ Only(may, CanDocument(j), RequireInProgressMarketplaceJob(j),
            UploadImageReply(v, u, j, TRUE))
    /\ Only(may, CanDocument(j), RequireInProgressMarketplaceJob(j),
            CreateUpdateReply(v, u, j, TRUE))
    /\ Only(may /\ docs[j].work = u, CanDocument(j), RequireInProgressMarketplaceJob(j),
            DeleteImageReply(v, u, j, WorkPhoto(j)))

(* The exception: what the in-memory store may do is what the service      *)
(* checks of no job before it deletes it.                                  *)
Deletions(u, j) ==
    LET own == u = Customer /\ Readable(j) IN
    /\ DeleteJobReply(Sql, u, j) = 200 <=> own
    /\ DeleteJobReply(Mem, u, j) = 200 <=> own /\ RequireMutable(j)
    /\ own /\ ~RequireMutable(j) => DeleteJobReply(Mem, u, j) = 409

RepliesAre(v, j) == \A u \in Callers : ToOwner(v, u, j) /\ ToAddressee(v, u, j)

SameReplies ==
    Between => \A j \in CustomerJobs :
        /\ RepliesAre(Sql, j) /\ RepliesAre(Mem, j)
        /\ \A u \in Callers : Deletions(u, j)
        /\ docs[j] = memDocs[j]
        /\ HasActiveQuotes(Sql, j) = HasActiveQuotes(Mem, j)

(* A cancellation is the last row of a history, and never read from memory. *)
WithoutCancellation(rows) == [k \in {x \in DOMAIN rows : rows[x].to # "CANCELLED"} |-> rows[k]]
SameTimelines ==
    Between => \A j \in CustomerJobs :
        BuildTimelineEvents(WithoutCancellation(history[j]), notes[j], docs[j])
          = BuildTimelineEvents(ListStatusHistory(j), mem.updates[j], memDocs[j])

AnswersAgree == SameLists /\ SameReplies /\ SameTimelines

(* Ids cannot be probed: whatever a customer or a provider sends about a   *)
(* job, a quote or a photo that is not theirs to see is answered, by every *)
(* endpoint, as if the id did not exist.  A request is no longer a losing  *)
(* provider's to see once the customer has taken another quote, and        *)
(* nobody's once it is deleted.                                            *)
ForeignIdsAreUnknown ==
    Between => \A u \in {c \in Callers : IsCustomer(c) \/ IsProvider(c)}, ok \in BOOLEAN :
        /\ \A j \in JobIds \ {Garbled} :
              /\ ~MayView(Sql, u, j) =>
                    RequestsController(Sql, u, j, ok) = RequestsController(Sql, u, Nowhere, ok)
              /\ ~Owned(Sql, u, j) /\ ~IsAddressedTo(Sql, u, j) =>
                    /\ JobsController(Sql, u, j, ok) = JobsController(Sql, u, Nowhere, ok)
                    /\ \A q \in QuoteIds : QuotesController(Sql, u, j, q, ok)
                                             = QuotesController(Sql, u, Nowhere, q, ok)
                    /\ \A i \in ImageIds : ExecutionController(Sql, u, j, i, ok)
                                             = ExecutionController(Sql, u, Nowhere, i, ok)
                    /\ \A q \in QuotesOf(Sql, j) :
                          GetQuoteReply(Sql, u, q) = GetQuoteReply(Sql, u, Nowhere)
              /\ \A q \in QuoteIds \ {Garbled} : q \notin QuotesOf(Sql, j) =>
                    QuotesController(Sql, u, j, q, ok) = QuotesController(Sql, u, j, Nowhere, ok)
              /\ \A i \in ImageIds \ {Garbled} : ~ImageOf(Sql, j, i) =>
                    ExecutionController(Sql, u, j, i, ok) = ExecutionController(Sql, u, j, Nowhere, ok)

(* "They never see the other quotes on the job": until the customer has    *)
(* taken a quote, nothing a provider may call shows them another's, on a   *)
(* request addressed to one as on an open one, and a provider who lost     *)
(* never sees the quotes of the others; but for one answer.  The list of   *)
(* GET /provider/requests is not filtered, so who has quoted an open       *)
(* request reads there what its competitors ask.  What is left is that     *)
(* nobody reads another's price before they have named their own.          *)
NoPeekingBeforeQuoting ==
    Between => \A u \in Users, j \in Jobs :
        LET mine == {q \in QuotesOf(Sql, j) : quotes[q].provider \in Identity(u)}
            party == jobs[j].status \in AgreedStatus /\ u \in AddresseeUsers(j)
        IN  ~party =>
            /\ QuotesShown(Sql, u, j) \subseteq mine
            /\ \/ QuotesListed(Sql, u, j) \subseteq mine
               \/ jobs[j].provider = None /\ HasQuote(Sql, u, j)
=============================================================================
