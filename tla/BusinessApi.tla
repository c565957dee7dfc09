------------------------------ MODULE BusinessApi ------------------------------
(***************************************************************************)
(* Who may call the endpoints of the business module, and what each        *)
(* answers.  The tables are those of InternalJob, for the job "job" of the *)
(* business "here"; beside it stand an internal job of another business,   *)
(* "theirs", and a marketplace request addressed to this one, "market",    *)
(* which do not change.  The job's photo and voice note are added, as rows *)
(* of the MySQL and of the in-memory store.                                *)
(*                                                                         *)
(* A reply is the status code of the first check that fails, in the order  *)
(* the handler makes them, and 200 for any success.  An account without a  *)
(* session is told 401 by the router before all of this.  Whether a body   *)
(* or a query is well formed is one boolean, ok.  Creating accounts and    *)
(* technicians is Roster's.                                                *)
(***************************************************************************)
EXTENDS MemoryBusiness

CONSTANTS
    Callers,    \* accounts
    Roles,      \* Roles[u]: the roles of the account
    Manages,    \* Manages[u]: the business u owns or manages, or None
    Owners,     \* the accounts that own the business they manage
    WorksFor,   \* WorksFor[u]: the business whose technician u is, or None
    Inactive    \* technicians whose membership is switched off

ASSUME CallersAssumption ==
    /\ \A m \in Managers : /\ m \in Callers /\ Manages[m] = "here"
                           /\ Roles[m] \cap {"BUSINESS_OWNER", "BUSINESS_MANAGER"} # {}
    /\ \A t \in Technicians : /\ t \in Callers \ Inactive /\ "TECHNICIAN" \in Roles[t]
                              /\ WorksFor[t] = "here" /\ Manages[t] # "here"
    /\ \E u \in Callers : WorksFor[u] = "there"

(* The names below stand for ids of no account, and SQL NULL is no id.     *)
ASSUME IdsAssumption ==
    /\ Callers \cap {"client", "theirclient", "account", "nowhere", "garbled"} = {}
    /\ None \notin Callers \cup {"here", "there", "job", "theirs", "market", "nowhere"}

VARIABLES
    work,       \* who wrote the job's photo, its voice note and its progress note
    memWork     \* the same of the in-memory store

apiVars == <<lockstep, work, memWork>>

-----------------------------------------------------------------------------
(* Rows.  Ids that are not numbers are written "garbled". *)

JobIds == {"job", "theirs", "market", "nowhere"}
Exists(j) == IF j = "job" THEN status # "ABSENT" ELSE j # "nowhere"
Internal(j) == Exists(j) /\ j # "market"
BusinessOf(j) == IF j = "theirs" THEN "there" ELSE "here"
StatusOf(j) == IF j = "job" THEN status ELSE "IN_PROGRESS"
Stranger == CHOOSE u \in Callers : WorksFor[u] = "there"
TechnicianOf(j) == CASE j = "job" -> assigned
                     [] j = "theirs" -> Stranger
                     [] OTHER -> None

WorkKinds == {"image", "voice", "update"}
NoWork == [kind \in WorkKinds |-> None]

(* A row of each kind: one of the job, one of the other business's job.    *)
RecordIds == {"ours", "theirs", "nowhere"}
JobOfRecord(kind, k) ==
    CASE k = "theirs" -> "theirs"
      [] k = "ours" /\ kind = "parts" /\ parts # << >> -> "job"
      [] k = "ours" /\ kind # "parts" /\ work[kind] # None -> "job"
      [] OTHER -> None
PartsOf(k) == IF k = "ours" THEN parts[1] ELSE [by |-> Stranger, status |-> "PENDING"]

-----------------------------------------------------------------------------
(* What the MySQL store returns: the rows, or None. *)

Given(found, rows) == IF found THEN rows ELSE None

GetInternalJob(b, j) == Internal(j) /\ BusinessOf(j) = b
OwnedInternalJobId(b, j) == Internal(j) /\ BusinessOf(j) = b
GetTechnicianJob(t, j) == Internal(j) /\ TechnicianOf(j) = t

HistoryOf(j) == IF j = "job" THEN history ELSE << >>
AssignmentsOf(j) == IF j = "job" THEN assignments ELSE <<Stranger>>
OfRequest(i, rows) == SelectSeq(rows, LAMBDA a : a.request = i)
MapPartsRequestsForJob(j) ==
    IF j = "job" THEN [i \in DOMAIN parts |-> [row |-> parts[i], approvals |-> OfRequest(i, approvals)]]
                 ELSE << >>
WorkOf(j) == IF j = "job" THEN work ELSE [kind \in WorkKinds |-> Stranger]
UpdatesOf(j) == <<WorkOf(j).update, IF j = "job" THEN notes ELSE 0>>

ListInternalJobHistory(b, j) == Given(GetInternalJob(b, j), HistoryOf(j))
GetActiveJobAssignment(b, j) == Given(GetInternalJob(b, j), TechnicianOf(j))
ListJobAssignmentHistory(b, j) == Given(GetInternalJob(b, j), AssignmentsOf(j))
ListTechnicianJobHistory(t, j) == Given(GetTechnicianJob(t, j), HistoryOf(j))
ListTechnicianJobAssignmentEvents(t, j) == Given(GetTechnicianJob(t, j), AssignmentsOf(j))
ListTechnicianJobImages(t, j) == Given(GetTechnicianJob(t, j), WorkOf(j).image)
ListTechnicianVoiceNotes(t, j) == Given(GetTechnicianJob(t, j), WorkOf(j).voice)
ListTechnicianJobUpdates(t, j) == Given(GetTechnicianJob(t, j), UpdatesOf(j))
ListTechnicianPartsRequests(t, j) == Given(GetTechnicianJob(t, j), MapPartsRequestsForJob(j))
ListBusinessJobImages(b, j) == Given(OwnedInternalJobId(b, j), WorkOf(j).image)
ListBusinessVoiceNotes(b, j) == Given(OwnedInternalJobId(b, j), WorkOf(j).voice)
ListBusinessJobUpdates(b, j) == Given(OwnedInternalJobId(b, j), UpdatesOf(j))
ListBusinessPartsRequests(b, j) == Given(OwnedInternalJobId(b, j), MapPartsRequestsForJob(j))

(* enrichBoardJobs: what a row of the board shows beside the job. *)
EnrichBoardJobs(j) ==
    [assignment |-> TechnicianOf(j), partsOutstanding |-> IF j = "job" THEN Cardinality(Outstanding) ELSE 0,
     active |-> WorkOf(j) # NoWork \/ (j = "job" /\ notes > 0)]
ListInternalJobs(b) == {<<j, EnrichBoardJobs(j)>> : j \in {x \in JobIds : GetInternalJob(b, x)}}
CountInternalJobsByStatus(b) ==
    [s \in InternalJobStatus |-> Cardinality({j \in JobIds : GetInternalJob(b, j) /\ StatusOf(j) = s})]

(* Mutant: the row of the request is not compared with the job. *)
PhotoOfAnyJob(j, k) == JobOfRecord("parts", k) # None

PartsPhotoFor(j, k) == JobOfRecord("parts", k) = j

GetTechnicianJobImageFile(t, j, k) == GetTechnicianJob(t, j) /\ JobOfRecord("image", k) = j
GetTechnicianVoiceNoteFile(t, j, k) == GetTechnicianJob(t, j) /\ JobOfRecord("voice", k) = j
GetTechnicianPartsRequest(t, j, k) == GetTechnicianJob(t, j) /\ JobOfRecord("parts", k) = j
GetTechnicianPartsRequestPhotoFile(t, j, k) == GetTechnicianJob(t, j) /\ PartsPhotoFor(j, k)
GetBusinessJobImageFile(b, j, k) == OwnedInternalJobId(b, j) /\ JobOfRecord("image", k) = j
GetBusinessVoiceNoteFile(b, j, k) == OwnedInternalJobId(b, j) /\ JobOfRecord("voice", k) = j
GetBusinessPartsRequest(b, j, k) == OwnedInternalJobId(b, j) /\ JobOfRecord("parts", k) = j
GetBusinessPartsRequestPhotoFile(b, j, k) == OwnedInternalJobId(b, j) /\ PartsPhotoFor(j, k)

-----------------------------------------------------------------------------
(* What the in-memory store returns.  It holds internal jobs only.         *)

MemInternalJob(j) == IF j = "job" THEN mem.status # "ABSENT" ELSE j = "theirs"
MemGetInternalJob(b, j) == MemInternalJob(j) /\ BusinessOf(j) = b
OwnedInternalJob(b, j) == MemInternalJob(j) /\ BusinessOf(j) = b
MemGetTechnicianJob(t, j) ==
    MemInternalJob(j) /\ IF j = "job" THEN ActiveAssignment(t) ELSE t = Stranger

MemStatusOf(j) == IF j = "job" THEN mem.status ELSE "IN_PROGRESS"
MemTechnicianOf(j) ==
    IF j = "theirs" THEN Stranger
    ELSE IF MemAssigned THEN mem.rows[CHOOSE k \in OpenRows : TRUE].tech ELSE None
MemHistoryOf(j) == IF j = "job" THEN mem.history ELSE << >>
MemAssignmentsOf(j) ==
    IF j = "job" THEN [k \in DOMAIN mem.rows |-> mem.rows[k].tech] ELSE <<Stranger>>
ToPartsRequestDto(i) == [row |-> mem.parts[i], approvals |-> OfRequest(i, mem.approvals)]
MemPartsRequestsForJob(j) ==
    IF j = "job" THEN [i \in DOMAIN mem.parts |-> ToPartsRequestDto(i)] ELSE << >>
MemWorkOf(j) == IF j = "job" THEN memWork ELSE [kind \in WorkKinds |-> Stranger]
MemUpdatesOf(j) == <<MemWorkOf(j).update, IF j = "job" THEN mem.updates ELSE 0>>
MemJobOfRecord(kind, k) ==
    CASE k = "theirs" -> "theirs"
      [] k = "ours" /\ kind = "parts" /\ mem.parts # << >> -> "job"
      [] k = "ours" /\ kind # "parts" /\ memWork[kind] # None -> "job"
      [] OTHER -> None

MemListInternalJobHistory(b, j) == Given(MemGetInternalJob(b, j), MemHistoryOf(j))
MemGetActiveJobAssignment(b, j) == Given(MemGetInternalJob(b, j), MemTechnicianOf(j))
MemListJobAssignmentHistory(b, j) == Given(MemGetInternalJob(b, j), MemAssignmentsOf(j))
MemListTechnicianJobHistory(t, j) == Given(MemGetTechnicianJob(t, j), MemHistoryOf(j))
MemListTechnicianJobAssignmentEvents(t, j) == Given(MemGetTechnicianJob(t, j), MemAssignmentsOf(j))
MemListTechnicianJobImages(t, j) == Given(MemGetTechnicianJob(t, j), MemWorkOf(j).image)
MemListTechnicianVoiceNotes(t, j) == Given(MemGetTechnicianJob(t, j), MemWorkOf(j).voice)
MemListTechnicianJobUpdates(t, j) == Given(MemGetTechnicianJob(t, j), MemUpdatesOf(j))
MemListTechnicianPartsRequests(t, j) == Given(MemGetTechnicianJob(t, j), MemPartsRequestsForJob(j))
MemListBusinessJobImages(b, j) == Given(OwnedInternalJob(b, j), MemWorkOf(j).image)
MemListBusinessVoiceNotes(b, j) == Given(OwnedInternalJob(b, j), MemWorkOf(j).voice)
MemListBusinessJobUpdates(b, j) == Given(OwnedInternalJob(b, j), MemUpdatesOf(j))
MemListBusinessPartsRequests(b, j) == Given(OwnedInternalJob(b, j), MemPartsRequestsForJob(j))

MemOutstandingRequests == {i \in DOMAIN mem.parts : mem.parts[i].status = "APPROVED"}
ToBoardJobDto(j) ==
    [assignment |-> MemTechnicianOf(j),
     partsOutstanding |-> IF j = "job" THEN Cardinality(MemOutstandingRequests) ELSE 0,
     active |-> MemWorkOf(j) # NoWork \/ (j = "job" /\ mem.updates > 0)]
MemListInternalJobs(b) == {<<j, ToBoardJobDto(j)>> : j \in {x \in JobIds : MemGetInternalJob(b, x)}}
MemCountInternalJobsByStatus(b) ==
    [s \in InternalJobStatus |-> Cardinality({j \in JobIds : MemGetInternalJob(b, j) /\ MemStatusOf(j) = s})]

MemPartsPhotoFor(j, k) == MemJobOfRecord("parts", k) = j
MemGetTechnicianJobImageFile(t, j, k) == MemGetTechnicianJob(t, j) /\ MemJobOfRecord("image", k) = j
MemGetTechnicianVoiceNoteFile(t, j, k) == MemGetTechnicianJob(t, j) /\ MemJobOfRecord("voice", k) = j
MemGetTechnicianPartsRequest(t, j, k) == MemGetTechnicianJob(t, j) /\ MemJobOfRecord("parts", k) = j
MemGetTechnicianPartsRequestPhotoFile(t, j, k) == MemGetTechnicianJob(t, j) /\ MemPartsPhotoFor(j, k)
MemGetBusinessJobImageFile(b, j, k) == OwnedInternalJob(b, j) /\ MemJobOfRecord("image", k) = j
MemGetBusinessVoiceNoteFile(b, j, k) == OwnedInternalJob(b, j) /\ MemJobOfRecord("voice", k) = j
MemGetBusinessPartsRequest(b, j, k) == OwnedInternalJob(b, j) /\ MemJobOfRecord("parts", k) = j
MemGetBusinessPartsRequestPhotoFile(b, j, k) == OwnedInternalJob(b, j) /\ MemPartsPhotoFor(j, k)

(* buildTechnicianExecutionEvents, without the times that order them: each *)
(* request shows its status of now, and once more for every decision.      *)
BuildTechnicianExecutionEvents(moves, workers, documents, updates, requests) ==
    {<<"status", moves[k]>> : k \in DOMAIN moves} \cup {<<"updates", updates>>}
      \cup {<<"assignment", workers[k]>> : k \in DOMAIN workers}
      \cup {<<kind, documents[kind]>> : kind \in {x \in WorkKinds : documents[x] # None}}
      \cup {<<"parts", i, requests[i].row.status>> : i \in DOMAIN requests}
      \cup UNION {{<<"parts", i, requests[i].approvals[k].status>> :
                      k \in DOMAIN requests[i].approvals} : i \in DOMAIN requests}
Timeline(j) ==
    BuildTechnicianExecutionEvents(HistoryOf(j), AssignmentsOf(j), WorkOf(j), UpdatesOf(j),
                                   MapPartsRequestsForJob(j))
MemTimeline(j) ==
    BuildTechnicianExecutionEvents(MemHistoryOf(j), MemAssignmentsOf(j), MemWorkOf(j), MemUpdatesOf(j),
                                   MemPartsRequestsForJob(j))

-----------------------------------------------------------------------------
(* Documentation of the work, called like the technician's calls of        *)
(* InternalJob.  Bound: one row of documentation at a time.                *)

ApiInit == Init /\ MemInit /\ work = NoWork /\ memWork = NoWork

(* Mutant: the in-memory store asks who is assigned and not for the status. *)
MemRequireAssigned(t) == ActiveAssignment(t)

MemRequireAssignedInProgress(t) == ActiveAssignment(t) /\ mem.status = "IN_PROGRESS"

Documents(r, kind) ==
    /\ call[r].at = "snapshot"
    /\ status = "IN_PROGRESS"
    /\ work = NoWork
    /\ work' = [work EXCEPT ![kind] = call[r].tech]
    /\ memWork' = IF MemRequireAssignedInProgress(call[r].tech)
                  THEN [memWork EXCEPT ![kind] = call[r].tech] ELSE memWork
    /\ Done(r)
    /\ UNCHANGED <<job, parts, approvals, notices, faults, mem>>
CreateTechnicianJobImage(r) == Documents(r, "image")
CreateTechnicianVoiceNote(r) == Documents(r, "voice")
CreateTechnicianJobUpdate(r) == Documents(r, "update")

MemDeletable(t) == ActiveAssignment(t) /\ mem.status = "IN_PROGRESS" /\ memWork.image = t
DeleteTechnicianJobImage(r) ==
    /\ call[r].at = "snapshot"
    /\ status = "IN_PROGRESS"
    /\ work.image = call[r].tech
    /\ work' = [work EXCEPT !.image = None]
    /\ memWork' = IF MemDeletable(call[r].tech) THEN [memWork EXCEPT !.image = None] ELSE memWork
    /\ Done(r)
    /\ UNCHANGED <<job, parts, approvals, notices, faults, mem>>

ApiNext ==
    \/ LockstepNext /\ UNCHANGED <<work, memWork>>
    \/ \E r \in Requests : \/ CreateTechnicianJobImage(r) \/ CreateTechnicianVoiceNote(r)
                           \/ CreateTechnicianJobUpdate(r) \/ DeleteTechnicianJobImage(r)
ApiSpec == ApiInit /\ [][ApiNext]_apiVars

-----------------------------------------------------------------------------
(* The checks the handlers share: each answers, or lets the reply pass.    *)

Numeric(ids, reply) == IF "garbled" \in ids THEN 400 ELSE reply
Valid(ok, reply) == IF ok THEN reply ELSE 422
Found(b, reply) == IF b THEN reply ELSE 404
Permitted(b, reply) == IF b THEN reply ELSE 422

ManagerRoles == {"BUSINESS_OWNER", "BUSINESS_MANAGER"}
IsManager(u) == Roles[u] \cap ManagerRoles # {}
ResolveManagement(u, reply) ==
    IF ~IsManager(u) THEN 403 ELSE Found(Manages[u] # None, reply)

(* findBusinessesForUser keeps one role for a business, the strongest: who *)
(* is invited as a technician of a business of their own stays its owner.  *)
Membership(u) == IF u \in Inactive \/ WorksFor[u] = Manages[u] THEN None ELSE WorksFor[u]
ResolveTechnician(u, reply) ==
    IF "TECHNICIAN" \notin Roles[u] THEN 403 ELSE Found(Membership(u) # None, reply)
TechnicianJob(u, j, reply) ==
    Numeric({j}, ResolveTechnician(u, Found(GetTechnicianJob(u, j), reply)))
Documenting(u, j, reply) == TechnicianJob(u, j, Permitted(StatusOf(j) = "IN_PROGRESS", reply))
OwnedJob(u, j, reply) ==
    Numeric({j}, ResolveManagement(u, Found(GetInternalJob(Manages[u], j), reply)))

-----------------------------------------------------------------------------
(* The business, its technicians and its customers. *)

Rostered(b, t) == t \in Callers /\ b # None /\ WorksFor[t] = b
TechnicianIds == {u \in Callers : WorksFor[u] # None} \cup {"nowhere"}

GetBusinessReply(u) == ResolveManagement(u, 200)
UpdateBusinessReply(u, ok) == ResolveManagement(u, IF u \in Owners THEN Valid(ok, 200) ELSE 403)
ListTechniciansReply(u) == ResolveManagement(u, 200)
GetTechnicianReply(u, t) ==
    Numeric({t}, CASE IsManager(u) -> ResolveManagement(u, Found(Rostered(Manages[u], t), 200))
                   [] ~IsManager(u) /\ "TECHNICIAN" \in Roles[u] ->
                          Found(Membership(u) # None /\ t = u, 200)
                   [] OTHER -> 403)
UpdateTechnicianReply(u, t, ok) ==
    Numeric({t}, ResolveManagement(u, Valid(ok, Found(Rostered(Manages[u], t), 200))))

(* A client of each business, and the profile of a customer with an        *)
(* account, whose user_id is not NULL.                                     *)
CustomerIds == {"client", "theirclient", "account", "nowhere"}
ClientsOf(b) == IF b = "here" THEN {"client"} ELSE {"theirclient"}
GetBusinessCustomer(b, c) == c \in ClientsOf(b)
FindInternalCustomer(b, c) == c \in ClientsOf(b)

ListBusinessCustomersReply(u, ok) == ResolveManagement(u, Valid(ok, 200))
GetBusinessCustomerReply(u, c) ==
    Numeric({c}, ResolveManagement(u, Found(GetBusinessCustomer(Manages[u], c), 200)))
CreateBusinessCustomerReply(u, ok) == ResolveManagement(u, Valid(ok, 200))
UpdateBusinessCustomerReply(u, c, ok) ==
    Numeric({c}, ResolveManagement(u, Valid(ok, Found(GetBusinessCustomer(Manages[u], c), 200))))

-----------------------------------------------------------------------------
(* Managers and the job. *)

CreateInternalJobReply(u, c, ok) ==
    ResolveManagement(u, Valid(ok, Found(FindInternalCustomer(Manages[u], c), 200)))
ListInternalJobsReply(u, ok) == ResolveManagement(u, Valid(ok, 200))
(* The page under a technician filter: empty for who is not on the roster. *)
InternalJobsPage(u, t) ==
    IF Rostered(Manages[u], t)
    THEN {row \in ListInternalJobs(Manages[u]) : TechnicianOf(row[1]) = t} ELSE {}
GetInternalJobReply(u, j) == OwnedJob(u, j, 200)
UpdateInternalJobReply(u, j, ok) ==
    Numeric({j}, ResolveManagement(u, Valid(ok,
        Found(GetInternalJob(Manages[u], j), Permitted(StatusOf(j) = "REQUESTED", 200)))))
CancelInternalJobReply(u, j, ok) ==
    Numeric({j}, ResolveManagement(u, Valid(ok,
        Found(GetInternalJob(Manages[u], j), Permitted(StatusOf(j) = "REQUESTED", 200)))))
GetInternalJobsSummaryReply(u) == ResolveManagement(u, 200)
GetBoardJobsSummaryReply(u) == ResolveManagement(u, 200)
AssignTechnicianReply(u, j, t, ok) ==
    Numeric({j}, ResolveManagement(u, Valid(ok,
        Found(GetInternalJob(Manages[u], j),
              Found(Rostered(Manages[u], t), Permitted(t \notin Inactive, 200))))))
GetJobAssignmentReply(u, j) == OwnedJob(u, j, 200)

ListBusinessJobImagesReply(u, j) == OwnedJob(u, j, 200)
GetBusinessJobImageFileReply(u, j, k) ==
    Numeric({j, k}, ResolveManagement(u, Found(GetBusinessJobImageFile(Manages[u], j, k), 200)))
ListBusinessJobUpdatesReply(u, j) == OwnedJob(u, j, 200)
ListBusinessVoiceNotesReply(u, j) == OwnedJob(u, j, 200)
GetBusinessVoiceNoteFileReply(u, j, k) ==
    Numeric({j, k}, ResolveManagement(u, Found(GetBusinessVoiceNoteFile(Manages[u], j, k), 200)))
GetBusinessExecutionTimelineReply(u, j) == OwnedJob(u, j, 200)
ListBusinessPartsRequestsReply(u, j) == OwnedJob(u, j, 200)
GetBusinessPartsRequestReply(u, j, k) ==
    Numeric({j, k}, ResolveManagement(u, Found(GetBusinessPartsRequest(Manages[u], j, k), 200)))
GetBusinessPartsPhotoFileReply(u, j, k) ==
    Numeric({j, k}, ResolveManagement(u, Found(GetBusinessPartsRequestPhotoFile(Manages[u], j, k), 200)))
DecidePartsRequestReply(u, j, k, ok) ==
    Numeric({j, k}, ResolveManagement(u, Valid(ok,
        Found(GetBusinessPartsRequest(Manages[u], j, k),
              Permitted(/\ PartsOf(k).status \in Reviewable
                        /\ PartsOf(k).by # u
                        /\ StatusOf(j) \in Working
                        /\ TechnicianOf(j) # None, 200)))))
MarkPartsAvailableReply(u, j, k, ok) ==
    Numeric({j, k}, ResolveManagement(u, Valid(ok,
        Found(GetBusinessPartsRequest(Manages[u], j, k),
              Permitted(PartsOf(k).status = "APPROVED" /\ StatusOf(j) \in Working, 200)))))

-----------------------------------------------------------------------------
(* Technicians and the job. *)

ListTechnicianJobsReply(u, ok) == ResolveTechnician(u, Valid(ok, 200))
GetTechnicianJobReply(u, j) ==
    Numeric({j}, ResolveTechnician(u, Found(GetTechnicianJob(u, j), 200)))
StartTechnicianJobReply(u, j) ==
    Numeric({j}, ResolveTechnician(u,
        Found(GetTechnicianJob(u, j), Permitted(StatusOf(j) \in Startable, 200))))

UploadTechnicianImageReply(u, j, ok) == Documenting(u, j, Valid(ok, 200))
ListTechnicianImagesReply(u, j) == TechnicianJob(u, j, 200)
GetTechnicianImageFileReply(u, j, k) ==
    Numeric({k}, TechnicianJob(u, j, Found(GetTechnicianJobImageFile(u, j, k), 200)))
DeleteTechnicianImageReply(u, j, k) ==
    Numeric({k}, TechnicianJob(u, j,
        Found(JobOfRecord("image", k) = j,
              Permitted(StatusOf(j) = "IN_PROGRESS", IF WorkOf(j).image = u THEN 200 ELSE 403))))
CreateTechnicianUpdateReply(u, j, ok) == Documenting(u, j, Valid(ok, 200))
ListTechnicianUpdatesReply(u, j) == TechnicianJob(u, j, 200)
UploadTechnicianVoiceNoteReply(u, j, ok) == Documenting(u, j, Valid(ok, 200))
ListTechnicianVoiceNotesReply(u, j) == TechnicianJob(u, j, 200)
GetTechnicianVoiceNoteFileReply(u, j, k) ==
    Numeric({k}, TechnicianJob(u, j, Found(GetTechnicianVoiceNoteFile(u, j, k), 200)))
GetTechnicianExecutionTimelineReply(u, j) == TechnicianJob(u, j, 200)
CompleteTechnicianJobReply(u, j, ok) ==
    TechnicianJob(u, j, Valid(ok, Permitted(StatusOf(j) = "IN_PROGRESS", 200)))

CreateTechnicianPartsRequestReply(u, j, ok) ==
    TechnicianJob(u, j, Permitted(StatusOf(j) \in Working, Valid(ok, 200)))
ListTechnicianPartsRequestsReply(u, j) == TechnicianJob(u, j, 200)
GetTechnicianPartsRequestReply(u, j, k) ==
    Numeric({k}, TechnicianJob(u, j, Found(GetTechnicianPartsRequest(u, j, k), 200)))
GetTechnicianPartsPhotoFileReply(u, j, k) ==
    Numeric({k}, TechnicianJob(u, j, Found(GetTechnicianPartsRequestPhotoFile(u, j, k), 200)))
RespondToPartsRequestReply(u, j, k, ok) ==
    Numeric({k}, TechnicianJob(u, j, Valid(ok,
        Found(JobOfRecord("parts", k) = j, Permitted(PartsOf(k).status = "NEEDS_INFO", 200)))))
ResumeTechnicianJobReply(u, j) ==
    TechnicianJob(u, j, Permitted(StatusOf(j) = "AWAITING_PARTS" /\ Outstanding = {}, 200))

-----------------------------------------------------------------------------
(* The handlers of the controller that take an id, and what each answers.  *)

PersonHandlers(u, x, ok) ==
    <<GetTechnicianReply(u, x), UpdateTechnicianReply(u, x, ok), GetBusinessCustomerReply(u, x),
      UpdateBusinessCustomerReply(u, x, ok), CreateInternalJobReply(u, x, ok)>>
ManagerHandlers(u, j, ok) ==
    <<GetInternalJobReply(u, j), UpdateInternalJobReply(u, j, ok), CancelInternalJobReply(u, j, ok),
      [t \in TechnicianIds |-> AssignTechnicianReply(u, j, t, ok)], GetJobAssignmentReply(u, j),
      ListBusinessJobImagesReply(u, j), ListBusinessJobUpdatesReply(u, j),
      ListBusinessVoiceNotesReply(u, j), GetBusinessExecutionTimelineReply(u, j),
      ListBusinessPartsRequestsReply(u, j)>>
TechnicianHandlers(u, j, ok) ==
    <<GetTechnicianJobReply(u, j), StartTechnicianJobReply(u, j), UploadTechnicianImageReply(u, j, ok),
      ListTechnicianImagesReply(u, j), CreateTechnicianUpdateReply(u, j, ok),
      ListTechnicianUpdatesReply(u, j), UploadTechnicianVoiceNoteReply(u, j, ok),
      ListTechnicianVoiceNotesReply(u, j), GetTechnicianExecutionTimelineReply(u, j),
      CompleteTechnicianJobReply(u, j, ok), CreateTechnicianPartsRequestReply(u, j, ok),
      ListTechnicianPartsRequestsReply(u, j), ResumeTechnicianJobReply(u, j)>>
ManagerPartsHandlers(u, j, k, ok) ==
    <<GetBusinessPartsRequestReply(u, j, k), GetBusinessPartsPhotoFileReply(u, j, k),
      DecidePartsRequestReply(u, j, k, ok), MarkPartsAvailableReply(u, j, k, ok)>>
TechnicianPartsHandlers(u, j, k, ok) ==
    <<GetTechnicianPartsRequestReply(u, j, k), GetTechnicianPartsPhotoFileReply(u, j, k),
      RespondToPartsRequestReply(u, j, k, ok)>>
ManagerRecordHandlers(u, j, k, ok) ==
    <<GetBusinessJobImageFileReply(u, j, k), GetBusinessVoiceNoteFileReply(u, j, k)>>
    \o ManagerPartsHandlers(u, j, k, ok)
TechnicianRecordHandlers(u, j, k, ok) ==
    <<GetTechnicianImageFileReply(u, j, k), DeleteTechnicianImageReply(u, j, k),
      GetTechnicianVoiceNoteFileReply(u, j, k)>> \o TechnicianPartsHandlers(u, j, k, ok)

-----------------------------------------------------------------------------
(* Whatever calls were made, in whatever order, everything the endpoints   *)
(* read is the same on both stores, for every business, technician, job    *)
(* and record: lists, details, files, timelines, the board and its counts. *)
(* What the tests read, production reads.                                  *)
ReadsAgree == Between =>
    /\ StoresAgree
    /\ BoardsCountTheirLists
    /\ \A b \in {"here", "there"} :
          /\ ListInternalJobs(b) = MemListInternalJobs(b)
          /\ CountInternalJobsByStatus(b) = MemCountInternalJobsByStatus(b)
    /\ \A j \in JobIds :
          /\ Timeline(j) = MemTimeline(j)
          /\ \A b \in {"here", "there"} :
                /\ GetInternalJob(b, j) = MemGetInternalJob(b, j)
                /\ ListInternalJobHistory(b, j) = MemListInternalJobHistory(b, j)
                /\ GetActiveJobAssignment(b, j) = MemGetActiveJobAssignment(b, j)
                /\ ListJobAssignmentHistory(b, j) = MemListJobAssignmentHistory(b, j)
                /\ ListBusinessJobImages(b, j) = MemListBusinessJobImages(b, j)
                /\ ListBusinessVoiceNotes(b, j) = MemListBusinessVoiceNotes(b, j)
                /\ ListBusinessJobUpdates(b, j) = MemListBusinessJobUpdates(b, j)
                /\ ListBusinessPartsRequests(b, j) = MemListBusinessPartsRequests(b, j)
                /\ \A k \in RecordIds :
                      /\ GetBusinessJobImageFile(b, j, k) = MemGetBusinessJobImageFile(b, j, k)
                      /\ GetBusinessVoiceNoteFile(b, j, k) = MemGetBusinessVoiceNoteFile(b, j, k)
                      /\ GetBusinessPartsRequest(b, j, k) = MemGetBusinessPartsRequest(b, j, k)
                      /\ GetBusinessPartsRequestPhotoFile(b, j, k)
                           = MemGetBusinessPartsRequestPhotoFile(b, j, k)
          /\ \A t \in TechnicianIds :
                /\ GetTechnicianJob(t, j) = MemGetTechnicianJob(t, j)
                /\ ListTechnicianJobHistory(t, j) = MemListTechnicianJobHistory(t, j)
                /\ ListTechnicianJobAssignmentEvents(t, j) = MemListTechnicianJobAssignmentEvents(t, j)
                /\ ListTechnicianJobImages(t, j) = MemListTechnicianJobImages(t, j)
                /\ ListTechnicianVoiceNotes(t, j) = MemListTechnicianVoiceNotes(t, j)
                /\ ListTechnicianJobUpdates(t, j) = MemListTechnicianJobUpdates(t, j)
                /\ ListTechnicianPartsRequests(t, j) = MemListTechnicianPartsRequests(t, j)
                /\ \A k \in RecordIds :
                      /\ GetTechnicianJobImageFile(t, j, k) = MemGetTechnicianJobImageFile(t, j, k)
                      /\ GetTechnicianVoiceNoteFile(t, j, k) = MemGetTechnicianVoiceNoteFile(t, j, k)
                      /\ GetTechnicianPartsRequest(t, j, k) = MemGetTechnicianPartsRequest(t, j, k)
                      /\ GetTechnicianPartsRequestPhotoFile(t, j, k)
                           = MemGetTechnicianPartsRequestPhotoFile(t, j, k)

(* Nobody learns of what is not theirs: whatever a caller sends about the  *)
(* job, the record, the technician or the customer of somebody else is     *)
(* answered, by every endpoint, as if the id did not exist.  For a         *)
(* technician that holds of a job again once it is given to another.  (No  *)
(* reply depends on a call in flight, so it is enough to ask between two.) *)
ForeignIdsAreUnknown ==
    Between => \A u \in Callers, ok \in BOOLEAN :
        LET noJob == ManagerHandlers(u, "nowhere", ok)
            noVisit == TechnicianHandlers(u, "nowhere", ok)
            noPerson == PersonHandlers(u, "nowhere", ok)
            NotManaged(j) == j = "market" \/ BusinessOf(j) # Manages[u]
            foreign == JobIds \ {"nowhere"}
        IN
        /\ \A x \in (TechnicianIds \ {u}) \cup CustomerIds :
              (x \in Callers => WorksFor[x] # Manages[u]) /\ x \notin ClientsOf(Manages[u]) =>
                  PersonHandlers(u, x, ok) = noPerson
        /\ \A t \in TechnicianIds \cap Callers :
              WorksFor[t] # Manages[u] => InternalJobsPage(u, t) = {}
        /\ \A j \in foreign :
              /\ NotManaged(j) => ManagerHandlers(u, j, ok) = noJob
              /\ TechnicianOf(j) # u => TechnicianHandlers(u, j, ok) = noVisit
        /\ \A k \in RecordIds :
              LET noRecord == ManagerRecordHandlers(u, "nowhere", k, ok)
                  noWork == TechnicianRecordHandlers(u, "nowhere", k, ok)
              IN \A j \in foreign :
                    /\ NotManaged(j) => ManagerRecordHandlers(u, j, k, ok) = noRecord
                    /\ TechnicianOf(j) # u => TechnicianRecordHandlers(u, j, k, ok) = noWork
        /\ \A j \in JobIds \ {"theirs"} :
              /\ ManagerRecordHandlers(u, j, "theirs", ok) = ManagerRecordHandlers(u, j, "nowhere", ok)
              /\ TechnicianRecordHandlers(u, j, "theirs", ok)
                   = TechnicianRecordHandlers(u, j, "nowhere", ok)

(* A call of manager m, or handler r's of its technician, is answered 200   *)
(* exactly when the store's own transaction would go through.              *)
ManagerAnswersAgree(m) ==
    /\ UpdateInternalJobReply(m, "job", TRUE) = 200 <=> MayUpdate
    /\ CancelInternalJobReply(m, "job", TRUE) = 200 <=> MayCancel
    /\ \A t \in Technicians : AssignTechnicianReply(m, "job", t, TRUE) = 200 <=> MayAssign
    /\ parts # << >> =>
         /\ MarkPartsAvailableReply(m, "job", "ours", TRUE) = 200 <=> MayDeliver(1)
         /\ DecidePartsRequestReply(m, "job", "ours", TRUE) = 200 <=> MayReview(m, 1)
TechnicianAnswersAgree(r) ==
    LET t == call[r].tech IN
    /\ StartTechnicianJobReply(t, "job") = 200 <=> MayStart
    /\ CompleteTechnicianJobReply(t, "job", TRUE) = 200 <=> Completable
    /\ ResumeTechnicianJobReply(t, "job") = 200 <=> MayResume(r)
    /\ CreateTechnicianPartsRequestReply(t, "job", TRUE) = 200 <=> MayRequestParts(r)
    /\ parts # << >> =>
         (RespondToPartsRequestReply(t, "job", "ours", TRUE) = 200 <=> MayRespond(1))
    /\ UploadTechnicianImageReply(t, "job", TRUE) = 200 <=> MemRequireAssignedInProgress(t)
    /\ DeleteTechnicianImageReply(t, "job", "ours") = 200 <=> MemDeletable(t)

(* What the service lets through the store accepts, and what it turns away *)
(* the store would not have done: a well-formed call is answered 200       *)
(* exactly when the store's own transaction would go through, and the      *)
(* in-memory store agrees.                                                 *)
AnswersAgree ==
    /\ SameAnswers
    /\ Between => \A m \in Managers : ManagerAnswersAgree(m)
    /\ \A r \in Requests : call[r].at = "snapshot" => TechnicianAnswersAgree(r)
=============================================================================
