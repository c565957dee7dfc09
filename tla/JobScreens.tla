------------------------------ MODULE JobScreens ------------------------------
(***************************************************************************)
(* The screens of an internal job in the web app: the technician's and the *)
(* manager's, the calls their services make, what they offer and what they *)
(* show once a call is answered.  A screen's copy is what its last load    *)
(* read; the questions asked of it here concern a copy no other account's  *)
(* call has overtaken, so a copy is a function of the tables and needs no  *)
(* variable.  Forms are filled in as their validators ask, so that the     *)
(* endpoints take them to be well formed; phases of a photo or a note,     *)
(* spinners, messages and the dialogs that ask again are left out.         *)
(***************************************************************************)
EXTENDS BusinessApi

Held(kind) == IF work[kind] # None THEN {"ours"} ELSE {}

-----------------------------------------------------------------------------
(* technician.service: the endpoint each call goes to. *)

ListMyJobs(t) == ListTechnicianJobsReply(t, TRUE)
GetMyJob(t, j) == GetTechnicianJobReply(t, j)
StartMyJob(t) == StartTechnicianJobReply(t, "job")
UploadMyJobImage(t) == UploadTechnicianImageReply(t, "job", TRUE)
ListMyJobImages(t) == ListTechnicianImagesReply(t, "job")
FetchMyJobImageBlob(t, k) == GetTechnicianImageFileReply(t, "job", k)
DeleteMyJobImage(t, k) == DeleteTechnicianImageReply(t, "job", k)
CreateMyJobUpdate(t) == CreateTechnicianUpdateReply(t, "job", TRUE)
ListMyJobUpdates(t) == ListTechnicianUpdatesReply(t, "job")
UploadMyJobVoiceNote(t) == UploadTechnicianVoiceNoteReply(t, "job", TRUE)
ListMyJobVoiceNotes(t) == ListTechnicianVoiceNotesReply(t, "job")
FetchMyJobVoiceNoteBlob(t, k) == GetTechnicianVoiceNoteFileReply(t, "job", k)
GetMyJobExecutionTimeline(t) == GetTechnicianExecutionTimelineReply(t, "job")
CompleteMyJob(t) == CompleteTechnicianJobReply(t, "job", TRUE)
CreateMyJobPartsRequest(t) == CreateTechnicianPartsRequestReply(t, "job", TRUE)
ListMyJobPartsRequests(t) == ListTechnicianPartsRequestsReply(t, "job")
FetchMyJobPartsPhotoBlob(t, k) == GetTechnicianPartsPhotoFileReply(t, "job", k)
RespondToMyJobPartsRequest(t, k) == RespondToPartsRequestReply(t, "job", k, TRUE)
ResumeMyJob(t) == ResumeTechnicianJobReply(t, "job")

-----------------------------------------------------------------------------
(* business.service, the calls of the manager's screens. *)

ListBoardJobs(m) == ListInternalJobsReply(m, TRUE)
GetBusinessBoardSummary(m) == GetBoardJobsSummaryReply(m)
GetBusinessJob(m, j) == GetInternalJobReply(m, j)
UpdateBusinessJob(m) == UpdateInternalJobReply(m, "job", TRUE)
CancelBusinessJob(m) == CancelInternalJobReply(m, "job", TRUE)
AssignTechnicianCall(m, t) == AssignTechnicianReply(m, "job", t, TRUE)
GetJobAssignment(m) == GetJobAssignmentReply(m, "job")
ListBusinessJobImagesCall(m) == ListBusinessJobImagesReply(m, "job")
FetchBusinessJobImageBlob(m, k) == GetBusinessJobImageFileReply(m, "job", k)
ListBusinessJobUpdatesCall(m) == ListBusinessJobUpdatesReply(m, "job")
ListBusinessVoiceNotesCall(m) == ListBusinessVoiceNotesReply(m, "job")
FetchBusinessJobVoiceNoteBlob(m, k) == GetBusinessVoiceNoteFileReply(m, "job", k)
GetBusinessExecutionTimeline(m) == GetBusinessExecutionTimelineReply(m, "job")
ListBusinessJobPartsRequests(m) == ListBusinessPartsRequestsReply(m, "job")
FetchBusinessJobPartsPhotoBlob(m, k) == GetBusinessPartsPhotoFileReply(m, "job", k)
DecideJobPartsRequest(m, k) == DecidePartsRequestReply(m, "job", k, TRUE)
MarkJobPartsAvailable(m, k) == MarkPartsAvailableReply(m, "job", k, TRUE)

-----------------------------------------------------------------------------
(* The technician's screen.  The work record is loaded, and its forms are  *)
(* shown, from the start of the work on.                                   *)

Worked == {"IN_PROGRESS", "AWAITING_PARTS", "COMPLETED", "CONFIRMED", "CLOSED"}
PartsRows == IF parts = << >> THEN {} ELSE {"ours"}

LoadWork(t) == {ListMyJobImages(t), ListMyJobUpdates(t), ListMyJobVoiceNotes(t),
                ListMyJobPartsRequests(t), GetMyJobExecutionTimeline(t)}
LoadPhotoBlobs(t) == {FetchMyJobImageBlob(t, k) : k \in Held("image")}
LoadVoiceBlobs(t) == {FetchMyJobVoiceNoteBlob(t, k) : k \in Held("voice")}
LoadPartsPhotoBlobs(t) == {FetchMyJobPartsPhotoBlob(t, k) : k \in PartsRows}

(* Mutant: the work of a job that waits for parts is still edited. *)
IsWorkUnfinished == status \in Working

CanStart == status \in {"REQUESTED", "SCHEDULED"}
IsWorkEditable == status = "IN_PROGRESS"
CanComplete == status = "IN_PROGRESS"
CanRequestParts == status \in {"IN_PROGRESS", "AWAITING_PARTS"}
CanRespond(k) == PartsOf(k).status = "NEEDS_INFO"
IsAwaitingParts == status = "AWAITING_PARTS"
AllPartsAvailable == \A i \in DOMAIN parts : parts[i].status # "APPROVED"

Offer(shown, replies) == IF shown THEN replies ELSE {}

(* What the open screen asks for and offers, each with its answer.         *)
TechnicianScreen(t) ==
    {ListMyJobs(t), GetMyJob(t, "job")}
      \cup Offer(CanStart, {StartMyJob(t)})
      \cup Offer(status \in Worked,
              LoadWork(t) \cup LoadPhotoBlobs(t) \cup LoadVoiceBlobs(t) \cup LoadPartsPhotoBlobs(t)
              \cup Offer(IsWorkEditable,
                      {UploadMyJobImage(t), CreateMyJobUpdate(t), UploadMyJobVoiceNote(t)})
              \cup Offer(CanComplete, {CompleteMyJob(t)})
              \cup Offer(IsAwaitingParts /\ AllPartsAvailable, {ResumeMyJob(t)})
              \cup Offer(CanRequestParts, {CreateMyJobPartsRequest(t)})
              \cup {RespondToMyJobPartsRequest(t, k) : k \in {x \in PartsRows : CanRespond(x)}})

(* The button beside every photo, whoever took it. *)
PhotoButtons(t) ==
    Offer(status \in Worked /\ IsWorkEditable, {DeleteMyJobImage(t, k) : k \in Held("image")})

-----------------------------------------------------------------------------
(* The manager's screens: the job, and the board whose rows lead to it. *)

CanManage == status = "REQUESTED"
CanDecide(k) == PartsOf(k).status \in {"PENDING", "NEEDS_INFO"}
CanMarkAvailable(k) == PartsOf(k).status = "APPROVED"
ActiveTechnicians(m) == {t \in TechnicianIds \ Inactive : Rostered(Manages[m], t)}

LoadExecution(m) == {ListBusinessJobImagesCall(m), ListBusinessJobUpdatesCall(m),
                     ListBusinessVoiceNotesCall(m), ListBusinessJobPartsRequests(m),
                     GetBusinessExecutionTimeline(m)}
LoadExecBlobs(m) == {FetchBusinessJobImageBlob(m, k) : k \in Held("image")}
                      \cup {FetchBusinessJobVoiceNoteBlob(m, k) : k \in Held("voice")}
LoadExecPartsPhotoBlobs(m) == {FetchBusinessJobPartsPhotoBlob(m, k) : k \in PartsRows}

LoadBoard(m) == {ListBoardJobs(m), GetBusinessBoardSummary(m), ListTechniciansReply(m)}
                  \cup {GetBusinessJob(m, row[1]) : row \in ListInternalJobs(Manages[m])}

(* Each button makes one call and, once it is answered, loads everything   *)
(* again.                                                                  *)
Save(m) == UpdateBusinessJob(m)
CancelJob(m) == CancelBusinessJob(m)
Assign(m, t) == AssignTechnicianCall(m, t)
ConfirmDecision(m, k) == DecideJobPartsRequest(m, k)
MarkAvailable(m, k) == MarkJobPartsAvailable(m, k)

ExecutionShown == status \notin {"REQUESTED", "CANCELLED"}
ManagerScreen(m) ==
    {GetBusinessJob(m, "job"), GetJobAssignment(m)}
      \cup Offer(CanManage, {Save(m), CancelJob(m)}
                              \cup {Assign(m, t) : t \in ActiveTechnicians(m)})
      \cup Offer(ExecutionShown,
              LoadExecution(m) \cup LoadExecBlobs(m) \cup LoadExecPartsPhotoBlobs(m))

(* The buttons beside a parts request, shown by the request's own status.  *)
PartsButtons(m) ==
    Offer(ExecutionShown, {ConfirmDecision(m, k) : k \in {x \in PartsRows : CanDecide(x)}}
                        \cup {MarkAvailable(m, k) : k \in {x \in PartsRows : CanMarkAvailable(x)}})

-----------------------------------------------------------------------------
(* What the technician's screen shows after an answer: the answer put into *)
(* the copy (the manager's screen loads everything again).  The timeline   *)
(* is not refreshed, and is no part of the copy.                           *)

Shown == [job |-> status, image |-> work.image, voice |-> work.voice, update |-> work.update,
          closing |-> notes, parts |-> [i \in DOMAIN parts |-> parts[i].status]]

ConfirmStart(s, answer) == [s EXCEPT !.job = answer]
OnFileSelected(s, answer) == [s EXCEPT !.image = answer]
DeletePhoto(s) == [s EXCEPT !.image = None]
SaveNote(s, answer) == [s EXCEPT !.update = answer]
UploadVoiceFile(s, answer) == [s EXCEPT !.voice = answer]
ConfirmComplete(s, answer) == [s EXCEPT !.closing = @ + 1, !.job = answer]

(* Mutant: a request counts as approved until somebody looks again. *)
SubmitApproved(s, answer) == [s EXCEPT !.parts = Append(@, "APPROVED")]

SubmitPartsRequest(s, answer) == [s EXCEPT !.parts = Append(@, answer)]
ConfirmRespond(s, i, answer) == [s EXCEPT !.parts[i] = answer]
ResumeJob(s, answer) == [s EXCEPT !.job = answer]

-----------------------------------------------------------------------------
(* Where a shown button is refused.  For whoever has the job now, and for  *)
(* its managers, what the flags of the screens say is what services and    *)
(* stores check elsewhere, in every state calls can bring the job to, but  *)
(* for two kinds of buttons: the deletion of a photo is offered to the     *)
(* next technician for those of the one before, and answered 403; and what *)
(* a completed job left open of its parts is still offered for a decision  *)
(* or as delivered, and answered 422.  All else a screen offers, and every *)
(* row it opens, is answered 200.                                          *)
OffersMeetAnswers ==
    Between /\ status # "ABSENT" =>
        /\ \A t \in Technicians : assigned = t =>
              /\ TechnicianScreen(t) = {200}
              /\ PhotoButtons(t) \subseteq {IF work.image = t THEN 200 ELSE 403}
        /\ \A m \in Managers :
              /\ LoadBoard(m) \cup ManagerScreen(m) = {200}
              /\ PartsButtons(m) \subseteq {IF status = "COMPLETED" THEN 422 ELSE 200}

(* What the technician sees after a call is what a reload would show:      *)
(* every endpoint changes what its screen puts right in its copy, and      *)
(* nothing the screen would go on showing as it was.                       *)
EchoIsReload ==
    [][\A r \in Requests :
          LET t == call[r].tech IN
          /\ StartTechnicianJob(r) => Shown' = ConfirmStart(Shown, status')
          /\ CreateTechnicianJobImage(r) => Shown' = OnFileSelected(Shown, t)
          /\ DeleteTechnicianJobImage(r) => Shown' = DeletePhoto(Shown)
          /\ CreateTechnicianJobUpdate(r) => Shown' = SaveNote(Shown, t)
          /\ CreateTechnicianVoiceNote(r) => Shown' = UploadVoiceFile(Shown, t)
          /\ CompleteTechnicianJob(r) => Shown' = ConfirmComplete(Shown, status')
          /\ CreatePartsRequest(r) =>
                Shown' = SubmitPartsRequest(Shown, parts'[Len(parts')].status)
          /\ \A i \in DOMAIN parts : RespondToPartsRequest(r, i) =>
                Shown' = ConfirmRespond(Shown, i, parts'[i].status)
          /\ ResumeTechnicianJob(r) => Shown' = ResumeJob(Shown, status')]_apiVars
=============================================================================
