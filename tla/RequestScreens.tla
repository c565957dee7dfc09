----------------------------- MODULE RequestScreens -----------------------------
(***************************************************************************)
(* The screens of a marketplace job in the web app: the customer's lists   *)
(* and detail, the provider's inbox, board and request detail; the calls   *)
(* job.service makes for them, and what they offer.  A screen's copy is    *)
(* what its last load read; what is asked here concerns a copy no other    *)
(* account's call has overtaken, so a copy is a function of the tables and *)
(* needs no variable.  Forms are filled in as their validators ask;        *)
(* phases, spinners, messages, the advisory on stale quotes and the        *)
(* dialogs that ask again are left out.                                    *)
(***************************************************************************)
EXTENDS MarketplaceApi

-----------------------------------------------------------------------------
(* job.service: the endpoint each call goes to. *)

UpdateJobCall(u, j) == UpdateJobReply(Sql, u, j, TRUE)
CancelJobCall(u, j) == CancelJobReply(Sql, u, j)
DeleteJobCall(u, j) == DeleteJobReply(Sql, u, j)
ListMyJobsCall(u) == ListMyJobsReply(u, TRUE)
GetJobCall(u, j) == GetMyJobByIdReply(Sql, u, j)
ListProviderRequestsCall(u) == ListProviderRequestsReply(u, TRUE)
GetProviderRequestCall(u, j) == GetProviderRequestReply(Sql, u, j)
ListOpenRequestsCall(u) == ListOpenRequestsReply(u, TRUE)
GetOpenRequestCall(u, j) == GetOpenRequestReply(Sql, u, j)
CreateQuoteCall(u, j) == CreateQuoteReply(Sql, u, j, TRUE)
AcceptQuoteCall(u, j, q) == AcceptQuoteReply(Sql, u, j, q)
ScheduleJobCall(u, j) == ScheduleJobReply(Sql, u, j, TRUE)
StartJobCall(u, j) == StartJobReply(Sql, u, j)
UploadJobImageCall(u, j) == UploadImageReply(Sql, u, j, TRUE)
ListJobImagesCall(u, j) == ListImagesReply(Sql, u, j)
FetchImageBlob(u, j, i) == GetImageFileReply(Sql, u, j, i)
DeleteJobImageCall(u, j, i) == DeleteImageReply(Sql, u, j, i)
CreateJobUpdateCall(u, j) == CreateUpdateReply(Sql, u, j, TRUE)
ListJobUpdatesCall(u, j) == ListUpdatesReply(Sql, u, j)
GetJobTimelineCall(u, j) == GetTimelineReply(Sql, u, j)
CompleteJobCall(u, j) == CompleteJobReply(Sql, u, j, TRUE)
ConfirmJobCall(u, j) == ConfirmJobReply(Sql, u, j)

-----------------------------------------------------------------------------
(* Both details load the work record from the start of the work on, and    *)
(* then the photos it lists, which are the request's photos too.           *)

Worked == {"IN_PROGRESS", "COMPLETED", "CONFIRMED", "CLOSED"}
Photos(j) == {i \in {WorkPhoto(j), RequestPhoto(j)} : ImageOf(Sql, j, i)}

LoadPhotoBlobs(u, j) == {FetchImageBlob(u, j, i) : i \in Photos(j)}
LoadWork(u, j) ==
    IF jobs[j].status \notin Worked THEN {}
    ELSE {ListJobImagesCall(u, j), ListJobUpdatesCall(u, j), GetJobTimelineCall(u, j)}
           \cup LoadPhotoBlobs(u, j)

(* A button: whether it is shown, and what its call is answered. *)
Button(shown, reply) == [shown |-> shown, reply |-> reply]

-----------------------------------------------------------------------------
(* The customer's detail. *)

(* Mutant: an agreed job may still be changed. *)
IsCustomerMutableLate(s) == s \in {"REQUESTED", "QUOTED", "ACCEPTED"}

IsCustomerMutable(s) == s \in {"REQUESTED", "QUOTED"}
CanMutate(j) == IsCustomerMutable(jobs[j].status)
CanAcceptQuote(j, q) == jobs[j].status = "QUOTED" /\ quotes[q].status = "SUBMITTED"
CanConfirmJob(j) == jobs[j].status = "COMPLETED"

SaveEdit(u, j) == Button(CanMutate(j), UpdateJobCall(u, j))
ConfirmCancel(u, j) == Button(CanMutate(j), CancelJobCall(u, j))
ConfirmAccept(u, j, q) == Button(CanAcceptQuote(j, q), AcceptQuoteCall(u, j, q))
ConfirmCompletion(u, j) == Button(CanConfirmJob(j), ConfirmJobCall(u, j))

ConfirmDelete(u, j) == Button(CanMutate(j), DeleteJobCall(u, j))

CustomerButtons(u, j) ==
    {SaveEdit(u, j), ConfirmCancel(u, j), ConfirmCompletion(u, j)}
      \cup {ConfirmAccept(u, j, q) : q \in QuotesOf(Sql, j)}

LoadJobs(u) == {ListMyJobsCall(u)} \cup {GetJobCall(u, j) : j \in CustomerJobs}

-----------------------------------------------------------------------------
(* The provider's detail.  It is opened from the inbox or from the board,  *)
(* and its copy has the provider's own quotes only.                        *)

AcceptedQuote(u, j) ==
    \E q \in ToProviderRequest(Sql, u, j) : quotes[q].status = "ACCEPTED"
CreatedQuote(u, j) == ToProviderRequest(Sql, u, j) # {}

CanScheduleJob(u, j) == jobs[j].status = "ACCEPTED" /\ AcceptedQuote(u, j)
CanStartJob(u, j) == jobs[j].status = "SCHEDULED" /\ AcceptedQuote(u, j)
CanCompleteJob(u, j) == jobs[j].status = "IN_PROGRESS" /\ AcceptedQuote(u, j)

OnSchedule(u, j) == Button(CanScheduleJob(u, j), ScheduleJobCall(u, j))
ConfirmStart(u, j) == Button(CanStartJob(u, j), StartJobCall(u, j))
OnFileSelected(u, j) == Button(CanCompleteJob(u, j), UploadJobImageCall(u, j))
SaveNote(u, j) == Button(CanCompleteJob(u, j), CreateJobUpdateCall(u, j))
ConfirmComplete(u, j) == Button(CanCompleteJob(u, j), CompleteJobCall(u, j))

(* The button is shown beside every photo, the request's and a colleague's *)
(* included.                                                               *)
DeletePhoto(u, j, i) == Button(CanCompleteJob(u, j), DeleteJobImageCall(u, j, i))

ProviderButtons(u, j) ==
    {OnSchedule(u, j), ConfirmStart(u, j), OnFileSelected(u, j), SaveNote(u, j),
     ConfirmComplete(u, j)}

(* The form of a quote is the last of the screen's alternatives. *)
QuoteFormShown(u, j) ==
    ~AcceptedQuote(u, j) /\ ~CreatedQuote(u, j) /\ jobs[j].status = "REQUESTED"
OnSubmit(u, j) == Button(QuoteFormShown(u, j), CreateQuoteCall(u, j))

LoadInbox(u) ==
    {ListProviderRequestsCall(u)} \cup {GetProviderRequestCall(u, j) : j \in ProviderInbox(u)}
LoadBoard(u) == ListOpenRequestsCall(u)
OpenBoardRow(u, j) == GetOpenRequestCall(u, j)

-----------------------------------------------------------------------------
(* The screens and the endpoints agree on who may do what, so that no step *)
(* of a job is out of reach of the one it waits for: what the inbox or the *)
(* customer's list shows can be opened, the work record of what was opened *)
(* can be read, and a button is shown exactly when its call goes through.  *)
(* Where screen and endpoint part, the answer is always the same one: the  *)
(* endpoint deletes a job in any status and the customer is offered less;  *)
(* the form of a quote is shown to fewer than may quote; deleting a photo  *)
(* is offered for every photo of the work, and for another's answered 403; *)
(* and a request the board lists, by what the profiles of a person offer   *)
(* and cover between them, is answered 404 when none of them does both.    *)
PhotoOffer(u, j, i) ==
    LET b == DeletePhoto(u, j, i) IN
    /\ b.shown => b.reply = IF Sql.image[i].uploader = u THEN 200 ELSE 403
    /\ b.reply = 200 => b.shown
BoardRow(u, j) ==
    OpenBoardRow(u, j) =
        IF \E p \in Identity(u) : jobs[j].location \in Serves[p] THEN 200 ELSE 404

OffersMeetAnswers ==
    Between =>
        /\ LoadJobs(Customer) = {200}
        /\ \A j \in CustomerJobs :
              /\ LoadWork(Customer, j) \subseteq {200}
              /\ \A b \in CustomerButtons(Customer, j) : b.shown <=> b.reply = 200
              /\ LET b == ConfirmDelete(Customer, j) IN b.shown => b.reply = 200
        /\ \A u \in Users :
              /\ LoadInbox(u) = {200} /\ LoadBoard(u) = 200
              /\ \A j \in OpenRequests(u) : BoardRow(u, j)
              /\ \A j \in Jobs : GetProviderRequestCall(u, j) = 200 =>
                    /\ LoadWork(u, j) \subseteq {200}
                    /\ \A b \in ProviderButtons(u, j) : b.shown <=> b.reply = 200
                    /\ \A i \in Photos(j) : PhotoOffer(u, j, i)
                    /\ OnSubmit(u, j).shown => OnSubmit(u, j).reply = 200

(* "On an OPEN job up to 3 matching providers can, the first moves it to   *)
(* QUOTED": a provider who opens a request of the board is given the form  *)
(* whenever the endpoint would take their quote.  The code fails this from *)
(* the first quote on: the form is shown for a REQUESTED job only.         *)
QuoteFormIsOffered ==
    Between => \A u \in Users : \A j \in OpenRequests(u) :
        OnSubmit(u, j).reply = 200 => OnSubmit(u, j).shown
=============================================================================
