-------------------------------- MODULE JobFiles --------------------------------
(***************************************************************************)
(* What is attached to one job: photos of the request, work photos, voice  *)
(* notes, photos of parts, and the notes that are rows alone.  The bytes   *)
(* are a file of the upload directory, the rest is a row of MySQL, and no  *)
(* transaction spans the two.                                              *)
(*                                                                         *)
(* Every upload does the same: look at the job, write the file under a     *)
(* random key, run a transaction that looks again under the lock on the    *)
(* job, and remove the file when the store throws.  The stores of request  *)
(* photos read the row back before the commit, the others after it and     *)
(* through the pool, so that they may throw although the row is there.     *)
(*                                                                         *)
(* An upload is named by its key, which is fresh.  The status of the job   *)
(* moves as MarketplaceJob and InternalJob say; here QUOTED is REQUESTED   *)
(* and SCHEDULED is ACCEPTED, which no upload tells apart.                 *)
(***************************************************************************)
EXTENDS Naturals, FiniteSets

CONSTANTS
    Uploads,          \* storage keys, one for each call that attaches something
    None,             \* nobody holds the lock on the job
    MaxRequestImages, \* MAX_REQUEST_IMAGES_PER_JOB
    MaxFaults         \* bound: writes, removals, answers that fail, restarts

ASSUME UploadsAssumption == IsFiniteSet(Uploads) /\ None \notin Uploads
ASSUME ImagesAssumption == MaxRequestImages \in Nat
ASSUME FaultsAssumption == MaxFaults \in Nat

VARIABLES
    source,   \* jobs.source
    status,   \* jobs.status
    deleted,  \* jobs.deleted_at is set
    assigned, \* the technician has the open assignment of the job
    kind,     \* kind[u]: which call upload u is
    at,       \* at[u]: how far it has come
    erasing,  \* erasing[u]: how far a deletion of u has come
    lock,     \* who holds the jobs row FOR UPDATE
    rows,     \* the rows of job_images, job_voice_notes, parts_request_items, job_updates
    files,    \* the files of the upload directory
    hit,      \* history: the uploads a fault has touched
    faults    \* how many faults happened

job == <<source, status, deleted, assigned>>
disk == <<rows, files>>
vars == <<job, kind, at, erasing, lock, disk, hit, faults>>

-----------------------------------------------------------------------------
Source == {"MARKETPLACE", "INTERNAL"}
Status == {"REQUESTED", "ACCEPTED", "IN_PROGRESS", "AWAITING_PARTS", "COMPLETED", "CANCELLED"}

(* The calls, by the store function that inserts the row. *)
TechnicianKinds == {"TechnicianJobImage", "TechnicianVoiceNote", "PartsRequest",
                    "TechnicianJobUpdate"}
Kind == {"RequestImage", "Image", "Update"} \cup TechnicianKinds
RowOnly == {"Update", "TechnicianJobUpdate"}

Ended == {"created", "rejected", "lost"}
InFlight == {"checked", "saved", "began", "locked", "committed", "refused"}
Running == {u \in Uploads : at[u] \in InFlight}

(* Mutant: SELECT without FOR UPDATE. *)
FreeAlways == TRUE

Free == lock = None

Goes(u, phase) == at' = [at EXCEPT ![u] = phase]
Fault(us) == /\ faults < MaxFaults
             /\ faults' = faults + 1
             /\ hit' = hit \cup us
NoFault == UNCHANGED <<hit, faults>>

Init == /\ source \in Source
        /\ status = "REQUESTED"
        /\ deleted = FALSE
        /\ assigned = FALSE
        /\ kind \in [Uploads -> Kind]
        /\ at = [u \in Uploads |-> "idle"]
        /\ erasing = [u \in Uploads |-> "idle"]
        /\ lock = None
        /\ rows = {}
        /\ files = {}
        /\ hit = {}
        /\ faults = 0

-----------------------------------------------------------------------------
(* The job under the uploads.  Each of these holds the lock for its        *)
(* transaction, so none happens while an upload does.                      *)

Moves(s, from, to) == /\ Free
                      /\ source = s /\ status = from /\ ~deleted
                      /\ status' = to
                      /\ UNCHANGED <<source, deleted, assigned, kind, at, erasing, lock, disk>>
                      /\ NoFault

AcceptQuote == Moves("MARKETPLACE", "REQUESTED", "ACCEPTED")
StartJob == Moves("MARKETPLACE", "ACCEPTED", "IN_PROGRESS")
CompleteJob == Moves("MARKETPLACE", "IN_PROGRESS", "COMPLETED")
CancelJob == Moves("MARKETPLACE", "REQUESTED", "CANCELLED")
StartTechnicianJob == assigned /\ Moves("INTERNAL", "REQUESTED", "IN_PROGRESS")
CompleteTechnicianJob == assigned /\ Moves("INTERNAL", "IN_PROGRESS", "COMPLETED")
ReviewPartsRequest == Moves("INTERNAL", "IN_PROGRESS", "AWAITING_PARTS")
MarkPartsAvailable == Moves("INTERNAL", "AWAITING_PARTS", "IN_PROGRESS")

AssignTechnician == /\ Free
                    /\ source = "INTERNAL"
                    /\ assigned' = ~assigned
                    /\ UNCHANGED <<source, status, deleted, kind, at, erasing, lock, disk>>
                    /\ NoFault

DeleteJob == /\ Free
             /\ source = "MARKETPLACE" /\ ~deleted
             /\ deleted' = TRUE
             /\ UNCHANGED <<source, status, assigned, kind, at, erasing, lock, disk>>
             /\ NoFault

JobStep == \/ AcceptQuote \/ StartJob \/ CompleteJob \/ CancelJob
           \/ StartTechnicianJob \/ CompleteTechnicianJob
           \/ ReviewPartsRequest \/ MarkPartsAvailable
           \/ AssignTechnician \/ DeleteJob

-----------------------------------------------------------------------------
(* The service: authorization and the first look at the job.               *)

Begins(u, k, allowed) ==
    /\ at[u] = "idle" /\ kind[u] = k
    /\ allowed /\ ~deleted
    /\ Goes(u, IF k \in RowOnly THEN "saved" ELSE "checked")
    /\ UNCHANGED <<job, kind, erasing, lock, disk>>
    /\ NoFault

(* The owner's photo: only the store looks at the status. *)
UploadRequestImage(u) == Begins(u, "RequestImage", source = "MARKETPLACE")
UploadImage(u) == Begins(u, "Image", source = "MARKETPLACE" /\ status = "IN_PROGRESS")
CreateUpdate(u) == Begins(u, "Update", source = "MARKETPLACE" /\ status = "IN_PROGRESS")
UploadTechnicianImage(u) ==
    Begins(u, "TechnicianJobImage", assigned /\ status = "IN_PROGRESS")
UploadTechnicianVoiceNote(u) ==
    Begins(u, "TechnicianVoiceNote", assigned /\ status = "IN_PROGRESS")
CreateTechnicianUpdate(u) ==
    Begins(u, "TechnicianJobUpdate", assigned /\ status = "IN_PROGRESS")
CreateTechnicianPartsRequest(u) ==
    Begins(u, "PartsRequest", assigned /\ status \in {"IN_PROGRESS", "AWAITING_PARTS"})

BeginUpload(u) ==
    \/ UploadRequestImage(u) \/ UploadImage(u) \/ CreateUpdate(u)
    \/ UploadTechnicianImage(u) \/ UploadTechnicianVoiceNote(u)
    \/ CreateTechnicianUpdate(u) \/ CreateTechnicianPartsRequest(u)

(* storage.save: mkdir and writeFile.  A write that fails, on a full disk  *)
(* say, may leave the beginning of the file: the service answers 500 and   *)
(* does not remove it.                                                     *)
Save(u) == /\ at[u] = "checked"
           /\ files' = files \cup {u}
           /\ Goes(u, "saved")
           /\ UNCHANGED <<job, kind, erasing, lock, rows>>
           /\ NoFault

SaveFails(u) == /\ at[u] = "checked"
                /\ \/ files' = files \cup {u}
                   \/ files' = files
                /\ Goes(u, "rejected")
                /\ Fault({u})
                /\ UNCHANGED <<job, kind, erasing, lock, rows>>

-----------------------------------------------------------------------------
(* The store: one transaction under the lock on the job.                   *)

(* hasActiveAssignment, a plain SELECT before the lock. *)
HasActiveAssignment(u) ==
    /\ at[u] = "saved" /\ kind[u] \in TechnicianKinds
    /\ Goes(u, IF assigned THEN "began" ELSE "refused")
    /\ UNCHANGED <<job, kind, erasing, lock, disk>>
    /\ NoFault

HasRoom == Cardinality({u \in rows : kind[u] = "RequestImage"}) < MaxRequestImages

(* What each store asks of the job when it has the lock on it. *)
CreateRequestImage == status = "REQUESTED" /\ HasRoom
CreateImage == source = "MARKETPLACE" /\ status = "IN_PROGRESS"
CreateJobUpdate == source = "MARKETPLACE" /\ status = "IN_PROGRESS"
RequireAssignedInternalJob == source = "INTERNAL" /\ status = "IN_PROGRESS"
CreatePartsRequest == source = "INTERNAL" /\ status \in {"IN_PROGRESS", "AWAITING_PARTS"}

Accepts(k) == \/ k = "RequestImage" /\ CreateRequestImage
              \/ k = "Image" /\ CreateImage
              \/ k = "Update" /\ CreateJobUpdate
              \/ k = "PartsRequest" /\ CreatePartsRequest
              \/ k \in TechnicianKinds \ {"PartsRequest"} /\ RequireAssignedInternalJob

LockJob(u) ==
    /\ at[u] = IF kind[u] \in TechnicianKinds THEN "began" ELSE "saved"
    /\ Free
    /\ IF Accepts(kind[u])
       THEN lock' = u /\ Goes(u, "locked")
       ELSE UNCHANGED lock /\ Goes(u, "refused")
    /\ UNCHANGED <<job, kind, erasing, disk>>
    /\ NoFault

Insert(u) == /\ at[u] = "locked"
             /\ rows' = rows \cup {u}
             /\ lock' = None
             /\ Goes(u, IF kind[u] = "RequestImage" THEN "created" ELSE "committed")
             /\ UNCHANGED <<job, kind, erasing, files>>
             /\ NoFault

(* The connection fails at the commit: the transaction may be in or out.   *)
CommitFails(u) == /\ at[u] = "locked"
                  /\ \/ rows' = rows \cup {u}
                     \/ rows' = rows
                  /\ lock' = None
                  /\ Goes(u, "refused")
                  /\ Fault({u})
                  /\ UNCHANGED <<job, kind, erasing, files>>

(* The row is read back after the commit; it may be deleted by then.       *)
ReadBack(u) == /\ at[u] = "committed"
               /\ Goes(u, IF u \in rows THEN "created" ELSE "refused")
               /\ UNCHANGED <<job, kind, erasing, lock, disk>>
               /\ NoFault

ReadBackFails(u) == /\ at[u] = "committed"
                    /\ Goes(u, "refused")
                    /\ Fault({u})
                    /\ UNCHANGED <<job, kind, erasing, lock, disk>>

(* Mutant: the refused file is kept. *)
RefusedIsKept(u) == /\ at[u] = "refused"
                    /\ Goes(u, "rejected")
                    /\ UNCHANGED <<job, kind, erasing, lock, disk>>
                    /\ NoFault

(* The service catches whatever the store throws and removes the file it   *)
(* wrote; storage.remove swallows its own failure.                         *)
RemoveRefused(u) == /\ at[u] = "refused"
                    /\ files' = files \ {u}
                    /\ Goes(u, "rejected")
                    /\ UNCHANGED <<job, kind, erasing, lock, rows>>
                    /\ NoFault

RemoveRefusedFails(u) == /\ at[u] = "refused"
                         /\ Goes(u, "rejected")
                         /\ Fault({u})
                         /\ UNCHANGED <<job, kind, erasing, lock, disk>>

-----------------------------------------------------------------------------
(* Deletion of a work photo: the row first, the file after it.             *)

Asks(u, k, allowed) ==
    /\ erasing[u] = "idle" /\ kind[u] = k
    /\ u \in rows
    /\ allowed
    /\ erasing' = [erasing EXCEPT ![u] = "asked"]
    /\ UNCHANGED <<job, kind, at, lock, disk>>
    /\ NoFault
DeleteImage(u) == Asks(u, "Image", source = "MARKETPLACE" /\ ~deleted)
DeleteTechnicianImage(u) == Asks(u, "TechnicianJobImage", assigned)

(* deleteTechnicianJobImage locks the image and asks for the assignment,   *)
(* then waits for the job.                                                 *)
CheckTechnicianImage(u) ==
    /\ erasing[u] = "asked" /\ kind[u] \in TechnicianKinds
    /\ erasing' = [erasing EXCEPT ![u] = IF u \in rows /\ assigned THEN "began" ELSE "idle"]
    /\ UNCHANGED <<job, kind, at, lock, disk>>
    /\ NoFault

(* Mutant: the file goes first and the row after it. *)
DeleteFileFirst(u) ==
    /\ erasing[u] = IF kind[u] \in TechnicianKinds THEN "began" ELSE "asked"
    /\ Free
    /\ IF u \in rows /\ status = "IN_PROGRESS"
       THEN files' = files \ {u} /\ erasing' = [erasing EXCEPT ![u] = "rowGone"]
       ELSE UNCHANGED files /\ erasing' = [erasing EXCEPT ![u] = "idle"]
    /\ UNCHANGED <<job, kind, at, lock, rows>>
    /\ NoFault

(* The job is locked; then its status is looked at.                        *)
DeleteRow(u) ==
    /\ erasing[u] = IF kind[u] \in TechnicianKinds THEN "began" ELSE "asked"
    /\ Free
    /\ IF u \in rows /\ status = "IN_PROGRESS"
       THEN rows' = rows \ {u} /\ erasing' = [erasing EXCEPT ![u] = "rowGone"]
       ELSE UNCHANGED rows /\ erasing' = [erasing EXCEPT ![u] = "idle"]
    /\ UNCHANGED <<job, kind, at, lock, files>>
    /\ NoFault

RemoveFile(u) == /\ erasing[u] = "rowGone"
                 /\ files' = files \ {u}
                 /\ erasing' = [erasing EXCEPT ![u] = "idle"]
                 /\ UNCHANGED <<job, kind, at, lock, rows>>
                 /\ NoFault

RemoveFileFails(u) == /\ erasing[u] = "rowGone"
                      /\ erasing' = [erasing EXCEPT ![u] = "idle"]
                      /\ Fault({u})
                      /\ UNCHANGED <<job, kind, at, lock, disk>>

-----------------------------------------------------------------------------
(* The server stops and comes back: its handlers are gone, MySQL rolls     *)
(* back what had not committed, and nothing sweeps the upload directory.   *)
Restart ==
    /\ Fault(Running \cup {u \in Uploads : erasing[u] # "idle"})
    /\ at' = [u \in Uploads |-> IF at[u] \in InFlight THEN "lost" ELSE at[u]]
    /\ erasing' = [u \in Uploads |-> "idle"]
    /\ lock' = None
    /\ UNCHANGED <<job, kind, disk>>

-----------------------------------------------------------------------------
Fails(u) == \/ SaveFails(u) \/ CommitFails(u) \/ ReadBackFails(u)
            \/ RemoveRefusedFails(u) \/ RemoveFileFails(u)

Proceed(u) == \/ Save(u) \/ HasActiveAssignment(u) \/ LockJob(u) \/ Insert(u)
              \/ ReadBack(u) \/ RemoveRefused(u)

Erase(u) == CheckTechnicianImage(u) \/ DeleteRow(u) \/ RemoveFile(u)

Next == \/ JobStep \/ Restart
        \/ \E u \in Uploads : \/ BeginUpload(u) \/ Proceed(u) \/ Fails(u)
                              \/ DeleteImage(u) \/ DeleteTechnicianImage(u) \/ Erase(u)

Spec == Init /\ [][Next]_vars

-----------------------------------------------------------------------------
TypeOK ==
    /\ source \in Source
    /\ status \in Status
    /\ deleted \in BOOLEAN
    /\ assigned \in BOOLEAN
    /\ kind \in [Uploads -> Kind]
    /\ at \in [Uploads -> {"idle"} \cup InFlight \cup Ended]
    /\ erasing \in [Uploads -> {"idle", "asked", "began", "rowGone"}]
    /\ lock \in Uploads \cup {None}
    /\ rows \subseteq Uploads
    /\ files \subseteq Uploads
    /\ hit \subseteq Uploads
    /\ faults \in Nat

(* A row names a file that is there.  The exception is an upload whose     *)
(* store threw after its row was in, and whose caller was told that it     *)
(* failed: whoever was told that a photo is stored can open it until it is *)
(* deleted, whatever deletions, restarts and failures come between.        *)
RowsNameFiles ==
    \A u \in rows : \/ kind[u] \in RowOnly
                    \/ u \in files
                    \/ u \in hit /\ at[u] = "rejected"

(* "A refused insert deletes the just-written file": a file without a row  *)
(* belongs to a handler that is still at work on it, or a fault left it.   *)
OrphansHaveACause ==
    \A u \in files \ rows : u \in hit \cup Running \/ erasing[u] = "rowGone"

(* "concurrent uploads cannot slip past either check": every row is        *)
(* inserted, and every work photo deleted, while the job is in a status    *)
(* that allows it, and no photo of the request goes over the cap, long as  *)
(* the look of the service at the status and at the count may be ago.      *)
RecordIsClosed ==
    [][/\ \A u \in rows' \ rows : status = status' /\ Accepts(kind[u])
       /\ rows' # rows => Cardinality({u \in rows' : kind[u] = "RequestImage"}) <= MaxRequestImages
       /\ \A u \in rows \ rows' : status = "IN_PROGRESS"]_vars
=============================================================================
