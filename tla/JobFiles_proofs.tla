---------------------------- MODULE JobFiles_proofs ----------------------------
(***************************************************************************)
(* Theorems about JobFiles, for any number of uploads, any cap and any     *)
(* number of faults.                                                       *)
(*                                                                         *)
(* What ties a row to its file is what the handlers know: one that has not *)
(* inserted its row has no row and nobody deletes it (NotYetThere), one    *)
(* that goes to the store has its file (FileIsWritten), one that is        *)
(* refused although its row is there was hit by a fault (RefusedOrHit),    *)
(* and a deletion that goes for the file has taken the row (RowIsGone).    *)
(* The gate and the cap need LockedIsAccepted: as long as an upload holds  *)
(* the lock on the job, nothing it looked at has changed.                  *)
(***************************************************************************)
EXTENDS JobFiles, FiniteSetTheorems, TLAPS

NotYetThere ==
    \A u \in Uploads : at[u] \in {"idle", "checked", "saved", "began", "locked"} =>
                           u \notin rows /\ erasing[u] = "idle"

FileIsWritten ==
    \A u \in Uploads : at[u] \in {"saved", "began", "locked"} => kind[u] \in RowOnly \/ u \in files

RefusedOrHit == \A u \in Uploads : at[u] = "refused" /\ u \in rows => u \in hit

RowIsGone == \A u \in Uploads : erasing[u] = "rowGone" => u \notin rows

FilesInv == /\ NotYetThere
            /\ FileIsWritten
            /\ RefusedOrHit
            /\ RowIsGone
            /\ RowsNameFiles
            /\ OrphansHaveACause

LockedIsAccepted ==
    \A u \in Uploads : at[u] = "locked" => lock = u /\ Accepts(kind[u])

RequestImages == {u \in rows : kind[u] = "RequestImage"}
CapHolds == Cardinality(RequestImages) <= MaxRequestImages

RecordInv == LockedIsAccepted /\ CapHolds

-----------------------------------------------------------------------------
LEMMA InitFiles == Init => TypeOK /\ FilesInv /\ RecordInv
<1> SUFFICES ASSUME Init PROVE TypeOK /\ FilesInv /\ RecordInv
  OBVIOUS
<1> USE DEF Init
<1>1. TypeOK
  BY DEF TypeOK, Status, Kind, InFlight, Ended
<1>2. FilesInv
  BY DEF FilesInv, NotYetThere, FileIsWritten, RefusedOrHit, RowIsGone, RowsNameFiles,
         OrphansHaveACause
<1>3. LockedIsAccepted
  BY DEF LockedIsAccepted
<1>4. CapHolds
  <2>1. RequestImages = {}
    BY DEF RequestImages
  <2> QED
    BY <2>1, FS_EmptySet, ImagesAssumption DEF CapHolds
<1> QED
  BY <1>1, <1>2, <1>3, <1>4 DEF RecordInv

(* The steps of the job leave every upload where it is. *)
LEMMA JobStepIdle ==
    ASSUME TypeOK, JobStep
    PROVE  /\ UNCHANGED <<kind, at, erasing, lock, disk, hit, faults>>
           /\ lock = None
           /\ status' \in Status /\ source' \in Source
           /\ deleted' \in BOOLEAN /\ assigned' \in BOOLEAN
BY DEF TypeOK, JobStep, AcceptQuote, StartJob, CompleteJob, CancelJob, StartTechnicianJob,
       CompleteTechnicianJob, ReviewPartsRequest, MarkPartsAvailable, AssignTechnician, DeleteJob,
       Moves, NoFault, Free, Status

LEMMA NextTypes == TypeOK /\ [Next]_vars => TypeOK'
<1> SUFFICES ASSUME TypeOK, [Next]_vars PROVE TypeOK'
  OBVIOUS
<1> USE DEF TypeOK, InFlight, Ended, Goes, NoFault, Fault, job, disk, Running
<1> USE FaultsAssumption
<1>1. CASE JobStep
  BY <1>1, JobStepIdle
<1>2. CASE Restart
  BY <1>2 DEF Restart
<1>3. ASSUME NEW u \in Uploads, BeginUpload(u) PROVE TypeOK'
  BY <1>3 DEF BeginUpload, UploadRequestImage, UploadImage, CreateUpdate, UploadTechnicianImage,
              UploadTechnicianVoiceNote, CreateTechnicianUpdate, CreateTechnicianPartsRequest, Begins
<1>4. ASSUME NEW u \in Uploads, Proceed(u) PROVE TypeOK'
  BY <1>4 DEF Proceed, Save, HasActiveAssignment, LockJob, Insert, ReadBack, RemoveRefused
<1>5. ASSUME NEW u \in Uploads, Fails(u) PROVE TypeOK'
  BY <1>5 DEF Fails, SaveFails, CommitFails, ReadBackFails, RemoveRefusedFails, RemoveFileFails
<1>6. ASSUME NEW u \in Uploads, DeleteImage(u) \/ DeleteTechnicianImage(u) PROVE TypeOK'
  BY <1>6 DEF DeleteImage, DeleteTechnicianImage, Asks
<1>7. ASSUME NEW u \in Uploads, Erase(u) PROVE TypeOK'
  BY <1>7 DEF Erase, CheckTechnicianImage, DeleteRow, RemoveFile
<1>8. CASE UNCHANGED vars
  BY <1>8 DEF vars
<1> QED
  BY <1>1, <1>2, <1>3, <1>4, <1>5, <1>6, <1>7, <1>8 DEF Next

(* Every upload and every deletion keeps its phase and every table its     *)
(* type.                                                                   *)
THEOREM FilesTypes == Spec => []TypeOK
BY InitFiles, NextTypes, PTL DEF Spec

-----------------------------------------------------------------------------
LEMMA NextFiles == TypeOK /\ FilesInv /\ [Next]_vars => FilesInv'
<1> SUFFICES ASSUME TypeOK, FilesInv, [Next]_vars PROVE FilesInv'
  OBVIOUS
<1> USE DEF TypeOK, FilesInv, NotYetThere, FileIsWritten, RefusedOrHit, RowIsGone, RowsNameFiles,
            OrphansHaveACause, InFlight, Ended, Goes, NoFault, Fault, Running
<1>1. CASE JobStep
  BY <1>1, JobStepIdle DEF disk
<1>2. CASE Restart
  BY <1>2 DEF Restart, disk
<1>3. ASSUME NEW u \in Uploads, BeginUpload(u) PROVE FilesInv'
  <2>1. PICK k \in Kind, allowed \in BOOLEAN : Begins(u, k, allowed)
    BY <1>3 DEF BeginUpload, UploadRequestImage, UploadImage, CreateUpdate, UploadTechnicianImage,
                UploadTechnicianVoiceNote, CreateTechnicianUpdate, CreateTechnicianPartsRequest, Kind,
                TechnicianKinds
  <2> QED
    BY <2>1 DEF Begins, disk
<1>4. ASSUME NEW u \in Uploads, Proceed(u) PROVE FilesInv'
  <2>1. CASE Save(u)
    BY <2>1 DEF Save
  <2>2. CASE HasActiveAssignment(u)
    BY <2>2 DEF HasActiveAssignment, disk
  <2>3. CASE LockJob(u)
    BY <2>3 DEF LockJob, disk
  <2>4. CASE Insert(u)
    BY <2>4 DEF Insert
  <2>5. CASE ReadBack(u)
    BY <2>5 DEF ReadBack, disk
  <2>6. CASE RemoveRefused(u)
    BY <2>6 DEF RemoveRefused
  <2> QED
    BY <1>4, <2>1, <2>2, <2>3, <2>4, <2>5, <2>6 DEF Proceed
<1>5. ASSUME NEW u \in Uploads, Fails(u) PROVE FilesInv'
  <2>1. CASE SaveFails(u)
    BY <2>1 DEF SaveFails
  <2>2. CASE CommitFails(u)
    BY <2>2 DEF CommitFails
  <2>3. CASE ReadBackFails(u)
    BY <2>3 DEF ReadBackFails, disk
  <2>4. CASE RemoveRefusedFails(u)
    BY <2>4 DEF RemoveRefusedFails, disk
  <2>5. CASE RemoveFileFails(u)
    BY <2>5 DEF RemoveFileFails, disk
  <2> QED
    BY <1>5, <2>1, <2>2, <2>3, <2>4, <2>5 DEF Fails
<1>6. ASSUME NEW u \in Uploads, DeleteImage(u) \/ DeleteTechnicianImage(u) PROVE FilesInv'
  BY <1>6 DEF DeleteImage, DeleteTechnicianImage, Asks, disk
<1>7. ASSUME NEW u \in Uploads, Erase(u) PROVE FilesInv'
  <2>1. CASE CheckTechnicianImage(u)
    BY <2>1 DEF CheckTechnicianImage, disk
  <2>2. CASE DeleteRow(u)
    BY <2>2 DEF DeleteRow
  <2>3. CASE RemoveFile(u)
    BY <2>3 DEF RemoveFile
  <2> QED
    BY <1>7, <2>1, <2>2, <2>3 DEF Erase
<1>8. CASE UNCHANGED vars
  BY <1>8 DEF vars, disk
<1> QED
  BY <1>1, <1>2, <1>3, <1>4, <1>5, <1>6, <1>7, <1>8 DEF Next

(* Whoever was told that a photo is stored can open it, through any        *)
(* deletions, restarts and failures of others.                             *)
THEOREM FilesAreThere == Spec => []RowsNameFiles
<1>1. FilesInv => RowsNameFiles
  BY DEF FilesInv
<1> QED
  BY InitFiles, NextTypes, NextFiles, <1>1, PTL DEF Spec

(* The upload directory holds nothing that neither a row, a handler at     *)
(* work nor a fault accounts for.                                          *)
THEOREM OrphansAccountedFor == Spec => []OrphansHaveACause
<1>1. FilesInv => OrphansHaveACause
  BY DEF FilesInv
<1> QED
  BY InitFiles, NextTypes, NextFiles, <1>1, PTL DEF Spec

-----------------------------------------------------------------------------
(* The gate and the cap. *)
LEMMA RequestImagesFinite ==
    ASSUME TypeOK
    PROVE  IsFiniteSet(RequestImages) /\ Cardinality(RequestImages) \in Nat
<1>1. RequestImages \subseteq Uploads
  BY DEF TypeOK, RequestImages
<1> QED
  BY <1>1, UploadsAssumption, FS_Subset, FS_CardinalityType

(* A row more, of an upload the store has accepted, and the cap holds.     *)
LEMMA InsertKeepsCap ==
    ASSUME TypeOK, RecordInv, NEW u \in Uploads, at[u] = "locked",
           rows' = rows \cup {u}, UNCHANGED kind
    PROVE  CapHolds'
<1>1. CASE kind[u] = "RequestImage"
  <2>1. RequestImages' = RequestImages \cup {u}
    <3>1. \A v : v \in RequestImages' <=> v \in RequestImages \/ v = u
      BY <1>1, Zenon DEF RequestImages
    <3> QED
      BY <3>1, Zenon
  <2>2. Cardinality(RequestImages) < MaxRequestImages
    <3>1. Accepts("RequestImage")
      BY <1>1 DEF RecordInv, LockedIsAccepted
    <3>2. HasRoom
      BY <3>1 DEF Accepts, CreateRequestImage, TechnicianKinds
    <3> QED
      BY <3>2, Zenon DEF HasRoom, RequestImages
  <2>3. Cardinality(RequestImages') <= Cardinality(RequestImages) + 1
    <3>1. Cardinality(RequestImages \cup {u}) =
            IF u \in RequestImages THEN Cardinality(RequestImages) ELSE Cardinality(RequestImages) + 1
      BY RequestImagesFinite, FS_AddElement, Zenon
    <3> QED
      BY <2>1, <3>1, RequestImagesFinite
  <2> QED
    <3>1. Cardinality(RequestImages') \in Nat
      BY <2>1, RequestImagesFinite, FS_AddElement
    <3> QED
      BY <3>1, <2>2, <2>3, RequestImagesFinite, ImagesAssumption DEF CapHolds
<1>2. CASE kind[u] # "RequestImage"
  <2>1. RequestImages' = RequestImages
    BY <1>2 DEF RequestImages
  <2> QED
    BY <2>1 DEF RecordInv, CapHolds
<1> QED
  BY <1>1, <1>2

LEMMA FewerRowsKeepCap ==
    ASSUME TypeOK, CapHolds, rows' \subseteq rows, UNCHANGED kind
    PROVE  CapHolds'
<1>1. RequestImages' \subseteq RequestImages
  BY DEF RequestImages
<1>2. Cardinality(RequestImages') <= Cardinality(RequestImages)
      /\ Cardinality(RequestImages') \in Nat
  BY <1>1, RequestImagesFinite, FS_Subset, FS_CardinalityType
<1> QED
  BY <1>2, RequestImagesFinite, ImagesAssumption DEF CapHolds

(* Steps that leave the job and the photos of the request as they are.     *)
LEMMA GateUnmoved ==
    ASSUME UNCHANGED <<job, kind>>, RequestImages' = RequestImages
    PROVE  \A k : Accepts(k)' <=> Accepts(k)
<1>1. HasRoom' <=> HasRoom
  BY DEF RequestImages, HasRoom
<1> QED
  BY <1>1 DEF job, Accepts, CreateRequestImage, CreateImage, CreateJobUpdate,
              RequireAssignedInternalJob, CreatePartsRequest

(* Handlers other than the one that inserts hold no lock, so what the one  *)
(* that does has looked at stays: a step needs the lock to be free, or     *)
(* takes it, or moves an upload that is not locked.                        *)
LEMMA NextRecord == TypeOK /\ RecordInv /\ [Next]_vars => RecordInv'
<1> SUFFICES ASSUME TypeOK, RecordInv, [Next]_vars PROVE RecordInv'
  OBVIOUS
<1> USE DEF TypeOK, Goes, NoFault, Fault
<1>same. ASSUME UNCHANGED <<job, kind, rows>>,
             \A u \in Uploads : at'[u] = "locked" =>
                 /\ lock' = u
                 /\ at[u] = "locked" \/ Accepts(kind[u])
      PROVE  RecordInv'
  <2>1. RequestImages' = RequestImages
    BY <1>same DEF RequestImages
  <2>2. \A k : Accepts(k)' <=> Accepts(k)
    BY <1>same, <2>1, GateUnmoved
  <2>3. LockedIsAccepted'
    BY <1>same, <2>2 DEF RecordInv, LockedIsAccepted
  <2>4. CapHolds'
    BY <2>1 DEF RecordInv, CapHolds
  <2> QED
    BY <2>3, <2>4 DEF RecordInv
<1>none. ASSUME \A u \in Uploads : at'[u] # "locked", CapHolds' PROVE RecordInv'
  BY <1>none DEF RecordInv, LockedIsAccepted
<1>free. ASSUME Free PROVE \A u \in Uploads : at[u] # "locked"
  BY <1>free, UploadsAssumption DEF Free, RecordInv, LockedIsAccepted
<1>1. CASE JobStep
  <2>1. \A u \in Uploads : at'[u] # "locked"
    BY <1>1, <1>free, JobStepIdle DEF Free
  <2>2. CapHolds'
    BY <1>1, JobStepIdle, FewerRowsKeepCap DEF RecordInv, disk
  <2> QED
    BY <1>none, <2>1, <2>2
<1>2. CASE Restart
  <2>1. \A u \in Uploads : at'[u] # "locked"
    BY <1>2 DEF Restart, InFlight
  <2>2. CapHolds'
    BY <1>2, FewerRowsKeepCap DEF RecordInv, Restart, disk
  <2> QED
    BY <1>none, <2>1, <2>2
<1>3. ASSUME NEW u \in Uploads, BeginUpload(u) PROVE RecordInv'
  <2>1. PICK k \in Kind, allowed \in BOOLEAN : Begins(u, k, allowed)
    BY <1>3 DEF BeginUpload, UploadRequestImage, UploadImage, CreateUpdate, UploadTechnicianImage,
                UploadTechnicianVoiceNote, CreateTechnicianUpdate, CreateTechnicianPartsRequest, Kind,
                TechnicianKinds
  <2> QED
    BY <2>1, <1>same DEF Begins, disk, RecordInv, LockedIsAccepted
<1>4. ASSUME NEW u \in Uploads, Proceed(u) PROVE RecordInv'
  <2>1. CASE LockJob(u)
    BY <2>1, <1>same, <1>free DEF LockJob, disk
  <2>2. CASE Insert(u)
    <3>1. CapHolds'
      BY <2>2, InsertKeepsCap DEF Insert
    <3>2. \A v \in Uploads : at'[v] # "locked"
      BY <2>2 DEF Insert, RecordInv, LockedIsAccepted
    <3> QED
      BY <3>1, <3>2, <1>none
  <2>3. CASE Save(u) \/ HasActiveAssignment(u) \/ ReadBack(u) \/ RemoveRefused(u)
    BY <2>3, <1>same DEF Save, HasActiveAssignment, ReadBack, RemoveRefused, disk, RecordInv,
                      LockedIsAccepted
  <2> QED
    BY <1>4, <2>1, <2>2, <2>3 DEF Proceed
<1>5. ASSUME NEW u \in Uploads, Fails(u) PROVE RecordInv'
  <2>1. CASE CommitFails(u)
    <3>1. CapHolds'
      BY <2>1, InsertKeepsCap, FewerRowsKeepCap DEF CommitFails, RecordInv
    <3>2. \A v \in Uploads : at'[v] # "locked"
      BY <2>1 DEF CommitFails, RecordInv, LockedIsAccepted
    <3> QED
      BY <3>1, <3>2, <1>none
  <2>2. CASE SaveFails(u) \/ ReadBackFails(u) \/ RemoveRefusedFails(u) \/ RemoveFileFails(u)
    BY <2>2, <1>same DEF SaveFails, ReadBackFails, RemoveRefusedFails, RemoveFileFails, disk, RecordInv,
                      LockedIsAccepted
  <2> QED
    BY <1>5, <2>1, <2>2 DEF Fails
<1>6. ASSUME NEW u \in Uploads, DeleteImage(u) \/ DeleteTechnicianImage(u) PROVE RecordInv'
  BY <1>6, <1>same DEF DeleteImage, DeleteTechnicianImage, Asks, disk, RecordInv, LockedIsAccepted
<1>7. ASSUME NEW u \in Uploads, Erase(u) PROVE RecordInv'
  <2>1. CASE DeleteRow(u)
    <3>1. CapHolds'
      BY <2>1, FewerRowsKeepCap DEF DeleteRow, RecordInv
    <3>2. \A v \in Uploads : at'[v] # "locked"
      BY <2>1, <1>free DEF DeleteRow
    <3> QED
      BY <3>1, <3>2, <1>none
  <2>2. CASE CheckTechnicianImage(u) \/ RemoveFile(u)
    BY <2>2, <1>same DEF CheckTechnicianImage, RemoveFile, disk, RecordInv, LockedIsAccepted
  <2> QED
    BY <1>7, <2>1, <2>2 DEF Erase
<1>8. CASE UNCHANGED vars
  BY <1>8, <1>same DEF vars, disk, RecordInv, LockedIsAccepted
<1> QED
  BY <1>1, <1>2, <1>3, <1>4, <1>5, <1>6, <1>7, <1>8 DEF Next

(* What one step may do to the rows. *)
LEMMA RowsChange ==
    ASSUME TypeOK, RecordInv, [Next]_vars
    PROVE  /\ \A u \in rows' \ rows : status = status' /\ Accepts(kind[u])
           /\ \A u \in rows \ rows' : status = "IN_PROGRESS"
<1> DEFINE Closed == /\ \A u \in rows' \ rows : status = status' /\ Accepts(kind[u])
                     /\ \A u \in rows \ rows' : status = "IN_PROGRESS"
<1>1. ASSUME UNCHANGED rows PROVE Closed
  BY <1>1
<1>2. ASSUME NEW u \in Uploads, Insert(u) \/ CommitFails(u) PROVE Closed
  BY <1>2 DEF Insert, CommitFails, RecordInv, LockedIsAccepted, job
<1>3. ASSUME NEW u \in Uploads, DeleteRow(u) PROVE Closed
  BY <1>3 DEF DeleteRow
<1>4. CASE JobStep
  BY <1>1, <1>4, JobStepIdle DEF disk
<1>5. CASE Restart \/ UNCHANGED vars
  BY <1>1, <1>5 DEF Restart, vars, disk
<1>6. ASSUME NEW u \in Uploads, BeginUpload(u) PROVE Closed
  BY <1>1, <1>6 DEF BeginUpload, UploadRequestImage, UploadImage, CreateUpdate,
      UploadTechnicianImage, UploadTechnicianVoiceNote, CreateTechnicianUpdate,
      CreateTechnicianPartsRequest, Begins, disk
<1>7. ASSUME NEW u \in Uploads, Proceed(u) PROVE Closed
  BY <1>1, <1>2, <1>7 DEF Proceed, Save, HasActiveAssignment, LockJob, ReadBack, RemoveRefused, disk
<1>8. ASSUME NEW u \in Uploads, Fails(u) PROVE Closed
  BY <1>1, <1>2, <1>8 DEF Fails, SaveFails, ReadBackFails, RemoveRefusedFails, RemoveFileFails, disk
<1>9. ASSUME NEW u \in Uploads, DeleteImage(u) \/ DeleteTechnicianImage(u) \/ Erase(u) PROVE Closed
  BY <1>1, <1>3, <1>9 DEF DeleteImage, DeleteTechnicianImage, Asks, Erase, CheckTechnicianImage,
      RemoveFile, disk
<1> QED
  BY <1>4, <1>5, <1>6, <1>7, <1>8, <1>9 DEF Next

LEMMA KindsAreKept == [Next]_vars => kind' = kind
BY DEF Next, vars, JobStep, AcceptQuote, StartJob, CompleteJob, CancelJob, StartTechnicianJob,
       CompleteTechnicianJob, ReviewPartsRequest, MarkPartsAvailable, AssignTechnician, DeleteJob,
       Moves, Restart, BeginUpload, UploadRequestImage, UploadImage, CreateUpdate,
       UploadTechnicianImage, UploadTechnicianVoiceNote, CreateTechnicianUpdate,
       CreateTechnicianPartsRequest, Begins, Proceed, Save, HasActiveAssignment, LockJob, Insert,
       ReadBack, RemoveRefused, Fails, SaveFails, CommitFails, ReadBackFails, RemoveRefusedFails,
       RemoveFileFails, DeleteImage, DeleteTechnicianImage, Asks, Erase, CheckTechnicianImage,
       DeleteRow, RemoveFile

(* No photo, note or request is attached to a job that is past it, however *)
(* long ago the service looked, and however many uploads of the request's  *)
(* photos run at once, they stay within the cap.                           *)
THEOREM ClosedRecords == Spec => RecordIsClosed
<1>1. ASSUME TypeOK, RecordInv, RecordInv', [Next]_vars
      PROVE  [/\ \A u \in rows' \ rows : status = status' /\ Accepts(kind[u])
              /\ rows' # rows =>
                    Cardinality({u \in rows' : kind[u] = "RequestImage"}) <= MaxRequestImages
              /\ \A u \in rows \ rows' : status = "IN_PROGRESS"]_vars
  <2>1. Cardinality({u \in rows' : kind[u] = "RequestImage"}) <= MaxRequestImages
    BY <1>1, KindsAreKept DEF RecordInv, CapHolds, RequestImages
  <2> QED
    BY <1>1, <2>1, RowsChange
<1> QED
  BY InitFiles, NextTypes, NextRecord, <1>1, PTL DEF Spec, RecordIsClosed
=============================================================================
