--------------------------- MODULE InternalJob_proofs ---------------------------
(***************************************************************************)
(* Theorems about InternalJob, for any managers, technicians, handlers and *)
(* bounds.                                                                 *)
(*                                                                         *)
(* TypeOK needs HandlersHoldWhatTheyNeed: what a handler writes at its     *)
(* last step, it took from typed rows at an earlier one.  Of the five      *)
(* safety properties proved here three are inductive beside it; what the   *)
(* timeline and the approvals tell needs a strengthening each              *)
(* (TimelineInv, ApprovalsInv).  None of them needs the others, or that    *)
(* the snapshot of a technician is up to date.                             *)
(*                                                                         *)
(* The last four sections are about the modules that extend it, where      *)
(* calls come one after the other: the in-memory store keeps step (MInv,   *)
(* in which a handler's snapshot is the current state); how far a job is   *)
(* bounds its assignments and its parts requests (Placed); what is         *)
(* answered of ids that are not the caller's; and the screens.             *)
(***************************************************************************)
EXTENDS JobScreens, FiniteSetTheorems, TLAPS

HandlersHoldWhatTheyNeed ==
    \A r \in Requests :
        /\ call[r].at = "update" => call[r].details \in Details
        /\ call[r].at = "snapshot" => call[r].tech \in Technicians
        /\ call[r].at = "announce" => /\ call[r].tech \in Technicians
                                      /\ call[r].tells \in Told
                                      /\ call[r].request \in DOMAIN parts

TInv == TypeOK /\ HandlersHoldWhatTheyNeed

-----------------------------------------------------------------------------
(* Records, field by field. *)
LEMMA CallFields ==
    ASSUME TypeOK, NEW r \in Requests
    PROVE  /\ call[r] \in Call
           /\ call[r].tech \in Technicians \cup {None}
           /\ call[r].tells \in Told \cup {None}
           /\ call[r].details \in Details \cup {None}
           /\ call[r].request \in Nat
BY DEF TypeOK, Call

LEMMA PartsFields ==
    ASSUME TypeOK, NEW i \in DOMAIN parts
    PROVE  /\ parts[i] \in PartsRow
           /\ parts[i].by \in Technicians
           /\ parts[i].status \in PartsStatus
           /\ i \in Nat /\ i # 0
<1>1. parts \in Seq(PartsRow)
  BY DEF TypeOK
<1>2. parts[i] \in PartsRow /\ i \in Nat /\ i # 0
  BY <1>1
<1> QED
  BY <1>2 DEF PartsRow

LEMMA FunctionIsSequence ==
    ASSUME NEW S, NEW n \in Nat, NEW f \in [1..n -> S]
    PROVE  f \in Seq(S)
OBVIOUS

(* What a new parts request does to the table. *)
LEMMA AppendParts ==
    ASSUME TypeOK, NEW row \in PartsRow, parts' = Append(parts, row)
    PROVE  /\ parts' \in Seq(PartsRow)
           /\ DOMAIN parts' = DOMAIN parts \cup {Len(parts) + 1}
           /\ \A i \in DOMAIN parts : parts'[i] = parts[i]
           /\ parts'[Len(parts) + 1] = row
BY DEF TypeOK

(* What a change of one request does to the table. *)
LEMMA UpdateParts ==
    ASSUME TypeOK, NEW i \in DOMAIN parts, NEW s \in PartsStatus,
           parts' = [parts EXCEPT ![i].status = s]
    PROVE  /\ parts' \in Seq(PartsRow)
           /\ DOMAIN parts' = DOMAIN parts
           /\ parts'[i].status = s /\ parts'[i].by = parts[i].by
           /\ parts'[i] = [by |-> parts[i].by, status |-> s]
           /\ \A k \in DOMAIN parts \ {i} : parts'[k] = parts[k]
<1>1. parts \in Seq(PartsRow) /\ parts[i] \in PartsRow
  BY PartsFields DEF TypeOK
<1>2. parts'[i] = [parts[i] EXCEPT !.status = s]
  BY <1>1
<1>3. parts'[i] = [by |-> parts[i].by, status |-> s]
  BY <1>1, <1>2 DEF PartsRow
<1>4. parts'[i] \in PartsRow
  BY <1>1, <1>3, PartsFields DEF PartsRow
<1>5. DOMAIN parts' = DOMAIN parts
  BY <1>1
<1>6. \A k \in DOMAIN parts \ {i} : parts'[k] = parts[k]
  BY <1>1
<1>7. DOMAIN parts = 1..Len(parts) /\ Len(parts) \in Nat
  BY <1>1
<1>8. \A k \in 1..Len(parts) : parts'[k] \in PartsRow
  BY <1>1, <1>4, <1>6, <1>7
<1>9. parts' \in [1..Len(parts) -> PartsRow]
  BY <1>7, <1>8
<1>10. parts' \in Seq(PartsRow)
  <2>1. PICK n \in Nat : n = Len(parts)
    BY <1>7
  <2>2. parts' \in [1..n -> PartsRow]
    BY <1>9, <2>1
  <2> QED
    BY <2>2, FunctionIsSequence
<1> QED
  BY <1>3, <1>5, <1>6, <1>10

LEMMA AppendHistory ==
    ASSUME TypeOK, NEW from \in InternalJobStatus, NEW to \in InternalJobStatus, Moves(from, to)
    PROVE  status' \in InternalJobStatus /\ history' \in Seq(HistoryRow)
BY DEF TypeOK, Moves, HistoryRow

LEMMA AppendApproval ==
    ASSUME TypeOK, NEW i \in DOMAIN parts, NEW s \in PartsStatus, Records(i, s),
           DOMAIN parts' = DOMAIN parts
    PROVE  /\ approvals' \in Seq(ApprovalRow)
           /\ \A k \in DOMAIN approvals' : approvals'[k].request \in DOMAIN parts'
<1> DEFINE row == [request |-> i, status |-> s]
<1>1. row \in ApprovalRow /\ row.request = i
  BY PartsFields DEF ApprovalRow
<1>2. approvals \in Seq(ApprovalRow) /\ approvals' = Append(approvals, row)
  BY DEF TypeOK, Records
<1> HIDE DEF row
<1>3. /\ approvals' \in Seq(ApprovalRow)
      /\ DOMAIN approvals' = DOMAIN approvals \cup {Len(approvals) + 1}
      /\ \A k \in DOMAIN approvals : approvals'[k] = approvals[k]
      /\ approvals'[Len(approvals) + 1] = row
  BY <1>1, <1>2
<1> QED
  BY <1>1, <1>3 DEF TypeOK

(* A step of one handler, seen from the array of handlers. *)
LEMMA SetCall ==
    ASSUME TInv, NEW r \in Requests, NEW c \in Call, call' = [call EXCEPT ![r] = c],
           DOMAIN parts \subseteq DOMAIN parts',
           c.at = "update" => c.details \in Details,
           c.at = "snapshot" => c.tech \in Technicians,
           c.at = "announce" => /\ c.tech \in Technicians
                                /\ c.tells \in Told
                                /\ c.request \in DOMAIN parts'
    PROVE  call' \in [Requests -> Call] /\ HandlersHoldWhatTheyNeed'
<1>1. call \in [Requests -> Call]
  BY DEF TInv, TypeOK
<1>2. call' \in [Requests -> Call] /\ call'[r] = c /\ \A x \in Requests \ {r} : call'[x] = call[x]
  BY <1>1
<1> QED
  BY <1>2 DEF TInv, HandlersHoldWhatTheyNeed

LEMMA IdleIsCall == Idle \in Call /\ Idle.at = "idle"
BY DEF Idle, Call, Told, Decision

LEMMA SnapshotIsCall ==
    ASSUME NEW t \in Technicians, NEW w \in BOOLEAN, NEW o \in BOOLEAN,
           NEW c, c = [Idle EXCEPT !.at = "snapshot", !.tech = t, !.working = w, !.outstanding = o]
    PROVE  c \in Call /\ c.at = "snapshot" /\ c.tech = t
<1>1. c = [at |-> "snapshot", tech |-> t, request |-> 0, tells |-> None, details |-> None,
           working |-> w, outstanding |-> o]
  BY DEF Idle
<1> QED
  BY <1>1 DEF Call

(* The handler's last step, and what a handler holds when it owes a notice. *)
LEMMA DoneKeepsHandlers ==
    ASSUME TInv, NEW r \in Requests, Done(r), DOMAIN parts \subseteq DOMAIN parts'
    PROVE  call' \in [Requests -> Call] /\ HandlersHoldWhatTheyNeed'
BY SetCall, IdleIsCall DEF Done

LEMMA OwesKeepsHandlers ==
    ASSUME TInv, NEW r \in Requests, NEW i \in DOMAIN parts, NEW s \in Told, Owes(r, i, s),
           DOMAIN parts \subseteq DOMAIN parts'
    PROVE  call' \in [Requests -> Call] /\ HandlersHoldWhatTheyNeed'
<1> DEFINE c == [Idle EXCEPT !.at = "announce", !.tech = parts[i].by, !.request = i, !.tells = s]
<1>1. parts[i].by \in Technicians /\ i \in Nat
  BY PartsFields DEF TInv
<1>2. c \in Call /\ c.at = "announce" /\ c.tech = parts[i].by /\ c.request = i /\ c.tells = s
  BY <1>1 DEF Idle, Call
<1>3. call' = [call EXCEPT ![r] = c]
  BY DEF Owes
<1> HIDE DEF c
<1> QED
  BY <1>1, <1>2, <1>3, SetCall

-----------------------------------------------------------------------------
LEMMA InitTypes == Init => TInv
BY IdleIsCall DEF Init, TInv, TypeOK, HandlersHoldWhatTheyNeed, InternalJobStatus

LEMMA NextTypes ==
    ASSUME TInv, [Next]_vars
    PROVE  TInv'
<1> USE DEF TInv
<1>1. CASE CreateInternalJob
  <2>1. status' \in InternalJobStatus /\ history' \in Seq(HistoryRow)
    BY <1>1, AppendHistory DEF CreateInternalJob, InternalJobStatus, Startable
  <2> QED
    BY <1>1, <2>1 DEF CreateInternalJob, TypeOK, HandlersHoldWhatTheyNeed
<1>2. CASE CancelInternalJob
  <2>1. status' \in InternalJobStatus /\ history' \in Seq(HistoryRow)
    BY <1>2, AppendHistory DEF CancelInternalJob, MayCancel, InternalJobStatus, Startable
  <2> QED
    BY <1>2, <2>1 DEF CancelInternalJob, MayCancel, TypeOK, HandlersHoldWhatTheyNeed
<1>3. ASSUME NEW t \in Technicians, AssignTechnician(t) PROVE TInv'
  <2>1. assignments' \in Seq(Technicians)
    BY <1>3 DEF AssignTechnician, MayAssign, TypeOK
  <2> QED
    BY <1>3, <2>1 DEF AssignTechnician, MayAssign, TypeOK, HandlersHoldWhatTheyNeed
<1>4. ASSUME NEW r \in Requests, Arrive(r) PROVE TInv'
  <2>1. ASSUME NEW d \in Details, BeginUpdate(r, d) PROVE TInv'
    <3> DEFINE c == [Idle EXCEPT !.at = "update", !.details = d]
    <3>1. c \in Call /\ c.at = "update" /\ c.details = d
      BY DEF Idle, Call
    <3>2. call' = [call EXCEPT ![r] = c] /\ UNCHANGED <<job, parts, approvals, notices, faults>>
      BY <2>1 DEF BeginUpdate, MayUpdate, Begin
    <3> HIDE DEF c
    <3>3. call' \in [Requests -> Call] /\ HandlersHoldWhatTheyNeed'
      BY <3>1, <3>2, SetCall
    <3> QED
      BY <3>2, <3>3 DEF TypeOK, job
  <2>2. ASSUME NEW t \in Technicians, BeginTechnicianCall(r, t) PROVE TInv'
    <3> DEFINE c == [Idle EXCEPT !.at = "snapshot", !.tech = t, !.working = status \in Working,
                                 !.outstanding = Outstanding # {}]
    <3>1. c \in Call /\ c.at = "snapshot" /\ c.tech = t
      <4>1. (status \in Working) \in BOOLEAN /\ (Outstanding # {}) \in BOOLEAN
        OBVIOUS
      <4> QED
        BY <4>1, SnapshotIsCall
    <3>2. call' = [call EXCEPT ![r] = c] /\ UNCHANGED <<job, parts, approvals, notices, faults>>
      BY <2>2 DEF BeginTechnicianCall, Begin
    <3> HIDE DEF c
    <3>3. call' \in [Requests -> Call] /\ HandlersHoldWhatTheyNeed'
      BY <3>1, <3>2, SetCall
    <3> QED
      BY <3>2, <3>3 DEF TypeOK, job
  <2>3. ASSUME NEW i \in DOMAIN parts, MarkPartsAvailable(r, i) PROVE TInv'
    <3>1. "PARTS_AVAILABLE" \in PartsStatus /\ "PARTS_AVAILABLE" \in Told
      BY DEF PartsStatus, Told
    <3>2. parts' = [parts EXCEPT ![i].status = "PARTS_AVAILABLE"]
      BY <2>3 DEF MarkPartsAvailable, MayDeliver
    <3>3. parts' \in Seq(PartsRow) /\ DOMAIN parts' = DOMAIN parts
      BY <3>1, <3>2, UpdateParts
    <3>4. call' \in [Requests -> Call] /\ HandlersHoldWhatTheyNeed'
      BY <2>3, <3>1, <3>3, OwesKeepsHandlers DEF MarkPartsAvailable, MayDeliver
    <3>5. status' \in InternalJobStatus /\ history' \in Seq(HistoryRow)
      <4>1. CASE Moves("AWAITING_PARTS", "IN_PROGRESS")
        BY <4>1, AppendHistory DEF InternalJobStatus, Working
      <4>2. CASE UNCHANGED <<status, history>>
        BY <4>2 DEF TypeOK
      <4> QED
        BY <2>3, <4>1, <4>2 DEF MarkPartsAvailable, MayDeliver
    <3> QED
      BY <2>3, <3>3, <3>4, <3>5 DEF MarkPartsAvailable, MayDeliver, TypeOK
  <2>4. ASSUME NEW i \in DOMAIN parts, NEW m \in Managers, NEW decision \in Decision,
               ReviewPartsRequest(r, m, i, decision)
        PROVE  TInv'
    <3>1. decision \in PartsStatus /\ decision \in Told
      BY DEF PartsStatus, Told
    <3>2. parts' = [parts EXCEPT ![i].status = decision]
      BY <2>4 DEF ReviewPartsRequest, MayReview
    <3>3. parts' \in Seq(PartsRow) /\ DOMAIN parts' = DOMAIN parts
      BY <3>1, <3>2, UpdateParts
    <3>4. call' \in [Requests -> Call] /\ HandlersHoldWhatTheyNeed'
      BY <2>4, <3>1, <3>3, OwesKeepsHandlers DEF ReviewPartsRequest, MayReview
    <3>5. status' \in InternalJobStatus /\ history' \in Seq(HistoryRow)
      <4>1. CASE Moves("IN_PROGRESS", "AWAITING_PARTS")
        BY <4>1, AppendHistory DEF InternalJobStatus, Working
      <4>2. CASE UNCHANGED <<status, history>>
        BY <4>2 DEF TypeOK
      <4> QED
        BY <2>4, <4>1, <4>2 DEF ReviewPartsRequest, MayReview
    <3>6. /\ approvals' \in Seq(ApprovalRow)
          /\ \A k \in DOMAIN approvals' : approvals'[k].request \in DOMAIN parts'
      BY <2>4, <3>1, <3>3, AppendApproval DEF ReviewPartsRequest, MayReview
    <3> QED
      BY <2>4, <3>3, <3>4, <3>5, <3>6 DEF ReviewPartsRequest, MayReview, TypeOK
  <2> QED
    BY <1>4, <2>1, <2>2, <2>3, <2>4 DEF Arrive
<1>5. ASSUME NEW r \in Requests, Proceed(r) PROVE TInv'
  <2>1. CASE UpdateInternalJob(r)
    <3>1. details' \in Details
      BY <2>1 DEF UpdateInternalJob, HandlersHoldWhatTheyNeed
    <3>2. call' \in [Requests -> Call] /\ HandlersHoldWhatTheyNeed'
      BY <2>1, DoneKeepsHandlers DEF UpdateInternalJob
    <3> QED
      BY <2>1, <3>1, <3>2 DEF UpdateInternalJob, TypeOK
  <2>2. CASE StartTechnicianJob(r)
    <3>1. status' \in InternalJobStatus /\ history' \in Seq(HistoryRow)
      BY <2>2, AppendHistory DEF StartTechnicianJob, MayStart, InternalJobStatus, Working, TypeOK
    <3>2. call' \in [Requests -> Call] /\ HandlersHoldWhatTheyNeed'
      BY <2>2, DoneKeepsHandlers DEF StartTechnicianJob, MayStart
    <3> QED
      BY <2>2, <3>1, <3>2 DEF StartTechnicianJob, MayStart, TypeOK
  <2>3. CASE CompleteTechnicianJob(r)
    <3>1. status' \in InternalJobStatus /\ history' \in Seq(HistoryRow)
      BY <2>3, AppendHistory DEF CompleteTechnicianJob, InternalJobStatus, TypeOK
    <3>2. call' \in [Requests -> Call] /\ HandlersHoldWhatTheyNeed'
      BY <2>3, DoneKeepsHandlers DEF CompleteTechnicianJob
    <3> QED
      BY <2>3, <3>1, <3>2 DEF CompleteTechnicianJob, TypeOK
  <2>4. CASE CreatePartsRequest(r)
    <3> DEFINE row == [by |-> call[r].tech, status |-> "PENDING"]
    <3>1. PICK t \in Technicians : t = call[r].tech
      BY <2>4 DEF CreatePartsRequest, MayRequestParts, HandlersHoldWhatTheyNeed
    <3>2. row \in PartsRow /\ parts' = Append(parts, row)
      BY <2>4, <3>1 DEF CreatePartsRequest, MayRequestParts, PartsRow, PartsStatus, Reviewable
    <3> HIDE DEF row
    <3>3. parts' \in Seq(PartsRow) /\ DOMAIN parts \subseteq DOMAIN parts'
      BY <3>2, AppendParts
    <3>4. call' \in [Requests -> Call] /\ HandlersHoldWhatTheyNeed'
      BY <2>4, <3>3, DoneKeepsHandlers DEF CreatePartsRequest, MayRequestParts
    <3> QED
      BY <2>4, <3>3, <3>4 DEF CreatePartsRequest, MayRequestParts, TypeOK, job
  <2>5. ASSUME NEW i \in DOMAIN parts, RespondToPartsRequest(r, i) PROVE TInv'
    <3>1. "PENDING" \in PartsStatus
      BY DEF PartsStatus, Reviewable
    <3>2. parts' = [parts EXCEPT ![i].status = "PENDING"]
      BY <2>5 DEF RespondToPartsRequest, MayRespond
    <3>3. parts' \in Seq(PartsRow) /\ DOMAIN parts' = DOMAIN parts
      BY <3>1, <3>2, UpdateParts
    <3>4. call' \in [Requests -> Call] /\ HandlersHoldWhatTheyNeed'
      BY <2>5, <3>3, DoneKeepsHandlers DEF RespondToPartsRequest, MayRespond
    <3>5. /\ approvals' \in Seq(ApprovalRow)
          /\ \A k \in DOMAIN approvals' : approvals'[k].request \in DOMAIN parts'
      BY <2>5, <3>1, <3>3, AppendApproval DEF RespondToPartsRequest, MayRespond
    <3> QED
      BY <2>5, <3>3, <3>4, <3>5 DEF RespondToPartsRequest, MayRespond, TypeOK, job
  <2>6. CASE ResumeTechnicianJob(r)
    <3>1. status' \in InternalJobStatus /\ history' \in Seq(HistoryRow)
      BY <2>6, AppendHistory DEF ResumeTechnicianJob, MayResume, InternalJobStatus, Working
    <3>2. call' \in [Requests -> Call] /\ HandlersHoldWhatTheyNeed'
      BY <2>6, DoneKeepsHandlers DEF ResumeTechnicianJob, MayResume
    <3> QED
      BY <2>6, <3>1, <3>2 DEF ResumeTechnicianJob, MayResume, TypeOK
  <2>7. CASE Refuse(r)
    <3>1. call' \in [Requests -> Call] /\ HandlersHoldWhatTheyNeed'
      BY <2>7, DoneKeepsHandlers DEF Refuse
    <3> QED
      BY <2>7, <3>1 DEF Refuse, TypeOK, job
  <2>8. CASE Announce(r)
    <3> DEFINE n == [request |-> call[r].request, status |-> call[r].tells, to |-> Recipient(r)]
    <3>1. n \in Notice
      BY <2>8, CallFields DEF Announce, HandlersHoldWhatTheyNeed, Notice, Recipient
    <3>2. notices' = notices \cup {n}
      BY <2>8 DEF Announce
    <3>3. call' \in [Requests -> Call] /\ HandlersHoldWhatTheyNeed'
      BY <2>8, DoneKeepsHandlers DEF Announce
    <3> HIDE DEF n
    <3> QED
      BY <2>8, <3>1, <3>2, <3>3 DEF Announce, TypeOK, job
  <2> QED
    BY <1>5, <2>1, <2>2, <2>3, <2>4, <2>5, <2>6, <2>7, <2>8 DEF Proceed
<1>6. ASSUME NEW r \in Requests, Die(r) PROVE TInv'
  <2>1. call' \in [Requests -> Call] /\ HandlersHoldWhatTheyNeed'
    BY <1>6, DoneKeepsHandlers DEF Die
  <2> QED
    BY <1>6, <2>1 DEF Die, TypeOK, job
<1>7. CASE UNCHANGED vars
  BY <1>7 DEF vars, TypeOK, HandlersHoldWhatTheyNeed
<1> QED
  BY <1>1, <1>2, <1>3, <1>4, <1>5, <1>6, <1>7 DEF Next

(* Every row and every handler keeps its type, and a handler that owes a   *)
(* notification owes it to a technician, of a request that exists.         *)
THEOREM InternalJobTypes == Spec => []TypeOK
<1>1. TInv => TypeOK
  BY DEF TInv
<1> QED
  BY InitTypes, NextTypes, <1>1, PTL DEF Spec

-----------------------------------------------------------------------------
(* A job's note: only the completion writes one, and only once. *)
LEMMA NextNotes ==
    ASSUME TInv, CompletedOnce, [Next]_vars
    PROVE  CompletedOnce'
<1> USE DEF CompletedOnce, Moves
<1>1. CASE CreateInternalJob
  BY <1>1 DEF CreateInternalJob
<1>2. CASE CancelInternalJob
  BY <1>2 DEF CancelInternalJob, MayCancel
<1>3. ASSUME NEW t \in Technicians, AssignTechnician(t) PROVE CompletedOnce'
  BY <1>3 DEF AssignTechnician, MayAssign
<1>4. ASSUME NEW r \in Requests, Arrive(r) PROVE CompletedOnce'
  <2>1. UNCHANGED notes /\ (status' = "COMPLETED" <=> status = "COMPLETED")
    BY <1>4 DEF Arrive, BeginUpdate, MayUpdate, BeginTechnicianCall, Begin, MarkPartsAvailable, MayDeliver, LastOutstanding,
                ReviewPartsRequest, MayReview, Working, job
  <2> QED
    BY <2>1
<1>5. ASSUME NEW r \in Requests, Proceed(r) PROVE CompletedOnce'
  <2>1. CASE StartTechnicianJob(r)
    BY <2>1 DEF StartTechnicianJob, MayStart, Startable
  <2>2. CASE CompleteTechnicianJob(r)
    BY <2>2 DEF CompleteTechnicianJob, Completable
  <2>3. CASE ResumeTechnicianJob(r)
    BY <2>3 DEF ResumeTechnicianJob, MayResume
  <2>4. CASE UNCHANGED <<status, notes>>
    BY <2>4
  <2> QED
    BY <1>5, <2>1, <2>2, <2>3, <2>4
    DEF Proceed, UpdateInternalJob, CreatePartsRequest, MayRequestParts, RespondToPartsRequest, MayRespond, Refuse, Announce, job
<1>6. ASSUME NEW r \in Requests, Die(r) PROVE CompletedOnce'
  BY <1>6 DEF Die, job
<1>7. CASE UNCHANGED vars
  BY <1>7 DEF vars
<1> QED
  BY <1>1, <1>2, <1>3, <1>4, <1>5, <1>6, <1>7 DEF Next

(* The note of a completed job is there once, however many technicians and *)
(* retries race to complete it.                                            *)
THEOREM InternalCompletedOnce == Spec => []CompletedOnce
<1>1. Init => CompletedOnce
  BY DEF Init, CompletedOnce
<1> QED
  BY InitTypes, NextTypes, NextNotes, <1>1, PTL DEF Spec

-----------------------------------------------------------------------------
(* A job that waits: the delivery that takes the last outstanding request  *)
(* takes the job out of AWAITING_PARTS in the same transaction.            *)
LEMMA NextAwaiting ==
    ASSUME TInv, AwaitingMeansOutstanding, [Next]_vars
    PROVE  AwaitingMeansOutstanding'
<1> USE DEF TInv, AwaitingMeansOutstanding, Outstanding, Moves
<1>1. CASE CreateInternalJob
  BY <1>1 DEF CreateInternalJob
<1>2. CASE CancelInternalJob
  BY <1>2 DEF CancelInternalJob, MayCancel
<1>3. ASSUME NEW t \in Technicians, AssignTechnician(t) PROVE AwaitingMeansOutstanding'
  BY <1>3 DEF AssignTechnician, MayAssign
<1>4. ASSUME NEW r \in Requests, Arrive(r) PROVE AwaitingMeansOutstanding'
  <2>1. ASSUME NEW d \in Details, BeginUpdate(r, d) PROVE AwaitingMeansOutstanding'
    BY <2>1 DEF BeginUpdate, MayUpdate, Begin, job
  <2>2. ASSUME NEW t \in Technicians, BeginTechnicianCall(r, t) PROVE AwaitingMeansOutstanding'
    BY <2>2 DEF BeginTechnicianCall, Begin, job
  <2>3. ASSUME NEW i \in DOMAIN parts, MarkPartsAvailable(r, i) PROVE AwaitingMeansOutstanding'
    <3>1. "PARTS_AVAILABLE" \in PartsStatus
      BY DEF PartsStatus, Told
    <3>2. parts' = [parts EXCEPT ![i].status = "PARTS_AVAILABLE"]
      BY <2>3 DEF MarkPartsAvailable, MayDeliver
    <3>3. DOMAIN parts' = DOMAIN parts /\ \A k \in DOMAIN parts \ {i} : parts'[k] = parts[k]
      BY <3>1, <3>2, UpdateParts
    <3>4. CASE LastOutstanding(i)
      BY <2>3, <3>4 DEF MarkPartsAvailable, MayDeliver
    <3>5. CASE ~LastOutstanding(i)
      <4>1. UNCHANGED status
        BY <2>3, <3>5 DEF MarkPartsAvailable, MayDeliver
      <4>2. ASSUME status = "AWAITING_PARTS" PROVE \E k \in Outstanding : k # i
        BY <2>3, <3>5, <4>2 DEF MarkPartsAvailable, MayDeliver, LastOutstanding
      <4> QED
        BY <3>3, <4>1, <4>2
    <3> QED
      BY <3>4, <3>5
  <2>4. ASSUME NEW i \in DOMAIN parts, NEW m \in Managers, NEW decision \in Decision,
               ReviewPartsRequest(r, m, i, decision)
        PROVE  AwaitingMeansOutstanding'
    <3>1. decision \in PartsStatus
      BY DEF PartsStatus, Told
    <3>2. parts' = [parts EXCEPT ![i].status = decision] /\ parts[i].status \in Reviewable
      BY <2>4 DEF ReviewPartsRequest, MayReview
    <3>3. /\ DOMAIN parts' = DOMAIN parts /\ parts'[i].status = decision
          /\ \A k \in DOMAIN parts \ {i} : parts'[k] = parts[k]
      BY <3>1, <3>2, UpdateParts
    <3>4. CASE decision = "APPROVED"
      BY <3>3, <3>4
    <3>5. CASE decision # "APPROVED"
      <4>1. UNCHANGED status
        BY <2>4, <3>5 DEF ReviewPartsRequest, MayReview
      <4>2. i \notin Outstanding
        BY <3>2 DEF Reviewable
      <4> QED
        BY <3>3, <4>1, <4>2
    <3> QED
      BY <3>4, <3>5
  <2> QED
    BY <1>4, <2>1, <2>2, <2>3, <2>4 DEF Arrive
<1>5. ASSUME NEW r \in Requests, Proceed(r) PROVE AwaitingMeansOutstanding'
  <2>1. CASE StartTechnicianJob(r)
    BY <2>1 DEF StartTechnicianJob, MayStart
  <2>2. CASE CompleteTechnicianJob(r)
    BY <2>2 DEF CompleteTechnicianJob
  <2>3. CASE ResumeTechnicianJob(r)
    BY <2>3 DEF ResumeTechnicianJob, MayResume
  <2>4. CASE CreatePartsRequest(r)
    <3> DEFINE row == [by |-> call[r].tech, status |-> "PENDING"]
    <3>1. PICK t \in Technicians : t = call[r].tech
      BY <2>4 DEF CreatePartsRequest, MayRequestParts, HandlersHoldWhatTheyNeed
    <3>2. row \in PartsRow /\ parts' = Append(parts, row) /\ UNCHANGED status
      BY <2>4, <3>1 DEF CreatePartsRequest, MayRequestParts, PartsRow, PartsStatus, Reviewable, job
    <3> HIDE DEF row
    <3>3. DOMAIN parts \subseteq DOMAIN parts' /\ \A k \in DOMAIN parts : parts'[k] = parts[k]
      BY <3>2, AppendParts
    <3> QED
      BY <3>2, <3>3
  <2>5. ASSUME NEW i \in DOMAIN parts, RespondToPartsRequest(r, i) PROVE AwaitingMeansOutstanding'
    <3>1. "PENDING" \in PartsStatus
      BY DEF PartsStatus, Reviewable
    <3>2. /\ parts' = [parts EXCEPT ![i].status = "PENDING"]
          /\ parts[i].status = "NEEDS_INFO" /\ UNCHANGED status
      BY <2>5 DEF RespondToPartsRequest, MayRespond, job
    <3>3. DOMAIN parts' = DOMAIN parts /\ \A k \in DOMAIN parts \ {i} : parts'[k] = parts[k]
      BY <3>1, <3>2, UpdateParts
    <3> QED
      BY <3>2, <3>3
  <2>6. CASE UNCHANGED <<status, parts>>
    BY <2>6
  <2> QED
    BY <1>5, <2>1, <2>2, <2>3, <2>4, <2>5, <2>6
    DEF Proceed, UpdateInternalJob, Refuse, Announce, job
<1>6. ASSUME NEW r \in Requests, Die(r) PROVE AwaitingMeansOutstanding'
  BY <1>6 DEF Die, job
<1>7. CASE UNCHANGED vars
  BY <1>7 DEF vars
<1> QED
  BY <1>1, <1>2, <1>3, <1>4, <1>5, <1>6, <1>7 DEF Next

(* A job never waits for parts that have all arrived: markPartsAvailable   *)
(* and reviewPartsRequest hold the lock on the job while they look.        *)
THEOREM NobodyWaitsForNothing == Spec => []AwaitingMeansOutstanding
<1>1. Init => AwaitingMeansOutstanding
  BY DEF Init, AwaitingMeansOutstanding
<1> QED
  BY InitTypes, NextTypes, NextAwaiting, <1>1, PTL DEF Spec

(* What the resume endpoint is left with (resumeTechnicianJob): as long as a *)
(* job waits an approved request is outstanding, so a resume that succeeds   *)
(* has always looked at a snapshot that its lock made stale.                 *)
THEOREM ResumeIsAlwaysStale ==
    Spec => [][\A r \in Requests : ResumeTechnicianJob(r) => Outstanding # {}]_vars
<1>1. ASSUME AwaitingMeansOutstanding, NEW r \in Requests, ResumeTechnicianJob(r)
      PROVE  Outstanding # {}
  BY <1>1 DEF AwaitingMeansOutstanding, ResumeTechnicianJob, MayResume
<1>2. AwaitingMeansOutstanding =>
          [\A r \in Requests : ResumeTechnicianJob(r) => Outstanding # {}]_vars
  BY <1>1
<1> QED
  BY <1>2, NobodyWaitsForNothing, PTL

-----------------------------------------------------------------------------
(* What is told or owed stays told or owed: a handler that owes nothing    *)
(* loses nothing by its step, and one that owes pays.                      *)
Settled == notices \cup {Owing(x) : x \in Announcing}

LEMMA OthersStillOwe ==
    ASSUME TInv, NEW r \in Requests, NEW c, call' = [call EXCEPT ![r] = c],
           NEW x \in Announcing, x # r
    PROVE  x \in Announcing' /\ Owing(x)' = Owing(x)
<1>1. call \in [Requests -> Call] /\ x \in Requests
  BY DEF TInv, TypeOK, Announcing
<1>2. call'[x] = call[x]
  BY <1>1
<1> QED
  BY <1>1, <1>2 DEF Announcing, Owing

LEMMA NoDebtIsLost ==
    ASSUME TInv, NEW r \in Requests, NEW c, call' = [call EXCEPT ![r] = c],
           notices \subseteq notices',
           call[r].at = "announce" => Owing(r) \in notices'
    PROVE  Settled \subseteq Settled'
<1> SUFFICES ASSUME NEW n \in Settled PROVE n \in Settled'
  OBVIOUS
<1>1. CASE n \in notices
  BY <1>1 DEF Settled
<1>2. ASSUME NEW x \in Announcing, n = Owing(x) PROVE n \in Settled'
  <2>1. CASE x = r
    BY <1>2, <2>1 DEF Announcing, Settled
  <2>2. CASE x # r
    <3>1. x \in Announcing' /\ n = Owing(x)'
      BY <1>2, <2>2, OthersStillOwe
    <3> QED
      BY <3>1 DEF Settled
  <2> QED
    BY <2>1, <2>2
<1> QED
  BY <1>1, <1>2 DEF Settled

(* The notice that settles request i in its present status. *)
NoticeOf(i) == [request |-> i, status |-> parts[i].status, to |-> parts[i].by]

LEMMA TellingIsSettled ==
    RequesterIsTold <=>
        (faults = 0 => \A i \in DOMAIN parts : parts[i].status \in Told => NoticeOf(i) \in Settled)
BY DEF RequesterIsTold, NoticeOf, Settled

LEMMA TellingIsSettledNext ==
    RequesterIsTold' <=>
        (faults' = 0 =>
            \A i \in DOMAIN parts' : parts'[i].status \in Told => NoticeOf(i)' \in Settled')
BY DEF RequesterIsTold, NoticeOf, Settled

(* A step that changes no request. *)
LEMMA TellingFrame ==
    ASSUME RequesterIsTold, Settled \subseteq Settled', UNCHANGED <<parts, faults>>
    PROVE  RequesterIsTold'
<1>1. \A i : NoticeOf(i)' = NoticeOf(i)
  BY DEF NoticeOf
<1> QED
  BY <1>1, TellingIsSettled, TellingIsSettledNext

(* A manager's decision on request i, or its delivery. *)
LEMMA TellingDecision ==
    ASSUME TInv, RequesterIsTold, NEW r \in Requests, NEW i \in DOMAIN parts, NEW s \in Told,
           call[r] = Idle, Owes(r, i, s), parts' = [parts EXCEPT ![i].status = s],
           UNCHANGED <<notices, faults>>
    PROVE  RequesterIsTold'
<1> DEFINE c == [Idle EXCEPT !.at = "announce", !.tech = parts[i].by, !.request = i, !.tells = s]
<1>1. /\ DOMAIN parts' = DOMAIN parts /\ parts'[i].status = s /\ parts'[i].by = parts[i].by
      /\ \A k \in DOMAIN parts \ {i} : parts'[k] = parts[k]
  BY UpdateParts DEF TInv, PartsStatus
<1>2. call' = [call EXCEPT ![r] = c] /\ call \in [Requests -> Call]
  BY DEF Owes, TInv, TypeOK
<1>3. c.at = "announce" /\ c.tech = parts[i].by /\ c.request = i /\ c.tells = s
  BY DEF Idle
<1> HIDE DEF c
<1>4. call'[r] = c
  BY <1>2
<1>5. Settled \subseteq Settled'
  BY <1>2, NoDebtIsLost, IdleIsCall
<1>6. r \in Announcing' /\ Owing(r)' = NoticeOf(i)'
  BY <1>1, <1>3, <1>4 DEF Announcing, Owing, NoticeOf
<1>7. NoticeOf(i)' \in Settled'
  BY <1>6 DEF Settled
<1>8. \A k \in DOMAIN parts \ {i} : NoticeOf(k)' = NoticeOf(k) /\ parts'[k].status = parts[k].status
  BY <1>1 DEF NoticeOf
<1> QED
  BY <1>1, <1>5, <1>7, <1>8, TellingIsSettled, TellingIsSettledNext

LEMMA NextTelling ==
    ASSUME TInv, RequesterIsTold, [Next]_vars
    PROVE  RequesterIsTold'
<1>1. ASSUME UNCHANGED <<parts, notices, call, faults>> PROVE RequesterIsTold'
  <2>1. Settled' = Settled
    BY <1>1 DEF Settled, Owing, Announcing
  <2> QED
    BY <1>1, <2>1, TellingFrame
<1>2. ASSUME NEW r \in Requests, NEW c, call' = [call EXCEPT ![r] = c],
             call[r].at # "announce", UNCHANGED <<parts, notices, faults>>
      PROVE  RequesterIsTold'
  <2>1. Settled \subseteq Settled'
    BY <1>2, NoDebtIsLost
  <2> QED
    BY <1>2, <2>1, TellingFrame
<1>3. ASSUME NEW r \in Requests, Arrive(r) PROVE RequesterIsTold'
  <2>1. ASSUME NEW d \in Details, BeginUpdate(r, d) PROVE RequesterIsTold'
    BY <2>1, <1>2, IdleIsCall DEF BeginUpdate, MayUpdate, Begin
  <2>2. ASSUME NEW t \in Technicians, BeginTechnicianCall(r, t) PROVE RequesterIsTold'
    BY <2>2, <1>2, IdleIsCall DEF BeginTechnicianCall, Begin
  <2>3. ASSUME NEW i \in DOMAIN parts, MarkPartsAvailable(r, i) PROVE RequesterIsTold'
    BY <2>3, TellingDecision DEF MarkPartsAvailable, MayDeliver, Told
  <2>4. ASSUME NEW i \in DOMAIN parts, NEW m \in Managers, NEW decision \in Decision,
               ReviewPartsRequest(r, m, i, decision)
        PROVE  RequesterIsTold'
    BY <2>4, TellingDecision DEF ReviewPartsRequest, MayReview, Told
  <2> QED
    BY <1>3, <2>1, <2>2, <2>3, <2>4 DEF Arrive
<1>4. ASSUME NEW r \in Requests, Proceed(r) PROVE RequesterIsTold'
  <2>1. ASSUME UpdateInternalJob(r) \/ StartTechnicianJob(r) \/ CompleteTechnicianJob(r)
               \/ ResumeTechnicianJob(r) \/ Refuse(r)
        PROVE  RequesterIsTold'
    BY <2>1, <1>2 DEF UpdateInternalJob, StartTechnicianJob, MayStart, CompleteTechnicianJob,
                      ResumeTechnicianJob, MayResume, Refuse, Done
  <2>2. CASE CreatePartsRequest(r)
    <3> DEFINE row == [by |-> call[r].tech, status |-> "PENDING"]
    <3>1. PICK t \in Technicians : t = call[r].tech
      BY <2>2 DEF CreatePartsRequest, MayRequestParts, TInv, HandlersHoldWhatTheyNeed
    <3>2. row \in PartsRow /\ parts' = Append(parts, row) /\ row.status \notin Told
      BY <2>2, <3>1 DEF CreatePartsRequest, MayRequestParts, PartsRow, PartsStatus, Reviewable, Told, Decision
    <3> HIDE DEF row
    <3>3. /\ DOMAIN parts' = DOMAIN parts \cup {Len(parts) + 1}
          /\ \A k \in DOMAIN parts : parts'[k] = parts[k]
          /\ parts'[Len(parts) + 1].status \notin Told
      BY <3>2, AppendParts DEF TInv
    <3>4. Settled \subseteq Settled' /\ UNCHANGED faults
      BY <2>2, NoDebtIsLost DEF CreatePartsRequest, MayRequestParts, Done
    <3>5. \A k \in DOMAIN parts : NoticeOf(k)' = NoticeOf(k) /\ parts'[k].status = parts[k].status
      BY <3>3 DEF NoticeOf
    <3> QED
      BY <3>3, <3>4, <3>5, TellingIsSettled, TellingIsSettledNext
  <2>3. ASSUME NEW i \in DOMAIN parts, RespondToPartsRequest(r, i) PROVE RequesterIsTold'
    <3>1. "PENDING" \in PartsStatus /\ "PENDING" \notin Told
      BY DEF PartsStatus, Reviewable, Told, Decision
    <3>2. parts' = [parts EXCEPT ![i].status = "PENDING"]
      BY <2>3 DEF RespondToPartsRequest, MayRespond
    <3>3. /\ DOMAIN parts' = DOMAIN parts /\ parts'[i].status = "PENDING"
          /\ \A k \in DOMAIN parts \ {i} : parts'[k] = parts[k]
      BY <3>1, <3>2, UpdateParts DEF TInv
    <3>4. Settled \subseteq Settled' /\ UNCHANGED faults
      BY <2>3, NoDebtIsLost DEF RespondToPartsRequest, MayRespond, Done
    <3>5. \A k \in DOMAIN parts \ {i} :
              NoticeOf(k)' = NoticeOf(k) /\ parts'[k].status = parts[k].status
      BY <3>3 DEF NoticeOf
    <3> QED
      BY <3>1, <3>3, <3>4, <3>5, TellingIsSettled, TellingIsSettledNext
  <2>4. CASE Announce(r)
    <3>1. Owing(r) \in notices' /\ notices \subseteq notices'
      BY <2>4 DEF Announce, Owing, Recipient
    <3>2. Settled \subseteq Settled'
      BY <2>4, <3>1, NoDebtIsLost DEF Announce, Done
    <3> QED
      BY <2>4, <3>2, TellingFrame DEF Announce
  <2> QED
    BY <1>4, <2>1, <2>2, <2>3, <2>4 DEF Proceed
<1>5. ASSUME NEW r \in Requests, Die(r) PROVE RequesterIsTold'
  <2>1. faults' # 0
    BY <1>5 DEF Die, TInv, TypeOK
  <2> QED
    BY <2>1 DEF RequesterIsTold
<1>6. CASE CreateInternalJob \/ CancelInternalJob \/ (\E t \in Technicians : AssignTechnician(t))
  BY <1>6, <1>1 DEF CreateInternalJob, CancelInternalJob, MayCancel, AssignTechnician, MayAssign
<1>7. CASE UNCHANGED vars
  BY <1>7, <1>1 DEF vars
<1> QED
  BY <1>3, <1>4, <1>5, <1>6, <1>7 DEF Next

(* Every decision on a parts request, and every delivery, is announced to  *)
(* the technician who asked or is about to be, unless a fault intervened.  *)
THEOREM RequesterTold == Spec => []RequesterIsTold
<1>1. Init => RequesterIsTold
  BY DEF Init, RequesterIsTold
<1> QED
  BY InitTypes, NextTypes, NextTelling, <1>1, PTL DEF Spec
-----------------------------------------------------------------------------
(* The timeline.  No two rows leave one status because no row leaves the   *)
(* status the job is in, except while the work goes on and waits in turn.  *)
TimelineInv ==
    /\ HistoryTellsStatus
    /\ \A k \in DOMAIN history :
          /\ history[k].to # "ABSENT"
          /\ history[k].from \notin {"CANCELLED", "COMPLETED"}
          /\ history[k].from = status => status \in Working

(* A step of the job to somewhere it has never been, or back to work.      *)
LEMMA MovesOn ==
    ASSUME TInv, TimelineInv, NEW to, Moves(status, to), status # to,
           status \notin {"CANCELLED", "COMPLETED"},
           \/ to \in {"CANCELLED", "COMPLETED"} \cup Working
           \/ status = "ABSENT" /\ to = "REQUESTED"
    PROVE  TimelineInv'
<1> DEFINE row == [from |-> status, to |-> to]
           n == Len(history)
<1>1. /\ history \in Seq(HistoryRow) /\ status \in InternalJobStatus
      /\ status' = to /\ history' = Append(history, row)
  BY DEF TInv, TypeOK, Moves
<1>2. row.from = status /\ row.to = to
  OBVIOUS
<1> HIDE DEF row
<1>3. /\ n \in Nat /\ DOMAIN history = 1..n
      /\ DOMAIN history' = 1..(n + 1) /\ Len(history') = n + 1
      /\ history'[n + 1] = row
      /\ \A k \in 1..n : history'[k] = history[k]
  BY <1>1
<1>4. status = IF n = 0 THEN "ABSENT" ELSE history[n].to
  BY <1>1 DEF TimelineInv, HistoryTellsStatus
<1>5. status = "ABSENT" => n = 0
  BY <1>3, <1>4 DEF TimelineInv
<1>6. to \in {"CANCELLED", "COMPLETED", "REQUESTED"} \cup Working /\ to # "ABSENT"
  BY DEF Working
<1>7. history' # << >> /\ n + 1 # 0
  BY <1>3
<1>8. status' = history'[Len(history')].to
  BY <1>1, <1>2, <1>3
<1>9. ASSUME NEW k \in DOMAIN history'
      PROVE  history'[k].from = IF k = 1 THEN "ABSENT" ELSE history'[k - 1].to
  <2>1. CASE k = n + 1
    <3>1. history'[k].from = status
      BY <1>2, <1>3, <2>1
    <3>2. CASE n = 0
      BY <1>4, <2>1, <3>1, <3>2
    <3>3. CASE n # 0
      <4>1. k # 1 /\ k - 1 = n /\ n \in 1..n
        BY <1>3, <2>1, <3>3
      <4> QED
        BY <1>3, <1>4, <3>1, <3>3, <4>1
    <3> QED
      BY <3>2, <3>3
  <2>2. CASE k # n + 1
    <3>1. k \in 1..n /\ (k # 1 => k - 1 \in 1..n)
      BY <1>3, <1>9, <2>2
    <3>2. history[k].from = IF k = 1 THEN "ABSENT" ELSE history[k - 1].to
      BY <1>3, <3>1 DEF TimelineInv, HistoryTellsStatus
    <3> QED
      BY <1>3, <3>1, <3>2
  <2> QED
    BY <2>1, <2>2
<1>10. ASSUME NEW k \in DOMAIN history'
       PROVE  /\ history'[k].to # "ABSENT"
              /\ history'[k].from \notin {"CANCELLED", "COMPLETED"}
              /\ history'[k].from = to => to \in Working
  <2>1. CASE k = n + 1
    BY <1>2, <1>3, <1>6, <2>1
  <2>2. CASE k # n + 1
    <3>1. k \in 1..n /\ history'[k] = history[k]
      BY <1>3, <1>10, <2>2
    <3>2. /\ history[k].to # "ABSENT"
          /\ history[k].from \notin {"CANCELLED", "COMPLETED"}
      BY <1>3, <3>1 DEF TimelineInv
    <3>3. status # "ABSENT"
      BY <1>3, <1>5, <3>1
    <3> QED
      BY <3>1, <3>2, <3>3
  <2> QED
    BY <2>1, <2>2
<1>11. ASSUME NEW k \in DOMAIN history', NEW l \in DOMAIN history',
              history'[k].from = history'[l].from, k # l
       PROVE  history'[k].from \in Working
  <2>1. CASE k \in 1..n /\ l \in 1..n
    BY <1>3, <1>11, <2>1 DEF TimelineInv, HistoryTellsStatus
  <2>2. CASE k = n + 1 /\ l \in 1..n
    BY <1>2, <1>3, <1>11, <2>2 DEF TimelineInv
  <2>3. CASE l = n + 1 /\ k \in 1..n
    BY <1>2, <1>3, <1>11, <2>3 DEF TimelineInv
  <2> QED
    BY <1>3, <1>11, <2>1, <2>2, <2>3
<1> QED
  BY <1>1, <1>7, <1>8, <1>9, <1>10, <1>11 DEF TimelineInv, HistoryTellsStatus

LEMMA NextTimeline ==
    ASSUME TInv, TimelineInv, [Next]_vars
    PROVE  TimelineInv'
<1>1. ASSUME UNCHANGED <<status, history>> PROVE TimelineInv'
  BY <1>1 DEF TimelineInv, HistoryTellsStatus
<1>2. CASE CreateInternalJob
  BY <1>2, MovesOn DEF CreateInternalJob
<1>3. CASE CancelInternalJob
  BY <1>3, MovesOn DEF CancelInternalJob, MayCancel
<1>4. ASSUME NEW r \in Requests, Arrive(r) PROVE TimelineInv'
  <2>1. CASE UNCHANGED <<status, history>>
    BY <1>1, <2>1
  <2>2. CASE status = "IN_PROGRESS" /\ Moves("IN_PROGRESS", "AWAITING_PARTS")
    BY <2>2, MovesOn DEF Working
  <2>3. CASE status = "AWAITING_PARTS" /\ Moves("AWAITING_PARTS", "IN_PROGRESS")
    BY <2>3, MovesOn DEF Working
  <2> QED
    BY <1>4, <2>1, <2>2, <2>3
    DEF Arrive, BeginUpdate, MayUpdate, BeginTechnicianCall, Begin, job, MarkPartsAvailable, MayDeliver,
        LastOutstanding, ReviewPartsRequest, MayReview
<1>5. ASSUME NEW r \in Requests, Proceed(r) PROVE TimelineInv'
  <2>1. CASE StartTechnicianJob(r)
    BY <2>1, MovesOn DEF StartTechnicianJob, MayStart, Startable, Working
  <2>2. CASE CompleteTechnicianJob(r)
    BY <2>2, MovesOn DEF CompleteTechnicianJob, Completable
  <2>3. CASE ResumeTechnicianJob(r)
    BY <2>3, MovesOn DEF ResumeTechnicianJob, MayResume, Working
  <2>4. CASE UNCHANGED <<status, history>>
    BY <1>1, <2>4
  <2> QED
    BY <1>5, <2>1, <2>2, <2>3, <2>4
    DEF Proceed, UpdateInternalJob, CreatePartsRequest, MayRequestParts, RespondToPartsRequest, MayRespond, Refuse, Announce, job
<1>6. ASSUME NEW r \in Requests, Die(r) PROVE TimelineInv'
  BY <1>1, <1>6 DEF Die, job
<1>7. CASE (\E t \in Technicians : AssignTechnician(t)) \/ UNCHANGED vars
  BY <1>1, <1>7 DEF AssignTechnician, MayAssign, vars
<1> QED
  BY <1>2, <1>3, <1>4, <1>5, <1>6, <1>7 DEF Next

(* The timeline of an internal job is a chain of moves ending in its       *)
(* status, and nobody starts, cancels or completes a job a second time.    *)
THEOREM TimelineTellsStatus == Spec => []HistoryTellsStatus
<1>1. Init => TimelineInv
  BY DEF Init, TimelineInv, HistoryTellsStatus
<1>2. TimelineInv => HistoryTellsStatus
  BY DEF TimelineInv
<1> QED
  BY InitTypes, NextTypes, NextTimeline, <1>1, <1>2, PTL DEF Spec

-----------------------------------------------------------------------------
(* Approvals.  Every change of a request but its delivery leaves a row, in *)
(* the transaction that makes it, so the newest row tells the status.  The *)
(* rows are a parameter, to speak of them before and after a step.         *)
RowsIn(a, i) == {k \in DOMAIN a : a[k].request = i}
LastIn(a, i) == CHOOSE k \in RowsIn(a, i) : \A l \in RowsIn(a, i) : l <= k
Newest(a, i) == IF RowsIn(a, i) = {} THEN "PENDING" ELSE a[LastIn(a, i)].status

IsLast(a, i, k) == k \in RowsIn(a, i) /\ \A l \in RowsIn(a, i) : l <= k
HaveLast(a) == \A i : RowsIn(a, i) # {} => \E k : IsLast(a, i, k)

Tells(a, i, s) == s = Newest(a, i) \/ (s = "PARTS_AVAILABLE" /\ Newest(a, i) = "APPROVED")

ApprovalsInv == /\ \A i \in DOMAIN parts : Tells(approvals, i, parts[i].status)
                /\ HaveLast(approvals)

LEMMA NewestIs ==
    ASSUME NEW a \in Seq(ApprovalRow), NEW i, NEW k, IsLast(a, i, k)
    PROVE  Newest(a, i) = a[k].status
<1>1. RowsIn(a, i) \subseteq Nat /\ RowsIn(a, i) # {}
  BY DEF RowsIn, IsLast
<1>2. \E x \in RowsIn(a, i) : \A l \in RowsIn(a, i) : l <= x
  BY DEF IsLast
<1>3. LastIn(a, i) \in RowsIn(a, i) /\ \A l \in RowsIn(a, i) : l <= LastIn(a, i)
  BY <1>2 DEF LastIn
<1>4. k \in RowsIn(a, i) /\ k <= LastIn(a, i) /\ LastIn(a, i) <= k
  BY <1>3 DEF IsLast
<1>5. LastIn(a, i) = k
  BY <1>1, <1>3, <1>4
<1> QED
  BY <1>1, <1>5 DEF Newest

(* A row more is the newest of its request and leaves the others' alone.   *)
LEMMA RecordIsNewest ==
    ASSUME NEW a \in Seq(ApprovalRow), HaveLast(a), NEW row \in ApprovalRow
    PROVE  /\ Newest(Append(a, row), row.request) = row.status
           /\ \A j : j # row.request => Newest(Append(a, row), j) = Newest(a, j)
           /\ HaveLast(Append(a, row))
<1>1. PICK n \in Nat : n = Len(a)
  OBVIOUS
<1>2. PICK b : b = Append(a, row)
  OBVIOUS
<1>3. /\ b \in Seq(ApprovalRow)
      /\ DOMAIN a = 1..n /\ DOMAIN b = 1..(n + 1)
      /\ b[n + 1] = row
      /\ \A k \in 1..n : b[k] = a[k]
  BY <1>1, <1>2
<1>4. IsLast(b, row.request, n + 1)
  BY <1>3 DEF IsLast, RowsIn
<1>5. Newest(b, row.request) = row.status
  BY <1>3, <1>4, NewestIs
<1>6. ASSUME NEW j, j # row.request PROVE RowsIn(b, j) = RowsIn(a, j)
  BY <1>3, <1>6 DEF RowsIn
<1>7. ASSUME NEW j, j # row.request, RowsIn(a, j) # {}
      PROVE  Newest(b, j) = Newest(a, j) /\ \E k : IsLast(b, j, k)
  <2>1. PICK k : IsLast(a, j, k)
    BY <1>7 DEF HaveLast
  <2>2. IsLast(b, j, k)
    BY <1>6, <1>7, <2>1 DEF IsLast
  <2>3. k \in 1..n
    BY <1>3, <2>1 DEF IsLast, RowsIn
  <2>4. Newest(a, j) = a[k].status /\ Newest(b, j) = b[k].status
    BY <1>3, <2>1, <2>2, NewestIs
  <2> QED
    BY <1>3, <2>2, <2>3, <2>4
<1>8. ASSUME NEW j, j # row.request, RowsIn(a, j) = {} PROVE Newest(b, j) = Newest(a, j)
  <2>1. RowsIn(b, j) = {}
    BY <1>6, <1>8
  <2> QED
    BY <1>8, <2>1 DEF Newest
<1>9. HaveLast(b)
  BY <1>4, <1>6, <1>7 DEF HaveLast
<1> QED
  BY <1>2, <1>5, <1>7, <1>8, <1>9

(* A request whose change of status leaves a row. *)
LEMMA RecordedChange ==
    ASSUME TInv, ApprovalsInv, NEW i \in DOMAIN parts, NEW s \in PartsStatus,
           parts' = [parts EXCEPT ![i].status = s], Records(i, s)
    PROVE  ApprovalsInv'
<1>1. /\ DOMAIN parts' = DOMAIN parts /\ parts'[i].status = s
      /\ \A k \in DOMAIN parts \ {i} : parts'[k] = parts[k]
  BY UpdateParts DEF TInv
<1>2. PICK row \in ApprovalRow : row.request = i /\ row.status = s /\ approvals' = Append(approvals, row)
  <2>1. [request |-> i, status |-> s] \in ApprovalRow
    BY PartsFields DEF TInv, ApprovalRow
  <2> QED
    BY <2>1 DEF Records
<1>3. approvals \in Seq(ApprovalRow) /\ HaveLast(approvals)
  BY DEF TInv, TypeOK, ApprovalsInv
<1>4. /\ Newest(approvals', i) = s
      /\ \A j : j # i => Newest(approvals', j) = Newest(approvals, j)
      /\ HaveLast(approvals')
  BY <1>2, <1>3, RecordIsNewest
<1>5. \A j \in DOMAIN parts' : Tells(approvals', j, parts'[j].status)
  BY <1>1, <1>4 DEF ApprovalsInv, Tells
<1> QED
  BY <1>4, <1>5 DEF ApprovalsInv

LEMMA NextApprovals ==
    ASSUME TInv, ApprovalsInv, [Next]_vars
    PROVE  ApprovalsInv'
<1>1. ASSUME UNCHANGED <<parts, approvals>> PROVE ApprovalsInv'
  BY <1>1 DEF ApprovalsInv
<1>2. ASSUME NEW r \in Requests, Arrive(r) PROVE ApprovalsInv'
  <2>1. CASE UNCHANGED <<parts, approvals>>
    BY <1>1, <2>1
  <2>2. ASSUME NEW i \in DOMAIN parts, MarkPartsAvailable(r, i) PROVE ApprovalsInv'
    <3>1. /\ parts' = [parts EXCEPT ![i].status = "PARTS_AVAILABLE"] /\ UNCHANGED approvals
          /\ parts[i].status = "APPROVED" /\ "PARTS_AVAILABLE" \in PartsStatus
      BY <2>2 DEF MarkPartsAvailable, MayDeliver, Outstanding, PartsStatus, Told
    <3>2. /\ DOMAIN parts' = DOMAIN parts /\ parts'[i].status = "PARTS_AVAILABLE"
          /\ \A k \in DOMAIN parts \ {i} : parts'[k] = parts[k]
      BY <3>1, UpdateParts DEF TInv
    <3>3. Newest(approvals, i) = "APPROVED"
      BY <3>1 DEF ApprovalsInv, Tells
    <3>4. \A j \in DOMAIN parts' : Tells(approvals, j, parts'[j].status)
      BY <3>2, <3>3 DEF ApprovalsInv, Tells
    <3> QED
      BY <3>1, <3>4 DEF ApprovalsInv
  <2>3. ASSUME NEW i \in DOMAIN parts, NEW m \in Managers, NEW decision \in Decision,
               ReviewPartsRequest(r, m, i, decision)
        PROVE  ApprovalsInv'
    BY <2>3, RecordedChange DEF ReviewPartsRequest, MayReview, PartsStatus, Told
  <2> QED
    BY <1>2, <2>1, <2>2, <2>3 DEF Arrive, BeginUpdate, MayUpdate, BeginTechnicianCall, Begin
<1>3. ASSUME NEW r \in Requests, Proceed(r) PROVE ApprovalsInv'
  <2>1. CASE CreatePartsRequest(r)
    <3>1. PICK t \in Technicians : t = call[r].tech
      BY <2>1 DEF CreatePartsRequest, MayRequestParts, TInv, HandlersHoldWhatTheyNeed
    <3>2. PICK row \in PartsRow : /\ row.status = "PENDING" /\ UNCHANGED approvals
                                  /\ parts' = Append(parts, row)
      BY <2>1, <3>1 DEF CreatePartsRequest, MayRequestParts, PartsRow, PartsStatus, Reviewable
    <3>3. PICK new : new = Len(parts) + 1
      OBVIOUS
    <3>4. /\ DOMAIN parts' = DOMAIN parts \cup {new}
          /\ \A k \in DOMAIN parts : parts'[k] = parts[k]
          /\ parts'[new].status = "PENDING"
      BY <3>2, <3>3, AppendParts DEF TInv
    <3>5. new \notin DOMAIN parts
      BY <3>3 DEF TInv, TypeOK
    <3>6. RowsIn(approvals, new) = {}
      BY <3>5 DEF RowsIn, TInv, TypeOK
    <3>7. Tells(approvals, new, "PENDING")
      BY <3>6 DEF Newest, Tells
    <3>8. \A j \in DOMAIN parts' : Tells(approvals, j, parts'[j].status)
      BY <3>4, <3>7 DEF ApprovalsInv
    <3> QED
      BY <3>2, <3>8 DEF ApprovalsInv
  <2>2. ASSUME NEW i \in DOMAIN parts, RespondToPartsRequest(r, i) PROVE ApprovalsInv'
    BY <2>2, RecordedChange DEF RespondToPartsRequest, MayRespond, PartsStatus, Reviewable
  <2>3. CASE UNCHANGED <<parts, approvals>>
    BY <1>1, <2>3
  <2> QED
    BY <1>3, <2>1, <2>2, <2>3
    DEF Proceed, UpdateInternalJob, StartTechnicianJob, MayStart, CompleteTechnicianJob,
        ResumeTechnicianJob, MayResume, Refuse, Announce
<1>4. ASSUME NEW r \in Requests, Die(r) PROVE ApprovalsInv'
  BY <1>1, <1>4 DEF Die
<1>5. CASE CreateInternalJob \/ CancelInternalJob \/ (\E t \in Technicians : AssignTechnician(t))
  BY <1>1, <1>5 DEF CreateInternalJob, CancelInternalJob, MayCancel, AssignTechnician, MayAssign
<1>6. CASE UNCHANGED vars
  BY <1>1, <1>6 DEF vars
<1> QED
  BY <1>2, <1>3, <1>4, <1>5, <1>6 DEF Next

(* The newest row of job_approvals tells what became of a parts request,   *)
(* whichever reviews, answers and deliveries race.                         *)
THEOREM ApprovalsTell == Spec => []ApprovalsTellStatus
<1>1. Init => ApprovalsInv
  BY DEF Init, ApprovalsInv, HaveLast, RowsIn
<1>2. ApprovalsInv => ApprovalsTellStatus
  <2>1. \A i : RowsIn(approvals, i) = RowsOf(i) /\ LastIn(approvals, i) = LastRow(i)
    BY DEF RowsIn, RowsOf, LastIn, LastRow
  <2> QED
    BY <2>1 DEF ApprovalsInv, ApprovalsTellStatus, Tells, Newest
<1> QED
  BY InitTypes, NextTypes, NextApprovals, <1>1, <1>2, PTL DEF Spec

-----------------------------------------------------------------------------
(* The in-memory store and the API.  Seen from the tables every call of    *)
(* the API is one of InternalJob's: documenting the work changes none of   *)
(* them, like a call that is refused.                                      *)

LEMMA DocumentsLikeRefused ==
    ASSUME NEW r, NEW kind, Documents(r, kind)
    PROVE  Refuse(r)
BY DEF Documents, Refuse

LEMMA DeletesLikeRefused ==
    ASSUME NEW r, DeleteTechnicianJobImage(r)
    PROVE  Refuse(r)
BY DEF DeleteTechnicianJobImage, Refuse

LEMMA ApiStepIsStep ==
    ASSUME [ApiNext]_apiVars
    PROVE  [Next]_vars
<1>1. CASE OneStepCall
  BY <1>1 DEF OneStepCall, Serve, Next
<1>2. ASSUME NEW r \in Requests, ManagerCall(r) PROVE Next
  <2>1. Arrive(r) \/ Proceed(r)
    BY <1>2 DEF ManagerCall, Serve, Arrive, Proceed
  <2> QED
    BY <2>1 DEF Next
<1>3. ASSUME NEW r \in Requests, TechnicianCall(r) PROVE Next
  <2>1. Arrive(r) \/ Proceed(r)
    BY <1>3 DEF TechnicianCall, Serve, Arrive, Proceed
  <2> QED
    BY <2>1 DEF Next
<1>4. ASSUME NEW r \in Requests, Announce(r) \/ Refuse(r) PROVE Next
  BY <1>4 DEF Next, Proceed
<1>5. CASE LockstepNext
  BY <1>1, <1>2, <1>3, <1>4, <1>5 DEF LockstepNext
<1>6. ASSUME NEW r \in Requests,
             \/ CreateTechnicianJobImage(r) \/ CreateTechnicianVoiceNote(r)
             \/ CreateTechnicianJobUpdate(r) \/ DeleteTechnicianJobImage(r)
      PROVE  Next
  BY <1>4, <1>6, DocumentsLikeRefused, DeletesLikeRefused
     DEF CreateTechnicianJobImage, CreateTechnicianVoiceNote, CreateTechnicianJobUpdate
<1>7. CASE UNCHANGED apiVars
  BY <1>7 DEF apiVars, lockstep
<1> QED
  BY <1>5, <1>6, <1>7 DEF ApiNext

(* What the in-memory store holds of the tables: every field the same, and *)
(* of its assignments the last one open.                                   *)
MemRow(k) == [tech |-> assignments[k], open |-> k = Len(assignments)]
MemRows == [k \in DOMAIN assignments |-> MemRow(k)]
Holds(m, s, d, rows, h, u, p, a) ==
    /\ DOMAIN m = {"status", "details", "rows", "history", "updates", "parts", "approvals"}
    /\ m.status = s /\ m.details = d /\ m.rows = rows /\ m.history = h
    /\ m.updates = u /\ m.parts = p /\ m.approvals = a
InMemory == Holds(mem, status, details, MemRows, history, notes, parts, approvals)

(* Whoever is at the locked part of a call still has the job, and what the *)
(* snapshot says of the status and of outstanding parts is still so: calls *)
(* come one by one.                                                        *)
Fresh(c) == /\ c.tech = assigned
            /\ c.working <=> status \in Working
            /\ c.outstanding <=> Outstanding # {}
SnapshotsAreFresh == \A r \in Requests : call[r].at = "snapshot" => Fresh(call[r])

Documented == work \in [WorkKinds -> Technicians \cup {None}] /\ memWork = work

MInv == TInv /\ InMemory /\ SnapshotsAreFresh /\ Documented

(* The open assignment of either store. *)
LEMMA OpenAssignment ==
    ASSUME TypeOK, InMemory
    PROVE  /\ DOMAIN mem.rows = DOMAIN assignments
           /\ \A k \in DOMAIN assignments : /\ mem.rows[k].tech = assignments[k]
                                            /\ mem.rows[k].open <=> k = Len(assignments)
           /\ OpenRows = IF assignments = << >> THEN {} ELSE {Len(assignments)}
           /\ \A t : ActiveAssignment(t) <=> assigned = t /\ assignments # << >>
           /\ MemAssigned <=> assignments # << >>
           /\ MemAssigned <=> assigned # None
           /\ assigned \in Technicians \cup {None}
<1>1. mem.rows = MemRows
  BY DEF InMemory, Holds
<1>2. /\ DOMAIN assignments = 1..Len(assignments) /\ Len(assignments) \in Nat
      /\ assignments = << >> <=> Len(assignments) = 0
      /\ \A k \in DOMAIN assignments : assignments[k] \in Technicians
  BY DEF TypeOK
<1>3. /\ DOMAIN mem.rows = DOMAIN assignments
      /\ \A k \in DOMAIN assignments : /\ mem.rows[k].tech = assignments[k]
                                       /\ mem.rows[k].open <=> k = Len(assignments)
  <2>1. /\ DOMAIN mem.rows = DOMAIN assignments
        /\ \A k \in DOMAIN assignments : mem.rows[k] = MemRow(k)
    BY <1>1 DEF MemRows
  <2>2. \A k : MemRow(k).tech = assignments[k]
    BY DEF MemRow
  <2>3. ASSUME NEW k PROVE MemRow(k).open <=> k = Len(assignments)
    BY DEF MemRow
  <2> QED
    BY <2>1, <2>2, <2>3
<1>4. OpenRows = IF assignments = << >> THEN {} ELSE {Len(assignments)}
  BY <1>2, <1>3 DEF OpenRows
<1>5. \A t : ActiveAssignment(t) <=> assigned = t /\ assignments # << >>
  BY <1>2, <1>3, <1>4 DEF ActiveAssignment, assigned
<1>6. MemAssigned <=> assignments # << >>
  BY <1>4 DEF MemAssigned
<1>7. assignments # << >> => assigned \in Technicians
  BY <1>2 DEF assigned
<1>8. assignments = << >> => assigned = None
  BY DEF assigned
<1> QED
  BY <1>3, <1>4, <1>5, <1>6, <1>7, <1>8, NoneAssumption

LEMMA MemOutstandingIs ==
    ASSUME InMemory, NEW i
    PROVE  /\ MemOutstanding({}) <=> Outstanding # {}
           /\ i \in Outstanding => (MemOutstanding({i}) <=> Outstanding # {i})
BY DEF InMemory, Holds, MemOutstanding, Outstanding

(* What each kind of write makes of what the store holds. *)
Move(from, to) == [from |-> from, to |-> to]
Approval(i, s) == [request |-> i, status |-> s]
Marked(p, i, s) == [p EXCEPT ![i].status = s]

LEMMA StoreMoves ==
    ASSUME NEW m, NEW s, NEW d, NEW rows, NEW h, NEW u, NEW p, NEW a, NEW to,
           Holds(m, s, d, rows, h, u, p, a)
    PROVE  Holds(MemMoves(m, to), to, d, rows, Append(h, Move(s, to)), u, p, a)
BY DEF MemMoves, Holds, Move

LEMMA StoreRecords ==
    ASSUME NEW m, NEW s, NEW d, NEW rows, NEW h, NEW u, NEW p, NEW a, NEW i, NEW x,
           Holds(m, s, d, rows, h, u, p, a)
    PROVE  Holds(RecordPartsApproval(m, i, x), s, d, rows, h, u, p, Append(a, Approval(i, x)))
BY DEF RecordPartsApproval, Holds, Approval

LEMMA StoreMarks ==
    ASSUME NEW m, NEW s, NEW d, NEW rows, NEW h, NEW u, NEW p, NEW a, NEW i, NEW x,
           Holds(m, s, d, rows, h, u, p, a)
    PROVE  Holds([m EXCEPT !.parts[i].status = x], s, d, rows, h, u, Marked(p, i, x), a)
BY DEF Holds, Marked

(* A call that moves the status and nothing else. *)
LEMMA MovesAlike ==
    ASSUME InMemory, NEW to, Moves(status, to), mem' = MemMoves(mem, to),
           UNCHANGED <<details, assignments, notes, parts, approvals>>
    PROVE  InMemory'
<1>1. Holds(mem', to, details, MemRows, Append(history, Move(status, to)), notes, parts, approvals)
  BY StoreMoves DEF InMemory
<1>2. status' = to /\ history' = Append(history, Move(status, to))
  BY DEF Moves, Move
<1>3. MemRows' = MemRows
  BY DEF MemRows, MemRow
<1> QED
  BY <1>1, <1>2, <1>3 DEF InMemory

(* A call that leaves the assignments alone. *)
LEMMA HoldsNext ==
    ASSUME UNCHANGED assignments,
           Holds(mem', status', details', MemRows, history', notes', parts', approvals')
    PROVE  InMemory'
<1>1. MemRows' = MemRows
  BY DEF MemRows, MemRow
<1> QED
  BY <1>1 DEF InMemory

(* Managers' calls. *)
LEMMA CreateAlike ==
    ASSUME InMemory, Serve(CreateInternalJob, TRUE, MemCreateInternalJob)
    PROVE  InMemory'
<1>1. Moves(status, "REQUESTED") /\ UNCHANGED <<details, assignments, notes, parts, approvals>>
  BY DEF Serve, CreateInternalJob
<1>2. mem' = MemMoves(mem, "REQUESTED")
  BY DEF Serve, MemCreateInternalJob
<1> QED
  BY <1>1, <1>2, MovesAlike

LEMMA CancelAlike ==
    ASSUME InMemory, Serve(CancelInternalJob, MemCancellable, MemCancelInternalJob)
    PROVE  InMemory'
<1>1. /\ Moves(status, "CANCELLED") /\ status = "REQUESTED"
      /\ UNCHANGED <<details, assignments, notes, parts, approvals>>
  BY DEF Serve, CancelInternalJob, MayCancel
<1>2. MemCancellable
  BY <1>1 DEF MemCancellable, InMemory, Holds
<1>3. mem' = MemMoves(mem, "CANCELLED")
  BY <1>2 DEF Serve, MemCancelInternalJob
<1> QED
  BY <1>1, <1>3, MovesAlike

LEMMA UpdateAlike ==
    ASSUME InMemory, NEW r, Serve(UpdateInternalJob(r), TRUE, MemUpdateInternalJob(call[r].details))
    PROVE  InMemory'
<1>1. PICK d : d = call[r].details
  OBVIOUS
<1>2. /\ details' = d
      /\ UNCHANGED <<status, assignments, history, notes, parts, approvals>>
  BY <1>1 DEF Serve, UpdateInternalJob
<1>3. mem' = [mem EXCEPT !.details = d]
  BY <1>1 DEF Serve, MemUpdateInternalJob
<1>4. Holds(mem', status, d, MemRows, history, notes, parts, approvals)
  BY <1>3 DEF InMemory, Holds
<1> QED
  BY <1>2, <1>4, HoldsNext

(* The open row is closed, and the new one is open. *)
Closed(k) == [tech |-> assignments[k], open |-> FALSE]
LEMMA ClosedRow ==
    ASSUME NEW t, NEW open \in BOOLEAN, ~open
    PROVE  [tech |-> t, open |-> open] = [tech |-> t, open |-> FALSE]
<1>1. open = FALSE
  OBVIOUS
<1> QED
  BY <1>1

LEMMA CloseRow ==
    ASSUME NEW t, NEW open, NEW shut
    PROVE  [[tech |-> t, open |-> open] EXCEPT !.open = shut] = [tech |-> t, open |-> shut]
OBVIOUS

LEMMA AssignAlike ==
    ASSUME TypeOK, InMemory, NEW t \in Technicians,
           Serve(AssignTechnician(t), TRUE, MemAssignJobTechnician(t))
    PROVE  InMemory'
<1> DEFINE old == [k \in DOMAIN mem.rows |-> [mem.rows[k] EXCEPT !.open = FALSE]]
           new == [tech |-> t, open |-> TRUE]
           Row == [tech : Technicians, open : BOOLEAN]
<1>1. PICK n \in Nat : n = Len(assignments)
  BY DEF TypeOK
<1>2. /\ assignments' = Append(assignments, t)
      /\ UNCHANGED <<status, details, history, notes, parts, approvals>>
  BY DEF Serve, AssignTechnician, MayAssign
<1>3. /\ assignments \in Seq(Technicians)
      /\ DOMAIN assignments = 1..n
      /\ \A k \in 1..n : assignments[k] \in Technicians /\ assignments'[k] = assignments[k]
      /\ assignments'[n + 1] = t
      /\ DOMAIN assignments' = 1..(n + 1)
      /\ Len(assignments') = n + 1
  BY <1>1, <1>2 DEF TypeOK
<1>4. mem' = [mem EXCEPT !.rows = Append(old, new)]
  BY DEF Serve, MemAssignJobTechnician
<1>5. DOMAIN mem.rows = 1..n /\ \A k \in 1..n : mem.rows[k] = MemRow(k)
  BY <1>3 DEF InMemory, Holds, MemRows
<1>6. \A k \in 1..n : old[k] = Closed(k)
  <2>1. ASSUME NEW k PROVE [MemRow(k) EXCEPT !.open = FALSE] = Closed(k)
    <3>1. PICK open : open = (k = Len(assignments))
      OBVIOUS
    <3>2. MemRow(k) = [tech |-> assignments[k], open |-> open]
      BY <3>1 DEF MemRow
    <3>3. PICK shut : shut = FALSE
      OBVIOUS
    <3>4. [MemRow(k) EXCEPT !.open = shut] = [tech |-> assignments[k], open |-> shut]
      BY <3>2, CloseRow
    <3> QED
      BY <3>3, <3>4 DEF Closed
  <2> QED
    BY <1>5, <2>1
<1>7. \A k \in 1..n : Closed(k) \in Row
  BY <1>3 DEF Closed
<1>8. DOMAIN old = 1..n
  BY <1>5
<1>9. old \in Seq(Row) /\ Len(old) = n
  <2>1. old \in [1..n -> Row]
    BY <1>5, <1>6, <1>7
  <2> HIDE DEF old, Row
  <2> QED
    BY <2>1, <1>8, FunctionIsSequence
<1>10. new \in Row
  OBVIOUS
<1> HIDE DEF old, new, Row
<1>11. PICK rows : rows = Append(old, new)
  OBVIOUS
<1>12. /\ DOMAIN rows = 1..(n + 1)
       /\ \A k \in 1..n : rows[k] = old[k]
       /\ rows[n + 1] = new
       /\ rows \in Seq(Row)
  BY <1>9, <1>10, <1>11
<1>13. \A k \in 1..n : MemRow(k)' = Closed(k)
  <2>1. SUFFICES ASSUME NEW k \in 1..n PROVE MemRow(k)' = Closed(k)
    OBVIOUS
  <2>2. MemRow(k)' = [tech |-> assignments[k], open |-> k = n + 1]
    BY <1>3 DEF MemRow
  <2>3. k # n + 1 /\ (k = n + 1) \in BOOLEAN
    BY <1>1
  <2> QED
    BY <2>2, <2>3, ClosedRow DEF Closed
<1>14. MemRow(n + 1)' = new
  <2>1. MemRow(n + 1)' = [tech |-> t, open |-> n + 1 = n + 1]
    BY <1>3 DEF MemRow
  <2>2. (n + 1 = n + 1) = TRUE
    OBVIOUS
  <2> QED
    BY <2>1, <2>2 DEF new
<1>15. \A k \in 1..(n + 1) : rows[k] = MemRow(k)'
  BY <1>1, <1>6, <1>12, <1>13, <1>14
<1>16. MemRows' = [k \in 1..(n + 1) |-> MemRow(k)']
  BY <1>3 DEF MemRows
<1>17. rows = MemRows'
  BY <1>12, <1>15, <1>16
<1>18. Holds(mem', status, details, rows, history, notes, parts, approvals)
  BY <1>4, <1>11 DEF InMemory, Holds
<1> QED
  BY <1>2, <1>17, <1>18 DEF InMemory

(* Decisions on parts requests. *)
LEMMA ReviewAlike ==
    ASSUME TypeOK, InMemory, NEW r, NEW i \in DOMAIN parts, NEW m, NEW decision,
           Serve(ReviewPartsRequest(r, m, i, decision), MemReviewable(m, i),
                 MemReviewPartsRequest(i, decision))
    PROVE  InMemory'
<1>1. /\ parts[i].status \in Reviewable /\ parts[i].by # m /\ status \in Working
      /\ assigned # None
      /\ parts' = Marked(parts, i, decision)
      /\ approvals' = Append(approvals, Approval(i, decision))
      /\ UNCHANGED <<details, assignments, notes>>
  BY DEF Serve, ReviewPartsRequest, MayReview, Marked, Approval, Records
<1>2. /\ decision = "APPROVED" /\ status = "IN_PROGRESS" =>
             /\ status' = "AWAITING_PARTS"
             /\ history' = Append(history, Move("IN_PROGRESS", "AWAITING_PARTS"))
      /\ ~(decision = "APPROVED" /\ status = "IN_PROGRESS") => UNCHANGED <<status, history>>
  BY DEF Serve, ReviewPartsRequest, MayReview, Moves, Move
<1>3. mem.status = status /\ mem.parts = parts
  BY DEF InMemory, Holds
<1>4. MemReviewable(m, i)
  BY <1>1, <1>3, OpenAssignment DEF MemReviewable
<1>5. PICK reviewed : reviewed = RecordPartsApproval([mem EXCEPT !.parts[i].status = decision], i, decision)
  OBVIOUS
<1>6. mem' = IF decision = "APPROVED" /\ status = "IN_PROGRESS"
             THEN MemMoves(reviewed, "AWAITING_PARTS") ELSE reviewed
  BY <1>3, <1>4, <1>5 DEF Serve, MemReviewPartsRequest
<1>7. Holds(reviewed, status, details, MemRows, history, notes, parts', approvals')
  BY <1>1, <1>5, StoreMarks, StoreRecords DEF InMemory
<1>8. Holds(mem', status', details, MemRows, history', notes, parts', approvals')
  <2>1. CASE decision = "APPROVED" /\ status = "IN_PROGRESS"
    BY <1>2, <1>6, <1>7, <2>1, StoreMoves
  <2>2. CASE ~(decision = "APPROVED" /\ status = "IN_PROGRESS")
    BY <1>2, <1>6, <1>7, <2>2
  <2> QED
    BY <2>1, <2>2
<1> QED
  BY <1>1, <1>8, HoldsNext

LEMMA DeliverAlike ==
    ASSUME InMemory, NEW r, NEW i,
           Serve(MarkPartsAvailable(r, i), MemDeliverable(i), MemMarkPartsAvailable(i))
    PROVE  InMemory'
<1>1. /\ i \in Outstanding /\ status \in Working
      /\ parts' = Marked(parts, i, "PARTS_AVAILABLE")
      /\ UNCHANGED <<details, assignments, notes, approvals>>
  BY DEF Serve, MarkPartsAvailable, MayDeliver, Marked
<1>2. /\ LastOutstanding(i) =>
             /\ status = "AWAITING_PARTS" /\ status' = "IN_PROGRESS"
             /\ history' = Append(history, Move("AWAITING_PARTS", "IN_PROGRESS"))
      /\ ~LastOutstanding(i) => UNCHANGED <<status, history>>
  BY DEF Serve, MarkPartsAvailable, MayDeliver, Moves, Move, LastOutstanding
<1>3. mem.status = status /\ mem.parts = parts
  BY DEF InMemory, Holds
<1>4. MemDeliverable(i)
  BY <1>1, <1>3 DEF MemDeliverable, Outstanding
<1>5. PICK marked : marked = [mem EXCEPT !.parts[i].status = "PARTS_AVAILABLE"]
  OBVIOUS
<1>6. LastOutstanding(i) <=> mem.status = "AWAITING_PARTS" /\ ~MemOutstanding({i})
  BY <1>1, <1>3, MemOutstandingIs DEF LastOutstanding
<1>7. mem' = IF LastOutstanding(i) THEN MemMoves(marked, "IN_PROGRESS") ELSE marked
  BY <1>4, <1>5, <1>6 DEF Serve, MemMarkPartsAvailable
<1>8. Holds(marked, status, details, MemRows, history, notes, parts', approvals)
  BY <1>1, <1>5, StoreMarks DEF InMemory
<1>9. Holds(mem', status', details, MemRows, history', notes, parts', approvals)
  <2>1. CASE LastOutstanding(i)
    BY <1>2, <1>7, <1>8, <2>1, StoreMoves
  <2>2. CASE ~LastOutstanding(i)
    BY <1>2, <1>7, <1>8, <2>2
  <2> QED
    BY <2>1, <2>2
<1> QED
  BY <1>1, <1>9, HoldsNext

(* Technicians' calls: whoever is at the locked part still has the job. *)
LEMMA HasTheJob ==
    ASSUME TInv, InMemory, SnapshotsAreFresh, NEW r \in Requests, call[r].at = "snapshot"
    PROVE  ActiveAssignment(call[r].tech)
<1>1. call[r].tech = assigned /\ call[r].tech \in Technicians
  BY DEF SnapshotsAreFresh, Fresh, TInv, HandlersHoldWhatTheyNeed
<1>2. assignments # << >>
  BY <1>1, NoneAssumption DEF assigned
<1> QED
  BY <1>1, <1>2, OpenAssignment DEF TInv

LEMMA StartAlike ==
    ASSUME TInv, InMemory, SnapshotsAreFresh, NEW r \in Requests,
           Serve(StartTechnicianJob(r), MemStartable(call[r].tech), MemStartTechnicianJob)
    PROVE  InMemory'
<1>1. /\ call[r].at = "snapshot" /\ status \in Startable /\ Moves(status, "IN_PROGRESS")
      /\ UNCHANGED <<details, assignments, notes, parts, approvals>>
  BY DEF Serve, StartTechnicianJob, MayStart
<1>2. MemStartable(call[r].tech)
  BY <1>1, HasTheJob DEF MemStartable, InMemory, Holds
<1>3. mem' = MemMoves(mem, "IN_PROGRESS")
  BY <1>2 DEF Serve, MemStartTechnicianJob
<1> QED
  BY <1>1, <1>3, MovesAlike

LEMMA CompleteAlike ==
    ASSUME TInv, InMemory, SnapshotsAreFresh, NEW r \in Requests,
           Serve(CompleteTechnicianJob(r), MemCompletable(call[r].tech), MemCompleteTechnicianJob)
    PROVE  InMemory'
<1>1. /\ call[r].at = "snapshot" /\ status = "IN_PROGRESS" /\ status' = "COMPLETED"
      /\ history' = Append(history, Move(status, "COMPLETED")) /\ notes' = notes + 1
      /\ UNCHANGED <<details, assignments, parts, approvals>>
  BY DEF Serve, CompleteTechnicianJob, Completable, Moves, Move
<1>2. MemCompletable(call[r].tech)
  BY <1>1, HasTheJob DEF MemCompletable, InMemory, Holds
<1>3. PICK noted : noted = [mem EXCEPT !.updates = @ + 1]
  OBVIOUS
<1>4. mem' = MemMoves(noted, "COMPLETED")
  BY <1>2, <1>3 DEF Serve, MemCompleteTechnicianJob
<1>5. Holds(noted, status, details, MemRows, history, notes + 1, parts, approvals)
  BY <1>3 DEF InMemory, Holds
<1>6. Holds(mem', "COMPLETED", details, MemRows, Append(history, Move(status, "COMPLETED")),
            notes + 1, parts, approvals)
  BY <1>4, <1>5, StoreMoves
<1> QED
  BY <1>1, <1>6, HoldsNext

LEMMA ResumeAlike ==
    ASSUME TInv, InMemory, SnapshotsAreFresh, NEW r \in Requests,
           Serve(ResumeTechnicianJob(r), MemResumable(call[r].tech), MemResumeTechnicianJob)
    PROVE  InMemory'
<1>1. /\ call[r].at = "snapshot" /\ status = "AWAITING_PARTS" /\ ~call[r].outstanding
      /\ Moves(status, "IN_PROGRESS")
      /\ UNCHANGED <<details, assignments, notes, parts, approvals>>
  BY DEF Serve, ResumeTechnicianJob, MayResume
<1>2. Outstanding = {}
  BY <1>1 DEF SnapshotsAreFresh, Fresh
<1>3. MemResumable(call[r].tech)
  BY <1>1, <1>2, HasTheJob, MemOutstandingIs DEF MemResumable, InMemory, Holds
<1>4. mem' = MemMoves(mem, "IN_PROGRESS")
  BY <1>3 DEF Serve, MemResumeTechnicianJob
<1> QED
  BY <1>1, <1>4, MovesAlike

LEMMA RequestAlike ==
    ASSUME TInv, InMemory, SnapshotsAreFresh, NEW r \in Requests,
           Serve(CreatePartsRequest(r), RequireAssignedForParts(call[r].tech),
                 MemCreatePartsRequest(call[r].tech))
    PROVE  InMemory'
<1>1. PICK t : t = call[r].tech
  OBVIOUS
<1>2. /\ call[r].at = "snapshot" /\ status \in Working
      /\ parts' = Append(parts, [by |-> t, status |-> "PENDING"])
      /\ UNCHANGED <<status, details, assignments, history, notes, approvals>>
  BY <1>1 DEF Serve, CreatePartsRequest, MayRequestParts, job
<1>3. RequireAssignedForParts(t)
  BY <1>1, <1>2, HasTheJob DEF RequireAssignedForParts, InMemory, Holds
<1>4. mem' = [mem EXCEPT !.parts = Append(@, [by |-> t, status |-> "PENDING"])]
  BY <1>1, <1>3 DEF Serve, MemCreatePartsRequest
<1>5. Holds(mem', status, details, MemRows, history, notes, parts', approvals)
  BY <1>2, <1>4 DEF InMemory, Holds
<1> QED
  BY <1>2, <1>5, HoldsNext

LEMMA RespondAlike ==
    ASSUME TInv, InMemory, SnapshotsAreFresh, NEW r \in Requests, NEW i,
           Serve(RespondToPartsRequest(r, i), MemAnswerable(call[r].tech, i),
                 MemRespondToPartsRequest(i))
    PROVE  InMemory'
<1>1. /\ call[r].at = "snapshot" /\ parts[i].status = "NEEDS_INFO"
      /\ parts' = Marked(parts, i, "PENDING")
      /\ approvals' = Append(approvals, Approval(i, "PENDING"))
      /\ UNCHANGED <<status, details, assignments, history, notes>>
  BY DEF Serve, RespondToPartsRequest, MayRespond, job, Marked, Approval, Records
<1>2. MemAnswerable(call[r].tech, i)
  BY <1>1, HasTheJob DEF MemAnswerable, InMemory, Holds
<1>3. PICK marked : marked = [mem EXCEPT !.parts[i].status = "PENDING"]
  OBVIOUS
<1>4. mem' = RecordPartsApproval(marked, i, "PENDING")
  BY <1>2, <1>3 DEF Serve, MemRespondToPartsRequest
<1>5. Holds(marked, status, details, MemRows, history, notes, parts', approvals)
  BY <1>1, <1>3, StoreMarks DEF InMemory
<1>6. Holds(mem', status, details, MemRows, history, notes, parts', approvals')
  BY <1>1, <1>4, <1>5, StoreRecords
<1> QED
  BY <1>1, <1>6, HoldsNext

(* One handler's step while it is alone, seen from the snapshots. *)
LEMMA SnapshotStep ==
    ASSUME TInv, NEW r \in Requests, Alone(r), NEW c, call' = [call EXCEPT ![r] = c],
           c.at = "snapshot" => /\ c.tech = assigned'
                                /\ c.working <=> status' \in Working
                                /\ c.outstanding <=> Outstanding' # {}
    PROVE  SnapshotsAreFresh'
<1>1. \A x \in Requests \ {r} : call'[x] = call[x] /\ call[x].at = "idle"
  BY IdleIsCall DEF TInv, TypeOK, Alone
<1>2. call'[r] = c
  BY DEF TInv, TypeOK
<1> QED
  BY <1>1, <1>2 DEF SnapshotsAreFresh, Fresh

LEMMA SnapshotDone ==
    ASSUME TInv, NEW r \in Requests, Alone(r), Done(r)
    PROVE  SnapshotsAreFresh'
BY SnapshotStep, IdleIsCall DEF Done

LEMMA SnapshotOwes ==
    ASSUME TInv, NEW r \in Requests, Alone(r), NEW i, NEW s, Owes(r, i, s)
    PROVE  SnapshotsAreFresh'
<1> DEFINE c == [Idle EXCEPT !.at = "announce", !.tech = parts[i].by, !.request = i, !.tells = s]
<1>1. c.at = "announce"
  BY DEF Idle
<1>2. call' = [call EXCEPT ![r] = c]
  BY DEF Owes
<1> HIDE DEF c
<1> QED
  BY <1>1, <1>2, SnapshotStep

LEMMA SnapshotBegins ==
    ASSUME TInv, NEW r \in Requests, Alone(r), NEW t \in Technicians, BeginTechnicianCall(r, t)
    PROVE  SnapshotsAreFresh'
<1> DEFINE c == [Idle EXCEPT !.at = "snapshot", !.tech = t, !.working = status \in Working,
                             !.outstanding = Outstanding # {}]
<1>1. /\ c.tech = t
      /\ c.working <=> status \in Working
      /\ c.outstanding <=> Outstanding # {}
  <2>1. (status \in Working) \in BOOLEAN /\ (Outstanding # {}) \in BOOLEAN
    OBVIOUS
  <2>2. PICK w \in BOOLEAN, some \in BOOLEAN : w = (status \in Working) /\ some = (Outstanding # {})
    BY <2>1, Zenon
  <2>3. c = [Idle EXCEPT !.at = "snapshot", !.tech = t, !.working = w, !.outstanding = some]
    BY <2>2
  <2> HIDE DEF c
  <2>4. c.tech = t /\ c.working = w /\ c.outstanding = some
    BY <2>3 DEF Idle
  <2> QED
    BY <2>2, <2>4
<1>2. /\ call' = [call EXCEPT ![r] = c] /\ assigned = t
      /\ UNCHANGED <<status, assignments, parts>>
  BY DEF BeginTechnicianCall, Begin, job
<1>3. assigned' = t /\ Outstanding' = Outstanding
  BY <1>2 DEF assigned, Outstanding
<1> HIDE DEF c
<1> QED
  BY <1>1, <1>2, <1>3, SnapshotStep

LEMMA SnapshotUpdate ==
    ASSUME TInv, NEW r \in Requests, Alone(r), NEW d \in Details, BeginUpdate(r, d)
    PROVE  SnapshotsAreFresh'
<1> DEFINE c == [Idle EXCEPT !.at = "update", !.details = d]
<1>1. c.at = "update"
  BY DEF Idle
<1>2. call' = [call EXCEPT ![r] = c]
  BY DEF BeginUpdate, MayUpdate, Begin
<1> HIDE DEF c
<1> QED
  BY <1>1, <1>2, SnapshotStep

LEMMA SnapshotBetween ==
    ASSUME Between, UNCHANGED call
    PROVE  SnapshotsAreFresh'
BY IdleIsCall DEF Between, SnapshotsAreFresh

(* A step that leaves the tables the store mirrors as they are. *)
LEMMA MemoryFrame ==
    ASSUME InMemory, UNCHANGED <<status, details, assignments, history, notes, parts, approvals, mem>>
    PROVE  InMemory'
BY DEF InMemory, MemRows, MemRow

LEMMA NextManager ==
    ASSUME MInv, NEW r \in Requests, Alone(r), ManagerCall(r)
    PROVE  InMemory' /\ SnapshotsAreFresh'
<1> USE DEF MInv
<1>1. ASSUME NEW d \in Details, BeginUpdate(r, d), UNCHANGED mem
      PROVE  InMemory' /\ SnapshotsAreFresh'
  <2>1. UNCHANGED <<status, details, assignments, history, notes, parts, approvals, mem>>
    BY <1>1 DEF BeginUpdate, MayUpdate, Begin, job
  <2> QED
    BY <1>1, <2>1, SnapshotUpdate, MemoryFrame
<1>2. CASE Serve(UpdateInternalJob(r), TRUE, MemUpdateInternalJob(call[r].details))
  BY <1>2, UpdateAlike, SnapshotDone DEF Serve, UpdateInternalJob
<1>3. ASSUME NEW i \in DOMAIN parts,
             Serve(MarkPartsAvailable(r, i), MemDeliverable(i), MemMarkPartsAvailable(i))
      PROVE  InMemory' /\ SnapshotsAreFresh'
  BY <1>3, DeliverAlike, SnapshotOwes DEF Serve, MarkPartsAvailable, MayDeliver
<1>4. ASSUME NEW i \in DOMAIN parts, NEW m \in Managers, NEW decision \in Decision,
             Serve(ReviewPartsRequest(r, m, i, decision), MemReviewable(m, i),
                   MemReviewPartsRequest(i, decision))
      PROVE  InMemory' /\ SnapshotsAreFresh'
  BY <1>4, ReviewAlike, SnapshotOwes DEF Serve, ReviewPartsRequest, MayReview, TInv
<1> QED
  BY <1>1, <1>2, <1>3, <1>4 DEF ManagerCall

LEMMA NextTechnician ==
    ASSUME MInv, NEW r \in Requests, Alone(r), TechnicianCall(r)
    PROVE  InMemory' /\ SnapshotsAreFresh'
<1> USE DEF MInv
<1>1. ASSUME NEW t \in Technicians, BeginTechnicianCall(r, t), UNCHANGED mem
      PROVE  InMemory' /\ SnapshotsAreFresh'
  <2>1. UNCHANGED <<status, details, assignments, history, notes, parts, approvals, mem>>
    BY <1>1 DEF BeginTechnicianCall, Begin, job
  <2> QED
    BY <1>1, <2>1, SnapshotBegins, MemoryFrame
<1>2. CASE Serve(StartTechnicianJob(r), MemStartable(call[r].tech), MemStartTechnicianJob)
  BY <1>2, StartAlike, SnapshotDone DEF Serve, StartTechnicianJob, MayStart
<1>3. CASE Serve(CompleteTechnicianJob(r), MemCompletable(call[r].tech), MemCompleteTechnicianJob)
  BY <1>3, CompleteAlike, SnapshotDone DEF Serve, CompleteTechnicianJob
<1>4. CASE Serve(CreatePartsRequest(r), RequireAssignedForParts(call[r].tech),
                 MemCreatePartsRequest(call[r].tech))
  BY <1>4, RequestAlike, SnapshotDone DEF Serve, CreatePartsRequest, MayRequestParts
<1>5. ASSUME NEW i \in DOMAIN parts,
             Serve(RespondToPartsRequest(r, i), MemAnswerable(call[r].tech, i),
                   MemRespondToPartsRequest(i))
      PROVE  InMemory' /\ SnapshotsAreFresh'
  BY <1>5, RespondAlike, SnapshotDone DEF Serve, RespondToPartsRequest, MayRespond
<1>6. CASE Serve(ResumeTechnicianJob(r), MemResumable(call[r].tech), MemResumeTechnicianJob)
  BY <1>6, ResumeAlike, SnapshotDone DEF Serve, ResumeTechnicianJob, MayResume
<1>7. CASE Refuse(r) /\ UNCHANGED mem
  BY <1>7, SnapshotDone, MemoryFrame DEF Refuse, job
<1> QED
  BY <1>1, <1>2, <1>3, <1>4, <1>5, <1>6, <1>7 DEF TechnicianCall

LEMMA NextLockstep ==
    ASSUME MInv, LockstepNext
    PROVE  InMemory' /\ SnapshotsAreFresh'
<1>1. ASSUME Between, OneStepCall PROVE InMemory' /\ SnapshotsAreFresh'
  <2>1. UNCHANGED call
    BY <1>1 DEF OneStepCall, Serve, CreateInternalJob, CancelInternalJob, MayCancel, AssignTechnician, MayAssign
  <2>2. InMemory'
    BY <1>1, CreateAlike, CancelAlike, AssignAlike DEF OneStepCall, MInv, TInv
  <2> QED
    BY <1>1, <2>1, <2>2, SnapshotBetween
<1>2. ASSUME NEW r \in Requests, Alone(r), Announce(r), UNCHANGED mem
      PROVE  InMemory' /\ SnapshotsAreFresh'
  BY <1>2, SnapshotDone, MemoryFrame DEF Announce, job, MInv
<1> QED
  BY <1>1, <1>2, NextManager, NextTechnician DEF LockstepNext

(* Documentation of the work. *)
LEMMA NextDocuments ==
    ASSUME MInv, NEW r \in Requests,
           DeleteTechnicianJobImage(r) \/ \E kind \in WorkKinds : Documents(r, kind)
    PROVE  InMemory' /\ SnapshotsAreFresh' /\ Documented'
<1>1. /\ call[r].at = "snapshot" /\ status = "IN_PROGRESS" /\ Done(r)
      /\ UNCHANGED <<status, details, assignments, history, notes, parts, approvals, mem>>
  BY DEF DeleteTechnicianJobImage, Documents, job
<1>2. InMemory'
  BY <1>1, MemoryFrame DEF MInv
<1>3. SnapshotsAreFresh'
  <2>1. \A x \in Requests : call'[x] = call[x] \/ call'[x].at = "idle"
    BY <1>1, IdleIsCall DEF Done, MInv, TInv, TypeOK
  <2>2. assigned' = assigned /\ Outstanding' = Outstanding
    BY <1>1 DEF assigned, Outstanding
  <2> QED
    BY <1>1, <2>1, <2>2 DEF SnapshotsAreFresh, Fresh, MInv
<1>4. MemRequireAssignedInProgress(call[r].tech) /\ call[r].tech \in Technicians
  BY <1>1, HasTheJob
     DEF MemRequireAssignedInProgress, MInv, InMemory, Holds, TInv, HandlersHoldWhatTheyNeed
<1>5. work \in [WorkKinds -> Technicians \cup {None}] /\ memWork = work
  BY DEF MInv, Documented
<1>6. ASSUME NEW kind \in WorkKinds, Documents(r, kind) PROVE Documented'
  BY <1>4, <1>5, <1>6 DEF Documents, Documented
<1>7. ASSUME DeleteTechnicianJobImage(r) PROVE Documented'
  <2>1. MemDeletable(call[r].tech)
    BY <1>4, <1>5, <1>7 DEF DeleteTechnicianJobImage, MemDeletable, MemRequireAssignedInProgress
  <2> QED
    BY <1>5, <1>7, <2>1 DEF DeleteTechnicianJobImage, Documented, WorkKinds
<1> QED
  BY <1>2, <1>3, <1>6, <1>7

LEMMA InitMemory == ApiInit => MInv
<1> SUFFICES ASSUME ApiInit PROVE MInv
  OBVIOUS
<1>1. TInv
  BY InitTypes DEF ApiInit
<1>2. /\ status = "ABSENT" /\ history = << >> /\ notes = 0 /\ parts = << >> /\ approvals = << >>
      /\ assignments = << >>
  BY DEF ApiInit, Init
<1>3. MemRows = << >>
  BY <1>2 DEF MemRows
<1>4. InMemory
  BY <1>2, <1>3 DEF ApiInit, MemInit, InMemory, Holds
<1>5. SnapshotsAreFresh
  BY IdleIsCall DEF ApiInit, Init, SnapshotsAreFresh
<1>6. Documented
  BY DEF ApiInit, NoWork, Documented
<1> QED
  BY <1>1, <1>4, <1>5, <1>6 DEF MInv

LEMMA NextMemory ==
    ASSUME MInv, [ApiNext]_apiVars
    PROVE  MInv'
<1>1. TInv'
  BY ApiStepIsStep, NextTypes DEF MInv
<1>2. CASE LockstepNext /\ UNCHANGED <<work, memWork>>
  BY <1>1, <1>2, NextLockstep DEF MInv, Documented
<1>3. ASSUME NEW r \in Requests,
             \/ CreateTechnicianJobImage(r) \/ CreateTechnicianVoiceNote(r)
             \/ CreateTechnicianJobUpdate(r) \/ DeleteTechnicianJobImage(r)
      PROVE  MInv'
  <2>1. DeleteTechnicianJobImage(r) \/ \E kind \in WorkKinds : Documents(r, kind)
    BY <1>3 DEF CreateTechnicianJobImage, CreateTechnicianVoiceNote, CreateTechnicianJobUpdate,
                WorkKinds
  <2> QED
    BY <1>1, <2>1, NextDocuments DEF MInv
<1>4. CASE UNCHANGED apiVars
  <2>1. UNCHANGED <<status, details, assignments, history, notes, parts, approvals, call, mem,
                    work, memWork>>
    BY <1>4 DEF apiVars, lockstep, vars
  <2>2. InMemory' /\ Documented'
    BY <2>1, MemoryFrame DEF MInv, Documented
  <2>3. SnapshotsAreFresh'
    BY <2>1 DEF MInv, SnapshotsAreFresh, Fresh, assigned, Outstanding
  <2> QED
    BY <1>1, <2>2, <2>3 DEF MInv
<1> QED
  BY <1>2, <1>3, <1>4 DEF ApiNext

-----------------------------------------------------------------------------
(* What the endpoints read of a job is the same on either store.           *)

LEMMA SameFields ==
    ASSUME MInv
    PROVE  /\ mem.status = status /\ mem.details = details /\ mem.history = history
           /\ mem.updates = notes /\ mem.parts = parts /\ mem.approvals = approvals
           /\ mem.rows = MemRows /\ memWork = work /\ TypeOK
BY DEF MInv, InMemory, Holds, Documented, TInv

LEMMA AssignedRows ==
    ASSUME MInv
    PROVE  [k \in DOMAIN mem.rows |-> mem.rows[k].tech] = assignments
<1>1. assignments = [k \in DOMAIN assignments |-> assignments[k]]
  BY DEF MInv, TInv, TypeOK
<1> QED
  BY <1>1, OpenAssignment DEF MInv, TInv

LEMMA StoresHoldTheSame ==
    ASSUME MInv
    PROVE  StoresAgree
<1>1. /\ OpenRows = IF assignments = << >> THEN {} ELSE {Len(assignments)}
      /\ \A k \in DOMAIN assignments : mem.rows[k].tech = assignments[k]
      /\ assigned # None <=> assignments # << >>
  BY OpenAssignment DEF MInv, TInv
<1>2. /\ DOMAIN assignments = 1..Len(assignments) /\ Len(assignments) \in Nat
      /\ assignments = << >> <=> Len(assignments) = 0
  BY SameFields DEF TypeOK
<1>3. CASE assignments = << >>
  <2>1. OpenRows = {} /\ assigned = None
    BY <1>1, <1>3
  <2>2. Cardinality(OpenRows) = 0
    BY <2>1, FS_EmptySet
  <2>3. {mem.rows[k].tech : k \in OpenRows} = {assigned} \ {None}
    BY <2>1
  <2> QED
    BY <2>2, <2>3, SameFields, AssignedRows DEF StoresAgree
<1>4. CASE assignments # << >>
  <2>1. OpenRows = {Len(assignments)} /\ assigned # None /\ assigned = assignments[Len(assignments)]
    BY <1>1, <1>4 DEF assigned
  <2>2. Cardinality(OpenRows) = 1
    BY <2>1, FS_Singleton
  <2>3. mem.rows[Len(assignments)].tech = assigned
    BY <1>1, <1>2, <1>4, <2>1
  <2>4. {mem.rows[k].tech : k \in OpenRows} = {assigned} \ {None}
    BY <2>1, <2>3
  <2> QED
    BY <2>2, <2>4, SameFields, AssignedRows DEF StoresAgree
<1> QED
  BY <1>3, <1>4

(* Who has the job, and when it has parts requests, by its status: nobody  *)
(* works on a job that was never assigned, and parts are asked for at work *)
(* only.                                                                   *)
Placed ==
    /\ status = "ABSENT" => assignments = << >>
    /\ status \in Working => assignments # << >>
    /\ \A r \in Requests : call[r].at = "snapshot" => assignments # << >>
    /\ parts # << >> => status \in Working \cup {"COMPLETED"}

LEMMA NextPlaced ==
    ASSUME TInv, Placed, [Next]_vars
    PROVE  Placed'
<1>1. parts \in Seq(PartsRow) /\ assignments \in Seq(Technicians)
  BY DEF TInv, TypeOK
<1>2. ASSUME UNCHANGED <<assignments, call>> \/ \E r \in Requests : Done(r) /\ UNCHANGED assignments
      PROVE  \A r \in Requests : call'[r].at = "snapshot" => assignments' # << >>
  BY <1>2, IdleIsCall DEF Done, TInv, TypeOK, Placed
<1>3. ASSUME NEW r \in Requests, NEW c, call' = [call EXCEPT ![r] = c],
             UNCHANGED assignments, c.at = "snapshot" => assignments # << >>
      PROVE  \A x \in Requests : call'[x].at = "snapshot" => assignments' # << >>
  BY <1>3 DEF TInv, TypeOK, Placed
<1>4. CASE CreateInternalJob
  BY <1>2, <1>4 DEF CreateInternalJob, Moves, Placed, Working
<1>5. CASE CancelInternalJob
  BY <1>2, <1>5 DEF CancelInternalJob, MayCancel, Moves, Placed, Working
<1>6. ASSUME NEW t \in Technicians, AssignTechnician(t) PROVE Placed'
  <2>1. assignments' # << >>
    BY <1>1, <1>6 DEF AssignTechnician, MayAssign
  <2> QED
    BY <1>6, <2>1 DEF AssignTechnician, MayAssign, Placed
<1>7. ASSUME NEW r \in Requests, NEW d \in Details, BeginUpdate(r, d) PROVE Placed'
  <2> DEFINE c == [Idle EXCEPT !.at = "update", !.details = d]
  <2>1. c.at = "update"
    BY DEF Idle
  <2>2. call' = [call EXCEPT ![r] = c] /\ UNCHANGED <<status, assignments, parts>>
    BY <1>7 DEF BeginUpdate, MayUpdate, Begin, job
  <2> HIDE DEF c
  <2> QED
    BY <1>3, <2>1, <2>2 DEF Placed
<1>8. ASSUME NEW r \in Requests, NEW t \in Technicians, BeginTechnicianCall(r, t) PROVE Placed'
  <2> DEFINE c == [Idle EXCEPT !.at = "snapshot", !.tech = t, !.working = status \in Working,
                               !.outstanding = Outstanding # {}]
  <2>1. call' = [call EXCEPT ![r] = c]
    BY <1>8 DEF BeginTechnicianCall, Begin
  <2> HIDE DEF c
  <2>2. assigned = t /\ UNCHANGED <<status, assignments, parts>>
    BY <1>8 DEF BeginTechnicianCall, Begin, job
  <2>3. assignments # << >>
    BY <2>2, NoneAssumption DEF assigned
  <2> QED
    BY <1>3, <2>1, <2>2, <2>3 DEF Placed
<1>9. ASSUME NEW r \in Requests, NEW i \in DOMAIN parts, NEW x \in Told, Owes(r, i, x),
             UNCHANGED assignments, DOMAIN parts' = DOMAIN parts, parts' \in Seq(PartsRow),
             status \in Working, status' \in Working
      PROVE  Placed'
  <2> DEFINE c == [Idle EXCEPT !.at = "announce", !.tech = parts[i].by, !.request = i, !.tells = x]
  <2>1. c.at = "announce"
    BY DEF Idle
  <2>2. call' = [call EXCEPT ![r] = c]
    BY <1>9 DEF Owes
  <2> HIDE DEF c
  <2> QED
    BY <1>3, <1>9, <2>1, <2>2 DEF Placed, Working
<1>10. ASSUME NEW r \in Requests, NEW i \in DOMAIN parts, MarkPartsAvailable(r, i) PROVE Placed'
  <2>1. parts' \in Seq(PartsRow) /\ DOMAIN parts' = DOMAIN parts
    BY <1>10, UpdateParts DEF MarkPartsAvailable, MayDeliver, TInv, PartsStatus, Told
  <2>2. status \in Working /\ status' \in Working
    BY <1>10 DEF MarkPartsAvailable, MayDeliver, Moves, Working
  <2>3. Owes(r, i, "PARTS_AVAILABLE") /\ UNCHANGED assignments /\ "PARTS_AVAILABLE" \in Told
    BY <1>10 DEF MarkPartsAvailable, MayDeliver, Told
  <2> QED
    BY <1>9, <2>1, <2>2, <2>3
<1>11. ASSUME NEW r \in Requests, NEW i \in DOMAIN parts, NEW m \in Managers,
              NEW decision \in Decision, ReviewPartsRequest(r, m, i, decision)
       PROVE  Placed'
  <2>1. parts' \in Seq(PartsRow) /\ DOMAIN parts' = DOMAIN parts
    BY <1>11, UpdateParts DEF ReviewPartsRequest, MayReview, TInv, PartsStatus, Told
  <2>2. status \in Working /\ status' \in Working
    BY <1>11 DEF ReviewPartsRequest, MayReview, Moves, Working
  <2>3. Owes(r, i, decision) /\ UNCHANGED assignments /\ decision \in Told
    BY <1>11 DEF ReviewPartsRequest, MayReview, Told
  <2> QED
    BY <1>9, <2>1, <2>2, <2>3
<1>12. ASSUME NEW r \in Requests, Done(r), UNCHANGED <<status, assignments, parts>> PROVE Placed'
  BY <1>2, <1>12 DEF Placed
<1>13. ASSUME NEW r \in Requests, StartTechnicianJob(r) PROVE Placed'
  BY <1>2, <1>13 DEF StartTechnicianJob, MayStart, Moves, Placed, Working
<1>14. ASSUME NEW r \in Requests, CompleteTechnicianJob(r) PROVE Placed'
  BY <1>2, <1>14 DEF CompleteTechnicianJob, Moves, Placed, Working
<1>15. ASSUME NEW r \in Requests, CreatePartsRequest(r) PROVE Placed'
  BY <1>2, <1>15 DEF CreatePartsRequest, MayRequestParts, Placed, job
<1>16. ASSUME NEW r \in Requests, NEW i \in DOMAIN parts, RespondToPartsRequest(r, i) PROVE Placed'
  BY <1>2, <1>16 DEF RespondToPartsRequest, MayRespond, Placed, job
<1>17. ASSUME NEW r \in Requests, ResumeTechnicianJob(r) PROVE Placed'
  BY <1>2, <1>17 DEF ResumeTechnicianJob, MayResume, Moves, Placed, Working
<1>18. ASSUME NEW r \in Requests,
              UpdateInternalJob(r) \/ Refuse(r) \/ Announce(r) \/ Die(r)
       PROVE  Placed'
  BY <1>12, <1>18 DEF UpdateInternalJob, Refuse, Announce, Die, job
<1>19. CASE UNCHANGED vars
  BY <1>19 DEF vars, Placed
<1> QED
  BY <1>4, <1>5, <1>6, <1>7, <1>8, <1>10, <1>11, <1>13, <1>14, <1>15, <1>16, <1>17, <1>18, <1>19
     DEF Next, Arrive, Proceed

LEMMA BoardsCount ==
    ASSUME MInv, Placed
    PROVE  BoardsCountTheirLists
<1>1. /\ mem.status = status /\ mem.details = details /\ status \in InternalJobStatus
      /\ MemAssigned <=> assigned # None
      /\ \A t : ActiveAssignment(t) <=> assigned = t /\ assignments # << >>
  BY SameFields, OpenAssignment DEF TypeOK, MInv, TInv
<1>2. status = "ABSENT" => assigned = None
  BY DEF Placed, assigned
<1>3. IsScheduledBoardRow <=> details \in Planned /\ status \in Startable
  BY <1>1 DEF IsScheduledBoardRow
<1>4. ASSUME NEW board \in Board
      PROVE  /\ BoardFilterSql(board) <=> MatchesBoardCategory(board)
             /\ CountBoardJobs[board] = Exactly(BoardFilterSql(board))
             /\ MemCountBoardJobs[board] = Exactly(MatchesBoardCategory(board))
  <2>1. BoardFilterSql(board) <=> MatchesBoardCategory(board)
    BY <1>1, <1>3 DEF BoardFilterSql, MatchesBoardCategory, Board
  <2>2. CountBoardJobs[board] = Exactly(BoardFilterSql(board))
    BY <1>2 DEF BoardFilterSql, CountBoardJobs, Board, Exactly, Terminal, Startable
  <2>3. MemCountBoardJobs[board] = Exactly(MatchesBoardCategory(board))
    BY <1>1, <1>2, <1>3 DEF MatchesBoardCategory, MemCountBoardJobs, Board, Exactly, Terminal, Startable
  <2> QED
    BY <2>1, <2>2, <2>3
<1>5. ASSUME NEW t \in Technicians PROVE ListsTechnicianJob(t) <=> MemListsTechnicianJob(t)
  BY <1>1, NoneAssumption DEF ListsTechnicianJob, MemListsTechnicianJob, assigned
<1> QED
  BY <1>4, <1>5 DEF BoardsCountTheirLists

(* A technician's id is never NULL. *)
LEMMA TechnicianIdsAreIds ==
    /\ None \notin TechnicianIds
    /\ Technicians \subseteq TechnicianIds
BY CallersAssumption, IdsAssumption DEF TechnicianIds

LEMMA SameJob ==
    ASSUME MInv, NEW j \in JobIds
    PROVE  /\ MemInternalJob(j) <=> Internal(j)
           /\ Internal(j) => MemTechnicianOf(j) = TechnicianOf(j)
           /\ MemStatusOf(j) = StatusOf(j)
           /\ MemHistoryOf(j) = HistoryOf(j)
           /\ MemAssignmentsOf(j) = AssignmentsOf(j)
           /\ MemPartsRequestsForJob(j) = MapPartsRequestsForJob(j)
           /\ MemWorkOf(j) = WorkOf(j)
           /\ MemUpdatesOf(j) = UpdatesOf(j)
<1>1. MemInternalJob(j) <=> Internal(j)
  BY SameFields DEF MemInternalJob, Internal, Exists, JobIds
<1>2. Internal(j) => MemTechnicianOf(j) = TechnicianOf(j)
  <2>1. /\ OpenRows = IF assignments = << >> THEN {} ELSE {Len(assignments)}
        /\ \A k \in DOMAIN assignments : mem.rows[k].tech = assignments[k]
        /\ MemAssigned <=> assignments # << >>
    BY OpenAssignment DEF MInv, TInv
  <2>2. assignments # << >> => Len(assignments) \in DOMAIN assignments
    BY SameFields DEF TypeOK
  <2>3. CASE j = "job"
    <3>1. CASE assignments = << >>
      BY <2>1, <2>3, <3>1 DEF MemTechnicianOf, TechnicianOf, assigned
    <3>2. CASE assignments # << >>
      <4>1. (CHOOSE k \in OpenRows : TRUE) = Len(assignments)
        BY <2>1, <3>2
      <4> QED
        BY <2>1, <2>2, <2>3, <3>2, <4>1 DEF MemTechnicianOf, TechnicianOf, assigned
    <3> QED
      BY <3>1, <3>2
  <2>4. CASE j = "theirs"
    BY <2>4 DEF MemTechnicianOf, TechnicianOf
  <2> QED
    BY <2>3, <2>4 DEF Internal, Exists, JobIds
<1>3. MemStatusOf(j) = StatusOf(j) /\ MemHistoryOf(j) = HistoryOf(j)
  BY SameFields DEF MemStatusOf, StatusOf, MemHistoryOf, HistoryOf
<1>4. MemAssignmentsOf(j) = AssignmentsOf(j)
  BY AssignedRows DEF MemAssignmentsOf, AssignmentsOf
<1>5. MemPartsRequestsForJob(j) = MapPartsRequestsForJob(j)
  BY SameFields DEF MemPartsRequestsForJob, MapPartsRequestsForJob, ToPartsRequestDto
<1>6. MemWorkOf(j) = WorkOf(j) /\ MemUpdatesOf(j) = UpdatesOf(j)
  BY SameFields DEF MemWorkOf, WorkOf, MemUpdatesOf, UpdatesOf
<1> QED
  BY <1>1, <1>2, <1>3, <1>4, <1>5, <1>6

LEMMA SameGuards ==
    ASSUME MInv, NEW j \in JobIds
    PROVE  /\ \A b : /\ GetInternalJob(b, j) = MemGetInternalJob(b, j)
                     /\ OwnedInternalJobId(b, j) = OwnedInternalJob(b, j)
           /\ \A t \in TechnicianIds : GetTechnicianJob(t, j) = MemGetTechnicianJob(t, j)
           /\ \A kind, k : MemJobOfRecord(kind, k) = JobOfRecord(kind, k)
           /\ \A k : MemPartsPhotoFor(j, k) = PartsPhotoFor(j, k)
<1>1. ASSUME NEW b
      PROVE  /\ GetInternalJob(b, j) = MemGetInternalJob(b, j)
             /\ OwnedInternalJobId(b, j) = OwnedInternalJob(b, j)
  BY SameJob DEF GetInternalJob, MemGetInternalJob, OwnedInternalJobId, OwnedInternalJob
<1>2. ASSUME NEW t \in TechnicianIds
      PROVE  GetTechnicianJob(t, j) = MemGetTechnicianJob(t, j)
  <2>1. /\ ActiveAssignment(t) <=> assigned = t /\ assignments # << >>
        /\ assignments = << >> => assigned = None
    BY OpenAssignment DEF MInv, TInv, assigned
  <2>2. ActiveAssignment(t) <=> assigned = t
    BY <2>1, TechnicianIdsAreIds
  <2>3. Internal(j) => j \in {"job", "theirs"}
    BY DEF Internal, Exists, JobIds
  <2>4. GetTechnicianJob(t, j) <=> MemGetTechnicianJob(t, j)
    BY <2>2, <2>3, SameJob DEF GetTechnicianJob, MemGetTechnicianJob, TechnicianOf
  <2> QED
    BY <2>4 DEF GetTechnicianJob, MemGetTechnicianJob
<1>3. \A kind, k : MemJobOfRecord(kind, k) = JobOfRecord(kind, k)
  BY SameFields DEF MemJobOfRecord, JobOfRecord
<1>4. \A k : MemPartsPhotoFor(j, k) = PartsPhotoFor(j, k)
  BY <1>3 DEF MemPartsPhotoFor, PartsPhotoFor
<1> QED
  BY <1>1, <1>2, <1>3, <1>4

LEMMA SameLists ==
    ASSUME MInv, NEW b
    PROVE  /\ ListInternalJobs(b) = MemListInternalJobs(b)
           /\ CountInternalJobsByStatus(b) = MemCountInternalJobsByStatus(b)
<1>1. \A j \in JobIds : GetInternalJob(b, j) <=> MemGetInternalJob(b, j)
  BY SameGuards
<1>2. MemOutstandingRequests = Outstanding
  BY SameFields DEF MemOutstandingRequests, Outstanding
<1>3. ASSUME NEW j \in JobIds, GetInternalJob(b, j) PROVE ToBoardJobDto(j) = EnrichBoardJobs(j)
  <2>1. Internal(j)
    BY <1>3 DEF GetInternalJob
  <2> QED
    BY <1>2, <2>1, SameJob, SameFields DEF ToBoardJobDto, EnrichBoardJobs
<1>4. ListInternalJobs(b) = MemListInternalJobs(b)
  BY <1>1, <1>3 DEF ListInternalJobs, MemListInternalJobs
<1>5. ASSUME NEW s
      PROVE  {j \in JobIds : GetInternalJob(b, j) /\ StatusOf(j) = s}
               = {j \in JobIds : MemGetInternalJob(b, j) /\ MemStatusOf(j) = s}
  BY <1>1, SameJob
<1>6. CountInternalJobsByStatus(b) = MemCountInternalJobsByStatus(b)
  BY <1>5 DEF CountInternalJobsByStatus, MemCountInternalJobsByStatus
<1> QED
  BY <1>4, <1>6

LEMMA SameManagerReads ==
    ASSUME MInv, NEW j \in JobIds, NEW b, NEW k
    PROVE  /\ ListInternalJobHistory(b, j) = MemListInternalJobHistory(b, j)
           /\ GetActiveJobAssignment(b, j) = MemGetActiveJobAssignment(b, j)
           /\ ListJobAssignmentHistory(b, j) = MemListJobAssignmentHistory(b, j)
           /\ ListBusinessJobImages(b, j) = MemListBusinessJobImages(b, j)
           /\ ListBusinessVoiceNotes(b, j) = MemListBusinessVoiceNotes(b, j)
           /\ ListBusinessJobUpdates(b, j) = MemListBusinessJobUpdates(b, j)
           /\ ListBusinessPartsRequests(b, j) = MemListBusinessPartsRequests(b, j)
           /\ GetBusinessJobImageFile(b, j, k) = MemGetBusinessJobImageFile(b, j, k)
           /\ GetBusinessVoiceNoteFile(b, j, k) = MemGetBusinessVoiceNoteFile(b, j, k)
           /\ GetBusinessPartsRequest(b, j, k) = MemGetBusinessPartsRequest(b, j, k)
           /\ GetBusinessPartsRequestPhotoFile(b, j, k) = MemGetBusinessPartsRequestPhotoFile(b, j, k)
<1>1. /\ GetInternalJob(b, j) = MemGetInternalJob(b, j)
      /\ OwnedInternalJobId(b, j) = OwnedInternalJob(b, j)
  BY SameGuards
<1>2. /\ ListInternalJobHistory(b, j) = MemListInternalJobHistory(b, j)
      /\ ListJobAssignmentHistory(b, j) = MemListJobAssignmentHistory(b, j)
  BY <1>1, SameJob DEF ListInternalJobHistory, MemListInternalJobHistory,
                       ListJobAssignmentHistory, MemListJobAssignmentHistory
<1>3. GetActiveJobAssignment(b, j) = MemGetActiveJobAssignment(b, j)
  <2>1. GetInternalJob(b, j) => Internal(j)
    BY DEF GetInternalJob
  <2> QED
    BY <1>1, <2>1, SameJob DEF GetActiveJobAssignment, MemGetActiveJobAssignment, Given
<1>4. /\ ListBusinessJobImages(b, j) = MemListBusinessJobImages(b, j)
      /\ ListBusinessVoiceNotes(b, j) = MemListBusinessVoiceNotes(b, j)
      /\ ListBusinessJobUpdates(b, j) = MemListBusinessJobUpdates(b, j)
      /\ ListBusinessPartsRequests(b, j) = MemListBusinessPartsRequests(b, j)
  BY <1>1, SameJob
     DEF ListBusinessJobImages, MemListBusinessJobImages, ListBusinessVoiceNotes,
         MemListBusinessVoiceNotes, ListBusinessJobUpdates, MemListBusinessJobUpdates,
         ListBusinessPartsRequests, MemListBusinessPartsRequests
<1>5. /\ GetBusinessJobImageFile(b, j, k) = MemGetBusinessJobImageFile(b, j, k)
      /\ GetBusinessVoiceNoteFile(b, j, k) = MemGetBusinessVoiceNoteFile(b, j, k)
      /\ GetBusinessPartsRequest(b, j, k) = MemGetBusinessPartsRequest(b, j, k)
      /\ GetBusinessPartsRequestPhotoFile(b, j, k) = MemGetBusinessPartsRequestPhotoFile(b, j, k)
  BY <1>1, SameGuards
     DEF GetBusinessJobImageFile, MemGetBusinessJobImageFile, GetBusinessVoiceNoteFile,
         MemGetBusinessVoiceNoteFile, GetBusinessPartsRequest, MemGetBusinessPartsRequest,
         GetBusinessPartsRequestPhotoFile, MemGetBusinessPartsRequestPhotoFile
<1> QED
  BY <1>2, <1>3, <1>4, <1>5

LEMMA SameTechnicianReads ==
    ASSUME MInv, NEW j \in JobIds, NEW t \in TechnicianIds, NEW k
    PROVE  /\ ListTechnicianJobHistory(t, j) = MemListTechnicianJobHistory(t, j)
           /\ ListTechnicianJobAssignmentEvents(t, j) = MemListTechnicianJobAssignmentEvents(t, j)
           /\ ListTechnicianJobImages(t, j) = MemListTechnicianJobImages(t, j)
           /\ ListTechnicianVoiceNotes(t, j) = MemListTechnicianVoiceNotes(t, j)
           /\ ListTechnicianJobUpdates(t, j) = MemListTechnicianJobUpdates(t, j)
           /\ ListTechnicianPartsRequests(t, j) = MemListTechnicianPartsRequests(t, j)
           /\ GetTechnicianJobImageFile(t, j, k) = MemGetTechnicianJobImageFile(t, j, k)
           /\ GetTechnicianVoiceNoteFile(t, j, k) = MemGetTechnicianVoiceNoteFile(t, j, k)
           /\ GetTechnicianPartsRequest(t, j, k) = MemGetTechnicianPartsRequest(t, j, k)
           /\ GetTechnicianPartsRequestPhotoFile(t, j, k) = MemGetTechnicianPartsRequestPhotoFile(t, j, k)
<1>1. GetTechnicianJob(t, j) = MemGetTechnicianJob(t, j)
  BY SameGuards
<1>2. /\ ListTechnicianJobHistory(t, j) = MemListTechnicianJobHistory(t, j)
      /\ ListTechnicianJobAssignmentEvents(t, j) = MemListTechnicianJobAssignmentEvents(t, j)
      /\ ListTechnicianPartsRequests(t, j) = MemListTechnicianPartsRequests(t, j)
  BY <1>1, SameJob
     DEF ListTechnicianJobHistory, MemListTechnicianJobHistory,
         ListTechnicianJobAssignmentEvents, MemListTechnicianJobAssignmentEvents,
         ListTechnicianPartsRequests, MemListTechnicianPartsRequests
<1>3. /\ ListTechnicianJobImages(t, j) = MemListTechnicianJobImages(t, j)
      /\ ListTechnicianVoiceNotes(t, j) = MemListTechnicianVoiceNotes(t, j)
      /\ ListTechnicianJobUpdates(t, j) = MemListTechnicianJobUpdates(t, j)
  BY <1>1, SameJob
     DEF ListTechnicianJobImages, MemListTechnicianJobImages, ListTechnicianVoiceNotes,
         MemListTechnicianVoiceNotes, ListTechnicianJobUpdates, MemListTechnicianJobUpdates
<1>4. /\ GetTechnicianJobImageFile(t, j, k) = MemGetTechnicianJobImageFile(t, j, k)
      /\ GetTechnicianVoiceNoteFile(t, j, k) = MemGetTechnicianVoiceNoteFile(t, j, k)
      /\ GetTechnicianPartsRequest(t, j, k) = MemGetTechnicianPartsRequest(t, j, k)
      /\ GetTechnicianPartsRequestPhotoFile(t, j, k) = MemGetTechnicianPartsRequestPhotoFile(t, j, k)
  BY <1>1, SameGuards
     DEF GetTechnicianJobImageFile, MemGetTechnicianJobImageFile, GetTechnicianVoiceNoteFile,
         MemGetTechnicianVoiceNoteFile, GetTechnicianPartsRequest, MemGetTechnicianPartsRequest,
         GetTechnicianPartsRequestPhotoFile, MemGetTechnicianPartsRequestPhotoFile
<1> QED
  BY <1>2, <1>3, <1>4

LEMMA SameTimeline ==
    ASSUME MInv, NEW j \in JobIds
    PROVE  Timeline(j) = MemTimeline(j)
BY SameJob DEF Timeline, MemTimeline

(* Whatever calls were made, in whatever order, everything the endpoints   *)
(* read is the same on the tables and in the in-memory store: of any       *)
(* number of technicians, requests, decisions and accounts.                *)
THEOREM StoresReadAlike == ApiSpec => []ReadsAgree
<1>1. ApiInit => MInv /\ Placed
  BY InitMemory DEF ApiInit, Init, Placed, Working, Idle
<1>2. MInv /\ Placed /\ [ApiNext]_apiVars => MInv' /\ Placed'
  BY NextMemory, ApiStepIsStep, NextPlaced DEF MInv
<1>3. MInv /\ Placed => ReadsAgree
  <2> SUFFICES ASSUME MInv, Placed PROVE ReadsAgree
    OBVIOUS
  <2>1. StoresAgree /\ BoardsCountTheirLists
    BY StoresHoldTheSame, BoardsCount
  <2>2. \A b : /\ ListInternalJobs(b) = MemListInternalJobs(b)
               /\ CountInternalJobsByStatus(b) = MemCountInternalJobsByStatus(b)
    BY SameLists
  <2> QED
    BY <2>1, <2>2, SameTimeline, SameGuards, SameManagerReads, SameTechnicianReads DEF ReadsAgree
<1> QED
  BY <1>1, <1>2, <1>3, PTL DEF ApiSpec

-----------------------------------------------------------------------------
(* The screens.  A reply is 200 once every check before it lets it pass,   *)
(* so each check is stated once for whoever has the job or manages it.     *)

LEMMA TechnicianPasses ==
    ASSUME NEW t \in Technicians, assigned = t, status # "ABSENT", NEW reply
    PROVE  /\ ResolveTechnician(t, reply) = reply
           /\ GetTechnicianJob(t, "job")
           /\ TechnicianJob(t, "job", reply) = reply
<1>1. ResolveTechnician(t, reply) = reply
  BY CallersAssumption, IdsAssumption DEF ResolveTechnician, Membership, Found
<1>2. GetTechnicianJob(t, "job")
  BY DEF GetTechnicianJob, Internal, Exists, TechnicianOf
<1> QED
  BY <1>1, <1>2 DEF TechnicianJob, Numeric, Found

LEMMA ManagerPasses ==
    ASSUME NEW m \in Managers, status # "ABSENT", NEW reply
    PROVE  /\ Manages[m] = "here"
           /\ ResolveManagement(m, reply) = reply
           /\ GetInternalJob("here", "job") /\ OwnedInternalJobId("here", "job")
           /\ OwnedJob(m, "job", reply) = reply
<1>1. ResolveManagement(m, reply) = reply
  BY CallersAssumption, IdsAssumption DEF ResolveManagement, IsManager, ManagerRoles, Found
<1>2. GetInternalJob("here", "job") /\ OwnedInternalJobId("here", "job")
  BY DEF GetInternalJob, OwnedInternalJobId, Internal, Exists, BusinessOf
<1> QED
  BY <1>1, <1>2, CallersAssumption DEF OwnedJob, Numeric, Found

(* The rows a screen lists are rows of the job. *)
LEMMA ListedRows ==
    ASSUME TypeOK
    PROVE  /\ \A k \in PartsRows : /\ k = "ours" /\ JobOfRecord("parts", k) = "job"
                                   /\ parts # << >> /\ PartsOf(k) = parts[1]
           /\ \A kind \in WorkKinds : \A k \in Held(kind) : k = "ours" /\ JobOfRecord(kind, k) = "job"
BY DEF PartsRows, Held, JobOfRecord, PartsOf, WorkKinds

LEMMA TechnicianOffers ==
    ASSUME MInv, NEW t \in Technicians, assigned = t, status # "ABSENT"
    PROVE  /\ TechnicianScreen(t) = {200}
           /\ PhotoButtons(t) \subseteq {IF work.image = t THEN 200 ELSE 403}
<1> USE DEF Permitted, Found, Valid
<1>1. /\ ListMyJobs(t) = 200 /\ GetMyJob(t, "job") = 200
      /\ CanStart => StartMyJob(t) = 200
  BY TechnicianPasses
     DEF ListMyJobs, ListTechnicianJobsReply, GetMyJob, GetTechnicianJobReply, StartMyJob,
         StartTechnicianJobReply, CanStart, Startable, StatusOf, Numeric
<1>2. LoadWork(t) = {200}
  BY TechnicianPasses
     DEF LoadWork, ListMyJobImages, ListMyJobUpdates, ListMyJobVoiceNotes, ListMyJobPartsRequests,
         GetMyJobExecutionTimeline, ListTechnicianImagesReply, ListTechnicianUpdatesReply,
         ListTechnicianVoiceNotesReply, ListTechnicianPartsRequestsReply,
         GetTechnicianExecutionTimelineReply
<1>3. \A k \in Held("image") : FetchMyJobImageBlob(t, k) = 200
  BY TechnicianPasses, ListedRows
     DEF FetchMyJobImageBlob, GetTechnicianImageFileReply, GetTechnicianJobImageFile, Numeric,
         WorkKinds, MInv, TInv
<1>4. \A k \in Held("voice") : FetchMyJobVoiceNoteBlob(t, k) = 200
  BY TechnicianPasses, ListedRows
     DEF FetchMyJobVoiceNoteBlob, GetTechnicianVoiceNoteFileReply, GetTechnicianVoiceNoteFile, Numeric,
         WorkKinds, MInv, TInv
<1>5. \A k \in PartsRows : FetchMyJobPartsPhotoBlob(t, k) = 200
  BY TechnicianPasses, ListedRows
     DEF FetchMyJobPartsPhotoBlob, GetTechnicianPartsPhotoFileReply,
         GetTechnicianPartsRequestPhotoFile, PartsPhotoFor, Numeric, MInv, TInv
<1>6. IsWorkEditable => /\ UploadMyJobImage(t) = 200 /\ CreateMyJobUpdate(t) = 200
                        /\ UploadMyJobVoiceNote(t) = 200
  BY TechnicianPasses
     DEF IsWorkEditable, UploadMyJobImage, CreateMyJobUpdate, UploadMyJobVoiceNote,
         UploadTechnicianImageReply, CreateTechnicianUpdateReply, UploadTechnicianVoiceNoteReply,
         Documenting, StatusOf
<1>7. ASSUME IsWorkEditable, NEW k \in Held("image")
      PROVE  DeleteMyJobImage(t, k) = IF work.image = t THEN 200 ELSE 403
  <2>1. k = "ours" /\ JobOfRecord("image", k) = "job"
    BY ListedRows DEF WorkKinds, MInv, TInv
  <2> QED
    BY <1>7, <2>1, TechnicianPasses
       DEF IsWorkEditable, DeleteMyJobImage, DeleteTechnicianImageReply, StatusOf, WorkOf, Numeric
<1>8. /\ CanComplete => CompleteMyJob(t) = 200
      /\ IsAwaitingParts /\ AllPartsAvailable => ResumeMyJob(t) = 200
      /\ CanRequestParts => CreateMyJobPartsRequest(t) = 200
  BY TechnicianPasses
     DEF CanComplete, CompleteMyJob, CompleteTechnicianJobReply, StatusOf, IsAwaitingParts,
         AllPartsAvailable, ResumeMyJob, ResumeTechnicianJobReply, Outstanding, CanRequestParts,
         CreateMyJobPartsRequest, CreateTechnicianPartsRequestReply, Working
<1>9. \A k \in PartsRows : CanRespond(k) => RespondToMyJobPartsRequest(t, k) = 200
  BY TechnicianPasses, ListedRows
     DEF CanRespond, RespondToMyJobPartsRequest, RespondToPartsRequestReply, Numeric, MInv, TInv
<1> QED
  BY <1>1, <1>2, <1>3, <1>4, <1>5, <1>6, <1>7, <1>8, <1>9
     DEF TechnicianScreen, PhotoButtons, Offer, LoadPhotoBlobs, LoadVoiceBlobs, LoadPartsPhotoBlobs

LEMMA ManagerOffers ==
    ASSUME MInv, Placed, NEW m \in Managers, status # "ABSENT"
    PROVE  /\ LoadBoard(m) \cup ManagerScreen(m) = {200}
           /\ PartsButtons(m) \subseteq {IF status = "COMPLETED" THEN 422 ELSE 200}
<1> USE DEF Permitted, Found, Valid
<1>1. GetBusinessJob(m, "job") = 200 /\ GetJobAssignment(m) = 200
  BY ManagerPasses DEF GetBusinessJob, GetInternalJobReply, GetJobAssignment, GetJobAssignmentReply
<1>2. CanManage => /\ Save(m) = 200 /\ CancelJob(m) = 200
                   /\ \A t \in ActiveTechnicians(m) : Assign(m, t) = 200
  BY ManagerPasses
     DEF CanManage, Save, UpdateBusinessJob, UpdateInternalJobReply, CancelJob, CancelBusinessJob,
         CancelInternalJobReply, StatusOf, Numeric, Assign, AssignTechnicianCall,
         AssignTechnicianReply, ActiveTechnicians
<1>3. LoadExecution(m) = {200}
  BY ManagerPasses
     DEF LoadExecution, ListBusinessJobImagesCall, ListBusinessJobUpdatesCall,
         ListBusinessVoiceNotesCall, ListBusinessJobPartsRequests, GetBusinessExecutionTimeline,
         ListBusinessJobImagesReply, ListBusinessJobUpdatesReply, ListBusinessVoiceNotesReply,
         ListBusinessPartsRequestsReply, GetBusinessExecutionTimelineReply
<1>4. /\ \A k \in Held("image") : FetchBusinessJobImageBlob(m, k) = 200
      /\ \A k \in Held("voice") : FetchBusinessJobVoiceNoteBlob(m, k) = 200
  BY ManagerPasses, ListedRows
     DEF FetchBusinessJobImageBlob, GetBusinessJobImageFileReply, GetBusinessJobImageFile,
         FetchBusinessJobVoiceNoteBlob, GetBusinessVoiceNoteFileReply, GetBusinessVoiceNoteFile,
         Numeric, WorkKinds, MInv, TInv
<1>5. \A k \in PartsRows : FetchBusinessJobPartsPhotoBlob(m, k) = 200
  BY ManagerPasses, ListedRows
     DEF FetchBusinessJobPartsPhotoBlob, GetBusinessPartsPhotoFileReply,
         GetBusinessPartsRequestPhotoFile, PartsPhotoFor, Numeric, MInv, TInv
<1>6. ASSUME ExecutionShown, NEW k \in PartsRows
      PROVE  LET answer == IF status = "COMPLETED" THEN 422 ELSE 200
             IN  /\ CanDecide(k) => ConfirmDecision(m, k) = answer
                 /\ CanMarkAvailable(k) => MarkAvailable(m, k) = answer
  <2>1. parts # << >> /\ k = "ours" /\ JobOfRecord("parts", k) = "job" /\ PartsOf(k) = parts[1]
    BY <1>6, ListedRows DEF MInv, TInv
  <2>2. /\ status # "COMPLETED" => status \in Working /\ TechnicianOf("job") # None
        /\ status = "COMPLETED" => status \notin Working
    <3>1. status # "COMPLETED" => status \in Working /\ assignments # << >>
      BY <1>6, <2>1 DEF Placed, ExecutionShown
    <3> QED
      BY <3>1, OpenAssignment DEF TechnicianOf, MInv, TInv, Working
  <2>3. PartsOf(k).by # m
    <3>1. parts[1] \in PartsRow
      BY <2>1 DEF MInv, TInv, TypeOK
    <3> QED
      BY <2>1, <3>1, CallersAssumption DEF PartsRow
  <2> QED
    BY <1>6, <2>1, <2>2, <2>3, ManagerPasses
       DEF CanDecide, ConfirmDecision, DecideJobPartsRequest, DecidePartsRequestReply,
           CanMarkAvailable, MarkAvailable, MarkJobPartsAvailable, MarkPartsAvailableReply,
           GetBusinessPartsRequest, Reviewable, StatusOf, Numeric
<1>7. LoadBoard(m) = {200}
  <2>1. \A row \in ListInternalJobs("here") : GetBusinessJob(m, row[1]) = 200
    <3>1. ASSUME NEW j \in JobIds, GetInternalJob("here", j) PROVE GetBusinessJob(m, j) = 200
      BY <3>1, ManagerPasses DEF GetBusinessJob, GetInternalJobReply, OwnedJob, Numeric, JobIds
    <3> QED
      BY <3>1 DEF ListInternalJobs
  <2> QED
    BY <2>1, ManagerPasses
       DEF LoadBoard, ListBoardJobs, ListInternalJobsReply, GetBusinessBoardSummary,
           GetBoardJobsSummaryReply, ListTechniciansReply
<1>8. ManagerScreen(m) = {200}
  BY <1>1, <1>2, <1>3, <1>4, <1>5
     DEF ManagerScreen, Offer, LoadExecBlobs, LoadExecPartsPhotoBlobs
<1>9. PartsButtons(m) \subseteq {IF status = "COMPLETED" THEN 422 ELSE 200}
  BY <1>6 DEF PartsButtons, Offer
<1> QED
  BY <1>7, <1>8, <1>9

(* Every button a screen of an internal job shows, and every row it opens, *)
(* is answered 200 to whoever has the job or manages it, but for another's *)
(* photo (403) and the parts of a completed job (422).                     *)
THEOREM OffersAreAnswered == ApiSpec => []OffersMeetAnswers
<1>1. ApiInit => MInv /\ Placed
  BY InitMemory DEF ApiInit, Init, Placed, Working, Idle
<1>2. MInv /\ Placed /\ [ApiNext]_apiVars => MInv' /\ Placed'
  BY NextMemory, ApiStepIsStep, NextPlaced DEF MInv
<1>3. MInv /\ Placed => OffersMeetAnswers
  BY TechnicianOffers, ManagerOffers DEF OffersMeetAnswers
<1> QED
  BY <1>1, <1>2, <1>3, PTL DEF ApiSpec

-----------------------------------------------------------------------------
(* What the service lets through the store accepts, and conversely.        *)

LEMMA SnapshotIsOfTheJob ==
    ASSUME MInv, Placed, NEW r \in Requests, call[r].at = "snapshot"
    PROVE  /\ call[r].tech \in Technicians /\ assigned = call[r].tech /\ status # "ABSENT"
           /\ ActiveAssignment(call[r].tech)
           /\ MayRequestParts(r) <=> status \in Working
           /\ MayResume(r) <=> status = "AWAITING_PARTS" /\ Outstanding = {}
<1>1. /\ call[r].tech \in Technicians /\ assigned = call[r].tech /\ ActiveAssignment(call[r].tech)
      /\ call[r].working <=> status \in Working
      /\ call[r].outstanding <=> Outstanding # {}
  BY HasTheJob DEF MInv, SnapshotsAreFresh, Fresh, TInv, HandlersHoldWhatTheyNeed
<1>2. assignments # << >>
  BY <1>1, NoneAssumption DEF assigned
<1>3. status # "ABSENT"
  BY <1>2 DEF Placed
<1> QED
  BY <1>1, <1>3 DEF MayRequestParts, MayResume

(* The two stores, transaction by transaction. *)
LEMMA StoresAnswerAlike ==
    ASSUME MInv, Placed
    PROVE  SameAnswers
<1>1. mem.status = status /\ mem.parts = parts
  BY SameFields
<1>2. /\ MayCancel <=> MemCancellable
      /\ \A i \in DOMAIN parts :
            /\ MayDeliver(i) <=> MemDeliverable(i)
            /\ \A m \in Managers : MayReview(m, i) <=> MemReviewable(m, i)
  BY <1>1, OpenAssignment
     DEF MayCancel, MemCancellable, MayDeliver, MemDeliverable, Outstanding, MayReview,
         MemReviewable, MInv, TInv
<1>3. ASSUME NEW r \in Requests, call[r].at = "snapshot"
      PROVE  /\ MayStart <=> MemStartable(call[r].tech)
             /\ Completable <=> MemCompletable(call[r].tech)
             /\ MayResume(r) <=> MemResumable(call[r].tech)
             /\ MayRequestParts(r) <=> RequireAssignedForParts(call[r].tech)
             /\ \A i \in DOMAIN parts : MayRespond(i) <=> MemAnswerable(call[r].tech, i)
  BY <1>1, <1>3, SnapshotIsOfTheJob, MemOutstandingIs
     DEF MayStart, MemStartable, Completable, MemCompletable, MemResumable,
         RequireAssignedForParts, MayRespond, MemAnswerable, MInv
<1> QED
  BY <1>2, <1>3 DEF SameAnswers

(* The service's checks of a manager's call, and its transaction. *)
LEMMA ManagerIsAnswered ==
    ASSUME MInv, Placed, NEW m \in Managers
    PROVE  ManagerAnswersAgree(m)
<1> USE DEF Permitted, Found, Valid
<1>1. /\ Manages[m] = "here"
      /\ \A reply : ResolveManagement(m, reply) = reply
      /\ \A reply : Numeric({"job"}, reply) = reply
      /\ \A reply : Numeric({"job", "ours"}, reply) = reply
      /\ GetInternalJob("here", "job") <=> status # "ABSENT"
  BY CallersAssumption, IdsAssumption
     DEF ResolveManagement, IsManager, ManagerRoles, Numeric, GetInternalJob, Internal, Exists,
         BusinessOf
<1>2. /\ UpdateInternalJobReply(m, "job", TRUE) = 200 <=> MayUpdate
      /\ CancelInternalJobReply(m, "job", TRUE) = 200 <=> MayCancel
  BY <1>1 DEF UpdateInternalJobReply, CancelInternalJobReply, MayUpdate, MayCancel, StatusOf
<1>3. ASSUME NEW t \in Technicians
      PROVE  AssignTechnicianReply(m, "job", t, TRUE) = 200 <=> MayAssign
  BY <1>1, CallersAssumption, IdsAssumption DEF AssignTechnicianReply, Rostered, MayAssign
<1>4. ASSUME parts # << >>
      PROVE  /\ MarkPartsAvailableReply(m, "job", "ours", TRUE) = 200 <=> MayDeliver(1)
             /\ DecidePartsRequestReply(m, "job", "ours", TRUE) = 200 <=> MayReview(m, 1)
  <2>1. /\ status # "ABSENT" /\ 1 \in DOMAIN parts /\ PartsOf("ours") = parts[1]
        /\ GetBusinessPartsRequest("here", "job", "ours")
        /\ StatusOf("job") = status /\ TechnicianOf("job") = assigned
    BY <1>4
       DEF Placed, Working, PartsOf, GetBusinessPartsRequest, OwnedInternalJobId, Internal, Exists,
           BusinessOf, JobOfRecord, StatusOf, TechnicianOf, MInv, TInv, TypeOK
  <2> QED
    BY <1>1, <2>1
       DEF MarkPartsAvailableReply, DecidePartsRequestReply, MayDeliver, MayReview, Outstanding
<1> QED
  BY <1>2, <1>3, <1>4 DEF ManagerAnswersAgree

(* The service's checks of a technician's call, and its transaction. *)
LEMMA TechnicianIsAnswered ==
    ASSUME MInv, Placed, NEW r \in Requests, call[r].at = "snapshot"
    PROVE  TechnicianAnswersAgree(r)
<1>0. PICK t : t = call[r].tech
  OBVIOUS
<1> USE DEF Permitted, Found, Valid
<1>1. /\ t \in Technicians /\ ActiveAssignment(t)
      /\ MayRequestParts(r) <=> status \in Working
      /\ MayResume(r) <=> status = "AWAITING_PARTS" /\ Outstanding = {}
      /\ mem.status = status /\ memWork = work
  BY <1>0, SnapshotIsOfTheJob, SameFields
<1>2. /\ \A reply : ResolveTechnician(t, reply) = reply /\ TechnicianJob(t, "job", reply) = reply
      /\ GetTechnicianJob(t, "job")
      /\ \A id \in {"job", "ours"} : \A reply : Numeric({id}, reply) = reply
  BY <1>0, SnapshotIsOfTheJob, TechnicianPasses DEF Numeric
<1>3. /\ StartTechnicianJobReply(t, "job") = 200 <=> MayStart
      /\ CompleteTechnicianJobReply(t, "job", TRUE) = 200 <=> Completable
      /\ ResumeTechnicianJobReply(t, "job") = 200 <=> MayResume(r)
      /\ CreateTechnicianPartsRequestReply(t, "job", TRUE) = 200 <=> MayRequestParts(r)
  BY <1>1, <1>2
     DEF StartTechnicianJobReply, MayStart, CompleteTechnicianJobReply, Completable,
         ResumeTechnicianJobReply, CreateTechnicianPartsRequestReply, StatusOf
<1>4. ASSUME parts # << >>
      PROVE  RespondToPartsRequestReply(t, "job", "ours", TRUE) = 200 <=> MayRespond(1)
  BY <1>2, <1>4 DEF RespondToPartsRequestReply, JobOfRecord, PartsOf, MayRespond
<1>5. UploadTechnicianImageReply(t, "job", TRUE) = 200 <=> MemRequireAssignedInProgress(t)
  BY <1>1, <1>2
     DEF UploadTechnicianImageReply, Documenting, MemRequireAssignedInProgress, StatusOf
<1>6. DeleteTechnicianImageReply(t, "job", "ours") = 200 <=> MemDeletable(t)
  <2>1. work.image = t => JobOfRecord("image", "ours") = "job"
    BY <1>1, NoneAssumption DEF JobOfRecord
  <2> QED
    BY <1>1, <1>2, <2>1 DEF DeleteTechnicianImageReply, MemDeletable, StatusOf, WorkOf
<1> QED
  BY <1>0, <1>3, <1>4, <1>5, <1>6 DEF TechnicianAnswersAgree

(* A well-formed call is answered 200 exactly when the transaction of the  *)
(* MySQL store would go through, and the in-memory store's own checks say  *)
(* the same, for any number of managers, technicians and parts requests.   *)
THEOREM ServiceAnswersForBothStores == ApiSpec => []AnswersAgree
<1>1. ApiInit => MInv /\ Placed
  BY InitMemory DEF ApiInit, Init, Placed, Working, Idle
<1>2. MInv /\ Placed /\ [ApiNext]_apiVars => MInv' /\ Placed'
  BY NextMemory, ApiStepIsStep, NextPlaced DEF MInv
<1>3. MInv /\ Placed => AnswersAgree
  BY StoresAnswerAlike, ManagerIsAnswered, TechnicianIsAnswered DEF AnswersAgree
<1> QED
  BY <1>1, <1>2, <1>3, PTL DEF ApiSpec

-----------------------------------------------------------------------------
(* Unknown ids.  A caller to whom a job is as good as nowhere gets, from   *)
(* every handler, what a job that is nowhere gets.                         *)

LEMMA IdsAreNumbers ==
    /\ \A x \in TechnicianIds \cup CustomerIds : x # "garbled"
    /\ \A j \in JobIds : j # "garbled" /\ j # None
BY IdsAssumption DEF TechnicianIds, CustomerIds, JobIds

LEMMA PersonUnknown ==
    ASSUME NEW u \in Callers, NEW ok \in BOOLEAN, NEW x \in (TechnicianIds \ {u}) \cup CustomerIds,
           x \in Callers => WorksFor[x] # Manages[u], x \notin ClientsOf(Manages[u])
    PROVE  PersonHandlers(u, x, ok) = PersonHandlers(u, "nowhere", ok)
<1>1. /\ x # "garbled" /\ "nowhere" # "garbled"
      /\ ~Rostered(Manages[u], x) /\ ~Rostered(Manages[u], "nowhere")
      /\ x # u /\ u # "nowhere" /\ "nowhere" \notin ClientsOf(Manages[u])
  BY IdsAreNumbers, IdsAssumption DEF Rostered, CustomerIds, ClientsOf
<1>2. \A reply : Numeric({x}, reply) = reply /\ Numeric({"nowhere"}, reply) = reply
  BY <1>1 DEF Numeric
<1>3. GetTechnicianReply(u, x) = GetTechnicianReply(u, "nowhere")
  BY <1>1, <1>2 DEF GetTechnicianReply, Found
<1>4. UpdateTechnicianReply(u, x, ok) = UpdateTechnicianReply(u, "nowhere", ok)
  BY <1>1, <1>2 DEF UpdateTechnicianReply, Found
<1>5. /\ GetBusinessCustomerReply(u, x) = GetBusinessCustomerReply(u, "nowhere")
      /\ UpdateBusinessCustomerReply(u, x, ok) = UpdateBusinessCustomerReply(u, "nowhere", ok)
  BY <1>1, <1>2
     DEF GetBusinessCustomerReply, UpdateBusinessCustomerReply, GetBusinessCustomer, Found
<1>6. CreateInternalJobReply(u, x, ok) = CreateInternalJobReply(u, "nowhere", ok)
  BY <1>1 DEF CreateInternalJobReply, FindInternalCustomer, Found
<1> QED
  BY <1>3, <1>4, <1>5, <1>6 DEF PersonHandlers

LEMMA JobUnknownToManager ==
    ASSUME NEW u, NEW ok \in BOOLEAN, NEW j \in JobIds, ~GetInternalJob(Manages[u], j)
    PROVE  ManagerHandlers(u, j, ok) = ManagerHandlers(u, "nowhere", ok)
<1>1. ~GetInternalJob(Manages[u], "nowhere")
  BY DEF GetInternalJob, Internal, Exists
<1>2. \A reply : Numeric({j}, reply) = reply /\ Numeric({"nowhere"}, reply) = reply
  BY IdsAreNumbers DEF Numeric
<1>3. \A reply : OwnedJob(u, j, reply) = OwnedJob(u, "nowhere", reply)
  BY <1>1, <1>2 DEF OwnedJob, Found
<1>4. /\ UpdateInternalJobReply(u, j, ok) = UpdateInternalJobReply(u, "nowhere", ok)
      /\ CancelInternalJobReply(u, j, ok) = CancelInternalJobReply(u, "nowhere", ok)
  BY <1>1, <1>2 DEF UpdateInternalJobReply, CancelInternalJobReply, Found
<1>5. \A t : AssignTechnicianReply(u, j, t, ok) = AssignTechnicianReply(u, "nowhere", t, ok)
  BY <1>1, <1>2 DEF AssignTechnicianReply, Found
<1> QED
  BY <1>3, <1>4, <1>5
     DEF ManagerHandlers, GetInternalJobReply, GetJobAssignmentReply, ListBusinessJobImagesReply,
         ListBusinessJobUpdatesReply, ListBusinessVoiceNotesReply,
         GetBusinessExecutionTimelineReply, ListBusinessPartsRequestsReply

LEMMA JobUnknownToTechnician ==
    ASSUME NEW u, NEW ok \in BOOLEAN, NEW j \in JobIds, ~GetTechnicianJob(u, j)
    PROVE  /\ \A reply : TechnicianJob(u, j, reply) = ResolveTechnician(u, 404)
           /\ TechnicianHandlers(u, j, ok) = TechnicianHandlers(u, "nowhere", ok)
<1>1. ~GetTechnicianJob(u, "nowhere")
  BY DEF GetTechnicianJob, Internal, Exists
<1>2. \A reply : Numeric({j}, reply) = reply /\ Numeric({"nowhere"}, reply) = reply
  BY IdsAreNumbers DEF Numeric
<1>3. \A reply : /\ TechnicianJob(u, j, reply) = ResolveTechnician(u, 404)
                 /\ TechnicianJob(u, "nowhere", reply) = ResolveTechnician(u, 404)
  BY <1>1, <1>2 DEF TechnicianJob, Found
<1>4. /\ GetTechnicianJobReply(u, j) = GetTechnicianJobReply(u, "nowhere")
      /\ StartTechnicianJobReply(u, j) = StartTechnicianJobReply(u, "nowhere")
  BY <1>1, <1>2 DEF GetTechnicianJobReply, StartTechnicianJobReply, Found
<1> QED
  BY <1>3, <1>4
     DEF TechnicianHandlers, UploadTechnicianImageReply, Documenting, ListTechnicianImagesReply,
         CreateTechnicianUpdateReply, ListTechnicianUpdatesReply, UploadTechnicianVoiceNoteReply,
         ListTechnicianVoiceNotesReply, GetTechnicianExecutionTimelineReply,
         CompleteTechnicianJobReply, CreateTechnicianPartsRequestReply,
         ListTechnicianPartsRequestsReply, ResumeTechnicianJobReply

(* Of a record, too: where the job is nobody's, or the record another's.   *)
LEMMA RecordUnknownToManager ==
    ASSUME NEW u, NEW ok \in BOOLEAN, NEW j \in JobIds, NEW k \in RecordIds,
           NEW i \in JobIds, NEW l \in RecordIds,
           GetInternalJob(Manages[u], j) =>
               \A kind \in {"image", "voice", "parts"} : JobOfRecord(kind, k) # j,
           GetInternalJob(Manages[u], i) =>
               \A kind \in {"image", "voice", "parts"} : JobOfRecord(kind, l) # i
    PROVE  ManagerRecordHandlers(u, j, k, ok) = ManagerRecordHandlers(u, i, l, ok)
<1>1. \A reply : Numeric({j, k}, reply) = reply /\ Numeric({i, l}, reply) = reply
  BY IdsAreNumbers DEF Numeric, RecordIds
<1>2. /\ GetBusinessJobImageFileReply(u, j, k) = GetBusinessJobImageFileReply(u, i, l)
      /\ GetBusinessVoiceNoteFileReply(u, j, k) = GetBusinessVoiceNoteFileReply(u, i, l)
  BY <1>1
     DEF GetBusinessJobImageFileReply, GetBusinessJobImageFile, GetBusinessVoiceNoteFileReply,
         GetBusinessVoiceNoteFile, OwnedInternalJobId, GetInternalJob, Found
<1>3. /\ ~GetBusinessPartsRequest(Manages[u], j, k) /\ ~GetBusinessPartsRequest(Manages[u], i, l)
      /\ ~GetBusinessPartsRequestPhotoFile(Manages[u], j, k)
      /\ ~GetBusinessPartsRequestPhotoFile(Manages[u], i, l)
  BY DEF GetBusinessPartsRequest, GetBusinessPartsRequestPhotoFile, PartsPhotoFor,
         OwnedInternalJobId, GetInternalJob
<1>4. /\ GetBusinessPartsRequestReply(u, j, k) = GetBusinessPartsRequestReply(u, i, l)
      /\ GetBusinessPartsPhotoFileReply(u, j, k) = GetBusinessPartsPhotoFileReply(u, i, l)
  BY <1>1, <1>3 DEF GetBusinessPartsRequestReply, GetBusinessPartsPhotoFileReply, Found
<1>5. /\ DecidePartsRequestReply(u, j, k, ok) = DecidePartsRequestReply(u, i, l, ok)
      /\ MarkPartsAvailableReply(u, j, k, ok) = MarkPartsAvailableReply(u, i, l, ok)
  BY <1>1, <1>3 DEF DecidePartsRequestReply, MarkPartsAvailableReply, Found
<1> QED
  BY <1>2, <1>4, <1>5 DEF ManagerRecordHandlers, ManagerPartsHandlers

LEMMA RecordUnknownToTechnician ==
    ASSUME NEW u, NEW ok \in BOOLEAN, NEW j \in JobIds, NEW k \in RecordIds,
           NEW i \in JobIds, NEW l \in RecordIds,
           GetTechnicianJob(u, j) <=> GetTechnicianJob(u, i),
           GetTechnicianJob(u, j) =>
               \A kind \in {"image", "voice", "parts"} : JobOfRecord(kind, k) # j,
           GetTechnicianJob(u, i) =>
               \A kind \in {"image", "voice", "parts"} : JobOfRecord(kind, l) # i
    PROVE  TechnicianRecordHandlers(u, j, k, ok) = TechnicianRecordHandlers(u, i, l, ok)
<1>1. \A reply : /\ Numeric({k}, reply) = reply /\ Numeric({l}, reply) = reply
                 /\ Numeric({j}, reply) = reply /\ Numeric({i}, reply) = reply
  BY IdsAreNumbers DEF Numeric, RecordIds
<1>2. \A x \in JobIds : \A reply : ~GetTechnicianJob(u, x) =>
          TechnicianJob(u, x, reply) = ResolveTechnician(u, 404)
  BY JobUnknownToTechnician
<1>3. \A x \in {i, j} : TechnicianJob(u, x, 404) = ResolveTechnician(u, 404)
  BY <1>1 DEF TechnicianJob, Found
<1>4. /\ GetTechnicianImageFileReply(u, j, k) = GetTechnicianImageFileReply(u, i, l)
      /\ GetTechnicianVoiceNoteFileReply(u, j, k) = GetTechnicianVoiceNoteFileReply(u, i, l)
  BY <1>1, <1>3
     DEF GetTechnicianImageFileReply, GetTechnicianJobImageFile, GetTechnicianVoiceNoteFileReply,
         GetTechnicianVoiceNoteFile, Found
<1>5. DeleteTechnicianImageReply(u, j, k) = DeleteTechnicianImageReply(u, i, l)
  BY <1>1, <1>2, <1>3 DEF DeleteTechnicianImageReply, Found
<1>6. /\ GetTechnicianPartsRequestReply(u, j, k) = GetTechnicianPartsRequestReply(u, i, l)
      /\ GetTechnicianPartsPhotoFileReply(u, j, k) = GetTechnicianPartsPhotoFileReply(u, i, l)
  BY <1>1, <1>3
     DEF GetTechnicianPartsRequestReply, GetTechnicianPartsRequest, Found,
         GetTechnicianPartsPhotoFileReply, GetTechnicianPartsRequestPhotoFile, PartsPhotoFor
<1>7. RespondToPartsRequestReply(u, j, k, ok) = RespondToPartsRequestReply(u, i, l, ok)
  BY <1>1, <1>2 DEF RespondToPartsRequestReply, TechnicianJob, Found
<1> QED
  BY <1>4, <1>5, <1>6, <1>7 DEF TechnicianRecordHandlers, TechnicianPartsHandlers

(* Nobody learns of a job, a record, a colleague or a customer that is not *)
(* theirs: whatever the tables hold, every endpoint answers as if the id   *)
(* did not exist.                                                          *)
THEOREM ForeignIdsUnknown == ApiSpec => []ForeignIdsAreUnknown
<1>1. \A u : ~GetInternalJob(Manages[u], "nowhere") /\ ~GetTechnicianJob(u, "nowhere")
  BY DEF GetInternalJob, GetTechnicianJob, Internal, Exists
<1>2. ASSUME NEW u \in Callers, NEW ok \in BOOLEAN PROVE
        /\ \A x \in (TechnicianIds \ {u}) \cup CustomerIds :
              (x \in Callers => WorksFor[x] # Manages[u]) /\ x \notin ClientsOf(Manages[u]) =>
                  PersonHandlers(u, x, ok) = PersonHandlers(u, "nowhere", ok)
        /\ \A t \in TechnicianIds \cap Callers :
              WorksFor[t] # Manages[u] => InternalJobsPage(u, t) = {}
  BY PersonUnknown DEF InternalJobsPage, Rostered
<1>3. ASSUME NEW u \in Callers, NEW ok \in BOOLEAN, NEW j \in JobIds \ {"nowhere"},
             j = "market" \/ BusinessOf(j) # Manages[u]
      PROVE  /\ ManagerHandlers(u, j, ok) = ManagerHandlers(u, "nowhere", ok)
             /\ \A k \in RecordIds :
                   ManagerRecordHandlers(u, j, k, ok) = ManagerRecordHandlers(u, "nowhere", k, ok)
  <2>1. ~GetInternalJob(Manages[u], j)
    BY <1>3 DEF GetInternalJob, Internal
  <2>2. "nowhere" \in JobIds
    BY DEF JobIds
  <2> QED
    BY <1>1, <2>1, <2>2, JobUnknownToManager, RecordUnknownToManager
<1>4. ASSUME NEW u \in Callers, NEW ok \in BOOLEAN, NEW j \in JobIds \ {"nowhere"},
             TechnicianOf(j) # u
      PROVE  /\ TechnicianHandlers(u, j, ok) = TechnicianHandlers(u, "nowhere", ok)
             /\ \A k \in RecordIds :
                   TechnicianRecordHandlers(u, j, k, ok) = TechnicianRecordHandlers(u, "nowhere", k, ok)
  <2>1. ~GetTechnicianJob(u, j)
    BY <1>4 DEF GetTechnicianJob
  <2>2. "nowhere" \in JobIds
    BY DEF JobIds
  <2> QED
    BY <1>1, <2>1, <2>2, JobUnknownToTechnician, RecordUnknownToTechnician
<1>5. ASSUME NEW u \in Callers, NEW ok \in BOOLEAN, NEW j \in JobIds \ {"theirs"}
      PROVE  /\ ManagerRecordHandlers(u, j, "theirs", ok) = ManagerRecordHandlers(u, j, "nowhere", ok)
             /\ TechnicianRecordHandlers(u, j, "theirs", ok)
                  = TechnicianRecordHandlers(u, j, "nowhere", ok)
  <2>1. \A kind \in {"image", "voice", "parts"} :
            JobOfRecord(kind, "theirs") # j /\ JobOfRecord(kind, "nowhere") # j
    BY IdsAreNumbers DEF JobOfRecord
  <2>2. {"theirs", "nowhere"} \subseteq RecordIds
    BY DEF RecordIds
  <2> QED
    BY <2>1, <2>2, RecordUnknownToManager, RecordUnknownToTechnician
<1>6. ForeignIdsAreUnknown
  BY <1>2, <1>3, <1>4, <1>5 DEF ForeignIdsAreUnknown
<1> QED
  BY <1>6, PTL

-----------------------------------------------------------------------------
(* The technician's copy, field by field. *)
Copy(j, i, v, u, n, p) ==
    [job |-> j, image |-> i, voice |-> v, update |-> u, closing |-> n, parts |-> p]
Statuses == [i \in DOMAIN parts |-> parts[i].status]
Changed(p, k, a) == [p EXCEPT ![k] = a]

LEMMA ShownIsCopy == Shown = Copy(status, work.image, work.voice, work.update, notes, Statuses)
BY DEF Shown, Copy, Statuses

LEMMA EchoOfStatus ==
    ASSUME NEW j, NEW i, NEW v, NEW u, NEW n, NEW p, NEW a
    PROVE  /\ ConfirmStart(Copy(j, i, v, u, n, p), a) = Copy(a, i, v, u, n, p)
           /\ ResumeJob(Copy(j, i, v, u, n, p), a) = Copy(a, i, v, u, n, p)
BY DEF Copy, ConfirmStart, ResumeJob

LEMMA EchoOfDocument ==
    ASSUME NEW j, NEW i, NEW v, NEW u, NEW n, NEW p, NEW a
    PROVE  /\ OnFileSelected(Copy(j, i, v, u, n, p), a) = Copy(j, a, v, u, n, p)
           /\ UploadVoiceFile(Copy(j, i, v, u, n, p), a) = Copy(j, i, a, u, n, p)
           /\ SaveNote(Copy(j, i, v, u, n, p), a) = Copy(j, i, v, a, n, p)
BY DEF Copy, OnFileSelected, UploadVoiceFile, SaveNote

LEMMA EchoOfDeletion ==
    ASSUME NEW j, NEW i, NEW v, NEW u, NEW n, NEW p
    PROVE  DeletePhoto(Copy(j, i, v, u, n, p)) = Copy(j, None, v, u, n, p)
BY DEF Copy, DeletePhoto

LEMMA EchoOfCompletion ==
    ASSUME NEW j, NEW i, NEW v, NEW u, NEW n, NEW p, NEW a
    PROVE  ConfirmComplete(Copy(j, i, v, u, n, p), a) = Copy(a, i, v, u, n + 1, p)
<1>1. PICK s : s = Copy(j, i, v, u, n, p)
  OBVIOUS
<1>2. PICK x : x = n + 1
  OBVIOUS
<1>3. s.closing = n
  BY <1>1 DEF Copy
<1>4. PICK y : y = [s EXCEPT !.closing = x]
  BY Zenon
<1>5. y = Copy(j, i, v, u, x, p)
  BY <1>1, <1>4 DEF Copy
<1>6. [y EXCEPT !.job = a] = Copy(a, i, v, u, x, p)
  BY <1>5 DEF Copy
<1> QED
  BY <1>1, <1>2, <1>3, <1>4, <1>6 DEF ConfirmComplete

LEMMA EchoOfRequest ==
    ASSUME NEW j, NEW i, NEW v, NEW u, NEW n, NEW p, NEW a
    PROVE  SubmitPartsRequest(Copy(j, i, v, u, n, p), a) = Copy(j, i, v, u, n, Append(p, a))
<1>1. PICK s : s = Copy(j, i, v, u, n, p)
  OBVIOUS
<1>2. PICK x : x = Append(p, a)
  BY Zenon
<1>3. s.parts = p
  BY <1>1 DEF Copy
<1>4. [s EXCEPT !.parts = x] = Copy(j, i, v, u, n, x)
  BY <1>1 DEF Copy
<1> QED
  BY <1>1, <1>2, <1>3, <1>4 DEF SubmitPartsRequest

LEMMA EchoOfResponse ==
    ASSUME NEW j, NEW i, NEW v, NEW u, NEW n, NEW p, NEW a, NEW k
    PROVE  ConfirmRespond(Copy(j, i, v, u, n, p), k, a) = Copy(j, i, v, u, n, Changed(p, k, a))
BY DEF Copy, ConfirmRespond, Changed

(* The list of statuses follows the rows. *)
LEMMA StatusesGrow ==
    ASSUME TypeOK, NEW row \in PartsRow, parts' = Append(parts, row)
    PROVE  Statuses' = Append(Statuses, row.status) /\ parts'[Len(parts')].status = row.status
<1>1. parts \in Seq(PartsRow) /\ Len(parts') = Len(parts) + 1 /\ Len(parts) \in Nat
  BY DEF TypeOK
<1>2. /\ DOMAIN parts' = 1..(Len(parts) + 1)
      /\ \A i \in DOMAIN parts : parts'[i] = parts[i]
      /\ parts'[Len(parts) + 1] = row
  BY <1>1, AppendParts
<1>3. Statuses \in Seq(PartsStatus) /\ Len(Statuses) = Len(parts)
  <2>1. Statuses \in [1..Len(parts) -> PartsStatus]
    BY <1>1, PartsFields DEF Statuses
  <2>2. PICK n \in Nat : n = Len(parts)
    BY <1>1
  <2>3. Statuses \in [1..n -> PartsStatus]
    BY <2>1, <2>2
  <2> QED
    BY <2>2, <2>3, FunctionIsSequence
<1>4. row.status \in PartsStatus
  BY DEF PartsRow
<1>5. /\ DOMAIN Append(Statuses, row.status) = 1..(Len(parts) + 1)
      /\ \A i \in 1..Len(parts) : Append(Statuses, row.status)[i] = Statuses[i]
      /\ Append(Statuses, row.status)[Len(parts) + 1] = row.status
  BY <1>1, <1>3, <1>4
<1>6. \A i \in 1..(Len(parts) + 1) : parts'[i].status = Append(Statuses, row.status)[i]
  BY <1>1, <1>2, <1>5 DEF Statuses
<1>7. Append(Statuses, row.status) = [i \in DOMAIN parts' |-> parts'[i].status]
  <2>1. Append(Statuses, row.status) \in Seq(PartsStatus)
    BY <1>3, <1>4
  <2> QED
    BY <1>2, <1>5, <1>6, <2>1
<1> QED
  BY <1>1, <1>2, <1>7 DEF Statuses

LEMMA StatusesChange ==
    ASSUME TypeOK, NEW i \in DOMAIN parts, NEW s \in PartsStatus,
           parts' = [parts EXCEPT ![i].status = s]
    PROVE  Statuses' = Changed(Statuses, i, s) /\ parts'[i].status = s
<1>1. /\ DOMAIN parts' = DOMAIN parts /\ parts'[i].status = s
      /\ \A k \in DOMAIN parts \ {i} : parts'[k].status = parts[k].status
  BY UpdateParts
<1>2. Statuses' = [k \in DOMAIN parts |-> IF k = i THEN s ELSE parts[k].status]
  BY <1>1 DEF Statuses
<1> QED
  BY <1>1, <1>2 DEF Statuses, Changed

(* Documenting the work leaves the rest of the tables alone, and the rest  *)
(* leaves the documents.                                                   *)
LEMMA WorkOrTheRest ==
    ASSUME [ApiNext]_apiVars
    PROVE  UNCHANGED work \/ UNCHANGED <<status, notes, parts>>
BY DEF ApiNext, apiVars, lockstep, CreateTechnicianJobImage, CreateTechnicianVoiceNote,
       CreateTechnicianJobUpdate, Documents, DeleteTechnicianJobImage, job

(* What a technician sees after a call is answered is what loading the     *)
(* screen again would show.                                                *)
THEOREM EchoTellsTheTruth == ApiSpec => EchoIsReload
<1> DEFINE Echo(r) ==
      LET t == call[r].tech IN
      /\ StartTechnicianJob(r) => Shown' = ConfirmStart(Shown, status')
      /\ CreateTechnicianJobImage(r) => Shown' = OnFileSelected(Shown, t)
      /\ DeleteTechnicianJobImage(r) => Shown' = DeletePhoto(Shown)
      /\ CreateTechnicianJobUpdate(r) => Shown' = SaveNote(Shown, t)
      /\ CreateTechnicianVoiceNote(r) => Shown' = UploadVoiceFile(Shown, t)
      /\ CompleteTechnicianJob(r) => Shown' = ConfirmComplete(Shown, status')
      /\ CreatePartsRequest(r) =>
            Shown' = SubmitPartsRequest(Shown, parts'[Len(parts')].status)
      /\ \A i \in DOMAIN parts : RespondToPartsRequest(r, i) =>
            Shown' = ConfirmRespond(Shown, i, parts'[i].status)
      /\ ResumeTechnicianJob(r) => Shown' = ResumeJob(Shown, status')
<1>1. ApiInit => MInv
  BY InitMemory
<1>2. MInv /\ [ApiNext]_apiVars => MInv'
  BY NextMemory
<1>3. MInv /\ [ApiNext]_apiVars => [\A r \in Requests : Echo(r)]_apiVars
  <2> SUFFICES ASSUME MInv, [ApiNext]_apiVars, NEW r \in Requests PROVE Echo(r)
    OBVIOUS
  <2>1. TypeOK /\ TInv
    BY DEF MInv, TInv
  <2>2. Shown' = Copy(status', work'.image, work'.voice, work'.update, notes', Statuses')
    BY ShownIsCopy DEF Shown, Copy, Statuses
  <2>3. UNCHANGED parts => UNCHANGED Statuses
    BY DEF Statuses
  <2>4. ASSUME StartTechnicianJob(r) \/ ResumeTechnicianJob(r)
        PROVE  /\ Shown' = ConfirmStart(Shown, status')
               /\ Shown' = ResumeJob(Shown, status')
    <3>1. UNCHANGED <<work, parts, notes>>
      BY <2>4, WorkOrTheRest DEF StartTechnicianJob, MayStart, ResumeTechnicianJob, MayResume, Moves, Startable
    <3> QED
      BY <2>2, <2>3, <3>1, ShownIsCopy, EchoOfStatus
  <2>5. ASSUME CompleteTechnicianJob(r) PROVE Shown' = ConfirmComplete(Shown, status')
    <3>1. UNCHANGED <<work, parts>> /\ notes' = notes + 1
      BY <2>5, WorkOrTheRest DEF CompleteTechnicianJob, Completable, Moves
    <3> QED
      BY <2>2, <2>3, <3>1, ShownIsCopy, EchoOfCompletion
  <2>6. ASSUME NEW kind \in WorkKinds, NEW w, UNCHANGED <<status, notes, parts>>,
               work' = [work EXCEPT ![kind] = w]
        PROVE  /\ kind = "image" => Shown' = Copy(status, w, work.voice, work.update, notes, Statuses)
               /\ kind = "voice" => Shown' = Copy(status, work.image, w, work.update, notes, Statuses)
               /\ kind = "update" => Shown' = Copy(status, work.image, work.voice, w, notes, Statuses)
    <3>1. /\ work'[kind] = w
          /\ \A other \in WorkKinds \ {kind} : work'[other] = work[other]
      BY <2>6 DEF MInv, Documented
    <3> QED
      BY <2>2, <2>3, <2>6, <3>1 DEF WorkKinds
  <2>7. /\ CreateTechnicianJobImage(r) => Shown' = OnFileSelected(Shown, call[r].tech)
        /\ CreateTechnicianJobUpdate(r) => Shown' = SaveNote(Shown, call[r].tech)
        /\ CreateTechnicianVoiceNote(r) => Shown' = UploadVoiceFile(Shown, call[r].tech)
        /\ DeleteTechnicianJobImage(r) => Shown' = DeletePhoto(Shown)
    <3>1. ASSUME NEW kind \in WorkKinds, Documents(r, kind)
          PROVE  UNCHANGED <<status, notes, parts>> /\ work' = [work EXCEPT ![kind] = call[r].tech]
      BY <3>1 DEF Documents, job
    <3>2. ASSUME DeleteTechnicianJobImage(r)
          PROVE  UNCHANGED <<status, notes, parts>> /\ work' = [work EXCEPT !["image"] = None]
      BY <3>2 DEF DeleteTechnicianJobImage, job
    <3> QED
      BY <2>6, <3>1, <3>2, ShownIsCopy, EchoOfDocument, EchoOfDeletion
         DEF CreateTechnicianJobImage, CreateTechnicianJobUpdate, CreateTechnicianVoiceNote, WorkKinds
  <2>8. ASSUME CreatePartsRequest(r)
        PROVE  Shown' = SubmitPartsRequest(Shown, parts'[Len(parts')].status)
    <3>1. PICK t \in Technicians : t = call[r].tech
      BY <2>1, <2>8 DEF CreatePartsRequest, MayRequestParts, TInv, HandlersHoldWhatTheyNeed
    <3>2. PICK row \in PartsRow : row.status = "PENDING" /\ parts' = Append(parts, row)
      BY <2>8, <3>1 DEF CreatePartsRequest, MayRequestParts, PartsRow, PartsStatus, Reviewable
    <3>3. Statuses' = Append(Statuses, "PENDING") /\ parts'[Len(parts')].status = "PENDING"
      BY <2>1, <3>2, StatusesGrow
    <3>4. parts' # parts
      BY <2>1, <3>2 DEF TypeOK
    <3>5. UNCHANGED <<work, status, notes>>
      BY <2>8, <3>4, WorkOrTheRest DEF CreatePartsRequest, MayRequestParts, job
    <3> QED
      BY <2>2, <3>3, <3>5, ShownIsCopy, EchoOfRequest
  <2>9. ASSUME NEW i \in DOMAIN parts, RespondToPartsRequest(r, i)
        PROVE  Shown' = ConfirmRespond(Shown, i, parts'[i].status)
    <3>1. /\ parts' = [parts EXCEPT ![i].status = "PENDING"] /\ "PENDING" \in PartsStatus
          /\ parts[i].status = "NEEDS_INFO" /\ UNCHANGED <<status, notes>>
      BY <2>9 DEF RespondToPartsRequest, MayRespond, job, PartsStatus, Reviewable
    <3>2. Statuses' = Changed(Statuses, i, "PENDING") /\ parts'[i].status = "PENDING"
      BY <2>1, <3>1, StatusesChange
    <3>3. UNCHANGED work
      BY <3>1, <3>2, WorkOrTheRest
    <3> QED
      BY <2>2, <3>1, <3>2, <3>3, ShownIsCopy, EchoOfResponse
  <2> QED
    BY <2>4, <2>5, <2>7, <2>8, <2>9
<1> QED
  BY <1>1, <1>2, <1>3, PTL DEF ApiSpec, EchoIsReload
=============================================================================
