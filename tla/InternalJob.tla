------------------------------ MODULE InternalJob ------------------------------
(***************************************************************************)
(* One internal job of a business: its edits, its technician, its progress *)
(* and its parts requests, against the MySQL store.  Two jobs share no row *)
(* so the module follows one.                                              *)
(*                                                                         *)
(* A manager's transaction locks the jobs row first, so what it reads next *)
(* is current and the transaction is one step.  A technician's transaction *)
(* first asks hasActiveAssignment, a plain SELECT: under REPEATABLE READ   *)
(* that SELECT fixes the snapshot every later plain SELECT answers from,   *)
(* while the FOR UPDATE that follows reads, and waits for, the latest row. *)
(* It is two steps: the snapshot, which every such transaction begins with *)
(* alike, and the locked part, where it shows which transaction it is.     *)
(*                                                                         *)
(* Of the notifications a handler writes after its commit the module keeps *)
(* those that tell a technician what became of a parts request.  What else *)
(* a handler writes or reads after its commit no property tells apart, and *)
(* the handler ends with its commit.                                       *)
(***************************************************************************)
EXTENDS Naturals, Sequences, FiniteSets

CONSTANTS
    Managers,      \* users who manage the business
    Technicians,   \* active technicians of its roster, by their user id
    Details,       \* what the editable columns of the job may hold
    Requests,      \* the handlers that may be in flight at once
    None,          \* SQL NULL
    MaxAssignments,\* bound: assignments begun
    MaxParts,      \* bound: parts requests begun
    MaxApprovals,  \* bound: rows of job_approvals
    MaxFaults      \* bound: handlers that die, notifications that fail

ASSUME BoundsAssumption == {MaxAssignments, MaxParts, MaxApprovals, MaxFaults} \subseteq Nat
ASSUME NoneAssumption == None \notin Managers \cup Technicians \cup Details

VARIABLES
    status,      \* jobs.status, ABSENT before the INSERT
    details,     \* title, description, address, priority, scheduled_at
    assignments, \* technicians of the job_assignments rows, the last not closed
    history,     \* the job_status_history rows
    notes,       \* job_updates rows written by a completion
    parts,       \* parts_requests rows, in AUTO_INCREMENT order
    approvals,   \* job_approvals rows, in AUTO_INCREMENT order
    notices,     \* the notifications rows
    call,        \* call[r]: where handler r is and what it holds
    faults       \* how many faults happened

job == <<status, details, assignments, history, notes>>
vars == <<status, details, assignments, history, notes, parts, approvals, notices, call, faults>>

-----------------------------------------------------------------------------
Startable == {"REQUESTED", "SCHEDULED"}
Working == {"IN_PROGRESS", "AWAITING_PARTS"}
InternalJobStatus == {"ABSENT", "COMPLETED", "CANCELLED"} \cup Startable \cup Working

Reviewable == {"PENDING", "NEEDS_INFO"}
Decision == {"APPROVED", "REJECTED", "NEEDS_INFO"}
Told == Decision \cup {"PARTS_AVAILABLE"}
PartsStatus == Reviewable \cup Told

HistoryRow == [from : InternalJobStatus, to : InternalJobStatus]
PartsRow == [by : Technicians, status : PartsStatus]
ApprovalRow == [request : Nat, status : PartsStatus]
(* PARTS_APPROVED, PARTS_REJECTED, PARTS_MORE_INFO and PARTS_AVAILABLE.   *)
Notice == [request : Nat, status : Told, to : Technicians]

(* What a handler holds from one step to the next: the details a manager   *)
(* stores, the snapshot of a technician's transaction, or the notification *)
(* still to be written and to whom.                                        *)
Call == [at : {"idle", "update", "snapshot", "announce"}, tech : Technicians \cup {None},
         request : Nat, tells : Told \cup {None}, details : Details \cup {None},
         working : BOOLEAN, outstanding : BOOLEAN]
Idle == [at |-> "idle", tech |-> None, request |-> 0, tells |-> None, details |-> None,
         working |-> FALSE, outstanding |-> FALSE]

-----------------------------------------------------------------------------
assigned == IF assignments = << >> THEN None ELSE assignments[Len(assignments)]
Outstanding == {i \in DOMAIN parts : parts[i].status = "APPROVED"}

Begin(r, c) == /\ call[r] = Idle
               /\ call' = [call EXCEPT ![r] = c]
               /\ UNCHANGED <<job, parts, approvals, notices, faults>>
Done(r) == call' = [call EXCEPT ![r] = Idle]
Owes(r, i, told) ==
    call' = [call EXCEPT ![r] = [Idle EXCEPT !.at = "announce", !.tech = parts[i].by,
                                             !.request = i, !.tells = told]]

(* Mutant: the status moves and no history row is written. *)
MovesUnlogged(from, to) == status' = to /\ history' = history

Moves(from, to) == /\ status' = to
                   /\ history' = Append(history, [from |-> from, to |-> to])

(* Mutant: an answer or a delivery leaves no row. *)
RecordsDecisions(i, s) ==
    approvals' = IF s \in Decision THEN Append(approvals, [request |-> i, status |-> s])
                                   ELSE approvals

Records(i, s) == approvals' = Append(approvals, [request |-> i, status |-> s])

Init == /\ status = "ABSENT"
        /\ details \in Details
        /\ assignments = << >>
        /\ history = << >>
        /\ notes = 0
        /\ parts = << >>
        /\ approvals = << >>
        /\ notices = {}
        /\ call = [r \in Requests |-> Idle]
        /\ faults = 0

-----------------------------------------------------------------------------
(* Managers.                                                               *)

CreateInternalJob ==
    /\ status = "ABSENT"
    /\ Moves("ABSENT", "REQUESTED")
    /\ UNCHANGED <<details, assignments, notes, parts, approvals, notices, call, faults>>

(* The service reads REQUESTED; the UPDATE itself has no status condition. *)
MayUpdate == status = "REQUESTED"
BeginUpdate(r, d) == MayUpdate /\ Begin(r, [Idle EXCEPT !.at = "update", !.details = d])
UpdateInternalJob(r) ==
    /\ call[r].at = "update"
    /\ details' = call[r].details
    /\ Done(r)
    /\ UNCHANGED <<status, assignments, history, notes, parts, approvals, notices, faults>>

(* The service's read is no step: the lock repeats its check, and a job    *)
(* that has left REQUESTED never comes back to it.                         *)
MayCancel == status = "REQUESTED"
CancelInternalJob ==
    /\ MayCancel
    /\ Moves("REQUESTED", "CANCELLED")
    /\ UNCHANGED <<details, assignments, notes, parts, approvals, notices, call, faults>>

(* The open row is closed and a new one inserted, whatever the status.     *)
MayAssign == status # "ABSENT"
AssignTechnician(t) ==
    /\ MayAssign
    /\ Len(assignments) < MaxAssignments
    /\ assignments' = Append(assignments, t)
    /\ UNCHANGED <<status, details, history, notes, parts, approvals, notices, call, faults>>

(* approve, reject and request-info.                                       *)
MayReview(m, i) ==
    /\ parts[i].status \in Reviewable
    /\ parts[i].by # m
    /\ status \in Working
    /\ assigned # None
ReviewPartsRequest(r, m, i, decision) ==
    /\ call[r] = Idle
    /\ Len(approvals) < MaxApprovals
    /\ i \in DOMAIN parts
    /\ MayReview(m, i)
    /\ parts' = [parts EXCEPT ![i].status = decision]
    /\ Records(i, decision)
    /\ IF decision = "APPROVED" /\ status = "IN_PROGRESS"
       THEN Moves("IN_PROGRESS", "AWAITING_PARTS")
       ELSE UNCHANGED <<status, history>>
    /\ Owes(r, i, decision)
    /\ UNCHANGED <<details, assignments, notes, notices, faults>>

(* Mutant: outstanding requests are counted before this one is updated. *)
CountsItself(i) == status = "AWAITING_PARTS" /\ Outstanding = {}

LastOutstanding(i) == status = "AWAITING_PARTS" /\ Outstanding = {i}
MayDeliver(i) == i \in Outstanding /\ status \in Working
MarkPartsAvailable(r, i) ==
    /\ call[r] = Idle
    /\ MayDeliver(i)
    /\ parts' = [parts EXCEPT ![i].status = "PARTS_AVAILABLE"]
    /\ IF LastOutstanding(i)
       THEN Moves("AWAITING_PARTS", "IN_PROGRESS")
       ELSE UNCHANGED <<status, history>>
    /\ Owes(r, i, "PARTS_AVAILABLE")
    /\ UNCHANGED <<details, assignments, notes, approvals, notices, faults>>

-----------------------------------------------------------------------------
(* Technicians.  The service's own reads are taken together with the       *)
(* snapshot: a call that passes both began, for all anyone can see, there. *)

BeginTechnicianCall(r, t) ==
    /\ assigned = t
    /\ Begin(r, [Idle EXCEPT !.at = "snapshot", !.tech = t, !.working = status \in Working,
                             !.outstanding = Outstanding # {}])

MayStart == status \in Startable
StartTechnicianJob(r) ==
    /\ call[r].at = "snapshot"
    /\ MayStart
    /\ Moves(status, "IN_PROGRESS")
    /\ Done(r)
    /\ UNCHANGED <<details, assignments, notes, parts, approvals, notices, faults>>

Completable == status = "IN_PROGRESS"
CompleteTechnicianJob(r) ==
    /\ call[r].at = "snapshot"
    /\ Completable
    /\ notes' = notes + 1
    /\ Moves(status, "COMPLETED")
    /\ Done(r)
    /\ UNCHANGED <<details, assignments, parts, approvals, notices, faults>>

(* The service has looked at the status before, and the lock looks again.  *)
MayRequestParts(r) == call[r].working /\ status \in Working
CreatePartsRequest(r) ==
    /\ call[r].at = "snapshot"
    /\ MayRequestParts(r)
    /\ Len(parts) < MaxParts
    /\ parts' = Append(parts, [by |-> call[r].tech, status |-> "PENDING"])
    /\ Done(r)
    /\ UNCHANGED <<job, approvals, notices, faults>>

(* Locks the parts_requests row and not the job. *)
MayRespond(i) == parts[i].status = "NEEDS_INFO"
RespondToPartsRequest(r, i) ==
    /\ call[r].at = "snapshot"
    /\ MayRespond(i)
    /\ Len(approvals) < MaxApprovals
    /\ parts' = [parts EXCEPT ![i].status = "PENDING"]
    /\ Records(i, "PENDING")
    /\ Done(r)
    /\ UNCHANGED <<job, notices, faults>>

(* Outstanding parts are looked for in the snapshot. *)
MayResume(r) == status = "AWAITING_PARTS" /\ ~call[r].outstanding
ResumeTechnicianJob(r) ==
    /\ call[r].at = "snapshot"
    /\ MayResume(r)
    /\ Moves("AWAITING_PARTS", "IN_PROGRESS")
    /\ Done(r)
    /\ UNCHANGED <<details, assignments, notes, parts, approvals, notices, faults>>

(* The locked part does not find what it asks for: start and complete ask  *)
(* for different statuses, so there is always a call that is refused.      *)
Refuse(r) ==
    /\ call[r].at = "snapshot"
    /\ Done(r)
    /\ UNCHANGED <<job, parts, approvals, notices, faults>>

-----------------------------------------------------------------------------
(* How a handler ends.                                                     *)

(* Mutant: the decision is announced to who has the job now. *)
TellsAssignee(r) == assigned

(* emitToTechnician: the requester, also when the job is another's by now. *)
Recipient(r) == call[r].tech
Announce(r) ==
    /\ call[r].at = "announce"
    /\ notices' = notices \cup {[request |-> call[r].request, status |-> call[r].tells,
                                 to |-> Recipient(r)]}
    /\ Done(r)
    /\ UNCHANGED <<job, parts, approvals, faults>>

(* The process stops, or a best-effort notification fails. *)
Die(r) ==
    /\ call[r] # Idle
    /\ faults < MaxFaults
    /\ faults' = faults + 1
    /\ Done(r)
    /\ UNCHANGED <<job, parts, approvals, notices>>

-----------------------------------------------------------------------------
Proceed(r) ==
    \/ UpdateInternalJob(r)
    \/ StartTechnicianJob(r) \/ CompleteTechnicianJob(r) \/ CreatePartsRequest(r)
    \/ \E i \in DOMAIN parts : RespondToPartsRequest(r, i)
    \/ ResumeTechnicianJob(r) \/ Refuse(r)
    \/ Announce(r)

Arrive(r) ==
    \/ \E d \in Details : BeginUpdate(r, d)
    \/ \E t \in Technicians : BeginTechnicianCall(r, t)
    \/ \E i \in DOMAIN parts : \/ MarkPartsAvailable(r, i)
                               \/ \E m \in Managers : \E decision \in Decision :
                                     ReviewPartsRequest(r, m, i, decision)

Next == \/ CreateInternalJob \/ CancelInternalJob
        \/ \E t \in Technicians : AssignTechnician(t)
        \/ \E r \in Requests : Arrive(r) \/ Proceed(r) \/ Die(r)

Spec == Init /\ [][Next]_vars

-----------------------------------------------------------------------------
TypeOK ==
    /\ status \in InternalJobStatus
    /\ details \in Details
    /\ assignments \in Seq(Technicians)
    /\ history \in Seq(HistoryRow)
    /\ notes \in Nat
    /\ parts \in Seq(PartsRow)
    /\ approvals \in Seq(ApprovalRow)
    /\ \A k \in DOMAIN approvals : approvals[k].request \in DOMAIN parts
    /\ notices \subseteq Notice
    /\ call \in [Requests -> Call]
    /\ faults \in Nat

(* The timeline is a chain of moves that ends in the status of the job, so *)
(* no two handlers ever leave one status: a job is started, cancelled and  *)
(* completed once, whoever overtakes whom.                                 *)
HistoryTellsStatus ==
    /\ status = IF history = << >> THEN "ABSENT" ELSE history[Len(history)].to
    /\ \A k \in DOMAIN history :
          history[k].from = IF k = 1 THEN "ABSENT" ELSE history[k - 1].to
    /\ \A k, l \in DOMAIN history :
          history[k].from = history[l].from /\ k # l =>
              history[k].from \in Working

(* A completed job has the one note its technician had to give, and no     *)
(* other job has one, however often the completion is sent.                *)
CompletedOnce == notes = IF status = "COMPLETED" THEN 1 ELSE 0

(* A job that waits for parts waits for some: the last delivery, or the    *)
(* technician, has not been forgotten.                                     *)
AwaitingMeansOutstanding == status = "AWAITING_PARTS" => Outstanding # {}

(* The job_approvals rows of a request, read in order, end in its status:  *)
(* no review and no answer is lost when several arrive together.           *)
RowsOf(i) == {k \in DOMAIN approvals : approvals[k].request = i}
LastRow(i) == CHOOSE k \in RowsOf(i) : \A l \in RowsOf(i) : l <= k
ApprovalsTellStatus ==
    \A i \in DOMAIN parts :
        LET told == IF RowsOf(i) = {} THEN "PENDING" ELSE approvals[LastRow(i)].status
        IN  parts[i].status = told \/ (parts[i].status = "PARTS_AVAILABLE" /\ told = "APPROVED")

(* Whoever asked for parts is told what became of them, also when the job  *)
(* has gone to somebody else meanwhile: unless a fault intervened, the     *)
(* notification of every decision is there or some handler has yet to      *)
(* write it.                                                               *)
Owing(r) == [request |-> call[r].request, status |-> call[r].tells, to |-> call[r].tech]
Announcing == {r \in Requests : call[r].at = "announce"}
RequesterIsTold ==
    faults = 0 =>
        \A i \in DOMAIN parts : parts[i].status \in Told =>
            [request |-> i, status |-> parts[i].status, to |-> parts[i].by]
                \in notices \cup {Owing(r) : r \in Announcing}

(* "The technician resume endpoint enforces the same": no step takes a job *)
(* back to work while an approved request is outstanding.                  *)
ResumeOnlyWhenPartsAreIn ==
    [][status = "AWAITING_PARTS" /\ status' = "IN_PROGRESS" => Outstanding' = {}]_vars
=============================================================================
