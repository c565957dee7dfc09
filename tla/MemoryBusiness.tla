----------------------------- MODULE MemoryBusiness -----------------------------
(***************************************************************************)
(* The in-memory business store beside the MySQL one, for one internal job *)
(* of a business, and the board its managers see.  As in MemoryMarketplace *)
(* each call of InternalJob is served by both stores, one call at a time:  *)
(* the tables change as there, mem by the in-memory store's own checks and *)
(* assignments.                                                            *)
(***************************************************************************)
EXTENDS InternalJob

CONSTANT Planned   \* the details that carry a visit slot, scheduled_at

ASSUME PlannedAssumption == Planned \subseteq Details

VARIABLE mem       \* the private fields of MemoryBusinessStore

lockstep == <<vars, mem>>

-----------------------------------------------------------------------------
(* internalJobs, assignments, internalHistory, techUpdates, partsRequests  *)
(* and partsApprovals.                                                     *)
MemInit ==
    mem = [status |-> "ABSENT", details |-> details, rows |-> << >>, history |-> << >>,
           updates |-> 0, parts |-> << >>, approvals |-> << >>]

OpenRows == {k \in DOMAIN mem.rows : mem.rows[k].open}
ActiveAssignment(t) == \E k \in OpenRows : mem.rows[k].tech = t
MemAssigned == OpenRows # {}
MemMoves(store, to) ==
    [store EXCEPT !.status = to, !.history = Append(@, [from |-> store.status, to |-> to])]
RecordPartsApproval(store, i, s) ==
    [store EXCEPT !.approvals = Append(@, [request |-> i, status |-> s])]

MemOutstanding(exclude) ==
    \E i \in DOMAIN mem.parts \ exclude : mem.parts[i].status = "APPROVED"

-----------------------------------------------------------------------------
(* Managers. *)

MemCreateInternalJob == MemMoves(mem, "REQUESTED")
MemUpdateInternalJob(d) == [mem EXCEPT !.details = d]
MemCancellable == mem.status = "REQUESTED"
MemCancelInternalJob == MemMoves(mem, "CANCELLED")

MemAssignJobTechnician(t) ==
    [mem EXCEPT !.rows = Append([k \in DOMAIN @ |-> [@[k] EXCEPT !.open = FALSE]],
                                [tech |-> t, open |-> TRUE])]

MemReviewable(m, i) ==
    /\ mem.parts[i].status \in Reviewable
    /\ mem.parts[i].by # m
    /\ mem.status \in Working
    /\ MemAssigned
MemReviewPartsRequest(i, decision) ==
    LET reviewed == RecordPartsApproval([mem EXCEPT !.parts[i].status = decision], i, decision)
    IN  IF decision = "APPROVED" /\ mem.status = "IN_PROGRESS"
        THEN MemMoves(reviewed, "AWAITING_PARTS") ELSE reviewed

MemDeliverable(i) == mem.parts[i].status = "APPROVED" /\ mem.status \in Working
MemMarkPartsAvailable(i) ==
    LET marked == [mem EXCEPT !.parts[i].status = "PARTS_AVAILABLE"]
    IN  IF mem.status = "AWAITING_PARTS" /\ ~MemOutstanding({i})
        THEN MemMoves(marked, "IN_PROGRESS") ELSE marked

-----------------------------------------------------------------------------
(* Technicians. *)

MemStartable(t) == ActiveAssignment(t) /\ mem.status \in Startable
MemStartTechnicianJob == MemMoves(mem, "IN_PROGRESS")

MemCompletable(t) == ActiveAssignment(t) /\ mem.status = "IN_PROGRESS"
MemCompleteTechnicianJob == MemMoves([mem EXCEPT !.updates = @ + 1], "COMPLETED")

(* Mutant: a job that waits for parts takes no further requests. *)
MemInProgressOnly(t) == ActiveAssignment(t) /\ mem.status = "IN_PROGRESS"

RequireAssignedForParts(t) == ActiveAssignment(t) /\ mem.status \in Working
MemCreatePartsRequest(t) ==
    [mem EXCEPT !.parts = Append(@, [by |-> t, status |-> "PENDING"])]

MemAnswerable(t, i) == ActiveAssignment(t) /\ mem.parts[i].status = "NEEDS_INFO"
MemRespondToPartsRequest(i) ==
    RecordPartsApproval([mem EXCEPT !.parts[i].status = "PENDING"], i, "PENDING")

MemResumable(t) ==
    ActiveAssignment(t) /\ mem.status = "AWAITING_PARTS" /\ ~MemOutstanding({})
MemResumeTechnicianJob == MemMoves(mem, "IN_PROGRESS")

-----------------------------------------------------------------------------
(* The board.  A job is shown under a category, and counted under one.     *)
(* Where a category is a status, boardFilterSql compares the column.       *)

Board == {"NEW", "ASSIGNED", "SCHEDULED", "IN_PROGRESS", "AWAITING_PARTS", "COMPLETED",
          "CANCELLED", "HISTORY"}
Terminal == {"COMPLETED", "CLOSED", "CONFIRMED"}

BoardFilterSql(board) ==
    /\ status # "ABSENT"
    /\ CASE board = "NEW" -> status = "REQUESTED"
         [] board = "ASSIGNED" -> assigned # None
         [] board = "SCHEDULED" -> details \in Planned /\ status \in Startable
         [] board = "HISTORY" -> status \in Terminal
         [] OTHER -> status = board

IsScheduledBoardRow == mem.status \in Startable /\ mem.details \in Planned
MatchesBoardCategory(board) ==
    /\ mem.status # "ABSENT"
    /\ CASE board = "NEW" -> mem.status = "REQUESTED"
         [] board = "ASSIGNED" -> MemAssigned
         [] board = "SCHEDULED" -> IsScheduledBoardRow
         [] board = "HISTORY" -> mem.status \in Terminal
         [] OTHER -> mem.status = board

(* countBoardJobs: the statuses from one GROUP BY, the visit slot and the  *)
(* open rows from a query each.                                            *)
Exactly(b) == IF b THEN 1 ELSE 0
CountBoardJobs ==
    [board \in Board |->
        CASE board = "NEW" -> Exactly(status = "REQUESTED")
          [] board = "SCHEDULED" -> Exactly(details \in Planned /\ status \in Startable)
          [] board = "ASSIGNED" -> Exactly(assigned # None)
          [] board = "HISTORY" -> Exactly(status \in Terminal)
          [] OTHER -> Exactly(status = board)]

(* Mutant: a job counted as scheduled is no longer counted as new. *)
MemCountsOnce ==
    [board \in Board |->
        CASE board = "NEW" -> Exactly(mem.status = "REQUESTED" /\ ~IsScheduledBoardRow)
          [] board = "SCHEDULED" -> Exactly(IsScheduledBoardRow)
          [] board = "ASSIGNED" -> Exactly(MemAssigned)
          [] board = "HISTORY" -> Exactly(mem.status \in Terminal)
          [] OTHER -> Exactly(mem.status = board)]

MemCountBoardJobs ==
    [board \in Board |->
        CASE board = "NEW" -> Exactly(mem.status = "REQUESTED")
          [] board = "SCHEDULED" -> Exactly(IsScheduledBoardRow)
          [] board = "ASSIGNED" -> Exactly(MemAssigned)
          [] board = "HISTORY" -> Exactly(mem.status \in Terminal)
          [] OTHER -> Exactly(mem.status = board)]

(* A technician's list: the jobs joined to the open row that names them.   *)
ListsTechnicianJob(t) == status # "ABSENT" /\ assigned = t
MemListsTechnicianJob(t) == mem.status # "ABSENT" /\ ActiveAssignment(t)

-----------------------------------------------------------------------------
(* One call, served twice. *)

Serve(call_, permits, result) == call_ /\ mem' = IF permits THEN result ELSE mem

ManagerCall(r) ==
    \/ \E d \in Details : BeginUpdate(r, d) /\ UNCHANGED mem
    \/ Serve(UpdateInternalJob(r), TRUE, MemUpdateInternalJob(call[r].details))
    \/ \E i \in DOMAIN parts :
          \/ Serve(MarkPartsAvailable(r, i), MemDeliverable(i), MemMarkPartsAvailable(i))
          \/ \E m \in Managers, decision \in Decision :
                Serve(ReviewPartsRequest(r, m, i, decision), MemReviewable(m, i),
                      MemReviewPartsRequest(i, decision))

TechnicianCall(r) ==
    LET t == call[r].tech IN
    \/ \E x \in Technicians : BeginTechnicianCall(r, x) /\ UNCHANGED mem
    \/ Serve(StartTechnicianJob(r), MemStartable(t), MemStartTechnicianJob)
    \/ Serve(CompleteTechnicianJob(r), MemCompletable(t), MemCompleteTechnicianJob)
    \/ Serve(CreatePartsRequest(r), RequireAssignedForParts(t), MemCreatePartsRequest(t))
    \/ \E i \in DOMAIN parts :
          Serve(RespondToPartsRequest(r, i), MemAnswerable(t, i), MemRespondToPartsRequest(i))
    \/ Serve(ResumeTechnicianJob(r), MemResumable(t), MemResumeTechnicianJob)
    \/ Refuse(r) /\ UNCHANGED mem

(* One call after the other: a handler is alone from its first step to its *)
(* last, and a call that InternalJob takes in one step waits for its end.  *)
Between == \A r \in Requests : call[r] = Idle
Alone(r) == \A other \in Requests \ {r} : call[other] = Idle
OneStepCall ==
    \/ Serve(CreateInternalJob, TRUE, MemCreateInternalJob)
    \/ Serve(CancelInternalJob, MemCancellable, MemCancelInternalJob)
    \/ \E t \in Technicians : Serve(AssignTechnician(t), TRUE, MemAssignJobTechnician(t))
LockstepNext ==
    \/ Between /\ OneStepCall
    \/ \E r \in Requests : /\ Alone(r)
                           /\ \/ ManagerCall(r) \/ TechnicianCall(r)
                              \/ Announce(r) /\ UNCHANGED mem
LockstepSpec == Init /\ MemInit /\ [][LockstepNext]_lockstep

-----------------------------------------------------------------------------
(* Whatever calls were made, in whatever order, the store's fields hold    *)
(* what the tables hold, and one assignment at most is open, the one the   *)
(* table's unassigned_at IS NULL finds.                                    *)
StoresAgree ==
    /\ <<mem.status, mem.details, mem.history, mem.updates, mem.parts, mem.approvals>>
         = <<status, details, history, notes, parts, approvals>>
    /\ [k \in DOMAIN mem.rows |-> mem.rows[k].tech] = assignments
    /\ {mem.rows[k].tech : k \in OpenRows} = {assigned} \ {None}
    /\ Cardinality(OpenRows) <= 1

(* A call is refused by one store exactly when the other refuses it: what  *)
(* the tests show to be refused is refused in production, and conversely.  *)
SameAnswers ==
    \A r \in Requests :
        LET t == call[r].tech IN
        /\ Between =>
             /\ MayCancel <=> MemCancellable
             /\ \A i \in DOMAIN parts :
                  /\ MayDeliver(i) <=> MemDeliverable(i)
                  /\ \A m \in Managers : MayReview(m, i) <=> MemReviewable(m, i)
        /\ call[r].at = "snapshot" =>
             /\ MayStart <=> MemStartable(t)
             /\ Completable <=> MemCompletable(t)
             /\ MayResume(r) <=> MemResumable(t)
             /\ MayRequestParts(r) <=> RequireAssignedForParts(t)
             /\ \A i \in DOMAIN parts : MayRespond(i) <=> MemAnswerable(t, i)

(* The number over each column of the board is the number of jobs the      *)
(* column lists, on either store, though counts and lists are computed by  *)
(* different code; and both stores show a technician the same work.        *)
BoardsCountTheirLists ==
    /\ \A board \in Board :
          /\ BoardFilterSql(board) <=> MatchesBoardCategory(board)
          /\ CountBoardJobs[board] = Exactly(BoardFilterSql(board))
          /\ MemCountBoardJobs[board] = Exactly(MatchesBoardCategory(board))
    /\ \A t \in Technicians : ListsTechnicianJob(t) <=> MemListsTechnicianJob(t)
=============================================================================
