--------------------------------- MODULE Roster ---------------------------------
(***************************************************************************)
(* Accounts and the technicians of a business: a person registers, a       *)
(* manager invites a technician by e-mail, activates and deactivates the   *)
(* roster row, assigns a technician to a job, and a technician lists the   *)
(* jobs assigned to them.                                                  *)
(*                                                                         *)
(* An account is named by its e-mail (uq_users_email).  An invitation      *)
(* writes the account, its role and the roster row by statements that      *)
(* commit one by one, so another call may come between any two of them.    *)
(* A technician is named by business and account                           *)
(* (uq_technicians_business_user).  A call is made once and keeps its      *)
(* answer; handlers that only one statement can disturb are one action.    *)
(***************************************************************************)
EXTENDS Naturals, FiniteSets

CONSTANTS
    Emails,     \* users.email
    Phones,     \* users.phone, if the form gives one
    Businesses, \* business_profiles.id, numbers: the lowest is a member's primary
    Owner,      \* Owner[b]: the e-mail of business_profiles.owner_user_id
    JobsOf,     \* JobsOf[b]: the INTERNAL jobs of business b
    Calls,      \* the calls that are made
    None,
    MaxFaults   \* bound: statements that fail, restarts

ASSUME RosterAssumption == /\ Businesses \subseteq Nat
                           /\ Owner \in [Businesses -> Emails]
                           /\ \A b, d \in Businesses : b # d => JobsOf[b] \cap JobsOf[d] = {}
                           /\ None \notin Emails \cup Phones \cup Calls
                           /\ MaxFaults \in Nat

VARIABLES
    account,    \* account[e]: the row of users with its roles, or None
    member,     \* member[b][e]: the TECHNICIAN row of business_members
    technician, \* technician[b][e]: the row of technicians
    assigned,   \* assigned[j]: the technician of the open assignment, or None
    call,       \* call[c]: the handler of call c
    faults

vars == <<account, member, technician, assigned, call, faults>>

-----------------------------------------------------------------------------
Roles == {"CUSTOMER", "BUSINESS_OWNER", "TECHNICIAN"}
Flag == {"absent", "active", "inactive"}
Jobs == UNION {JobsOf[b] : b \in Businesses}
BusinessOf(j) == CHOOSE b \in Businesses : j \in JobsOf[b]
Technicians == Businesses \X Emails

Account == [phone : Phones \cup {None}, roles : SUBSET Roles]
ASSUME NoAccountAssumption == None \notin Account
ASSUME NoTechnicianAssumption == None \notin Technicians

Phase == {"idle", "grant", "create", "relookup", "link", "insert", "commit",
          "member", "row", "show"}
Answer == {"200", "201", "404", "409", "422", "500"}

(* What a handler remembers.  gone is history: the businesses of a listing *)
(* in which the caller has been no active technician since the call began. *)
CallState == [at : Phase \cup Answer, b : Businesses \cup {None}, e : Emails \cup {None},
              phone : Phones \cup {None}, secret : BOOLEAN, job : Jobs \cup {None},
              shown : SUBSET Jobs, gone : SUBSET Businesses,
              does : {"nothing", "invite", "register", "assign", "list"}]

Idle == [at |-> "idle", b |-> None, e |-> None, phone |-> None, secret |-> FALSE,
         job |-> None, shown |-> {}, gone |-> {}, does |-> "nothing"]

Goes(c, phase) == call' = [call EXCEPT ![c].at = phase]
Fault == faults < MaxFaults /\ faults' = faults + 1

(* The statement committed; the reads after it may fail, and the call ends *)
(* with an error although its row is there.                                *)
Commits(c, calls, phase) ==
    \/ call' = [calls EXCEPT ![c].at = phase] /\ UNCHANGED faults
    \/ call' = [calls EXCEPT ![c].at = "500"] /\ Fault

Begins(c, state) == call[c].at = "idle" /\ call' = [call EXCEPT ![c] = state]
Exists(e) == account[e] # None
PhoneTaken(p) == p # None /\ \E e \in Emails : Exists(e) /\ account[e].phone = p
Tables == <<account, member, technician, assigned>>

(* Mutants: a check of the roster that skips what is inactive, an update   *)
(* of one table of two, a listing joined through the account instead of    *)
(* the roster row.                                                         *)
ActiveOnly(b, e) == member[b][e] = "active"
OneTable(b, e, flag) ==
    /\ technician' = [technician EXCEPT ![b][e] = flag]
    /\ UNCHANGED member
OfAccount(b, e) == {j \in Jobs : assigned[j] # None /\ assigned[j][2] = e}

(* Owners have registered; some technicians may be on a roster already. *)
Holder(roles) == [phone |-> None, roles |-> roles]
Owners == {Owner[b] : b \in Businesses}
Init == \E rows \in SUBSET Technicians :
          /\ \A t \in rows : t[2] \notin Owners
          /\ account = [e \in Emails |->
                 IF e \in Owners THEN Holder({"BUSINESS_OWNER"})
                 ELSE IF \E t \in rows : t[2] = e THEN Holder({"TECHNICIAN"})
                 ELSE None]
          /\ member = [b \in Businesses |-> [e \in Emails |->
                 IF <<b, e>> \in rows THEN "active" ELSE "absent"]]
          /\ technician = member
          /\ assigned = [j \in Jobs |-> None]
          /\ call = [c \in Calls |-> Idle]
          /\ faults = 0

-----------------------------------------------------------------------------
(* The tables.                                                             *)

(* INSERT INTO users: the two unique keys refuse a row that is there. *)
Inserts(c, roles) ==
    /\ ~Exists(call[c].e) /\ ~PhoneTaken(call[c].phone)
    /\ account' = [account EXCEPT ![call[c].e] =
           [phone |-> call[c].phone, roles |-> roles]]

(* History: listings under way may see b, e is active there from now on. *)
Seen(b, e) == [c \in Calls |-> IF call[c].e = e THEN [call[c] EXCEPT !.gone = @ \ {b}]
                                               ELSE call[c]]

(* What linkTechnician finds: an active member, or a row of the same key. *)
Linked(b, e) == member[b][e] = "active" \/ member[b][e] # "absent" \/ technician[b][e] # "absent"

(* The roster row and the membership that is the access gate. *)
SetsBoth(b, e, flag) ==
    /\ technician' = [technician EXCEPT ![b][e] = flag]
    /\ member' = [member EXCEPT ![b][e] = flag]

(* The open assignments of one roster row. *)
OfTechnician(b, e) == {j \in Jobs : assigned[j] = <<b, e>>}

-----------------------------------------------------------------------------
(* POST /auth/register *)

Register(c, e, p) ==
    /\ Begins(c, [Idle EXCEPT !.at = IF Exists(e) THEN "409" ELSE "insert", !.e = e,
                              !.phone = p, !.does = "register"])
    /\ UNCHANGED <<Tables, faults>>

CreateAccount(c) ==
    /\ call[c].at = "insert"
    /\ \/ Inserts(c, {"CUSTOMER"}) /\ Commits(c, call, "201")
       \/ /\ Exists(call[c].e) \/ PhoneTaken(call[c].phone)
          /\ Goes(c, "409") /\ UNCHANGED <<account, faults>>
    /\ UNCHANGED <<member, technician, assigned>>

-----------------------------------------------------------------------------
(* POST /business/technicians *)

CreateTechnician(c, b, e, p, secret) ==
    /\ Begins(c, [Idle EXCEPT !.b = b, !.e = e, !.phone = p, !.secret = secret, !.does = "invite",
          !.at = IF Exists(e) THEN IF secret THEN "422" ELSE "grant"
                              ELSE IF secret THEN "create" ELSE "422"])
    /\ UNCHANGED <<Tables, faults>>

(* users.create; a duplicate key sends the handler to look the e-mail up.  *)
(* The account is ACTIVE from its insert, so setStatus changes nothing.    *)
Create(c) ==
    /\ call[c].at = "create"
    /\ \/ Inserts(c, {}) /\ Commits(c, call, "grant")
       \/ /\ Exists(call[c].e) \/ PhoneTaken(call[c].phone)
          /\ Goes(c, "relookup") /\ UNCHANGED <<account, faults>>
    /\ UNCHANGED <<member, technician, assigned>>

LostRace(c) ==
    /\ call[c].at = "relookup"
    /\ Goes(c, IF Exists(call[c].e) THEN "grant" ELSE "500")
    /\ UNCHANGED <<Tables, faults>>

SetRoles(c) ==
    /\ call[c].at = "grant"
    /\ account' = [account EXCEPT ![call[c].e].roles = @ \cup {"TECHNICIAN"}]
    /\ Goes(c, "link")
    /\ UNCHANGED <<member, technician, assigned, faults>>

(* One transaction under the lock on the business. *)
LinkTechnician(c) ==
    LET b == call[c].b  e == call[c].e IN
    /\ call[c].at = "link"
    /\ IF Linked(b, e)
       THEN Goes(c, "409") /\ UNCHANGED <<member, technician, faults>>
       ELSE SetsBoth(b, e, "active") /\ Commits(c, Seen(b, e), "201")
    /\ UNCHANGED <<account, assigned>>

-----------------------------------------------------------------------------
(* PATCH /business/technicians/:id, one transaction under the lock on the  *)
(* roster row.                                                             *)
UpdateTechnician(b, e, active) ==
    /\ technician[b][e] # "absent"
    /\ SetsBoth(b, e, IF active THEN "active" ELSE "inactive")
    /\ call' = IF active THEN Seen(b, e) ELSE call
    /\ UNCHANGED <<account, assigned, faults>>

-----------------------------------------------------------------------------
(* PUT /business/jobs/:id/assignment.  The job and the technician are read *)
(* before, the transaction does not look at the technician again.  The     *)
(* assignment it replaces and the notice after it are in InternalJob.      *)

AssignTechnician(c, b, j, e) ==
    /\ Begins(c, [Idle EXCEPT !.b = b, !.e = e, !.job = j, !.does = "assign",
          !.at = IF j \notin JobsOf[b] \/ technician[b][e] = "absent" THEN "404"
                 ELSE IF technician[b][e] = "inactive" THEN "422" ELSE "commit"])
    /\ UNCHANGED <<Tables, faults>>

AssignJobTechnician(c) ==
    /\ call[c].at = "commit"
    /\ assigned' = [assigned EXCEPT ![call[c].job] = <<call[c].b, call[c].e>>]
    /\ Commits(c, call, "200")
    /\ UNCHANGED <<account, member, technician>>

-----------------------------------------------------------------------------
(* GET /technician/jobs: three reads of the pool.                          *)

(* findBusinessesForUser: the owner of a business is never its technician, *)
(* and of the others the lowest business counts.                           *)
Memberships(e) == {b \in Businesses : member[b][e] = "active" /\ Owner[b] # e}
Primary(e) == CHOOSE b \in Memberships(e) : \A d \in Memberships(e) : b <= d

ListTechnicianJobs(c, e) ==
    /\ Exists(e)
    /\ Begins(c, [Idle EXCEPT !.e = e, !.does = "list",
          !.at = IF "TECHNICIAN" \in account[e].roles THEN "member" ELSE "404",
          !.gone = {b \in Businesses : technician[b][e] # "active"}])
    /\ UNCHANGED <<Tables, faults>>

FindBusinesses(c) ==
    LET e == call[c].e IN
    /\ call[c].at = "member"
    /\ IF Memberships(e) = {}
       THEN Goes(c, "404")
       ELSE call' = [call EXCEPT ![c].at = "row", ![c].b = Primary(e)]
    /\ UNCHANGED <<Tables, faults>>

FindTechnician(c) ==
    /\ call[c].at = "row"
    /\ Goes(c, IF technician[call[c].b][call[c].e] = "active" THEN "show" ELSE "404")
    /\ UNCHANGED <<Tables, faults>>

ShowJobs(c) ==
    /\ call[c].at = "show"
    /\ call' = [call EXCEPT ![c].at = "200", ![c].shown = OfTechnician(call[c].b, call[c].e)]
    /\ UNCHANGED <<Tables, faults>>

-----------------------------------------------------------------------------
(* A statement fails, or the process stops: what was committed stays. *)
Fails(c) ==
    /\ call[c].at \in Phase \ {"idle"}
    /\ Fault
    /\ Goes(c, "500")
    /\ UNCHANGED Tables

Step(c) == \/ CreateAccount(c) \/ Create(c) \/ LostRace(c) \/ SetRoles(c) \/ LinkTechnician(c)
           \/ AssignJobTechnician(c)
           \/ FindBusinesses(c) \/ FindTechnician(c) \/ ShowJobs(c)

Next == \/ \E c \in Calls, e \in Emails :
             \/ \E p \in Phones \cup {None} : Register(c, e, p)
             \/ \E b \in Businesses, p \in Phones \cup {None}, secret \in BOOLEAN :
                  CreateTechnician(c, b, e, p, secret)
             \/ \E b \in Businesses, j \in Jobs : AssignTechnician(c, b, j, e)
             \/ ListTechnicianJobs(c, e)
        \/ \E b \in Businesses, e \in Emails, active \in BOOLEAN : UpdateTechnician(b, e, active)
        \/ \E c \in Calls : Step(c) \/ Fails(c)

Spec == Init /\ [][Next]_vars

-----------------------------------------------------------------------------
TypeOK == /\ account \in [Emails -> Account \cup {None}]
          /\ member \in [Businesses -> [Emails -> Flag]]
          /\ technician \in [Businesses -> [Emails -> Flag]]
          /\ assigned \in [Jobs -> Technicians \cup {None}]
          /\ call \in [Calls -> CallState]
          /\ faults \in 0..MaxFaults

(* The access gate and the roster agree: a technician's membership is      *)
(* there, and active, exactly when the roster row is, and both belong to   *)
(* an account that holds the role (linkTechnician, updateTechnician).      *)
RowsInStep == \A b \in Businesses, e \in Emails :
                 /\ member[b][e] = technician[b][e]
                 /\ technician[b][e] # "absent" => Exists(e) /\ "TECHNICIAN" \in account[e].roles

(* Of all the invitations of one account to one business, racing or        *)
(* repeated, one answers 201: nobody is told that they added a technician  *)
(* who was there (linkTechnician).                                         *)
InvitedOnce == \A c, d \in Calls :
                 /\ call[c].does = "invite" /\ call[d].does = "invite"
                 /\ call[c].at = "201" /\ call[d].at = "201"
                 /\ call[c].b = call[d].b /\ call[c].e = call[d].e
                 => c = d

(* A listing that began after the deactivation of a technician shows no    *)
(* job of that business, unless they were activated again meanwhile        *)
(* (updateTechnician: "deactivation immediately revokes business access"). *)
RevokedSeesNothing == \A c \in Calls : \A j \in call[c].shown : BusinessOf(j) \notin call[c].gone
=============================================================================
