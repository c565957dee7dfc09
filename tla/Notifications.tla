----------------------------- MODULE Notifications -----------------------------
(***************************************************************************)
(* A notification is a row of MySQL; to the provider side it is also an    *)
(* e-mail.  The service handles the recipients of an event one after the   *)
(* other: insert the row, look the account up, record PENDING, send,       *)
(* record the outcome.  The row is the notification of record: whatever    *)
(* goes wrong with the mail is swallowed, whatever goes wrong with the row *)
(* ends the event and is swallowed by the feature that emitted it.         *)
(*                                                                         *)
(* `mailed` counts the messages the relay took for a row: the program does *)
(* not know it, the properties compare what it recorded with it.           *)
(***************************************************************************)
EXTENDS Naturals, Sequences, FiniteSets, SequencesExt

CONSTANTS
    Users,      \* the accounts
    RolesOf,    \* RolesOf[u]: the roles of the account
    Events,     \* the events the features announce
    TypeOf,     \* TypeOf[e]: the notification type
    HasJob,     \* the events that name a job
    Recipients, \* Recipients[e]: the sequence of user ids the feature computed
    MaxFaults   \* bound: storage, mail and network failures, restarts

ASSUME RolesAssumption == \A u \in Users : IsFiniteSet(RolesOf[u])
ASSUME RecipientsAssumption == Recipients \in [Events -> Seq(Users)]
ASSUME HasJobAssumption == HasJob \subseteq Events
ASSUME NotificationFaultsAssumption == MaxFaults \in Nat

VARIABLES
    rows,    \* the table: [user, event, read, email, mailed], by id
    phase,   \* phase[e]: how far createForUsers has come with e
    todo,    \* todo[e]: the places in Recipients[e] still to come
    current, \* current[e]: the row that is being mailed
    active,  \* the provider-side accounts that are ACTIVE when their mail is due
    aborted, \* history: the events a storage failure or a restart cut short
    blurred, \* history: the rows whose mail or whose record a fault touched
    faults   \* how many faults happened

server == <<rows, phase, todo, current, active, aborted, blurred>>
nvars == <<server, faults>>

-----------------------------------------------------------------------------
EmailStatus == {"NONE", "PENDING", "SENT", "FAILED", "SKIPPED"}
Phase == {"idle", "create", "lookup", "send", "sent", "failed", "done", "aborted"}
AtWork == {"create", "lookup", "send", "sent", "failed"}

EMAIL_RECIPIENT_ROLES == {"PROFESSIONAL", "BUSINESS_OWNER", "BUSINESS_MANAGER", "TECHNICIAN"}
IsEmailRecipient(u) == RolesOf[u] \cap EMAIL_RECIPIENT_ROLES # {}

(* new Set(ids), in the order of the list: the owner of a business who is  *)
(* also its manager is listed twice, and the first place counts.           *)
Firsts(ids) == {i \in DOMAIN ids : \A k \in DOMAIN ids : k < i => ids[k] # ids[i]}
NextOf(e) == CHOOSE i \in todo[e] : \A k \in todo[e] : i <= k
Recipient(e) == Recipients[e][NextOf(e)]

Row(e, u) == [user |-> u, event |-> e, read |-> FALSE, email |-> "NONE", mailed |-> 0]
RowsOf(u) == {i \in DOMAIN rows : rows[i].user = u}
Unread(u) == {i \in RowsOf(u) : ~rows[i].read}
Told(e) == {rows[i].user : i \in {j \in DOMAIN rows : rows[j].event = e}}

Fault == faults < MaxFaults /\ faults' = faults + 1
NoFault == UNCHANGED faults

ServerInit == /\ rows = <<>>
              /\ phase = [e \in Events |-> "idle"]
              /\ todo = [e \in Events |-> {}]
              /\ current = [e \in Events |-> 0]
              /\ active \in SUBSET {u \in Users : IsEmailRecipient(u)}
              /\ aborted = {}
              /\ blurred = {}
              /\ faults = 0

-----------------------------------------------------------------------------
(* Mutant: a failed mail ends the event. *)
StopsOnFailure(e, how) ==
    phase' = [phase EXCEPT ![e] = IF todo[e] = {} \/ how = "failed" THEN "done" ELSE "create"]

(* The loop of createForUsers goes to the next recipient.                  *)
NextRecipient(e, how) ==
    phase' = [phase EXCEPT ![e] = IF todo[e] = {} THEN "done" ELSE "create"]

CreateForUsers(e) ==
    /\ phase[e] = "idle"
    /\ todo' = [todo EXCEPT ![e] = Firsts(Recipients[e])]
    /\ phase' = [phase EXCEPT ![e] = IF Recipients[e] = <<>> THEN "done" ELSE "create"]
    /\ UNCHANGED <<rows, current, active, aborted, blurred>>
    /\ NoFault

Create(e) ==
    /\ phase[e] = "create"
    /\ rows' = Append(rows, Row(e, Recipient(e)))
    /\ todo' = [todo EXCEPT ![e] = @ \ {NextOf(e)}]
    /\ current' = [current EXCEPT ![e] = Len(rows) + 1]
    /\ phase' = [phase EXCEPT ![e] = "lookup"]
    /\ UNCHANGED <<active, aborted, blurred>>
    /\ NoFault

(* The insert throws, or the row that is in cannot be read back.           *)
CreateFails(e) ==
    /\ phase[e] = "create"
    /\ \/ UNCHANGED rows
       \/ rows' = Append(rows, Row(e, Recipient(e)))
    /\ phase' = [phase EXCEPT ![e] = "aborted"]
    /\ aborted' = aborted \cup {e}
    /\ UNCHANGED <<todo, current, active, blurred>>
    /\ Fault

-----------------------------------------------------------------------------
(* deliverEmail *)
Records(i, status) == rows' = [rows EXCEPT ![i].email = status]

Deliverable(e, u) == u \in active /\ e \in HasJob

(* Roles, account and link decide; SKIPPED or PENDING is recorded.         *)
DeliverEmail(e) ==
    /\ phase[e] = "lookup"
    /\ LET u == rows[current[e]].user
       IN  \/ /\ ~IsEmailRecipient(u)
              /\ NextRecipient(e, "none")
              /\ UNCHANGED rows
           \/ /\ IsEmailRecipient(u) /\ ~Deliverable(e, u)
              /\ Records(current[e], "SKIPPED")
              /\ NextRecipient(e, "skipped")
           \/ /\ IsEmailRecipient(u) /\ Deliverable(e, u)
              /\ Records(current[e], "PENDING")
              /\ phase' = [phase EXCEPT ![e] = "send"]
    /\ UNCHANGED <<todo, current, active, aborted, blurred>>
    /\ NoFault

(* The lookup throws and no status is claimed, or the record is lost and   *)
(* delivery goes on without it.                                            *)
DeliverEmailFails(e) ==
    /\ phase[e] = "lookup"
    /\ LET u == rows[current[e]].user
       IN  \/ NextRecipient(e, "error")
           \/ /\ IsEmailRecipient(u) /\ Deliverable(e, u)
              /\ phase' = [phase EXCEPT ![e] = "send"]
    /\ blurred' = blurred \cup {current[e]}
    /\ UNCHANGED <<rows, todo, current, active, aborted>>
    /\ Fault

Send(e) ==
    /\ phase[e] = "send"
    /\ rows' = [rows EXCEPT ![current[e]].mailed = @ + 1]
    /\ phase' = [phase EXCEPT ![e] = "sent"]
    /\ UNCHANGED <<todo, current, active, aborted, blurred>>
    /\ NoFault

(* The relay refuses, or takes the message and its answer is lost.         *)
SendFails(e) ==
    /\ phase[e] = "send"
    /\ \/ UNCHANGED rows
       \/ rows' = [rows EXCEPT ![current[e]].mailed = @ + 1]
    /\ phase' = [phase EXCEPT ![e] = "failed"]
    /\ blurred' = blurred \cup {current[e]}
    /\ UNCHANGED <<todo, current, active, aborted>>
    /\ Fault

(* Mutant: SENT whatever became of the message. *)
AlwaysSent(e) == "SENT"

Outcome(e) == IF phase[e] = "sent" THEN "SENT" ELSE "FAILED"

RecordEmail(e) ==
    /\ phase[e] \in {"sent", "failed"}
    /\ Records(current[e], Outcome(e))
    /\ NextRecipient(e, phase[e])
    /\ UNCHANGED <<todo, current, active, aborted, blurred>>
    /\ NoFault

RecordEmailFails(e) ==
    /\ phase[e] \in {"sent", "failed"}
    /\ NextRecipient(e, phase[e])
    /\ blurred' = blurred \cup {current[e]}
    /\ UNCHANGED <<rows, todo, current, active, aborted>>
    /\ Fault

-----------------------------------------------------------------------------
(* Nothing resumes an event after a restart. *)
Restart ==
    /\ Fault
    /\ LET cut == {e \in Events : phase[e] \in AtWork}
       IN  /\ phase' = [e \in Events |-> IF e \in cut THEN "aborted" ELSE phase[e]]
           /\ aborted' = aborted \cup cut
           /\ blurred' = blurred \cup {current[e] : e \in cut}
    /\ UNCHANGED <<rows, todo, current, active>>

(* The inbox of the recipient. *)
MarkRead(u, i) == rows' = IF rows[i].user = u THEN [rows EXCEPT ![i].read = TRUE] ELSE rows

MarkAllRead(u) ==
    rows' = [i \in DOMAIN rows |-> IF rows[i].user = u THEN [rows[i] EXCEPT !.read = TRUE]
                                   ELSE rows[i]]

Delivers(e) == \/ Create(e) \/ DeliverEmail(e) \/ Send(e) \/ RecordEmail(e)
DeliveryFails(e) == \/ CreateFails(e) \/ DeliverEmailFails(e)
                    \/ SendFails(e) \/ RecordEmailFails(e)
ServerStep == \/ \E e \in Events : CreateForUsers(e) \/ Delivers(e) \/ DeliveryFails(e)
              \/ Restart

-----------------------------------------------------------------------------
ServerTypeOK ==
    /\ rows \in Seq([user : Users, event : Events, read : BOOLEAN,
                     email : EmailStatus, mailed : Nat])
    /\ phase \in [Events -> Phase]
    /\ todo \in [Events -> SUBSET Nat]
    /\ current \in [Events -> Nat]
    /\ \A e \in Events : /\ phase[e] = "create" => todo[e] # {}
                         /\ phase[e] \in AtWork \ {"create"} => current[e] \in DOMAIN rows
    /\ active \subseteq Users
    /\ aborted \subseteq Events
    /\ blurred \subseteq Nat
    /\ faults \in Nat

(* What the tracking columns say of a mail is what happened to it: SENT    *)
(* only if the relay took it, nothing or SKIPPED only if it was never      *)
(* given one.  A row that says less than happened is at work, or a fault   *)
(* touched it.                                                             *)
EmailStatusIsTrue ==
    \A i \in DOMAIN rows :
        LET atWork == \E e \in Events : current[e] = i /\ phase[e] \in {"sent", "failed"}
        IN  /\ rows[i].email = "SENT" => rows[i].mailed = 1
            /\ rows[i].email = "SKIPPED" => rows[i].mailed = 0
            /\ rows[i].mailed = 1 /\ rows[i].email # "SENT" => atWork \/ i \in blurred

(* "Persist the same event for several recipients (deduped)": whatever     *)
(* fails, nobody has two notices of an event, and one that came to its end *)
(* has told all its recipients and nobody else.                            *)
EachToldOnce ==
    \A e \in Events :
        /\ \A i, j \in {k \in DOMAIN rows : rows[k].event = e} : rows[i].user = rows[j].user => i = j
        /\ phase[e] = "done" => Told(e) = ToSet(Recipients[e])

(* "the in-app row is the notification of record": no failure of the mail  *)
(* keeps it from anybody; only the storage or a stop of the server does.   *)
(* (An event that has begun stays begun and who is told stays told, so     *)
(* this is that whoever is to be told is told in the end.)                 *)
EveryRecipientIsTold ==
    \A e \in Events : []<>(phase[e] = "idle" \/ e \in aborted \/ ToSet(Recipients[e]) \subseteq Told(e))
=============================================================================
