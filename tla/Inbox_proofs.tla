------------------------------ MODULE Inbox_proofs -------------------------------
(***************************************************************************)
(* Proofs about Inbox and the Notifications it extends, for any accounts,  *)
(* events, recipient lists and number of calls under way.                  *)
(*                                                                         *)
(* The server: an event that is at a row is at one of its own (Mailing),   *)
(* so what it records of a mail no other event records; and the recipients *)
(* that have a row and the places still to come are apart and together all *)
(* there are (Telling).                                                    *)
(*                                                                         *)
(* The page: whatever it asked for on its screen it asked as whoever is    *)
(* signed in, or was last, because leaving unsubscribes and nobody else    *)
(* signs in before that (Listing); and rows only come,                     *)
(* and only become read, so that a list answered earlier says nothing      *)
(* false of what it shows as read (RowsGrow).                              *)
(***************************************************************************)
EXTENDS Inbox, FiniteSetTheorems, NaturalsInduction, WellFoundedInduction, TLAPS

Notice == [user : Users, event : Events, read : BOOLEAN, email : EmailStatus, mailed : Nat]

-----------------------------------------------------------------------------
(* The recipients of an event *)

LEMMA Least ==
    ASSUME NEW S, S \subseteq Nat, S # {}
    PROVE  \E i \in S : \A k \in S : i <= k
<1>. DEFINE R == OpToRel(<, Nat)
<1>0. IsWellFoundedOn(R, Nat)
  BY NatLessThanWellFounded, Zenon
<1>. HIDE DEF R
<1>1. PICK i \in S : \A k \in S : ~(<<k, i>> \in R)
  BY <1>0, WFMin, Zenon
<1>2. ASSUME NEW k \in S PROVE i <= k
  <2>1. k \in Nat /\ i \in Nat
    OBVIOUS
  <2>2. k < i => <<k, i>> \in R
    BY <2>1, Zenon DEF R, OpToRel
  <2>3. ~(k < i)
    BY <1>1, <2>2, Zenon
  <2>. QED
    BY <2>1, <2>3
<1>. QED
  BY <1>2

(* The first places of a list name each of its ids, and none twice. *)
LEMMA FirstsNameAll ==
    ASSUME NEW ids \in Seq(Users)
    PROVE  /\ Firsts(ids) \subseteq DOMAIN ids
           /\ \A k \in DOMAIN ids : \E i \in Firsts(ids) : ids[i] = ids[k]
           /\ \A i, k \in Firsts(ids) : ids[i] = ids[k] => i = k
<1>1. DOMAIN ids \subseteq Nat
  OBVIOUS
<1>2. ASSUME NEW k \in DOMAIN ids PROVE \E i \in Firsts(ids) : ids[i] = ids[k]
  <2>. DEFINE S == {i \in DOMAIN ids : ids[i] = ids[k]}
  <2>1. S \subseteq Nat /\ S # {}
    BY <1>1
  <2>2. PICK i \in S : \A j \in S : i <= j
    BY <2>1, Least
  <2>3. i \in DOMAIN ids /\ ids[i] = ids[k]
    BY <2>2
  <2>4. ASSUME NEW j \in DOMAIN ids, j < i PROVE ids[j] # ids[i]
    BY <1>1, <2>2, <2>3, <2>4
  <2>. QED
    BY <2>3, <2>4 DEF Firsts
<1>3. ASSUME NEW i \in Firsts(ids), NEW k \in Firsts(ids), ids[i] = ids[k] PROVE i = k
  <2>1. i \in Nat /\ k \in Nat /\ ~(i < k) /\ ~(k < i)
    BY <1>1, <1>3 DEF Firsts
  <2>. QED
    BY <2>1
<1>. QED
  BY <1>2, <1>3 DEF Firsts

LEMMA NextIsToCome ==
    ASSUME NEW e \in Events, todo[e] \subseteq Nat, todo[e] # {}
    PROVE  NextOf(e) \in todo[e]
BY Least DEF NextOf

-----------------------------------------------------------------------------
(* The rows and the events at them *)

(* The row an event is at is its own, and how far its mail is.             *)
Mailing(e) ==
    LET r == rows[current[e]] IN
    /\ phase[e] \in AtWork \ {"create"} => current[e] \in DOMAIN rows /\ r.event = e
    /\ phase[e] = "lookup" => r.email = "NONE" /\ r.mailed = 0
    /\ phase[e] = "send"   => r.email \in {"NONE", "PENDING"} /\ r.mailed = 0
    /\ phase[e] = "sent"   => r.email \in {"NONE", "PENDING"} /\ r.mailed = 1
    /\ phase[e] = "failed" => r.email \in {"NONE", "PENDING"} /\ current[e] \in blurred

Recorded(i) ==
    /\ rows[i].mailed \in {0, 1}
    /\ rows[i].email = "SENT" => rows[i].mailed = 1
    /\ rows[i].email = "SKIPPED" => rows[i].mailed = 0
    /\ rows[i].mailed = 1 /\ rows[i].email # "SENT" =>
          i \in blurred \/ \E e \in Events : current[e] = i /\ phase[e] \in {"sent", "failed"}

RowsFor(e) == {i \in DOMAIN rows : rows[i].event = e}

(* Who has been told, and who is still to come. *)
Telling(e) ==
    /\ todo[e] \subseteq Firsts(Recipients[e])
    /\ phase[e] = "idle" => RowsFor(e) = {}
    /\ phase[e] = "create" => todo[e] # {}
    /\ phase[e] = "done" => todo[e] = {}
    /\ \A i \in RowsFor(e) : rows[i].user \in ToSet(Recipients[e])
    /\ \A i, j \in RowsFor(e) : rows[i].user = rows[j].user => i = j
    /\ phase[e] # "aborted" =>
          \A i \in RowsFor(e), k \in todo[e] : rows[i].user # Recipients[e][k]
    /\ phase[e] \notin {"idle", "aborted"} =>
          \A u \in ToSet(Recipients[e]) : \/ \E i \in RowsFor(e) : rows[i].user = u
                                          \/ \E k \in todo[e] : Recipients[e][k] = u

SInv == /\ ServerTypeOK
        /\ \A e \in Events : Mailing(e) /\ Telling(e)
        /\ \A i \in DOMAIN rows : Recorded(i)

(* What every step does to the rows, and what most do: no row goes, none     *)
(* changes hands, none becomes unread.                                       *)
RowsGrow ==
    /\ DOMAIN rows \subseteq DOMAIN rows'
    /\ \A i \in DOMAIN rows : /\ rows'[i].user = rows[i].user
                              /\ rows[i].read => rows'[i].read

SameNotices ==
    /\ rows' \in Seq(Notice)
    /\ DOMAIN rows' = DOMAIN rows
    /\ \A i \in DOMAIN rows : /\ rows'[i].user = rows[i].user
                              /\ rows'[i].event = rows[i].event
                              /\ rows[i].read => rows'[i].read

Untouched(i) == rows'[i].email = rows[i].email /\ rows'[i].mailed = rows[i].mailed

LEMMA SameRowsGrow == SameNotices => RowsGrow
BY DEF SameNotices, RowsGrow

LEMMA RowsType == ServerTypeOK <=> /\ rows \in Seq(Notice)
                                   /\ phase \in [Events -> Phase]
                                   /\ todo \in [Events -> SUBSET Nat]
                                   /\ current \in [Events -> Nat]
                                   /\ \A e \in Events :
                                        /\ phase[e] = "create" => todo[e] # {}
                                        /\ phase[e] \in AtWork \ {"create"} => current[e] \in DOMAIN rows
                                   /\ active \subseteq Users
                                   /\ aborted \subseteq Events
                                   /\ blurred \subseteq Nat
                                   /\ faults \in Nat
BY DEF ServerTypeOK, Notice

LEMMA RowsAre ==
    ASSUME rows \in Seq(Notice)
    PROVE  /\ DOMAIN rows = 1..Len(rows) /\ Len(rows) \in Nat
           /\ \A i \in DOMAIN rows : rows[i] \in Notice
OBVIOUS

(* One row is written. *)
LEMMA RowWritten ==
    ASSUME rows \in Seq(Notice), NEW i \in DOMAIN rows, NEW r \in Notice,
           rows' = [rows EXCEPT ![i] = r],
           r.user = rows[i].user, r.event = rows[i].event, rows[i].read => r.read
    PROVE  SameNotices /\ rows'[i] = r /\ \A k \in DOMAIN rows \ {i} : Untouched(k)
<1>1. rows' \in Seq(Notice) /\ DOMAIN rows' = DOMAIN rows
  OBVIOUS
<1>2. \A k \in DOMAIN rows : rows'[k] = IF k = i THEN r ELSE rows[k]
  OBVIOUS
<1>. QED
  BY <1>1, <1>2 DEF SameNotices, Untouched

LEMMA RowsStay ==
    ASSUME rows \in Seq(Notice), UNCHANGED rows
    PROVE  SameNotices /\ \A k \in DOMAIN rows : Untouched(k)
BY DEF SameNotices, Untouched

LEMMA TellingFrame ==
    ASSUME NEW f \in Events, Telling(f), RowsFor(f)' = RowsFor(f),
           \A i \in RowsFor(f) : rows'[i].user = rows[i].user, todo'[f] = todo[f],
           phase'[f] = "idle" => phase[f] = "idle",
           phase'[f] = "create" => todo[f] # {},
           phase'[f] = "done" => todo[f] = {},
           phase[f] = "aborted" => phase'[f] = "aborted",
           phase[f] = "idle" => phase'[f] = "idle"
    PROVE  Telling(f)'
BY DEF Telling

LEMMA TellingStays ==
    ASSUME NEW f \in Events, Telling(f), SameNotices, todo'[f] = todo[f],
           phase'[f] = "idle" => phase[f] = "idle",
           phase'[f] = "create" => todo[f] # {},
           phase'[f] = "done" => todo[f] = {},
           phase[f] = "aborted" => phase'[f] = "aborted",
           phase[f] = "idle" => phase'[f] = "idle"
    PROVE  Telling(f)'
<1>1. RowsFor(f)' = RowsFor(f) /\ \A i \in RowsFor(f) : rows'[i].user = rows[i].user
  BY DEF SameNotices, RowsFor
<1>. QED
  BY <1>1, TellingFrame

LEMMA MailingStays ==
    ASSUME NEW f \in Events, Mailing(f), SameNotices,
           phase'[f] = phase[f], current'[f] = current[f], blurred \subseteq blurred',
           phase[f] \in AtWork \ {"create"} => Untouched(current[f])
    PROVE  Mailing(f)'
<1>1. CASE phase[f] \in AtWork \ {"create"}
  BY <1>1 DEF Mailing, SameNotices, Untouched
<1>2. CASE phase[f] \notin AtWork \ {"create"}
  BY <1>2 DEF Mailing, AtWork
<1>. QED
  BY <1>1, <1>2

LEMMA RecordedStays ==
    ASSUME NEW i \in DOMAIN rows, Recorded(i), Untouched(i), blurred \subseteq blurred',
           \A f \in Events : current[f] = i /\ phase[f] \in {"sent", "failed"} =>
               i \in blurred' \/ (current'[f] = i /\ phase'[f] \in {"sent", "failed"})
    PROVE  Recorded(i)'
BY DEF Recorded, Untouched

(* An event takes a step at its row, and no other event is there. *)
LEMMA OwnStep ==
    ASSUME SInv, NEW e \in Events, phase[e] \in AtWork \ {"create"},
           SameNotices, \A i \in DOMAIN rows \ {current[e]} : Untouched(i),
           NEW ph \in {"create", "send", "sent", "failed", "done"},
           phase' = [phase EXCEPT ![e] = ph],
           ph = "create" => todo[e] # {}, ph = "done" => todo[e] = {},
           UNCHANGED <<todo, current, active, aborted>>,
           blurred' \in {blurred, blurred \cup {current[e]}}, faults' \in Nat,
           Mailing(e)', Recorded(current[e])'
    PROVE  SInv'
<1>1. ServerTypeOK /\ Mailing(e) /\ Telling(e) /\ current[e] \in DOMAIN rows
      /\ rows[current[e]].event = e
  BY DEF SInv, Mailing
<1>2. phase' \in [Events -> Phase] /\ phase'[e] = ph /\ \A f \in Events \ {e} : phase'[f] = phase[f]
  BY <1>1 DEF ServerTypeOK, Phase
<1>3. blurred \subseteq blurred' /\ blurred' \subseteq Nat
  BY <1>1 DEF ServerTypeOK
<1>4. ASSUME NEW f \in Events \ {e} PROVE Mailing(f)' /\ Telling(f)'
  <2>1. Mailing(f) /\ Telling(f)
    BY DEF SInv
  <2>2. phase[f] \in AtWork \ {"create"} => current[f] \in DOMAIN rows \ {current[e]}
    BY <1>1, <2>1 DEF Mailing
  <2>3. Mailing(f)'
    BY <1>2, <1>3, <2>1, <2>2, MailingStays
  <2>4. Telling(f)'
    BY <1>2, <2>1, TellingStays DEF Telling
  <2>. QED
    BY <2>3, <2>4
<1>5. Telling(e)'
  BY <1>1, <1>2, TellingStays DEF AtWork
<1>6. ASSUME NEW i \in DOMAIN rows' PROVE Recorded(i)'
  <2>1. i \in DOMAIN rows /\ Recorded(i)
    BY DEF SameNotices, SInv
  <2>2. CASE i # current[e]
    <3>1. \A f \in Events : current[f] = i /\ phase[f] \in {"sent", "failed"} =>
               current'[f] = i /\ phase'[f] \in {"sent", "failed"}
      BY <1>2, <2>2
    <3>. QED
      BY <1>3, <2>1, <2>2, <3>1, RecordedStays
  <2>. QED
    BY <2>2
<1>7. ServerTypeOK'
  <2>1. /\ rows' \in Seq(Notice) /\ todo' \in [Events -> SUBSET Nat] /\ current' \in [Events -> Nat]
        /\ active' \subseteq Users /\ aborted' \subseteq Events
    BY <1>1 DEF ServerTypeOK, SameNotices
  <2>2. ASSUME NEW f \in Events
        PROVE  /\ phase'[f] = "create" => todo'[f] # {}
               /\ phase'[f] \in AtWork \ {"create"} => current'[f] \in DOMAIN rows'
    BY <1>1, <1>2 DEF ServerTypeOK, SameNotices
  <2>. QED
    BY <1>2, <1>3, <2>1, <2>2, RowsType DEF ServerTypeOK, Notice
<1>. QED
  BY <1>4, <1>5, <1>6, <1>7 DEF SInv

-----------------------------------------------------------------------------
(* The steps of an event *)

LEMMA CreateForUsersKeeps ==
    ASSUME SInv, NEW e \in Events, CreateForUsers(e)
    PROVE  SInv' /\ RowsGrow
<1>. DEFINE ph == IF Recipients[e] = <<>> THEN "done" ELSE "create"
<1>1. /\ ServerTypeOK /\ phase[e] = "idle" /\ Telling(e) /\ Recipients[e] \in Seq(Users)
      /\ UNCHANGED <<rows, current, active, aborted, blurred, faults>>
  BY RecipientsAssumption DEF SInv, CreateForUsers, NoFault
<1>2. /\ phase' \in [Events -> Phase] /\ phase'[e] = ph /\ \A f \in Events \ {e} : phase'[f] = phase[f]
  BY <1>1 DEF CreateForUsers, ServerTypeOK, Phase
<1>3. Firsts(Recipients[e]) \subseteq DOMAIN Recipients[e] /\ DOMAIN Recipients[e] \subseteq Nat
  BY <1>1, FirstsNameAll
<1>4. /\ todo' \in [Events -> SUBSET Nat] /\ todo'[e] = Firsts(Recipients[e])
      /\ \A f \in Events \ {e} : todo'[f] = todo[f]
  BY <1>1, <1>3 DEF CreateForUsers, ServerTypeOK
<1>5. SameNotices /\ \A k \in DOMAIN rows : Untouched(k)
  BY <1>1, RowsType, RowsStay
<1>6. ph = "create" => todo'[e] # {}
  <2>1. Recipients[e] # <<>> => 1 \in DOMAIN Recipients[e]
    BY <1>1
  <2>. QED
    BY <1>1, <1>4, <2>1, FirstsNameAll
<1>7. ph = "done" => todo'[e] = {}
  BY <1>3, <1>4
<1>8. Telling(e)'
  <2>1. RowsFor(e)' = {}
    BY <1>1 DEF Telling, RowsFor
  <2>2. \A u \in ToSet(Recipients[e]) : \E k \in todo'[e] : Recipients[e][k] = u
    BY <1>1, <1>4, FirstsNameAll DEF ToSet
  <2>. QED
    BY <1>2, <1>4, <1>6, <1>7, <2>1, <2>2 DEF Telling
<1>9. Mailing(e)'
  BY <1>2 DEF Mailing, AtWork
<1>10. ASSUME NEW f \in Events \ {e} PROVE Mailing(f)' /\ Telling(f)'
  <2>1. Mailing(f) /\ Telling(f)
    BY DEF SInv
  <2>2. Mailing(f)'
    BY <1>1, <1>2, <1>5, <2>1, MailingStays DEF Mailing
  <2>3. Telling(f)'
    BY <1>2, <1>4, <1>5, <2>1, TellingStays DEF Telling
  <2>. QED
    BY <2>2, <2>3
<1>11. ASSUME NEW i \in DOMAIN rows' PROVE Recorded(i)'
  <2>1. i \in DOMAIN rows /\ Recorded(i)
    BY <1>1 DEF SInv
  <2>2. \A f \in Events : current[f] = i /\ phase[f] \in {"sent", "failed"} =>
             current'[f] = i /\ phase'[f] \in {"sent", "failed"}
    BY <1>1, <1>2
  <2>. QED
    BY <1>1, <1>5, <2>1, <2>2, RecordedStays
<1>12. ServerTypeOK'
  <2>1. ASSUME NEW f \in Events
        PROVE  /\ phase'[f] = "create" => todo'[f] # {}
               /\ phase'[f] \in AtWork \ {"create"} => current'[f] \in DOMAIN rows'
    BY <1>1, <1>2, <1>4, <1>6 DEF ServerTypeOK, AtWork
  <2>. QED
    BY <1>1, <1>2, <1>4, <2>1 DEF ServerTypeOK
<1>. QED
  BY <1>5, <1>8, <1>9, <1>10, <1>11, <1>12, SameRowsGrow DEF SInv

(* A row is added: the recipient's that is due, by his own event. *)
LEMMA RowAdded ==
    ASSUME SInv, NEW e \in Events, phase[e] = "create",
           rows' = Append(rows, Row(e, Recipient(e)))
    PROVE  /\ NextOf(e) \in todo[e] /\ NextOf(e) \in DOMAIN Recipients[e]
           /\ Len(rows) \in Nat /\ DOMAIN rows = 1..Len(rows)
           /\ rows' \in Seq(Notice) /\ DOMAIN rows' = 1..(Len(rows) + 1)
           /\ \A i \in DOMAIN rows : rows'[i] = rows[i]
           /\ rows'[Len(rows) + 1] = Row(e, Recipient(e))
           /\ RowsGrow
           /\ \A f \in Events \ {e} : Mailing(f) => (phase'[f] = phase[f] /\ current'[f] = current[f]
                                         /\ blurred \subseteq blurred' => Mailing(f)')
           /\ \A f \in Events \ {e} : Telling(f) => (phase'[f] = phase[f] /\ todo'[f] = todo[f]
                                         => Telling(f)')
<1>1. /\ rows \in Seq(Notice) /\ todo[e] \subseteq Nat /\ todo[e] # {} /\ Telling(e)
      /\ Recipients[e] \in Seq(Users)
  BY RowsType, RecipientsAssumption DEF SInv
<1>2. NextOf(e) \in todo[e] /\ NextOf(e) \in DOMAIN Recipients[e]
  BY <1>1, NextIsToCome, FirstsNameAll DEF Telling
<1>3. Row(e, Recipient(e)) \in Notice
  BY <1>1, <1>2 DEF Row, Recipient, Notice, EmailStatus
<1>4. /\ Len(rows) \in Nat /\ DOMAIN rows = 1..Len(rows)
      /\ rows' \in Seq(Notice) /\ DOMAIN rows' = 1..(Len(rows) + 1)
      /\ \A i \in DOMAIN rows : rows'[i] = rows[i]
      /\ rows'[Len(rows) + 1] = Row(e, Recipient(e))
  BY <1>1, <1>3
<1>5. RowsGrow
  BY <1>4 DEF RowsGrow
<1>6. ASSUME NEW f \in Events \ {e}, Mailing(f), phase'[f] = phase[f], current'[f] = current[f],
             blurred \subseteq blurred'
      PROVE  Mailing(f)'
  <2>1. CASE phase[f] \in AtWork \ {"create"}
    <3>1. current[f] \in DOMAIN rows /\ rows'[current[f]] = rows[current[f]] /\ DOMAIN rows \subseteq DOMAIN rows'
      BY <1>4, <1>5, <1>6, <2>1 DEF Mailing, RowsGrow
    <3>. QED
      BY <1>6, <3>1 DEF Mailing
  <2>2. CASE phase[f] \notin AtWork \ {"create"}
    BY <1>6, <2>2 DEF Mailing, AtWork
  <2>. QED
    BY <2>1, <2>2
<1>7. ASSUME NEW f \in Events \ {e}, Telling(f), phase'[f] = phase[f], todo'[f] = todo[f]
      PROVE  Telling(f)'
  <2>1. Row(e, Recipient(e)).event # f
    BY DEF Row
  <2>2. RowsFor(f)' = RowsFor(f) /\ \A i \in RowsFor(f) : rows'[i].user = rows[i].user
    BY <1>4, <2>1 DEF RowsFor
  <2>3. /\ phase[f] = "create" => todo[f] # {}
        /\ phase[f] = "done" => todo[f] = {}
    BY <1>7 DEF Telling
  <2>. QED
    BY <1>7, <2>2, <2>3, TellingFrame
<1>. QED
  BY <1>2, <1>4, <1>5, <1>6, <1>7

LEMMA CreateKeeps ==
    ASSUME SInv, NEW e \in Events, Create(e)
    PROVE  SInv' /\ RowsGrow
<1>. DEFINE n == Len(rows) + 1
<1>1. /\ ServerTypeOK /\ phase[e] = "create" /\ Telling(e) /\ Recipients[e] \in Seq(Users)
      /\ UNCHANGED <<active, aborted, blurred, faults>>
      /\ rows' = Append(rows, Row(e, Recipient(e)))
  BY RecipientsAssumption DEF SInv, Create, NoFault
<1>2. /\ NextOf(e) \in todo[e] /\ NextOf(e) \in DOMAIN Recipients[e]
      /\ Len(rows) \in Nat /\ DOMAIN rows = 1..Len(rows)
      /\ rows' \in Seq(Notice) /\ DOMAIN rows' = 1..n
      /\ \A i \in DOMAIN rows : rows'[i] = rows[i]
      /\ rows'[n] = Row(e, Recipient(e))
      /\ RowsGrow
  BY <1>1, RowAdded
<1>3. /\ phase' \in [Events -> Phase] /\ phase'[e] = "lookup"
      /\ \A f \in Events \ {e} : phase'[f] = phase[f]
  BY <1>1 DEF Create, ServerTypeOK, Phase
<1>4. /\ todo' \in [Events -> SUBSET Nat] /\ todo'[e] = todo[e] \ {NextOf(e)}
      /\ \A f \in Events \ {e} : todo'[f] = todo[f]
  BY <1>1 DEF Create, ServerTypeOK
<1>5. /\ current' \in [Events -> Nat] /\ current'[e] = n
      /\ \A f \in Events \ {e} : current'[f] = current[f]
  BY <1>1, <1>2 DEF Create, ServerTypeOK
<1>6. ASSUME NEW f \in Events \ {e} PROVE Mailing(f)' /\ Telling(f)'
  BY <1>1, <1>3, <1>4, <1>5, RowAdded DEF SInv
<1>7. Mailing(e)'
  BY <1>2, <1>3, <1>5 DEF Mailing, Row
<1>8. Telling(e)'
  <2>1. RowsFor(e)' = RowsFor(e) \cup {n} /\ n \notin RowsFor(e)
    BY <1>2 DEF RowsFor, Row
  <2>2. \A i \in RowsFor(e) : rows'[i].user = rows[i].user
    BY <1>2 DEF RowsFor
  <2>3. rows'[n].user = Recipients[e][NextOf(e)] /\ Recipients[e][NextOf(e)] \in ToSet(Recipients[e])
    BY <1>2 DEF Row, Recipient, ToSet
  <2>4. \A i \in RowsFor(e) : rows[i].user # Recipients[e][NextOf(e)]
    BY <1>1, <1>2 DEF Telling
  <2>. HIDE DEF n
  <2>5. \A i, j \in RowsFor(e)' : rows'[i].user = rows'[j].user => i = j
    <3>1. \A i, j \in RowsFor(e) : rows[i].user = rows[j].user => i = j
      BY <1>1 DEF Telling
    <3>2. \A i \in RowsFor(e) : rows'[i].user # rows'[n].user
      BY <2>2, <2>3, <2>4
    <3>3. TAKE i \in RowsFor(e)', j \in RowsFor(e)'
    <3>. QED
      BY <2>1, <2>2, <3>1, <3>2
  <2>6. \A i \in RowsFor(e)', k \in todo'[e] : rows'[i].user # Recipients[e][k]
    <3>1. \A k \in todo'[e] : Recipients[e][k] # Recipients[e][NextOf(e)]
      BY <1>1, <1>2, <1>4, FirstsNameAll DEF Telling
    <3>2. \A i \in RowsFor(e), k \in todo[e] : rows[i].user # Recipients[e][k]
      BY <1>1 DEF Telling
    <3>3. TAKE i \in RowsFor(e)', k \in todo'[e]
    <3>. QED
      BY <1>4, <2>1, <2>2, <2>3, <3>1, <3>2
  <2>7. \A u \in ToSet(Recipients[e]) : \/ \E i \in RowsFor(e)' : rows'[i].user = u
                                        \/ \E k \in todo'[e] : Recipients[e][k] = u
    <3>1. ASSUME NEW u \in ToSet(Recipients[e]), u # Recipients[e][NextOf(e)]
          PROVE  \/ \E i \in RowsFor(e)' : rows'[i].user = u
                 \/ \E k \in todo'[e] : Recipients[e][k] = u
      <4>1. \/ \E i \in RowsFor(e) : rows[i].user = u
            \/ \E k \in todo[e] : Recipients[e][k] = u
        BY <1>1 DEF Telling
      <4>2. ASSUME NEW k \in todo[e], Recipients[e][k] = u PROVE k \in todo'[e]
        BY <1>4, <3>1, <4>2
      <4>. QED
        BY <2>1, <2>2, <4>1, <4>2
    <3>. QED
      BY <2>1, <2>3, <3>1
  <2>8. \A i \in RowsFor(e)' : rows'[i].user \in ToSet(Recipients[e])
    BY <1>1, <2>1, <2>2, <2>3 DEF Telling
  <2>9. todo'[e] \subseteq Firsts(Recipients[e])
    BY <1>1, <1>4 DEF Telling
  <2>. QED
    BY <1>3, <2>5, <2>6, <2>7, <2>8, <2>9 DEF Telling
<1>9. ASSUME NEW i \in DOMAIN rows' PROVE Recorded(i)'
  <2>1. CASE i = n
    BY <1>2, <2>1 DEF Recorded, Row
  <2>2. CASE i # n
    <3>1. i \in DOMAIN rows /\ Recorded(i) /\ Untouched(i)
      BY <1>2, <2>2 DEF SInv, Untouched
    <3>2. \A f \in Events : current[f] = i /\ phase[f] \in {"sent", "failed"} =>
               current'[f] = i /\ phase'[f] \in {"sent", "failed"}
      BY <1>1, <1>3, <1>5
    <3>. QED
      BY <1>1, <3>1, <3>2, RecordedStays
  <2>. QED
    BY <2>1, <2>2
<1>10. ServerTypeOK'
  <2>1. ASSUME NEW f \in Events
        PROVE  /\ phase'[f] = "create" => todo'[f] # {}
               /\ phase'[f] \in AtWork \ {"create"} => current'[f] \in DOMAIN rows'
    <3>1. CASE f = e
      BY <1>2, <1>3, <1>5, <3>1
    <3>2. CASE f # e
      BY <1>1, <1>2, <1>3, <1>4, <1>5, <3>2 DEF ServerTypeOK
    <3>. QED
      BY <3>1, <3>2
  <2>. QED
    BY <1>1, <1>2, <1>3, <1>4, <1>5, <2>1 DEF ServerTypeOK, Notice
<1>. QED
  BY <1>2, <1>6, <1>7, <1>8, <1>9, <1>10 DEF SInv

(* An event is cut short: whatever it was at is behind it. *)
LEMMA AbortedEvent ==
    ASSUME NEW e \in Events, phase'[e] = "aborted"
    PROVE  Mailing(e)'
BY DEF Mailing, AtWork

LEMMA CreateFailsKeeps ==
    ASSUME SInv, NEW e \in Events, CreateFails(e)
    PROVE  SInv' /\ RowsGrow
<1>1. /\ ServerTypeOK /\ phase[e] = "create" /\ Telling(e) /\ Recipients[e] \in Seq(Users)
      /\ UNCHANGED <<todo, current, active, blurred>> /\ faults' \in Nat
      /\ aborted' \subseteq Events
      /\ UNCHANGED rows \/ rows' = Append(rows, Row(e, Recipient(e)))
  <2>1. /\ ServerTypeOK /\ phase[e] = "create" /\ Telling(e) /\ Recipients[e] \in Seq(Users)
        /\ UNCHANGED <<todo, current, active, blurred>>
        /\ aborted' = aborted \cup {e} /\ faults' = faults + 1
        /\ UNCHANGED rows \/ rows' = Append(rows, Row(e, Recipient(e)))
    BY RecipientsAssumption DEF SInv, CreateFails, Fault
  <2>. QED
    BY <2>1, RowsType
<1>2. /\ phase' \in [Events -> Phase] /\ phase'[e] = "aborted"
      /\ \A f \in Events \ {e} : phase'[f] = phase[f]
  BY <1>1 DEF CreateFails, ServerTypeOK, Phase
<1>3. Mailing(e)'
  BY <1>2, AbortedEvent
<1>4. ASSUME UNCHANGED rows PROVE SInv' /\ RowsGrow
  <2>1. SameNotices /\ \A k \in DOMAIN rows : Untouched(k)
    BY <1>1, <1>4, RowsType, RowsStay
  <2>2. ASSUME NEW f \in Events \ {e} PROVE Mailing(f)'
    BY <1>1, <1>2, <2>1, MailingStays DEF SInv, Mailing
  <2>3. ASSUME NEW f \in Events PROVE Telling(f)'
    <3>1. Telling(f)
      BY DEF SInv
    <3>2. phase'[f] = phase[f] \/ (phase[f] = "create" /\ phase'[f] = "aborted")
      BY <1>1, <1>2
    <3>. QED
      BY <1>1, <2>1, <3>1, <3>2, TellingStays DEF Telling
  <2>4. ASSUME NEW i \in DOMAIN rows' PROVE Recorded(i)'
    <3>1. i \in DOMAIN rows /\ Recorded(i)
      BY <1>4 DEF SInv
    <3>2. \A f \in Events : current[f] = i /\ phase[f] \in {"sent", "failed"} =>
               current'[f] = i /\ phase'[f] \in {"sent", "failed"}
      BY <1>1, <1>2
    <3>. QED
      BY <1>1, <2>1, <3>1, <3>2, RecordedStays
  <2>5. ServerTypeOK'
    BY <1>1, <1>2, <1>4 DEF ServerTypeOK, AtWork
  <2>. QED
    BY <1>3, <2>1, <2>2, <2>3, <2>4, <2>5, SameRowsGrow DEF SInv
<1>5. ASSUME rows' = Append(rows, Row(e, Recipient(e))) PROVE SInv' /\ RowsGrow
  <2>. DEFINE n == Len(rows) + 1
  <2>1. /\ NextOf(e) \in todo[e] /\ NextOf(e) \in DOMAIN Recipients[e]
        /\ Len(rows) \in Nat /\ DOMAIN rows = 1..Len(rows)
        /\ rows' \in Seq(Notice) /\ DOMAIN rows' = 1..n
        /\ \A i \in DOMAIN rows : rows'[i] = rows[i]
        /\ rows'[n] = Row(e, Recipient(e))
        /\ RowsGrow
    BY <1>1, <1>5, RowAdded
  <2>2. ASSUME NEW f \in Events \ {e} PROVE Mailing(f)' /\ Telling(f)'
    BY <1>1, <1>2, <1>5, RowAdded DEF SInv
  <2>3. Telling(e)'
    <3>1. RowsFor(e)' = RowsFor(e) \cup {n} /\ n \notin RowsFor(e)
      BY <2>1 DEF RowsFor, Row
    <3>2. \A i \in RowsFor(e) : rows'[i].user = rows[i].user
      BY <2>1 DEF RowsFor
    <3>3. rows'[n].user = Recipients[e][NextOf(e)] /\ Recipients[e][NextOf(e)] \in ToSet(Recipients[e])
      BY <2>1 DEF Row, Recipient, ToSet
    <3>4. \A i \in RowsFor(e) : rows[i].user # Recipients[e][NextOf(e)]
      BY <1>1, <2>1 DEF Telling
    <3>5. \A i, j \in RowsFor(e)' : rows'[i].user = rows'[j].user => i = j
      BY <1>1, <3>1, <3>2, <3>3, <3>4 DEF Telling
    <3>6. \A i \in RowsFor(e)' : rows'[i].user \in ToSet(Recipients[e])
      BY <1>1, <3>1, <3>2, <3>3 DEF Telling
    <3>. QED
      BY <1>1, <1>2, <3>5, <3>6 DEF Telling
  <2>4. ASSUME NEW i \in DOMAIN rows' PROVE Recorded(i)'
    <3>1. CASE i = n
      BY <2>1, <3>1 DEF Recorded, Row
    <3>2. CASE i # n
      <4>1. i \in DOMAIN rows /\ Recorded(i) /\ Untouched(i)
        BY <2>1, <3>2 DEF SInv, Untouched
      <4>2. \A f \in Events : current[f] = i /\ phase[f] \in {"sent", "failed"} =>
                 current'[f] = i /\ phase'[f] \in {"sent", "failed"}
        BY <1>1, <1>2
      <4>. QED
        BY <1>1, <4>1, <4>2, RecordedStays
    <3>. QED
      BY <3>1, <3>2
  <2>5. ServerTypeOK'
    <3>1. ASSUME NEW f \in Events
          PROVE  /\ phase'[f] = "create" => todo'[f] # {}
                 /\ phase'[f] \in AtWork \ {"create"} => current'[f] \in DOMAIN rows'
      <4>1. CASE f = e
        BY <1>2, <4>1 DEF AtWork
      <4>2. CASE f # e
        BY <1>1, <1>2, <2>1, <4>2 DEF ServerTypeOK
      <4>. QED
        BY <4>1, <4>2
    <3>. QED
      BY <1>1, <1>2, <2>1, <3>1 DEF ServerTypeOK, Notice
  <2>. QED
    BY <1>3, <2>1, <2>2, <2>3, <2>4, <2>5 DEF SInv
<1>. QED
  BY <1>1, <1>4, <1>5

LEMMA Recording ==
    ASSUME rows \in Seq(Notice), NEW i \in DOMAIN rows, NEW m \in EmailStatus, Records(i, m)
    PROVE  /\ SameNotices /\ \A k \in DOMAIN rows \ {i} : Untouched(k)
           /\ rows'[i].email = m /\ rows'[i].mailed = rows[i].mailed
           /\ rows'[i].event = rows[i].event
<1>. DEFINE r == [rows[i] EXCEPT !.email = m]
<1>1. rows[i] \in Notice
  OBVIOUS
<1>2. /\ r \in Notice /\ r.user = rows[i].user /\ r.event = rows[i].event /\ r.read = rows[i].read
      /\ r.email = m /\ r.mailed = rows[i].mailed
  BY <1>1 DEF Notice
<1>3. rows' = [rows EXCEPT ![i] = r]
  BY DEF Records
<1>. HIDE DEF r
<1>. QED
  BY <1>2, <1>3, RowWritten

Mails(i) == rows' = [rows EXCEPT ![i].mailed = @ + 1]

LEMMA Mailed ==
    ASSUME rows \in Seq(Notice), NEW i \in DOMAIN rows, Mails(i)
    PROVE  /\ SameNotices /\ \A k \in DOMAIN rows \ {i} : Untouched(k)
           /\ rows'[i].email = rows[i].email /\ rows'[i].mailed = rows[i].mailed + 1
           /\ rows'[i].event = rows[i].event
<1>. DEFINE n == rows[i].mailed + 1
            r == [rows[i] EXCEPT !.mailed = n]
<1>0. rows[i] \in Notice
  OBVIOUS
<1>1. rows[i] \in Notice /\ rows[i].mailed \in Nat /\ n \in Nat
  BY <1>0 DEF Notice
<1>3. rows' = [rows EXCEPT ![i] = r]
  BY DEF Mails
<1>n. n = rows[i].mailed + 1
  OBVIOUS
<1>. HIDE DEF n
<1>2. /\ r \in Notice /\ r.user = rows[i].user /\ r.event = rows[i].event /\ r.read = rows[i].read
      /\ r.email = rows[i].email /\ r.mailed = n
  BY <1>1 DEF Notice
<1>. HIDE DEF r
<1>. QED
  BY <1>n, <1>2, <1>3, RowWritten

LEMMA AtItsRow ==
    ASSUME SInv, NEW e \in Events, phase[e] \in AtWork \ {"create"}
    PROVE  /\ rows \in Seq(Notice) /\ current[e] \in DOMAIN rows /\ rows[current[e]] \in Notice
           /\ rows[current[e]].event = e /\ Mailing(e) /\ Recorded(current[e])
           /\ phase \in [Events -> Phase] /\ faults \in Nat
<1>1. ServerTypeOK /\ Mailing(e)
  BY DEF SInv
<1>2. rows \in Seq(Notice) /\ phase \in [Events -> Phase] /\ faults \in Nat
  BY <1>1, RowsType
<1>3. current[e] \in DOMAIN rows /\ rows[current[e]].event = e
  BY <1>1 DEF Mailing
<1>. QED
  BY <1>1, <1>2, <1>3 DEF SInv

(* The loop goes on. *)
LEMMA GoesOn ==
    ASSUME NEW e \in Events, NEW how, phase \in [Events -> Phase], NextRecipient(e, how)
    PROVE  \E ph \in {"create", "done"} :
                /\ phase' = [phase EXCEPT ![e] = ph]
                /\ phase'[e] = ph
                /\ ph = "create" => todo[e] # {}
                /\ ph = "done" => todo[e] = {}
BY DEF NextRecipient

LEMMA NotAtRow ==
    ASSUME NEW e \in Events, phase'[e] \in {"idle", "create", "done", "aborted"}
    PROVE  Mailing(e)'
BY DEF Mailing, AtWork

LEMMA DeliverEmailKeeps ==
    ASSUME SInv, NEW e \in Events, DeliverEmail(e)
    PROVE  SInv' /\ RowsGrow
<1>1. /\ phase[e] = "lookup" /\ UNCHANGED <<todo, current, active, aborted, blurred, faults>>
      /\ \/ /\ NextRecipient(e, "none") /\ UNCHANGED rows
         \/ /\ NextRecipient(e, "skipped") /\ Records(current[e], "SKIPPED")
         \/ /\ phase' = [phase EXCEPT ![e] = "send"] /\ Records(current[e], "PENDING")
  BY DEF DeliverEmail, NoFault
<1>2. phase[e] \in AtWork \ {"create"}
  BY <1>1 DEF AtWork
<1>3. /\ rows \in Seq(Notice) /\ current[e] \in DOMAIN rows /\ rows[current[e]] \in Notice
      /\ rows[current[e]].event = e /\ Mailing(e) /\ Recorded(current[e])
      /\ phase \in [Events -> Phase] /\ faults \in Nat
  BY <1>2, AtItsRow
<1>4. rows[current[e]].email = "NONE" /\ rows[current[e]].mailed = 0
  BY <1>1, <1>3 DEF Mailing
<1>5. ASSUME NextRecipient(e, "none"), UNCHANGED rows PROVE SInv' /\ RowsGrow
  <2>1. SameNotices /\ \A k \in DOMAIN rows : Untouched(k)
    BY <1>3, <1>5, RowsStay
  <2>2. PICK ph \in {"create", "done"} : /\ phase' = [phase EXCEPT ![e] = ph] /\ phase'[e] = ph
                                         /\ ph = "create" => todo[e] # {}
                                         /\ ph = "done" => todo[e] = {}
    BY <1>3, <1>5, GoesOn
  <2>3. Mailing(e)'
    BY <2>2, NotAtRow
  <2>4. Recorded(current[e])'
    BY <1>1, <1>4, <1>5 DEF Recorded
  <2>. QED
    BY <1>1, <1>2, <1>3, <2>1, <2>2, <2>3, <2>4, OwnStep, SameRowsGrow
<1>6. ASSUME NextRecipient(e, "skipped"), Records(current[e], "SKIPPED") PROVE SInv' /\ RowsGrow
  <2>1. /\ SameNotices /\ \A k \in DOMAIN rows \ {current[e]} : Untouched(k)
        /\ rows'[current[e]].email = "SKIPPED" /\ rows'[current[e]].mailed = 0
    BY <1>3, <1>4, <1>6, Recording DEF EmailStatus
  <2>2. PICK ph \in {"create", "done"} : /\ phase' = [phase EXCEPT ![e] = ph] /\ phase'[e] = ph
                                         /\ ph = "create" => todo[e] # {}
                                         /\ ph = "done" => todo[e] = {}
    BY <1>3, <1>6, GoesOn
  <2>3. Mailing(e)'
    BY <2>2, NotAtRow
  <2>4. Recorded(current[e])'
    BY <1>1, <2>1 DEF Recorded
  <2>. QED
    BY <1>1, <1>2, <1>3, <2>1, <2>2, <2>3, <2>4, OwnStep, SameRowsGrow
<1>7. ASSUME phase' = [phase EXCEPT ![e] = "send"], Records(current[e], "PENDING")
      PROVE  SInv' /\ RowsGrow
  <2>1. /\ SameNotices /\ \A k \in DOMAIN rows \ {current[e]} : Untouched(k)
        /\ rows'[current[e]].email = "PENDING" /\ rows'[current[e]].mailed = 0
        /\ rows'[current[e]].event = e
    BY <1>3, <1>4, <1>7, Recording DEF EmailStatus
  <2>2. Mailing(e)'
    BY <1>1, <1>3, <1>7, <2>1 DEF Mailing, SameNotices
  <2>3. Recorded(current[e])'
    BY <1>1, <2>1 DEF Recorded
  <2>. QED
    BY <1>1, <1>2, <1>3, <1>7, <2>1, <2>2, <2>3, OwnStep, SameRowsGrow
<1>. QED
  BY <1>1, <1>5, <1>6, <1>7

LEMMA DeliverEmailFailsKeeps ==
    ASSUME SInv, NEW e \in Events, DeliverEmailFails(e)
    PROVE  SInv' /\ RowsGrow
<1>1. /\ phase[e] = "lookup" /\ UNCHANGED <<rows, todo, current, active, aborted>>
      /\ blurred' = blurred \cup {current[e]} /\ faults' = faults + 1
      /\ NextRecipient(e, "error") \/ phase' = [phase EXCEPT ![e] = "send"]
  BY DEF DeliverEmailFails, Fault
<1>2. phase[e] \in AtWork \ {"create"}
  BY <1>1 DEF AtWork
<1>3. /\ rows \in Seq(Notice) /\ current[e] \in DOMAIN rows /\ rows[current[e]] \in Notice
      /\ rows[current[e]].event = e /\ Mailing(e) /\ Recorded(current[e])
      /\ phase \in [Events -> Phase] /\ faults \in Nat
  BY <1>2, AtItsRow
<1>n. faults' \in Nat
  BY <1>1, <1>3
<1>4. rows[current[e]].email = "NONE" /\ rows[current[e]].mailed = 0
  BY <1>1, <1>3 DEF Mailing
<1>5. SameNotices /\ \A k \in DOMAIN rows : Untouched(k)
  BY <1>1, <1>3, RowsStay
<1>6. Recorded(current[e])'
  BY <1>1, <1>4 DEF Recorded
<1>7. ASSUME NextRecipient(e, "error") PROVE SInv' /\ RowsGrow
  <2>1. PICK ph \in {"create", "done"} : /\ phase' = [phase EXCEPT ![e] = ph] /\ phase'[e] = ph
                                         /\ ph = "create" => todo[e] # {}
                                         /\ ph = "done" => todo[e] = {}
    BY <1>3, <1>7, GoesOn
  <2>2. Mailing(e)'
    BY <2>1, NotAtRow
  <2>. QED
    BY <1>1, <1>2, <1>3, <1>5, <1>6, <2>1, <2>2, <1>n, OwnStep, SameRowsGrow
<1>8. ASSUME phase' = [phase EXCEPT ![e] = "send"] PROVE SInv' /\ RowsGrow
  <2>1. Mailing(e)'
    BY <1>1, <1>3, <1>4, <1>8 DEF Mailing
  <2>. QED
    BY <1>1, <1>2, <1>3, <1>5, <1>6, <1>8, <2>1, <1>n, OwnStep, SameRowsGrow
<1>. QED
  BY <1>1, <1>7, <1>8

LEMMA SendKeeps ==
    ASSUME SInv, NEW e \in Events, Send(e)
    PROVE  SInv' /\ RowsGrow
<1>1. /\ phase[e] = "send" /\ UNCHANGED <<todo, current, active, aborted, blurred, faults>>
      /\ rows' = [rows EXCEPT ![current[e]].mailed = @ + 1]
      /\ phase' = [phase EXCEPT ![e] = "sent"]
  BY DEF Send, NoFault
<1>2. phase[e] \in AtWork \ {"create"}
  BY <1>1 DEF AtWork
<1>3. /\ rows \in Seq(Notice) /\ current[e] \in DOMAIN rows /\ rows[current[e]] \in Notice
      /\ rows[current[e]].event = e /\ Mailing(e) /\ Recorded(current[e])
      /\ phase \in [Events -> Phase] /\ faults \in Nat
  BY <1>2, AtItsRow
<1>4. rows[current[e]].email \in {"NONE", "PENDING"} /\ rows[current[e]].mailed = 0
  BY <1>1, <1>3 DEF Mailing
<1>5. /\ SameNotices /\ \A k \in DOMAIN rows \ {current[e]} : Untouched(k)
      /\ rows'[current[e]].email \in {"NONE", "PENDING"} /\ rows'[current[e]].mailed = 1
      /\ rows'[current[e]].event = e
  <2>1. /\ SameNotices /\ \A k \in DOMAIN rows \ {current[e]} : Untouched(k)
        /\ rows'[current[e]].email = rows[current[e]].email
        /\ rows'[current[e]].mailed = rows[current[e]].mailed + 1
        /\ rows'[current[e]].event = rows[current[e]].event
    BY <1>1, <1>3, Mailed DEF Mails
  <2>. QED
    BY <1>3, <1>4, <2>1
<1>6. phase'[e] = "sent"
  BY <1>1, <1>3
<1>7. Mailing(e)'
  BY <1>1, <1>3, <1>5, <1>6 DEF Mailing, SameNotices
<1>8. Recorded(current[e])'
  BY <1>1, <1>5, <1>6 DEF Recorded
<1>. QED
  BY <1>1, <1>2, <1>3, <1>5, <1>7, <1>8, OwnStep, SameRowsGrow

LEMMA SendFailsKeeps ==
    ASSUME SInv, NEW e \in Events, SendFails(e)
    PROVE  SInv' /\ RowsGrow
<1>1. /\ phase[e] = "send" /\ UNCHANGED <<todo, current, active, aborted>>
      /\ UNCHANGED rows \/ rows' = [rows EXCEPT ![current[e]].mailed = @ + 1]
      /\ phase' = [phase EXCEPT ![e] = "failed"]
      /\ blurred' = blurred \cup {current[e]} /\ faults' = faults + 1
  BY DEF SendFails, Fault
<1>2. phase[e] \in AtWork \ {"create"}
  BY <1>1 DEF AtWork
<1>3. /\ rows \in Seq(Notice) /\ current[e] \in DOMAIN rows /\ rows[current[e]] \in Notice
      /\ rows[current[e]].event = e /\ Mailing(e) /\ Recorded(current[e])
      /\ phase \in [Events -> Phase] /\ faults \in Nat
  BY <1>2, AtItsRow
<1>n. faults' \in Nat
  BY <1>1, <1>3
<1>4. rows[current[e]].email \in {"NONE", "PENDING"} /\ rows[current[e]].mailed = 0
  BY <1>1, <1>3 DEF Mailing
<1>5. /\ SameNotices /\ \A k \in DOMAIN rows \ {current[e]} : Untouched(k)
      /\ rows'[current[e]].email \in {"NONE", "PENDING"} /\ rows'[current[e]].mailed \in {0, 1}
      /\ rows'[current[e]].event = e
  <2>1. CASE UNCHANGED rows
    BY <1>3, <1>4, <2>1, RowsStay
  <2>2. CASE rows' = [rows EXCEPT ![current[e]].mailed = @ + 1]
    <3>1. /\ SameNotices /\ \A k \in DOMAIN rows \ {current[e]} : Untouched(k)
          /\ rows'[current[e]].email = rows[current[e]].email
          /\ rows'[current[e]].mailed = rows[current[e]].mailed + 1
          /\ rows'[current[e]].event = rows[current[e]].event
      BY <1>3, <2>2, Mailed DEF Mails
    <3>. QED
      BY <1>3, <1>4, <3>1
  <2>. QED
    BY <1>1, <2>1, <2>2
<1>6. phase'[e] = "failed"
  BY <1>1, <1>3
<1>7. Mailing(e)'
  BY <1>1, <1>3, <1>5, <1>6 DEF Mailing, SameNotices
<1>8. Recorded(current[e])'
  BY <1>1, <1>5 DEF Recorded
<1>. QED
  BY <1>1, <1>2, <1>3, <1>5, <1>7, <1>8, <1>n, OwnStep, SameRowsGrow

LEMMA RecordEmailKeeps ==
    ASSUME SInv, NEW e \in Events, RecordEmail(e)
    PROVE  SInv' /\ RowsGrow
<1>1. /\ phase[e] \in {"sent", "failed"} /\ UNCHANGED <<todo, current, active, aborted, blurred, faults>>
      /\ Records(current[e], Outcome(e)) /\ NextRecipient(e, phase[e])
  BY DEF RecordEmail, NoFault
<1>2. phase[e] \in AtWork \ {"create"}
  BY <1>1 DEF AtWork
<1>3. /\ rows \in Seq(Notice) /\ current[e] \in DOMAIN rows /\ rows[current[e]] \in Notice
      /\ rows[current[e]].event = e /\ Mailing(e) /\ Recorded(current[e])
      /\ phase \in [Events -> Phase] /\ faults \in Nat
  BY <1>2, AtItsRow
<1>4. Outcome(e) \in EmailStatus
  BY DEF Outcome, EmailStatus
<1>5. /\ SameNotices /\ \A k \in DOMAIN rows \ {current[e]} : Untouched(k)
      /\ rows'[current[e]].email = Outcome(e) /\ rows'[current[e]].mailed = rows[current[e]].mailed
  BY <1>1, <1>3, <1>4, Recording
<1>6. PICK ph \in {"create", "done"} : /\ phase' = [phase EXCEPT ![e] = ph] /\ phase'[e] = ph
                                       /\ ph = "create" => todo[e] # {}
                                       /\ ph = "done" => todo[e] = {}
  BY <1>1, <1>3, GoesOn
<1>7. Mailing(e)'
  BY <1>6, NotAtRow
<1>8. Recorded(current[e])'
  <2>1. CASE phase[e] = "sent"
    BY <1>1, <1>3, <1>5, <2>1 DEF Recorded, Mailing, Outcome
  <2>2. CASE phase[e] = "failed"
    BY <1>1, <1>3, <1>5, <2>2 DEF Recorded, Mailing, Outcome
  <2>. QED
    BY <1>1, <2>1, <2>2
<1>. QED
  BY <1>1, <1>2, <1>3, <1>5, <1>6, <1>7, <1>8, OwnStep, SameRowsGrow

LEMMA RecordEmailFailsKeeps ==
    ASSUME SInv, NEW e \in Events, RecordEmailFails(e)
    PROVE  SInv' /\ RowsGrow
<1>1. /\ phase[e] \in {"sent", "failed"} /\ UNCHANGED <<rows, todo, current, active, aborted>>
      /\ NextRecipient(e, phase[e])
      /\ blurred' = blurred \cup {current[e]} /\ faults' = faults + 1
  BY DEF RecordEmailFails, Fault
<1>2. phase[e] \in AtWork \ {"create"}
  BY <1>1 DEF AtWork
<1>3. /\ rows \in Seq(Notice) /\ current[e] \in DOMAIN rows /\ rows[current[e]] \in Notice
      /\ rows[current[e]].event = e /\ Mailing(e) /\ Recorded(current[e])
      /\ phase \in [Events -> Phase] /\ faults \in Nat
  BY <1>2, AtItsRow
<1>n. faults' \in Nat
  BY <1>1, <1>3
<1>4. SameNotices /\ \A k \in DOMAIN rows : Untouched(k)
  BY <1>1, <1>3, RowsStay
<1>5. PICK ph \in {"create", "done"} : /\ phase' = [phase EXCEPT ![e] = ph] /\ phase'[e] = ph
                                       /\ ph = "create" => todo[e] # {}
                                       /\ ph = "done" => todo[e] = {}
  BY <1>1, <1>3, GoesOn
<1>6. Mailing(e)'
  BY <1>5, NotAtRow
<1>7. Recorded(current[e])'
  BY <1>1, <1>3 DEF Recorded
<1>. QED
  BY <1>1, <1>2, <1>3, <1>4, <1>5, <1>6, <1>7, <1>n, OwnStep, SameRowsGrow

(* A restart leaves every row as it is, and every event that was at one. *)
LEMMA RestartKeeps ==
    ASSUME SInv, Restart
    PROVE  SInv' /\ RowsGrow
<1>. DEFINE cut == {e \in Events : phase[e] \in AtWork}
<1>1. /\ ServerTypeOK /\ UNCHANGED <<rows, todo, current, active>> /\ faults' = faults + 1
      /\ phase' = [e \in Events |-> IF e \in cut THEN "aborted" ELSE phase[e]]
      /\ aborted' = aborted \cup cut /\ blurred' = blurred \cup {current[e] : e \in cut}
  BY DEF SInv, Restart, Fault
<1>2. \A e \in Events : phase'[e] = IF phase[e] \in AtWork THEN "aborted" ELSE phase[e]
  BY <1>1
<1>3. rows \in Seq(Notice) /\ SameNotices /\ \A k \in DOMAIN rows : Untouched(k)
  BY <1>1, RowsType, RowsStay
<1>4. ASSUME NEW e \in Events PROVE Mailing(e)' /\ Telling(e)'
  <2>1. Mailing(e) /\ Telling(e)
    BY DEF SInv
  <2>2. phase'[e] \in {"idle", "done", "aborted"}
    BY <1>1, <1>2 DEF ServerTypeOK, Phase, AtWork
  <2>3. Mailing(e)'
    BY <2>2, NotAtRow
  <2>4. /\ phase'[e] = "idle" => phase[e] = "idle"
        /\ phase'[e] = "done" => todo[e] = {}
        /\ phase[e] = "aborted" => phase'[e] = "aborted"
        /\ phase[e] = "idle" => phase'[e] = "idle"
    BY <1>2, <2>1 DEF Telling, AtWork
  <2>5. Telling(e)'
    BY <1>1, <1>3, <2>1, <2>2, <2>4, TellingStays
  <2>. QED
    BY <2>3, <2>5
<1>5. ASSUME NEW i \in DOMAIN rows' PROVE Recorded(i)'
  <2>1. i \in DOMAIN rows /\ Recorded(i) /\ Untouched(i)
    BY <1>1, <1>3 DEF SInv
  <2>2. \A f \in Events : current[f] = i /\ phase[f] \in {"sent", "failed"} => i \in blurred'
    BY <1>1 DEF AtWork
  <2>. QED
    BY <1>1, <2>1, <2>2, RecordedStays
<1>6. ServerTypeOK'
  <2>1. phase' \in [Events -> Phase]
    BY <1>1 DEF ServerTypeOK, Phase
  <2>2. blurred' \subseteq Nat /\ aborted' \subseteq Events /\ faults' \in Nat
    <3>1. /\ blurred \subseteq Nat /\ aborted \subseteq Events /\ faults \in Nat
          /\ \A e \in cut : current[e] \in Nat
      BY <1>1, RowsType
    <3>. DEFINE touched == {current[e] : e \in cut}
    <3>2. touched \subseteq Nat
      BY <3>1
    <3>3. /\ blurred' = blurred \cup touched /\ aborted' = aborted \cup cut /\ faults' = faults + 1
          /\ cut \subseteq Events
      BY <1>1
    <3>. HIDE DEF cut, touched
    <3>. QED
      BY <3>1, <3>2, <3>3
  <2>3. \A f \in Events : phase'[f] \notin AtWork
    BY <1>2 DEF AtWork
  <2>. QED
    BY <1>1, <2>1, <2>2, <2>3 DEF ServerTypeOK, AtWork
<1>. QED
  BY <1>3, <1>4, <1>5, <1>6, SameRowsGrow DEF SInv

(* Reading changes nothing an event or a mail is about. *)
LEMMA ReadingKeeps ==
    ASSUME SInv, SameNotices, \A i \in DOMAIN rows : Untouched(i),
           UNCHANGED <<phase, todo, current, active, aborted, blurred>>, faults' \in Nat
    PROVE  SInv' /\ RowsGrow
<1>1. ServerTypeOK /\ \A e \in Events : Mailing(e) /\ Telling(e)
  BY DEF SInv
<1>2. ASSUME NEW e \in Events PROVE Mailing(e)' /\ Telling(e)'
  <2>1. Mailing(e)'
    BY <1>1, MailingStays DEF Mailing
  <2>2. Telling(e)'
    BY <1>1, TellingStays DEF Telling
  <2>. QED
    BY <2>1, <2>2
<1>3. ASSUME NEW i \in DOMAIN rows' PROVE Recorded(i)'
  <2>1. i \in DOMAIN rows /\ Recorded(i)
    BY DEF SInv, SameNotices
  <2>. QED
    BY <2>1, RecordedStays
<1>4. ServerTypeOK'
  <2>1. rows' \in Seq(Notice) /\ DOMAIN rows' = DOMAIN rows
    BY DEF SameNotices
  <2>. QED
    BY <1>1, <2>1 DEF ServerTypeOK, Notice
<1>. QED
  BY <1>2, <1>3, <1>4, SameRowsGrow DEF SInv

LEMMA MarkReadKeeps ==
    ASSUME SInv, NEW u, NEW i, MarkRead(u, i), UNCHANGED <<phase, todo, current, active, aborted, blurred>>,
           faults' \in Nat
    PROVE  SInv' /\ RowsGrow
<1>1. rows \in Seq(Notice)
  BY RowsType DEF SInv
<1>2. SameNotices /\ \A k \in DOMAIN rows : Untouched(k)
  <2>1. ASSUME i \in DOMAIN rows, rows' = [rows EXCEPT ![i].read = TRUE]
        PROVE  SameNotices /\ \A k \in DOMAIN rows : Untouched(k)
    <3>. DEFINE r == [rows[i] EXCEPT !.read = TRUE]
    <3>1. rows[i] \in Notice
      BY <1>1, <2>1
    <3>2. /\ r \in Notice /\ r.user = rows[i].user /\ r.event = rows[i].event /\ r.read
          /\ r.email = rows[i].email /\ r.mailed = rows[i].mailed
      BY <3>1 DEF Notice
    <3>3. rows' = [rows EXCEPT ![i] = r]
      BY <2>1
    <3>. HIDE DEF r
    <3>4. SameNotices /\ rows'[i] = r /\ \A k \in DOMAIN rows \ {i} : Untouched(k)
      BY <1>1, <2>1, <3>2, <3>3, RowWritten
    <3>5. Untouched(i)
      BY <3>2, <3>4 DEF Untouched
    <3>. QED
      BY <3>4, <3>5
  <2>2. ASSUME i \notin DOMAIN rows, rows' = [rows EXCEPT ![i].read = TRUE] PROVE UNCHANGED rows
    BY <1>1, <2>2
  <2>. QED
    BY <1>1, <2>1, <2>2, RowsStay DEF MarkRead
<1>3. \A k \in DOMAIN rows : Untouched(k)
  BY <1>2
<1>. QED
  BY <1>2, <1>3, ReadingKeeps

LEMMA MarkAllReadKeeps ==
    ASSUME SInv, NEW u, MarkAllRead(u), UNCHANGED <<phase, todo, current, active, aborted, blurred>>,
           faults' \in Nat
    PROVE  SInv' /\ RowsGrow
<1>1. rows \in Seq(Notice) /\ DOMAIN rows = 1..Len(rows) /\ Len(rows) \in Nat
      /\ \A i \in DOMAIN rows : rows[i] \in Notice
  BY RowsType DEF SInv
<1>2. ASSUME NEW i \in DOMAIN rows
      PROVE  /\ rows'[i] = IF rows[i].user = u THEN [rows[i] EXCEPT !.read = TRUE] ELSE rows[i]
             /\ rows'[i] \in Notice
             /\ rows'[i].user = rows[i].user /\ rows'[i].event = rows[i].event
             /\ rows[i].read => rows'[i].read
             /\ rows'[i].email = rows[i].email /\ rows'[i].mailed = rows[i].mailed
  <2>1. rows'[i] = IF rows[i].user = u THEN [rows[i] EXCEPT !.read = TRUE] ELSE rows[i]
    BY DEF MarkAllRead
  <2>2. [rows[i] EXCEPT !.read = TRUE] \in Notice
    BY <1>1 DEF Notice
  <2>. QED
    BY <1>1, <2>1, <2>2 DEF Notice
<1>3. DOMAIN rows' = DOMAIN rows /\ rows' \in [1..Len(rows) -> Notice]
  BY <1>1, <1>2 DEF MarkAllRead
<1>4. rows' \in Seq(Notice)
  BY <1>1, <1>3
<1>5. SameNotices /\ \A k \in DOMAIN rows : Untouched(k)
  BY <1>2, <1>3, <1>4 DEF SameNotices, Untouched
<1>. QED
  BY <1>5, ReadingKeeps

LEMMA ServerStepKeeps ==
    ASSUME SInv, ServerStep
    PROVE  SInv' /\ RowsGrow
<1>1. ASSUME NEW e \in Events, CreateForUsers(e) \/ Delivers(e) \/ DeliveryFails(e)
      PROVE  SInv' /\ RowsGrow
  BY <1>1, CreateForUsersKeeps, CreateKeeps, CreateFailsKeeps, DeliverEmailKeeps, DeliverEmailFailsKeeps,
     SendKeeps, SendFailsKeeps, RecordEmailKeeps, RecordEmailFailsKeeps DEF Delivers, DeliveryFails
<1>. QED
  BY <1>1, RestartKeeps DEF ServerStep

LEMMA InitServer == ServerInit => SInv
<1>. SUFFICES ASSUME ServerInit PROVE SInv
  OBVIOUS
<1>1. rows = <<>> /\ DOMAIN rows = {} /\ \A e \in Events : phase[e] = "idle" /\ todo[e] = {}
  BY DEF ServerInit
<1>2. ServerTypeOK
  BY <1>1 DEF ServerInit, ServerTypeOK, Phase, AtWork
<1>3. ASSUME NEW e \in Events PROVE Mailing(e) /\ Telling(e)
  BY <1>1 DEF Mailing, Telling, AtWork, RowsFor
<1>. QED
  BY <1>1, <1>2, <1>3 DEF SInv

-----------------------------------------------------------------------------
(* The page *)

(* A call of the screen carries the token of whoever the screen belongs to,  *)
(* or none, and the answer to a list belongs to the token's account.         *)
Listing(c) ==
    /\ c.from = "page" => c.by \in {None, reader}
    /\ c.op = "list" => c.from \in {"page", "nobody"}
    /\ IF c.done THEN c.by # None ELSE c.items = {} /\ c.unread = {}
    /\ c.op = "list" => /\ c.unread \subseteq c.items
                        /\ \A i \in c.items : rows[i].user = c.by
                        /\ \A i \in c.items \ c.unread : rows[i].read

NoPageCalls(cs) == \A c \in cs : c.from # "page"

CInv == /\ TypeOK
        /\ (status = "away" => NoPageCalls(calls))
        /\ \A c \in calls : Listing(c)
        /\ ScreenIsTrue

CallType == [op : {"count", "list", "markRead", "markAll"},
             from : {"badge", "page", "panel", "nobody"},
             by : Readers \cup {None}, row : Nat, done : BOOLEAN,
             items : SUBSET DOMAIN rows, unread : SUBSET DOMAIN rows]

LEMMA CallsAre == TypeOK <=> /\ ServerTypeOK
                             /\ reader \in Readers \cup {None}
                             /\ who \in {None, reader}
                             /\ badge \in Nat
                             /\ calls \subseteq CallType
                             /\ status \in {"away", "loading", "ready", "error"}
                             /\ items \subseteq DOMAIN rows
                             /\ unread \subseteq items
BY DEF TypeOK, CallType

(* A new call, and a call whose subscriber goes. *)
LEMMA NewCall ==
    ASSUME NEW op \in {"count", "list", "markRead", "markAll"}, NEW from \in {"badge", "page", "panel"},
           NEW i \in Nat, reader \in Readers \cup {None}, who \in {None, reader},
           op = "list" => from = "page",
           rows' = rows, reader' = reader, NEW c, c = Call(op, from, i)
    PROVE  c \in CallType' /\ Listing(c)' /\ c.from = from
BY DEF Call, CallType, Listing

LEMMA CountCall ==
    ASSUME NEW u \in Readers, NEW c, c = [Call("count", "badge", 0) EXCEPT !.by = u]
    PROVE  c \in CallType' /\ Listing(c)' /\ c.from # "page"
BY DEF Call, CallType, Listing

LEMMA NobodysCall ==
    ASSUME NEW c \in CallType', Listing(c)', NEW d, d = [c EXCEPT !.from = "nobody"]
    PROVE  d \in CallType' /\ Listing(d)' /\ d.from # "page"
BY DEF CallType, Listing

(* A call goes on as it is while the screen is the same reader's. *)
LEMMA CallStays ==
    ASSUME NEW c \in CallType, Listing(c), RowsGrow, reader' = reader
    PROVE  c \in CallType' /\ Listing(c)'
<1>1. c \in CallType'
  BY DEF CallType, RowsGrow
<1>2. c.items \subseteq DOMAIN rows /\ c.unread \subseteq DOMAIN rows
  BY DEF CallType
<1>3. Listing(c)'
  BY <1>2 DEF Listing, RowsGrow
<1>. QED
  BY <1>1, <1>3

(* What the screen shows stays true while the rows grow. *)
LEMMA ScreenStays ==
    ASSUME TypeOK, ScreenIsTrue, RowsGrow, who' \in {None, reader}, UNCHANGED <<reader, screen>>
    PROVE  ScreenIsTrue' /\ items' \subseteq DOMAIN rows' /\ unread' \subseteq items'
<1>1. items \subseteq DOMAIN rows /\ unread \subseteq items /\ who \in {None, reader}
  BY DEF TypeOK
<1>2. /\ (IF who = None THEN reader ELSE who) = reader
      /\ (IF who' = None THEN reader' ELSE who') = reader
  BY <1>1 DEF screen
<1>3. status = "ready" => items \subseteq RowsOf(reader) /\ \A i \in items \ unread : rows[i].read
  BY <1>2 DEF ScreenIsTrue
<1>. QED
  BY <1>1, <1>2, <1>3 DEF ScreenIsTrue, RowsGrow, RowsOf, screen

Inv == SInv /\ CInv

LEMMA ServerRests ==
    ASSUME SInv, UNCHANGED server, faults' \in Nat
    PROVE  SInv' /\ RowsGrow /\ rows' = rows
<1>1. SameNotices /\ \A i \in DOMAIN rows : Untouched(i)
  BY RowsStay, RowsType DEF SInv, server
<1>. QED
  BY <1>1, ReadingKeeps DEF server

LEMMA PageHolds ==
    ASSUME SInv', reader' \in Readers \cup {None}, who' \in {None, reader'}, badge' \in Nat,
           \A c \in calls' : c \in CallType' /\ Listing(c)',
           status' \in {"away", "loading", "ready", "error"},
           items' \subseteq DOMAIN rows', unread' \subseteq items',
           status' = "away" => NoPageCalls(calls'), ScreenIsTrue'
    PROVE  Inv'
<1>1. TypeOK'
  BY DEF TypeOK, SInv, CallType
<1>. QED
  BY <1>1 DEF Inv, CInv, NoPageCalls

(* A step that leaves the screen and whose it is as they are. *)
LEMMA ScreenRests ==
    ASSUME Inv, SInv', RowsGrow, who' \in {None, reader}, UNCHANGED <<reader, screen>>, badge' \in Nat,
           \A c \in calls' : c \in CallType' /\ Listing(c)',
           status = "away" => NoPageCalls(calls')
    PROVE  Inv'
<1>1. /\ ScreenIsTrue' /\ items' \subseteq DOMAIN rows' /\ unread' \subseteq items'
      /\ reader \in Readers \cup {None} /\ status \in {"away", "loading", "ready", "error"}
  BY ScreenStays DEF Inv, CInv, TypeOK
<1>. QED
  BY <1>1, PageHolds DEF screen

(* A step after which the screen is away, or shows no answer. *)
LEMMA ScreenGone ==
    ASSUME Inv, SInv', RowsGrow, badge' \in Nat, who' \in {None, reader}, UNCHANGED reader,
           status' \in {"away", "loading", "error"}, status' = "away" => NoPageCalls(calls'),
           items' \in {{}, items}, unread' \in {{}, unread}, items' = {} => unread' = {},
           \A c \in calls' : c \in CallType' /\ Listing(c)'
    PROVE  Inv'
<1>1. /\ items \subseteq DOMAIN rows /\ unread \subseteq items /\ DOMAIN rows \subseteq DOMAIN rows'
      /\ reader \in Readers \cup {None}
  BY DEF Inv, CInv, TypeOK, RowsGrow
<1>2. ScreenIsTrue'
  BY DEF ScreenIsTrue
<1>3. items' \subseteq DOMAIN rows' /\ unread' \subseteq items'
  BY <1>1
<1>. QED
  BY <1>1, <1>2, <1>3, PageHolds

LEMMA CallsStay ==
    ASSUME Inv, RowsGrow, reader' = reader
    PROVE  \A c \in calls : c \in CallType' /\ Listing(c)'
<1>1. ASSUME NEW c \in calls PROVE c \in CallType' /\ Listing(c)'
  <2>1. c \in CallType /\ Listing(c)
    BY CallsAre DEF Inv, CInv
  <2>. QED
    BY <2>1, CallStays
<1>. QED
  BY <1>1

(* The screen is left, and its subscriptions with it. *)
LEMMA LeavingKeeps ==
    ASSUME Inv, SInv', RowsGrow, badge' \in Nat, who' \in {None, reader}, UNCHANGED reader,
           NEW cs, \A c \in cs : c \in CallType' /\ Listing(c)', LeaveScreen(cs)
    PROVE  Inv'
<1>1. ASSUME NEW c \in Unsubscribed(cs) PROVE c \in CallType' /\ Listing(c)' /\ c.from # "page"
  <2>1. CASE c \in cs /\ c.from # "page"
    BY <2>1
  <2>2. ASSUME NEW d \in cs, c = [d EXCEPT !.from = "nobody"]
        PROVE  c \in CallType' /\ Listing(c)' /\ c.from # "page"
    BY <2>2, NobodysCall
  <2>. QED
    BY <1>1, <2>1, <2>2 DEF Unsubscribed
<1>. QED
  BY <1>1, ScreenGone DEF LeaveScreen, NoPageCalls

LEMMA RecountCall ==
    ASSUME Inv, rows' = rows, reader' = reader, NEW cs
    PROVE  \A c \in Recount(cs) : c \in CallType' /\ Listing(c)'
<1>1. reader \in Readers \cup {None} /\ who \in {None, reader}
  BY DEF Inv, CInv, TypeOK
<1>2. ASSUME NEW c \in Recount(cs) PROVE c \in CallType' /\ Listing(c)'
  <2>1. c = Call("count", "badge", 0)
    BY <1>2 DEF Recount
  <2>. QED
    BY <1>1, <2>1, NewCall
<1>. QED
  BY <1>2

(* The page with one call more. *)
LEMMA OneCallMore ==
    ASSUME Inv, SInv', RowsGrow, UNCHANGED <<who, reader, badge, screen>>,
           NEW c, c \in CallType' /\ Listing(c)', status = "away" => c.from # "page",
           calls' = calls \cup {c}
    PROVE  Inv'
<1>1. /\ who \in {None, reader} /\ badge \in Nat
      /\ (status = "away" => NoPageCalls(calls))
  BY DEF Inv, CInv, TypeOK
<1>2. \A d \in calls' : d \in CallType' /\ Listing(d)'
  BY CallsStay
<1>. QED
  BY <1>1, <1>2, ScreenRests DEF NoPageCalls

-----------------------------------------------------------------------------
(* The steps of the page *)

LEMMA StartPollingKeeps == ASSUME Inv, NEW u \in Readers, StartPolling(u) PROVE Inv'
<1>1. SInv' /\ RowsGrow /\ rows' = rows
  BY ServerRests DEF Inv, StartPolling, NoServer, SInv, ServerTypeOK
<1>2. /\ badge \in Nat /\ who \in {None, reader} /\ items \subseteq DOMAIN rows /\ unread \subseteq items
      /\ calls \subseteq CallType /\ \A c \in calls : Listing(c)
      /\ (status = "away" => NoPageCalls(calls))
      /\ status \in {"away", "loading", "ready", "error"}
  BY CallsAre DEF Inv, CInv
<1>3. /\ who' = u /\ reader' = u /\ UNCHANGED <<badge, status, items, unread>>
      /\ calls' = calls \cup {[Call("count", "badge", 0) EXCEPT !.by = u]}
      /\ status = "away" \/ u = reader
  BY DEF StartPolling, Polls, screen
<1>4. ASSUME NEW c \in calls PROVE c \in CallType' /\ Listing(c)'
  <2>1. c \in CallType /\ Listing(c) /\ (c.from # "page" \/ u = reader)
    BY <1>2, <1>3 DEF NoPageCalls
  <2>. QED
    BY <1>1, <1>3, <2>1 DEF CallType, Listing
<1>5. \A c \in calls' : c \in CallType' /\ Listing(c)' /\ (status = "away" => c.from # "page")
  BY <1>2, <1>3, <1>4, CountCall DEF NoPageCalls
<1>6. ScreenIsTrue'
  <2>1. CASE status = "away"
    BY <1>3, <2>1 DEF ScreenIsTrue
  <2>2. CASE u = reader
    BY <1>1, <1>3, <2>2, ScreenStays DEF Inv, CInv, screen
  <2>. QED
    BY <1>3, <2>1, <2>2
<1>. QED
  BY <1>1, <1>2, <1>3, <1>5, <1>6, PageHolds DEF NoPageCalls

LEMMA PageAsks ==
    ASSUME Inv, NoServer,
           \/ RefreshUnreadCount \/ Load \/ MarkAllOnPage \/ MarkAllInPanel
           \/ \E i \in DOMAIN rows : OpenPanelItem(i)
    PROVE  Inv'
<1>1. SInv' /\ RowsGrow /\ rows' = rows
  BY ServerRests DEF Inv, NoServer, SInv, ServerTypeOK
<1>2. /\ reader \in Readers \cup {None} /\ who \in {None, reader} /\ badge \in Nat
      /\ None \notin Readers /\ unread \subseteq items
  BY CallsAre, ReadersAssumption DEF Inv, CInv
<1>3. ASSUME RefreshUnreadCount PROVE Inv'
  <2>1. /\ who \in Readers /\ UNCHANGED <<who, reader, badge, screen>>
        /\ calls' = calls \cup {[Call("count", "badge", 0) EXCEPT !.by = who]}
    BY <1>2, <1>3 DEF RefreshUnreadCount, Polls
  <2>. QED
    BY <1>1, <2>1, CountCall, OneCallMore
<1>4. ASSUME Load PROVE Inv'
  <2>1. /\ UNCHANGED <<who, reader, badge, items, unread>> /\ status' = "loading"
        /\ calls' = calls \cup {Call("list", "page", 0)}
    BY <1>4 DEF Load, Asks
  <2>2. \A c \in calls' : c \in CallType' /\ Listing(c)'
    BY <1>1, <1>2, <2>1, CallsStay, NewCall
  <2>. QED
    BY <1>1, <1>2, <2>1, <2>2, ScreenGone
<1>5. ASSUME MarkAllOnPage PROVE Inv'
  <2>1. /\ status = "ready" /\ UNCHANGED <<who, reader, badge, screen>>
        /\ calls' = calls \cup {Call("markAll", "page", 0)}
    BY <1>5 DEF MarkAllOnPage, Marks, Asks
  <2>. QED
    BY <1>1, <1>2, <2>1, NewCall, OneCallMore
<1>6. ASSUME MarkAllInPanel PROVE Inv'
  <2>1. /\ UNCHANGED <<who, reader, badge, screen>>
        /\ calls' = calls \cup {Call("markAll", "panel", 0)}
    BY <1>6 DEF MarkAllInPanel, Marks, Asks
  <2>. QED
    BY <1>1, <1>2, <2>1, NewCall, OneCallMore
<1>7. ASSUME NEW i \in DOMAIN rows, OpenPanelItem(i) PROVE Inv'
  <2>1. /\ UNCHANGED <<who, reader, badge, screen>> /\ i \in Nat
        /\ calls' = calls \cup {Call("markRead", "panel", i)}
    BY <1>7, RowsType, RowsAre DEF OpenPanelItem, Marks, Asks, Inv, SInv
  <2>. QED
    BY <1>1, <1>2, <2>1, NewCall, OneCallMore
<1>. QED
  BY <1>3, <1>4, <1>5, <1>6, <1>7

LEMMA OpenKeeps == ASSUME Inv, NEW i \in DOMAIN rows, Open(i) PROVE Inv'
<1>1. SInv' /\ RowsGrow /\ rows' = rows
  BY ServerRests DEF Inv, Open, NoServer, SInv, ServerTypeOK
<1>2. /\ reader \in Readers \cup {None} /\ who \in {None, reader} /\ badge \in Nat
      /\ status = "ready" /\ i \in Nat /\ UNCHANGED <<who, reader, badge>>
  BY RowsType, RowsAre DEF Open, Inv, CInv, TypeOK, SInv
<1>3. ASSUME Marks(Call("markRead", "page", i)), UNCHANGED screen PROVE Inv'
  <2>1. calls' = calls \cup {Call("markRead", "page", i)}
    BY <1>3 DEF Marks, Asks
  <2>. QED
    BY <1>1, <1>2, <1>3, <2>1, NewCall, OneCallMore
<1>4. ASSUME LeaveScreen(calls) PROVE Inv'
  BY <1>1, <1>2, <1>4, CallsStay, LeavingKeeps
<1>. QED
  BY <1>3, <1>4 DEF Open

LEMMA LeaveKeeps == ASSUME Inv, Leave \/ Logout PROVE Inv'
<1>1. SInv' /\ RowsGrow
  BY ServerRests DEF Inv, Leave, Logout, NoServer, SInv, ServerTypeOK
<1>2. /\ LeaveScreen(calls) /\ UNCHANGED reader
      /\ (UNCHANGED who /\ badge' = badge) \/ (who' = None /\ badge' \in {badge, 0})
  BY DEF Leave, Logout, ClearLocalSession
<1>3. badge' \in Nat /\ who' \in {None, reader}
  BY <1>2 DEF Inv, CInv, TypeOK
<1>. QED
  BY <1>1, <1>2, <1>3, CallsStay, LeavingKeeps

(* The server serves a call. *)
LEMMA ServeKeeps == ASSUME Inv, NEW c \in calls, Serve(c) PROVE Inv'
<1>1. /\ UNCHANGED <<phase, todo, current, active, aborted, blurred, who, reader, badge, screen>>
      /\ UNCHANGED rows \/ MarkRead(c.by, c.row) \/ MarkAllRead(c.by)
      /\ faults' \in Nat /\ SInv /\ badge \in Nat /\ c \in CallType /\ Listing(c)
      /\ c.by # None /\ who \in {None, reader}
      /\ (status = "away" => NoPageCalls(calls))
  BY CallsAre, RowsType DEF Serve, NoFault, Inv, CInv
<1>2. SInv' /\ RowsGrow
  <2>1. CASE UNCHANGED rows
    BY <1>1, <2>1, ServerRests DEF server
  <2>2. CASE MarkRead(c.by, c.row)
    BY <1>1, <2>2, MarkReadKeeps
  <2>3. CASE MarkAllRead(c.by)
    BY <1>1, <2>3, MarkAllReadKeeps
  <2>. QED
    BY <1>1, <2>1, <2>2, <2>3
<1>3. ASSUME NEW a, a = Answer(c, rows') PROVE a \in CallType' /\ Listing(a)' /\ a.from = c.from
  <2>1. /\ a.op = c.op /\ a.from = c.from /\ a.by = c.by /\ a.row = c.row /\ a.done
        /\ a.items = {i \in DOMAIN rows' : c.op = "list" /\ rows'[i].user = c.by}
        /\ a.unread = {i \in DOMAIN rows' : /\ c.op \in {"list", "count"}
                                            /\ rows'[i].user = c.by /\ ~rows'[i].read}
    BY <1>1, <1>3 DEF Answer, CallType
  <2>2. a.items \in SUBSET DOMAIN rows' /\ a.unread \in SUBSET DOMAIN rows'
    BY <2>1
  <2>3. a = [op |-> c.op, from |-> c.from, by |-> c.by, row |-> c.row, done |-> TRUE,
             items |-> a.items, unread |-> a.unread]
    BY <1>1, <1>3 DEF Answer, CallType
  <2>4. /\ c.op \in {"count", "list", "markRead", "markAll"}
        /\ c.from \in {"badge", "page", "panel", "nobody"} /\ c.by \in Readers \cup {None} /\ c.row \in Nat
    BY <1>1 DEF CallType
  <2>5. a \in CallType'
    <3>1. PICK i \in SUBSET DOMAIN rows', u \in SUBSET DOMAIN rows' :
            a = [op |-> c.op, from |-> c.from, by |-> c.by, row |-> c.row, done |-> TRUE,
                 items |-> i, unread |-> u]
      BY <2>2, <2>3
    <3>. QED
      BY <2>4, <3>1 DEF CallType
  <2>6. c.op = "list" => /\ a.unread \subseteq a.items
                         /\ \A i \in a.items : rows'[i].user = a.by
                         /\ \A i \in a.items \ a.unread : rows'[i].read
    BY <2>1
  <2>7. Listing(a)'
    BY <1>1, <2>1, <2>6 DEF Listing
  <2>. QED
    BY <2>1, <2>5, <2>7
<1>4. calls' \subseteq (calls \ {c}) \cup {Answer(c, rows')}
  BY DEF Serve
<1>5. \A d \in calls' : d \in CallType' /\ Listing(d)' /\ (status = "away" => d.from # "page")
  BY <1>1, <1>2, <1>3, <1>4, CallsStay DEF NoPageCalls
<1>. QED
  BY <1>1, <1>2, <1>5, ScreenRests DEF NoPageCalls

(* A call is sent again with the token of whoever is signed in. *)
LEMMA RetryKeeps == ASSUME Inv, NEW c \in calls, Retry(c) PROVE Inv'
<1>1. SInv' /\ RowsGrow /\ rows' = rows
  BY ServerRests DEF Inv, Retry, NoServer, SInv, ServerTypeOK
<1>2. /\ c \in CallType /\ Listing(c) /\ badge \in Nat /\ who \in {None, reader}
      /\ reader \in Readers \cup {None} /\ (status = "away" => NoPageCalls(calls))
      /\ ~c.done /\ UNCHANGED <<who, reader, badge, screen>>
      /\ calls' = (calls \ {c}) \cup {[c EXCEPT !.by = who]}
  BY CallsAre DEF Retry, Inv, CInv
<1>3. ASSUME NEW d, d = [c EXCEPT !.by = who] PROVE d \in CallType' /\ Listing(d)' /\ d.from = c.from
  BY <1>1, <1>2, <1>3 DEF CallType, Listing
<1>4. \A d \in calls' : d \in CallType' /\ Listing(d)' /\ (status = "away" => d.from # "page")
  BY <1>1, <1>2, <1>3, CallsStay DEF NoPageCalls
<1>. QED
  BY <1>1, <1>2, <1>4, ScreenRests DEF NoPageCalls

LEMMA TakeKeeps == ASSUME Inv, NEW c \in calls, Take(c) PROVE Inv'
<1>1. SInv' /\ RowsGrow /\ rows' = rows /\ UNCHANGED <<who, reader>>
  BY ServerRests DEF Inv, Take, TakeCount, TakeList, TakeMarkRead, TakeMarkAll, NoServer, SInv, ServerTypeOK
<1>2. /\ c \in CallType /\ Listing(c) /\ badge \in Nat /\ reader \in Readers \cup {None}
      /\ who \in {None, reader} /\ (status = "away" => NoPageCalls(calls))
      /\ items \subseteq DOMAIN rows /\ unread \subseteq items
  BY CallsAre DEF Inv, CInv
<1>3. \A d \in calls : d \in CallType' /\ Listing(d)'
  BY <1>1, CallsStay
<1>4. ASSUME TakeCount(c) PROVE Inv'
  <2>1. badge' \in Nat
    <3>1. IsFiniteSet(DOMAIN rows)
      BY FS_Interval, RowsType, RowsAre DEF Inv, SInv
    <3>2. IsFiniteSet(c.unread)
      BY <1>2, <3>1, FS_Subset DEF CallType
    <3>. QED
      BY <1>4, <3>2, FS_CardinalityType DEF TakeCount
  <2>. QED
    BY <1>1, <1>2, <1>3, <1>4, <2>1, ScreenRests DEF TakeCount, NoPageCalls
<1>5. ASSUME TakeList(c) PROVE Inv'
  <2>1. c.op = "list" /\ c.by = reader
    BY <1>2, <1>5 DEF TakeList, Arrives, Listing
  <2>2. /\ status' = "ready" /\ items' = c.items /\ unread' = c.unread /\ badge' = badge
        /\ c.items \subseteq DOMAIN rows /\ c.unread \subseteq c.items
        /\ \A i \in c.items : rows[i].user = c.by
        /\ \A i \in c.items \ c.unread : rows[i].read
        /\ calls' = calls \ {c}
    BY <1>2, <1>5, <2>1 DEF TakeList, Listing, CallType
  <2>3. (IF who' = None THEN reader' ELSE who') = reader
    BY <1>1, <1>2
  <2>4. ScreenIsTrue'
    BY <1>1, <2>1, <2>2, <2>3 DEF ScreenIsTrue, RowsOf
  <2>. QED
    BY <1>1, <1>2, <1>3, <2>2, <2>4, PageHolds
<1>6. ASSUME TakeMarkRead(c) PROVE Inv'
  <2>1. PICK new \in {Recount(calls \ {c}), {}} : LeaveScreen((calls \ {c}) \cup new)
    BY <1>6 DEF TakeMarkRead
  <2>2. \A d \in (calls \ {c}) \cup new : d \in CallType' /\ Listing(d)'
    BY <1>1, <1>3, <2>1, RecountCall
  <2>. QED
    BY <1>1, <1>2, <1>6, <2>1, <2>2, LeavingKeeps DEF TakeMarkRead
<1>7. ASSUME TakeMarkAll(c) PROVE Inv'
  <2>1. CASE c.from = "page"
    <3>1. /\ status' = "loading" /\ unread' = {} /\ items' = items /\ badge' = 0
          /\ calls' = (calls \ {c}) \cup {Call("list", "page", 0)}
      BY <1>7, <2>1 DEF TakeMarkAll
    <3>2. \A d \in calls' : d \in CallType' /\ Listing(d)'
      BY <1>1, <1>2, <1>3, <3>1, NewCall
    <3>. QED
      BY <1>1, <1>2, <3>1, <3>2, ScreenGone
  <2>2. CASE c.from # "page"
    BY <1>1, <1>2, <1>3, <1>7, <2>2, ScreenRests DEF TakeMarkAll, screen, NoPageCalls
  <2>. QED
    BY <2>1, <2>2
<1>. QED
  BY <1>4, <1>5, <1>6, <1>7 DEF Take

(* A call comes to nothing, with the session or without it. *)
LEMMA ErrsKeep ==
    ASSUME Inv, NEW c \in calls, Errs(c), UNCHANGED server, faults' \in Nat,
           ClearLocalSession \/ UNCHANGED <<who, reader, badge>>
    PROVE  Inv'
<1>1. SInv' /\ RowsGrow
  BY ServerRests DEF Inv
<1>2. /\ badge \in Nat /\ who \in {None, reader} /\ (status = "away" => NoPageCalls(calls))
      /\ unread \subseteq items
  BY CallsAre DEF Inv, CInv
<1>3. badge' \in Nat /\ who' \in {None, reader} /\ UNCHANGED reader
  BY <1>2 DEF ClearLocalSession
<1>4. \A d \in calls : d \in CallType' /\ Listing(d)'
  BY <1>1, <1>3, CallsStay
<1>5. ASSUME status' = "error", calls' = calls \ {c}, UNCHANGED <<items, unread>> PROVE Inv'
  BY <1>1, <1>2, <1>3, <1>4, <1>5, ScreenGone
<1>6. ASSUME LeaveScreen(calls \ {c}) PROVE Inv'
  BY <1>1, <1>3, <1>4, <1>6, LeavingKeeps
<1>7. ASSUME calls' = calls \ {c}, UNCHANGED screen PROVE Inv'
  BY <1>1, <1>2, <1>3, <1>4, <1>7, ScreenRests DEF NoPageCalls
<1>. QED
  BY <1>5, <1>6, <1>7 DEF Errs

LEMMA CallFailsKeeps == ASSUME Inv, NEW c \in calls, CallFails(c) \/ SessionEnds(c) PROVE Inv'
<1>1. UNCHANGED server /\ faults' \in Nat
  BY DEF CallFails, SessionEnds, Fault, NoServer, Inv, SInv, ServerTypeOK
<1>2. Errs(c) /\ (ClearLocalSession \/ UNCHANGED <<who, reader, badge>>)
  BY DEF CallFails, SessionEnds
<1>. QED
  BY <1>1, <1>2, ErrsKeep

-----------------------------------------------------------------------------
LEMMA InitInv == InboxInit => Inv
<1>. SUFFICES ASSUME InboxInit PROVE Inv
  OBVIOUS
<1>1. SInv
  BY InitServer DEF InboxInit
<1>2. TypeOK /\ ScreenIsTrue
  BY <1>1 DEF InboxInit, TypeOK, SInv, ScreenIsTrue
<1>. QED
  BY <1>1, <1>2 DEF InboxInit, Inv, CInv, NoPageCalls

LEMMA NextInv == Inv /\ [Next]_vars => Inv'
<1>. SUFFICES ASSUME Inv, [Next]_vars PROVE Inv'
  OBVIOUS
<1>1. ASSUME SInv', RowsGrow, UNCHANGED client PROVE Inv'
  <2>1. \A c \in calls : c \in CallType' /\ Listing(c)'
    BY <1>1, CallsStay DEF client
  <2>2. badge \in Nat /\ who \in {None, reader} /\ (status = "away" => NoPageCalls(calls))
    BY DEF Inv, CInv, TypeOK
  <2>. QED
    BY <1>1, <2>1, <2>2, ScreenRests DEF client
<1>2. CASE UNCHANGED vars
  <2>1. SInv' /\ RowsGrow
    BY <1>2, ServerRests DEF Inv, vars, SInv, ServerTypeOK
  <2>. QED
    BY <1>1, <1>2, <2>1 DEF vars
<1>3. CASE ServerStep /\ UNCHANGED client
  <2>1. SInv' /\ RowsGrow
    BY <1>3, ServerStepKeeps DEF Inv
  <2>. QED
    BY <1>1, <1>3, <2>1
<1>4. CASE ClientStep
  <2>1. ASSUME NEW u \in Readers, StartPolling(u) PROVE Inv'
    BY <2>1, StartPollingKeeps
  <2>2. CASE RefreshUnreadCount
    BY <2>2, PageAsks DEF RefreshUnreadCount
  <2>3. CASE Load
    BY <2>3, PageAsks DEF Load
  <2>4. CASE MarkAllOnPage
    BY <2>4, PageAsks DEF MarkAllOnPage
  <2>5. CASE MarkAllInPanel
    BY <2>5, PageAsks DEF MarkAllInPanel
  <2>6. ASSUME NEW i \in DOMAIN rows, Open(i) \/ OpenPanelItem(i) PROVE Inv'
    BY <2>6, PageAsks, OpenKeeps DEF OpenPanelItem
  <2>7. ASSUME NEW c \in calls, Serve(c) \/ Retry(c) \/ Take(c) \/ SessionEnds(c) \/ CallFails(c) PROVE Inv'
    BY <2>7, ServeKeeps, RetryKeeps, TakeKeeps, CallFailsKeeps
  <2>. QED
    BY <1>4, <2>1, <2>2, <2>3, <2>4, <2>5, <2>6, <2>7, LeaveKeeps DEF ClientStep
<1>. QED
  BY <1>2, <1>3, <1>4 DEF Next

LEMMA InboxInv == Spec => []Inv
BY InitInv, NextInv, PTL DEF Spec

(* The variables keep their types. *)
THEOREM TypesOK == Spec => []TypeOK
<1>1. Inv => TypeOK
  BY DEF Inv, CInv
<1>. QED
  BY <1>1, InboxInv, PTL

(* The tracking columns of a notification say what became of its mail,       *)
(* whatever fails in between (deliverEmail, recordEmail).                    *)
THEOREM RecordsAreTrue == Spec => []EmailStatusIsTrue
<1>1. Inv => EmailStatusIsTrue
  BY DEF Inv, SInv, Recorded, EmailStatusIsTrue
<1>. QED
  BY <1>1, InboxInv, PTL

(* Nobody has two notices of one event, and an event that came to its end    *)
(* has told exactly its recipients (createForUsers).                         *)
THEOREM NobodyIsToldTwice == Spec => []EachToldOnce
<1>1. ASSUME Inv, NEW e \in Events
      PROVE  /\ \A i, j \in {k \in DOMAIN rows : rows[k].event = e} : rows[i].user = rows[j].user => i = j
             /\ phase[e] = "done" => Told(e) = ToSet(Recipients[e])
  <2>1. Telling(e)
    BY <1>1 DEF Inv, SInv
  <2>2. Told(e) = {rows[i].user : i \in RowsFor(e)}
    BY DEF Told, RowsFor
  <2>3. \A i, j \in RowsFor(e) : rows[i].user = rows[j].user => i = j
    BY <2>1 DEF Telling
  <2>4. phase[e] = "done" => Told(e) = ToSet(Recipients[e])
    BY <2>1, <2>2 DEF Telling
  <2>. QED
    BY <2>3, <2>4 DEF RowsFor
<1>2. Inv => EachToldOnce
  BY <1>1 DEF EachToldOnce
<1>. QED
  BY <1>2, InboxInv, PTL

(* The list on the screen is that of whoever is signed in or, after a        *)
(* session that ended under it (clearLocalSession), of who was: nobody who   *)
(* signs in next is shown it.  What it shows as read is read                 *)
(* (NotificationsComponent).                                                 *)
THEOREM NobodyElsesNotices == Spec => []ScreenIsTrue
<1>1. Inv => ScreenIsTrue
  BY DEF Inv, CInv
<1>. QED
  BY <1>1, InboxInv, PTL

=============================================================================
