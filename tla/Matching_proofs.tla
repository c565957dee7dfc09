---------------------------- MODULE Matching_proofs -----------------------------
(***************************************************************************)
(* Proofs about Matching, for any profiles, users, areas, lists and number *)
(* of savings at once.                                                     *)
(*                                                                         *)
(* That nobody reads half a list rests on Alone: whoever has taken rows    *)
(* out of a profile, or put some in, is the only one at it, and until it   *)
(* commits the rows there are exactly those it put in.  The DELETE of a    *)
(* profile without areas locks nothing but the gap, so others may stand    *)
(* beside it; they keep each other from inserting, and have nothing to     *)
(* give back.                                                              *)
(*                                                                         *)
(* That a fan-out tells whom it should rests on Gathered: what it has read *)
(* of a profile that stays as it is is what a quote check will read.  Each *)
(* statement makes it true of the profiles it looks at, and whatever       *)
(* changes a profile takes it out of the statement.                        *)
(*                                                                         *)
(* That no circle of saves is left waiting rests on Alone too: whoever a   *)
(* DELETE waits for has the gap to itself, so it inserts or commits; and   *)
(* whoever an INSERT waits for commits, unless it waits to insert as well, *)
(* which is the deadlock InnoDB finds.                                     *)
(***************************************************************************)
EXTENDS Matching, FiniteSetTheorems, TLAPS

-----------------------------------------------------------------------------
(* The saving of areas *)

(* What a save holds follows from where it is. *)
Placed(c) ==
    LET s == saves[c] IN
    /\ s.todo = << >> => s.on = None
    /\ s.todo # << >> => s.list \in Lists
    /\ s.on # None => /\ s.on = Head(s.todo)
                      /\ s.added \cup s.left = s.list
    /\ s.on = None => s.gone = {} /\ s.added = {} /\ s.left = {}

Alone(c) ==
    saves[c].on # None =>
        /\ areas[saves[c].on] = saves[c].added
        /\ \A d \in Calls \ {c} : saves[d].on = saves[c].on =>
              saves[c].gone = {} /\ saves[c].added = {}

AInv == ProvidersTypeOK /\ \A c \in Calls : Placed(c) /\ Alone(c)

LEMMA IdleIsSave == Idle \in Save
BY DEF Idle, Save

LEMMA SaveFields ==
    ASSUME ProvidersTypeOK, NEW c \in Calls
    PROVE  /\ saves[c].todo \in Seq(Profiles) /\ saves[c].list \in Lists \cup {{}}
           /\ saves[c].on \in Profiles \cup {None} /\ saves[c].left \in SUBSET Areas
           /\ saves[c].gone \in SUBSET Areas /\ saves[c].added \in SUBSET Areas
BY DEF ProvidersTypeOK, Save

LEMMA InitAreas == Init => AInv
BY IdleIsSave, BoundsAssumption DEF Init, AInv, ProvidersTypeOK, Placed, Alone, Idle, Offering
(* What anybody outside reads of a profile whose rows are a, by the saves S: *)
(* the rows as they are where no save is at it, and what the one that has    *)
(* changed them has taken out otherwise.                                     *)
Reads(a, S, p) ==
    LET w == {c \in Calls : S[c].on = p}
    IN  (a \ UNION {S[c].added : c \in w}) \cup UNION {S[c].gone : c \in w}

Others(S, c, p) == \A d \in Calls \ {c} : S[d].on = p => S[d].gone = {} /\ S[d].added = {}

LEMMA LoadAreasReads ==
    ASSUME NEW p \in Profiles
    PROVE  /\ LoadAreas(p) = Reads(areas[p], saves, p)
           /\ LoadAreas(p)' = Reads(areas'[p], saves', p)
BY DEF LoadAreas, Writers, Reads

LEMMA ReadUnwritten ==
    ASSUME NEW a, NEW S, NEW p, \A c \in Calls : S[c].on # p
    PROVE  Reads(a, S, p) = a
BY DEF Reads

LEMMA ReadHeld ==
    ASSUME NEW S, NEW p, NEW c \in Calls, S[c].on = p, Others(S, c, p)
    PROVE  Reads(S[c].added, S, p) = S[c].gone
<1>. DEFINE w == {d \in Calls : S[d].on = p}
<1>1. c \in w /\ \A d \in w : d # c => S[d].gone = {} /\ S[d].added = {}
  BY DEF Others
<1>2. UNION {S[d].gone : d \in w} = S[c].gone
  BY <1>1
<1>3. S[c].added \ UNION {S[d].added : d \in w} = {}
  BY <1>1
<1>. QED
  BY <1>2, <1>3 DEF Reads

LEMMA ReadSame ==
    ASSUME NEW a, NEW S, NEW T, NEW p,
           \A d \in Calls : /\ T[d].on = p <=> S[d].on = p
                            /\ S[d].on = p => T[d].gone = S[d].gone /\ T[d].added = S[d].added
    PROVE  Reads(a, T, p) = Reads(a, S, p)
<1>1. {d \in Calls : T[d].on = p} = {d \in Calls : S[d].on = p}
  OBVIOUS
<1>2. {T[d].gone : d \in {e \in Calls : S[e].on = p}} = {S[d].gone : d \in {e \in Calls : S[e].on = p}}
  OBVIOUS
<1>3. {T[d].added : d \in {e \in Calls : S[e].on = p}} = {S[d].added : d \in {e \in Calls : S[e].on = p}}
  OBVIOUS
<1>. QED
  BY <1>1, <1>2, <1>3 DEF Reads

(* One save takes a step; the others stay where they are. *)
LEMMA SaveStep ==
    ASSUME ProvidersTypeOK, NEW c \in Calls, NEW s \in Save, saves' = [saves EXCEPT ![c] = s]
    PROVE  /\ saves' \in [Calls -> Save]
           /\ saves'[c] = s
           /\ \A d \in Calls \ {c} : saves'[d] = saves[d]
BY DEF ProvidersTypeOK

LEMMA OtherStaysPlaced ==
    ASSUME AInv, NEW d \in Calls, saves'[d] = saves[d]
    PROVE  Placed(d)'
BY DEF AInv, Placed

(* A save is alone as before when its profile's rows and the saves at them   *)
(* are as before, but for one that has left or holds nothing.                *)
LEMMA OtherStaysAlone ==
    ASSUME AInv, NEW c \in Calls, NEW d \in Calls \ {c},
           \A e \in Calls \ {c} : saves'[e] = saves[e],
           saves[d].on # None => areas'[saves[d].on] = areas[saves[d].on],
           saves'[c].on = saves[d].on => saves[d].on = None \/ saves[c].on = saves[d].on
    PROVE  Alone(d)'
<1>1. saves'[d] = saves[d] /\ Alone(d)
  BY DEF AInv
<1>2. SUFFICES ASSUME saves[d].on # None
               PROVE  /\ areas'[saves[d].on] = saves[d].added
                      /\ \A e \in Calls \ {d} : saves'[e].on = saves[d].on =>
                            saves[d].gone = {} /\ saves[d].added = {}
  BY <1>1 DEF Alone
<1>3. ASSUME NEW e \in Calls \ {d}, saves'[e].on = saves[d].on
      PROVE  saves[d].gone = {} /\ saves[d].added = {}
  <2>1. saves[e].on = saves[d].on
    BY <1>2, <1>3
  <2>. QED
    BY <1>1, <1>2, <2>1 DEF Alone
<1>. QED
  BY <1>1, <1>2, <1>3 DEF Alone

Whole(p) == LoadAreas(p)' # LoadAreas(p) =>
                \E c \in Calls : Underway(c) /\ LoadAreas(p)' = saves[c].list
AreasKept == ProvidersTypeOK' /\ (\A c \in Calls : Placed(c)' /\ Alone(c)') /\ \A p \in Profiles : Whole(p)

LEMMA BeginKeeps ==
    ASSUME AInv, NEW c \in Calls, NEW u \in Users, NEW list \in Lists, BeginReplace(c, u, list)
    PROVE  AreasKept
<1>. DEFINE s == [Idle EXCEPT !.todo = ActsFor[u], !.list = list]
<1>1. /\ s \in Save /\ s.on = None /\ s.todo = ActsFor[u] /\ s.todo # << >> /\ s.list = list
      /\ s.gone = {} /\ s.added = {} /\ s.left = {}
  BY IdleIsSave, ActsForAssumption DEF Idle, Save
<1>2. saves[c].on = None
  BY DEF BeginReplace, Underway, AInv, Placed
<1>3. /\ saves' \in [Calls -> Save] /\ saves'[c] = s
      /\ \A d \in Calls \ {c} : saves'[d] = saves[d]
      /\ UNCHANGED <<areas, offerings>>
  BY <1>1, SaveStep DEF BeginReplace, AInv
<1>. HIDE DEF s
<1>4. ProvidersTypeOK'
  BY <1>3 DEF AInv, ProvidersTypeOK
<1>5. Placed(c)' /\ Alone(c)'
  BY <1>1, <1>3 DEF Placed, Alone
<1>6. ASSUME NEW d \in Calls \ {c} PROVE Placed(d)' /\ Alone(d)'
  BY <1>1, <1>3, OtherStaysPlaced, OtherStaysAlone
<1>7. ASSUME NEW p \in Profiles PROVE LoadAreas(p)' = LoadAreas(p)
  <2>1. \A d \in Calls : /\ saves'[d].on = saves[d].on
                         /\ saves[d].on = p => saves'[d] = saves[d]
    BY <1>1, <1>2, <1>3, ProfilesAssumption
  <2>2. Reads(areas[p], saves', p) = Reads(areas[p], saves, p)
    BY <2>1, ReadSame
  <2>. QED
    BY <1>3, <2>2, LoadAreasReads
<1>. QED
  BY <1>4, <1>5, <1>6, <1>7 DEF AreasKept, Whole

LEMMA DeleteKeeps == ASSUME AInv, NEW c \in Calls, DeleteAreas(c) PROVE AreasKept
<1>p. PICK p \in Profiles : p = Head(saves[c].todo)
  BY SaveFields DEF AInv, DeleteAreas, MayDelete, Underway
<1>. DEFINE s == [saves[c] EXCEPT !.on = p, !.left = saves[c].list, !.gone = areas[p]]
<1>1. /\ saves[c].todo # << >> /\ saves[c].on = None /\ saves[c].list \in Lists
      /\ saves[c].gone = {} /\ saves[c].added = {}
      /\ p # None
  BY SaveFields, ProfilesAssumption DEF AInv, DeleteAreas, MayDelete, Underway, Placed
<1>2. /\ s \in Save /\ s.todo = saves[c].todo /\ s.list = saves[c].list /\ s.on = p
      /\ s.left = saves[c].list /\ s.gone = areas[p] /\ s.added = {}
  BY <1>1, ListsAssumption DEF AInv, ProvidersTypeOK, Save
<1>3. saves' = [saves EXCEPT ![c] = s]
  BY <1>p DEF DeleteAreas, AInv, ProvidersTypeOK
<1>4. /\ saves' \in [Calls -> Save] /\ saves'[c] = s
      /\ \A d \in Calls \ {c} : saves'[d] = saves[d]
  BY <1>2, <1>3, SaveStep DEF AInv
<1>5. /\ areas' = [areas EXCEPT ![p] = {}] /\ UNCHANGED offerings
      /\ \A d \in Calls \ {c} : saves[d].on = p => saves[d].gone = {} /\ saves[d].added = {}
  BY <1>p DEF DeleteAreas, MayDelete, RowsHeld
<1>6. /\ areas'[p] = {} /\ areas' \in [Profiles -> SUBSET Areas]
      /\ \A q \in Profiles \ {p} : areas'[q] = areas[q]
  BY <1>1, <1>5 DEF AInv, ProvidersTypeOK
<1>. HIDE DEF s
<1>7. ProvidersTypeOK'
  BY <1>4, <1>5, <1>6 DEF AInv, ProvidersTypeOK
<1>8. ASSUME NEW d \in Calls \ {c}, saves[d].on = p PROVE areas[p] = {}
  BY <1>1, <1>5, <1>8 DEF AInv, Alone
<1>9. Placed(c)' /\ Alone(c)'
  <2>1. Placed(c)'
    BY <1>1, <1>2, <1>4, <1>p DEF Placed
  <2>2. Alone(c)'
    BY <1>2, <1>4, <1>6, <1>8 DEF Alone
  <2>. QED
    BY <2>1, <2>2
<1>10. ASSUME NEW d \in Calls \ {c} PROVE Placed(d)' /\ Alone(d)'
  <2>1. Placed(d)'
    BY <1>4, OtherStaysPlaced
  <2>2. ASSUME saves[d].on = p PROVE Alone(d)'
    BY <1>4, <1>5, <1>6, <2>2 DEF Alone
  <2>3. ASSUME saves[d].on # p PROVE Alone(d)'
    <3>1. saves[d].on # None => areas'[saves[d].on] = areas[saves[d].on]
      BY <1>6, <2>3, SaveFields DEF AInv
    <3>. QED
      BY <1>2, <1>4, <2>3, <3>1, OtherStaysAlone
  <2>. QED
    BY <2>1, <2>2, <2>3
<1>12. ASSUME NEW q \in Profiles PROVE LoadAreas(q)' = LoadAreas(q)
  <2>1. CASE q = p
    <3>1. Reads(saves'[c].added, saves', p) = areas[p]
      BY <1>2, <1>4, <1>5, ReadHeld DEF Others
    <3>2. LoadAreas(p)' = areas[p]
      BY <1>1, <1>2, <1>4, <1>6, <3>1, LoadAreasReads
    <3>3. CASE \A d \in Calls : saves[d].on # p
      BY <1>1, <2>1, <3>2, <3>3, LoadAreasReads, ReadUnwritten
    <3>4. ASSUME NEW d \in Calls, saves[d].on = p PROVE LoadAreas(p) = areas[p]
      <4>1. d # c
        BY <1>1, <3>4
      <4>2. areas[p] = {} /\ saves[d].gone = {} /\ saves[d].added = {}
        BY <1>5, <1>8, <3>4, <4>1
      <4>3. Others(saves, d, p)
        BY <1>1, <1>5 DEF Others
      <4>4. Reads(saves[d].added, saves, p) = saves[d].gone
        BY <3>4, <4>3, ReadHeld
      <4>. QED
        BY <4>2, <4>4, LoadAreasReads
    <3>. QED
      BY <2>1, <3>2, <3>3, <3>4
  <2>2. CASE q # p
    <3>1. \A d \in Calls : /\ saves'[d].on = q <=> saves[d].on = q
                           /\ saves[d].on = q => saves'[d] = saves[d]
      BY <1>1, <1>2, <1>4, <2>2, ProfilesAssumption
    <3>2. Reads(areas[q], saves', q) = Reads(areas[q], saves, q)
      BY <3>1, ReadSame
    <3>. QED
      BY <1>6, <2>2, <3>2, LoadAreasReads
  <2>. QED
    BY <2>1, <2>2
<1>. QED
  BY <1>7, <1>9, <1>10, <1>12 DEF AreasKept, Whole

(* Who inserts has the gap to itself. *)
LEMMA InsertKeeps == ASSUME AInv, NEW c \in Calls, InsertArea(c) PROVE AreasKept
<1>p. PICK p \in Profiles : p = saves[c].on
  BY SaveFields DEF InsertArea, MayInsert, AInv, Placed
<1>1. PICK a \in saves[c].left :
        /\ ~GapHeld(c, p)
        /\ areas' = [areas EXCEPT ![p] = @ \cup {a}]
        /\ saves' = [saves EXCEPT ![c].left = @ \ {a}, ![c].added = @ \cup {a}]
        /\ UNCHANGED offerings
  BY <1>p DEF InsertArea, MayInsert
<1>. DEFINE s == [saves[c] EXCEPT !.left = @ \ {a}, !.added = @ \cup {a}]
<1>2. p # None /\ saves[c].todo # << >> /\ a \in Areas
  BY <1>p, SaveFields, ProfilesAssumption DEF AInv, Placed
<1>3. /\ s \in Save /\ s.todo = saves[c].todo /\ s.list = saves[c].list /\ s.on = p
      /\ s.left = saves[c].left \ {a} /\ s.gone = saves[c].gone /\ s.added = saves[c].added \cup {a}
  <2>1. saves[c].left \ {a} \in SUBSET Areas /\ saves[c].added \cup {a} \in SUBSET Areas
    BY <1>2, SaveFields DEF AInv
  <2>2. saves[c] \in Save
    BY DEF AInv, ProvidersTypeOK
  <2>. QED
    BY <1>p, <2>1, <2>2 DEF Save
<1>4. saves' = [saves EXCEPT ![c] = s]
  BY <1>p, <1>1 DEF AInv, ProvidersTypeOK
<1>5. /\ saves' \in [Calls -> Save] /\ saves'[c] = s
      /\ \A d \in Calls \ {c} : saves'[d] = saves[d]
  BY <1>3, <1>4, SaveStep DEF AInv
<1>6. \A d \in Calls \ {c} : saves[d].on # p
  BY <1>1 DEF GapHeld
<1>7. areas[p] = saves[c].added
  BY <1>p, <1>2 DEF AInv, Alone
<1>8. /\ areas'[p] = saves[c].added \cup {a} /\ areas' \in [Profiles -> SUBSET Areas]
      /\ \A q \in Profiles \ {p} : areas'[q] = areas[q]
  BY <1>1, <1>2, <1>7 DEF AInv, ProvidersTypeOK
<1>9. p = saves[c].on /\ Placed(c)
  BY <1>p DEF AInv
<1>. HIDE DEF s
<1>10. ProvidersTypeOK'
  BY <1>1, <1>5, <1>8 DEF AInv, ProvidersTypeOK
<1>11. Placed(c)'
  BY <1>1, <1>2, <1>3, <1>5, <1>9 DEF Placed
<1>12. Alone(c)'
  BY <1>3, <1>5, <1>6, <1>8 DEF Alone
<1>13. ASSUME NEW d \in Calls \ {c} PROVE Placed(d)' /\ Alone(d)'
  <2>1. saves[d].on # None => areas'[saves[d].on] = areas[saves[d].on]
    BY <1>6, <1>8, SaveFields DEF AInv
  <2>. QED
    BY <1>3, <1>5, <1>6, <2>1, OtherStaysPlaced, OtherStaysAlone
<1>14. ASSUME NEW q \in Profiles PROVE LoadAreas(q)' = LoadAreas(q)
  <2>1. CASE q = p
    <3>1. Reads(saves'[c].added, saves', p) = saves[c].gone
      BY <1>3, <1>5, <1>6, ReadHeld DEF Others
    <3>2. Reads(saves[c].added, saves, p) = saves[c].gone
      BY <1>6, <1>9, ReadHeld DEF Others
    <3>3. saves'[c].added = areas'[p]
      BY <1>3, <1>5, <1>8
    <3>. QED
      BY <1>7, <2>1, <3>1, <3>2, <3>3, LoadAreasReads
  <2>2. CASE q # p
    <3>1. \A d \in Calls : /\ saves'[d].on = q <=> saves[d].on = q
                           /\ saves[d].on = q => saves'[d] = saves[d]
      BY <1>3, <1>5, <1>9, <2>2
    <3>2. Reads(areas[q], saves', q) = Reads(areas[q], saves, q)
      BY <3>1, ReadSame
    <3>. QED
      BY <1>8, <2>2, <3>2, LoadAreasReads
  <2>. QED
    BY <2>1, <2>2
<1>. QED
  BY <1>10, <1>11, <1>12, <1>13, <1>14 DEF AreasKept, Whole

(* A list is never empty, so whoever commits has inserted, and was alone:    *)
(* what the others read from now on is its whole list.                       *)
LEMMA CommitKeeps == ASSUME AInv, NEW c \in Calls, CommitAreas(c) PROVE AreasKept
<1>p. PICK p \in Profiles : p = saves[c].on
  BY SaveFields DEF CommitAreas, MayCommit, AInv
<1>. DEFINE s == [Idle EXCEPT !.todo = Tail(saves[c].todo), !.list = saves[c].list]
<1>1. /\ saves[c].todo # << >> /\ saves[c].list \in Lists /\ p # None
      /\ saves[c].added = saves[c].list /\ saves[c].added # {}
  <2>1. saves[c].todo # << >> /\ saves[c].on # None /\ saves[c].left = {} /\ Placed(c)
    BY DEF AInv, CommitAreas, MayCommit, Underway
  <2>2. saves[c].list \in Lists /\ saves[c].added \cup saves[c].left = saves[c].list
    BY <2>1 DEF Placed
  <2>. QED
    BY <1>p, <2>1, <2>2, ListsAssumption
<1>2. /\ s \in Save /\ s.todo = Tail(saves[c].todo) /\ s.list = saves[c].list /\ s.on = None
      /\ s.left = {} /\ s.gone = {} /\ s.added = {}
  <2>1. Tail(saves[c].todo) \in Seq(Profiles) /\ saves[c].list \in Lists \cup {{}}
    BY <1>1, SaveFields DEF AInv
  <2>. QED
    BY <2>1 DEF Idle, Save
<1>3. /\ saves' \in [Calls -> Save] /\ saves'[c] = s
      /\ \A d \in Calls \ {c} : saves'[d] = saves[d]
      /\ UNCHANGED <<areas, offerings>>
  BY <1>2, SaveStep DEF CommitAreas, AInv
<1>4. areas[p] = saves[c].list /\ \A d \in Calls \ {c} : saves[d].on # p
  BY <1>p, <1>1 DEF AInv, Alone
<1>5. p = saves[c].on /\ Placed(c) /\ Underway(c)
  BY <1>p DEF AInv, CommitAreas, MayCommit
<1>. HIDE DEF s
<1>6. ProvidersTypeOK'
  BY <1>3 DEF AInv, ProvidersTypeOK
<1>7. Placed(c)' /\ Alone(c)'
  BY <1>1, <1>2, <1>3 DEF Placed, Alone
<1>8. ASSUME NEW d \in Calls \ {c} PROVE Placed(d)' /\ Alone(d)'
  BY <1>2, <1>3, OtherStaysPlaced, OtherStaysAlone
<1>9. LoadAreas(p)' = saves[c].list
  <2>1. \A d \in Calls : saves'[d].on # p
    BY <1>1, <1>2, <1>3, <1>4
  <2>. QED
    BY <1>1, <1>3, <1>4, <2>1, ReadUnwritten, LoadAreasReads
<1>10. ASSUME NEW q \in Profiles, q # p PROVE LoadAreas(q)' = LoadAreas(q)
  <2>1. \A d \in Calls : /\ saves'[d].on = q <=> saves[d].on = q
                         /\ saves[d].on = q => saves'[d] = saves[d]
    BY <1>2, <1>3, <1>5, <1>10, ProfilesAssumption
  <2>2. Reads(areas[q], saves', q) = Reads(areas[q], saves, q)
    BY <2>1, ReadSame
  <2>. QED
    BY <1>3, <2>2, LoadAreasReads
<1>11. ASSUME NEW q \in Profiles PROVE Whole(q)
  BY <1>5, <1>9, <1>10 DEF Whole
<1>. QED
  BY <1>6, <1>7, <1>8, <1>11 DEF AreasKept

(* A rollback gives back what was taken out: what was read all along. *)
LEMMA RollBackKeeps ==
    ASSUME AInv, NEW c \in Calls, RollBack(c), UNCHANGED offerings
    PROVE  AreasKept
<1>1. /\ saves' \in [Calls -> Save] /\ saves'[c] = Idle
      /\ \A d \in Calls \ {c} : saves'[d] = saves[d]
  BY IdleIsSave, SaveStep DEF RollBack, AInv
<1>2. Idle.on = None /\ Idle.todo = << >> /\ Idle.gone = {} /\ Idle.added = {} /\ Idle.left = {}
  BY DEF Idle
<1>3. Placed(c)' /\ Alone(c)'
  BY <1>1, <1>2 DEF Placed, Alone
<1>4. ASSUME NEW d \in Calls \ {c} PROVE Placed(d)'
  BY <1>1, OtherStaysPlaced
<1>5. PICK p \in Profiles \cup {None} : p = saves[c].on
  BY SaveFields DEF AInv
<1>6. ASSUME p = None PROVE AreasKept
  <2>1. areas' = areas
    BY <1>5, <1>6 DEF RollBack
  <2>2. ProvidersTypeOK'
    BY <1>1, <2>1 DEF AInv, ProvidersTypeOK
  <2>3. ASSUME NEW d \in Calls \ {c} PROVE Alone(d)'
    BY <1>1, <1>2, <2>1, OtherStaysAlone
  <2>4. ASSUME NEW q \in Profiles PROVE LoadAreas(q)' = LoadAreas(q)
    <3>1. \A d \in Calls : /\ saves'[d].on = q <=> saves[d].on = q
                           /\ saves[d].on = q => saves'[d] = saves[d]
      BY <1>1, <1>2, <1>5, <1>6, ProfilesAssumption
    <3>2. Reads(areas[q], saves', q) = Reads(areas[q], saves, q)
      BY <3>1, ReadSame
    <3>. QED
      BY <2>1, <3>2, LoadAreasReads
  <2>. QED
    BY <1>3, <1>4, <2>2, <2>3, <2>4 DEF AreasKept, Whole
<1>7. ASSUME p # None PROVE AreasKept
  <2>1. p \in Profiles /\ areas[p] = saves[c].added /\ Alone(c)
    BY <1>5, <1>7, SaveFields DEF AInv, Alone
  <2>2. areas' = [areas EXCEPT ![p] = (@ \ saves[c].added) \cup saves[c].gone]
    BY <1>5, <1>7 DEF RollBack
  <2>3. /\ areas'[p] = saves[c].gone /\ areas' \in [Profiles -> SUBSET Areas]
        /\ \A q \in Profiles \ {p} : areas'[q] = areas[q]
    BY <2>1, <2>2, SaveFields DEF AInv, ProvidersTypeOK
  <2>4. ProvidersTypeOK'
    BY <1>1, <2>3 DEF AInv, ProvidersTypeOK
  <2>5. ASSUME NEW d \in Calls \ {c}, saves[d].on = p
        PROVE  /\ saves[c].gone = {} /\ saves[c].added = {} /\ saves[d].gone = {} /\ saves[d].added = {}
    BY <1>5, <1>7, <2>5 DEF AInv, Alone
  <2>6. ASSUME NEW d \in Calls \ {c} PROVE Alone(d)'
    <3>1. saves[d].on # None => areas'[saves[d].on] = areas[saves[d].on]
      BY <2>1, <2>3, <2>5, SaveFields DEF AInv
    <3>. QED
      BY <1>1, <1>2, <3>1, OtherStaysAlone
  <2>7. LoadAreas(p) = saves[c].gone
    <3>1. Others(saves, c, p)
      BY <2>5 DEF Others
    <3>. QED
      BY <1>5, <2>1, <3>1, ReadHeld, LoadAreasReads
  <2>8. LoadAreas(p)' = saves[c].gone
    <3>1. CASE \A d \in Calls : saves'[d].on # p
      BY <2>1, <2>3, <3>1, ReadUnwritten, LoadAreasReads
    <3>2. ASSUME NEW d \in Calls, saves'[d].on = p PROVE LoadAreas(p)' = saves[c].gone
      <4>1. d # c /\ saves'[d] = saves[d] /\ saves[d].on = p
        BY <1>1, <1>2, <1>7, <3>2
      <4>2. saves'[d].gone = {} /\ saves'[d].added = {} /\ saves[c].gone = {}
        BY <2>5, <4>1
      <4>3. Others(saves', d, p)
        BY <1>1, <1>2, <1>7, <2>5 DEF Others
      <4>4. Reads(saves'[d].added, saves', p) = saves'[d].gone
        BY <3>2, <4>3, ReadHeld
      <4>. QED
        BY <2>1, <2>3, <4>2, <4>4, LoadAreasReads
    <3>. QED
      BY <3>1, <3>2
  <2>9. ASSUME NEW q \in Profiles, q # p PROVE LoadAreas(q)' = LoadAreas(q)
    <3>1. \A d \in Calls : /\ saves'[d].on = q <=> saves[d].on = q
                           /\ saves[d].on = q => saves'[d] = saves[d]
      BY <1>1, <1>2, <1>5, <2>9, ProfilesAssumption
    <3>2. Reads(areas[q], saves', q) = Reads(areas[q], saves, q)
      BY <3>1, ReadSame
    <3>. QED
      BY <2>3, <2>9, <3>2, LoadAreasReads
  <2>10. ASSUME NEW q \in Profiles PROVE Whole(q)
    BY <2>7, <2>8, <2>9 DEF Whole
  <2>. QED
    BY <1>3, <1>4, <2>4, <2>6, <2>10 DEF AreasKept
<1>. QED
  BY <1>6, <1>7

-----------------------------------------------------------------------------
(* The offerings *)

LEMMA OffersKeepAreas ==
    ASSUME AInv, offerings' \in Seq(Offering), UNCHANGED <<areas, saves>>
    PROVE  AreasKept
<1>1. ProvidersTypeOK'
  BY DEF AInv, ProvidersTypeOK
<1>2. ASSUME NEW c \in Calls PROVE Placed(c)' /\ Alone(c)'
  BY DEF AInv, Placed, Alone
<1>3. ASSUME NEW p \in Profiles PROVE LoadAreas(p)' = LoadAreas(p)
  BY DEF LoadAreas, Writers
<1>. QED
  BY <1>1, <1>2, <1>3 DEF AreasKept, Whole

LEMMA OwnProfiles == ASSUME NEW u \in Users PROVE Own(u) \subseteq Profiles
BY ActsForAssumption DEF Own, ToSet

LEMMA OfferKeeps == ASSUME AInv, Offer PROVE AreasKept
<1>1. /\ offerings \in Seq(Offering) /\ \A i \in DOMAIN offerings : offerings[i] \in Offering
  BY DEF AInv, ProvidersTypeOK
<1>2. PICK u \in Users :
        \/ \E p \in Own(u), n \in Names, k \in Categories : CreateOffering(u, p, n, k)
        \/ \E i \in DOMAIN offerings :
            \/ RemoveOffering(u, i)
            \/ \E n \in Names, k \in Categories : UpdateOffering(u, i, n, k)
  BY DEF Offer
<1>3. ASSUME NEW p \in Own(u), NEW n \in Names, NEW k \in Categories, CreateOffering(u, p, n, k)
      PROVE  AreasKept
  <2>1. [owner |-> p, name |-> n, category |-> k, removed |-> FALSE] \in Offering
    BY OwnProfiles DEF Offering
  <2>. QED
    BY <1>1, <1>3, <2>1, OffersKeepAreas DEF CreateOffering
<1>4. ASSUME NEW i \in DOMAIN offerings, RemoveOffering(u, i) PROVE AreasKept
  <2>1. [offerings[i] EXCEPT !.removed = TRUE] \in Offering
    BY <1>1 DEF Offering
  <2>2. offerings' = [offerings EXCEPT ![i] = [offerings[i] EXCEPT !.removed = TRUE]]
    BY <1>4 DEF RemoveOffering
  <2>. QED
    BY <1>1, <1>4, <2>1, <2>2, OffersKeepAreas DEF RemoveOffering
<1>5. ASSUME NEW i \in DOMAIN offerings, NEW n \in Names, NEW k \in Categories, UpdateOffering(u, i, n, k)
      PROVE  AreasKept
  <2>. DEFINE o == [offerings[i] EXCEPT !.name = n, !.category = k]
  <2>1. o \in Offering
    BY <1>1 DEF Offering
  <2>2. offerings' = [offerings EXCEPT ![i] = o]
    BY <1>1, <1>5 DEF UpdateOffering
  <2>. HIDE DEF o
  <2>3. offerings' \in Seq(Offering)
    BY <1>1, <2>1, <2>2
  <2>. QED
    BY <1>1, <1>5, <2>3, OffersKeepAreas DEF UpdateOffering
<1>. QED
  BY <1>2, <1>3, <1>4, <1>5

-----------------------------------------------------------------------------
LEMMA ProviderStepKeeps == ASSUME AInv, ProviderStep PROVE AreasKept
<1>1. CASE Offer
  BY <1>1, OfferKeeps
<1>2. ASSUME NEW c \in Calls,
             \/ \E u \in Users, list \in Lists : BeginReplace(c, u, list)
             \/ Replace(c)
             \/ StatementFails(c)
      PROVE  AreasKept
  <2>1. CASE \E u \in Users, list \in Lists : BeginReplace(c, u, list)
    BY <2>1, BeginKeeps
  <2>2. CASE DeleteAreas(c)
    BY <2>2, DeleteKeeps
  <2>3. CASE InsertArea(c)
    BY <2>3, InsertKeeps
  <2>4. CASE CommitAreas(c)
    BY <2>4, CommitKeeps
  <2>5. CASE ChosenAsVictim(c)
    BY <2>5, RollBackKeeps DEF ChosenAsVictim, AInv, ProvidersTypeOK
  <2>6. CASE StatementFails(c)
    BY <2>6, RollBackKeeps DEF StatementFails
  <2>. QED
    BY <1>2, <2>1, <2>2, <2>3, <2>4, <2>5, <2>6 DEF Replace
<1>. QED
  BY <1>1, <1>2 DEF ProviderStep

(* A fan-out only reads. *)
LEMMA FanOutReads == ASSUME FanOutStep PROVE StandStill
BY Zenon DEF FanOutStep, EmitOpenRequestMatches, ScanBusinesses, LoadAreasOf, AddRecipients, LookupFails, NotifyMatches,
   FanOutFails

LEMMA NextKeeps == AInv /\ [Next]_vars => AreasKept
<1>. SUFFICES ASSUME AInv, [Next]_vars PROVE AreasKept
  OBVIOUS
<1>1. CASE UNCHANGED vars
  BY <1>1, OffersKeepAreas DEF vars, AInv, ProvidersTypeOK
<1>2. CASE FanOutStep
  BY <1>2, FanOutReads, OffersKeepAreas DEF StandStill, AInv, ProvidersTypeOK
<1>. QED
  BY <1>1, <1>2, ProviderStepKeeps DEF Next

LEMMA KeptIsInv == AreasKept => AInv'
BY DEF AreasKept, AInv

LEMMA SavesStayApart == Spec => []AInv
<1>1. Init => AInv
  BY InitAreas
<1>2. AInv /\ [Next]_vars => AInv'
  BY NextKeeps, KeptIsInv
<1>. QED
  BY <1>1, <1>2, PTL DEF Spec

(* What anybody reads of a profile's areas changes only into the whole list  *)
(* of one save (replaceServiceAreas), for any number of them at once.        *)
THEOREM SavedListsAreWhole == Spec => AreasAreWhole
<1>1. AInv /\ [Next]_vars =>
        [\A p \in Profiles : LoadAreas(p)' # LoadAreas(p) =>
            \E c \in Calls : Underway(c) /\ LoadAreas(p)' = saves[c].list]_vars
  BY NextKeeps DEF AreasKept, Whole
<1>. QED
  BY <1>1, SavesStayApart, PTL DEF Spec, AreasAreWhole

-----------------------------------------------------------------------------
(* Who waits for whom *)

(* The one whose rows a DELETE waits for. *)
LEMMA HolderOfRowsGoesOn ==
    ASSUME AInv, NEW d \in Calls, saves[d].on # None, saves[d].gone \cup saves[d].added # {}
    PROVE  GoesOn(d)
<1>1. Placed(d) /\ Alone(d)
  BY DEF AInv
<1>2. ~GapHeld(d, saves[d].on)
  BY <1>1 DEF Alone, GapHeld
<1>3. CASE saves[d].left = {}
  BY <1>1, <1>3 DEF Placed, GoesOn, MayCommit, Underway
<1>4. CASE saves[d].left # {}
  BY <1>2, <1>4 DEF GoesOn, MayInsert
<1>. QED
  BY <1>3, <1>4

(* The one at whose gap an INSERT waits. *)
LEMMA HolderOfGapGoesOn ==
    ASSUME AInv, NEW c \in Calls, NEW d \in Calls \ {c},
           saves[c].left # {}, saves[c].on # None, saves[d].on = saves[c].on
    PROVE  GoesOn(c) \/ GoesOn(d)
<1>1. CASE saves[d].left = {}
  BY <1>1 DEF AInv, Placed, GoesOn, MayCommit, Underway
<1>2. CASE saves[d].left # {}
  BY <1>2 DEF GoesOn, Deadlocked
<1>. QED
  BY <1>1, <1>2

LEMMA SavesGoOn == AInv => NoSaveIsStuck
<1>. SUFFICES ASSUME AInv, NEW c \in Calls, Underway(c), ~GoesOn(c)
              PROVE  \E d \in Calls : saves[d].on = Head(saves[c].todo) /\ GoesOn(d)
  BY DEF NoSaveIsStuck
<1>1. Placed(c) /\ saves[c].todo # << >>
  BY DEF AInv, Underway
<1>2. CASE saves[c].on = None
  <2>1. RowsHeld(c, Head(saves[c].todo))
    BY <1>2 DEF GoesOn, MayDelete
  <2>2. PICK d \in Calls \ {c} : /\ saves[d].on = Head(saves[c].todo)
                                /\ saves[d].gone \cup saves[d].added # {}
    BY <2>1 DEF RowsHeld
  <2>3. saves[d].on # None
    BY <2>2 DEF AInv, Placed
  <2>. QED
    BY <2>2, <2>3, HolderOfRowsGoesOn
<1>3. CASE saves[c].on # None
  <2>1. saves[c].left # {} /\ saves[c].on = Head(saves[c].todo)
    BY <1>1, <1>3 DEF Placed, GoesOn, MayCommit, Underway
  <2>2. PICK d \in Calls \ {c} : saves[d].on = saves[c].on
    BY <2>1 DEF GoesOn, MayInsert, GapHeld
  <2>. QED
    BY <1>3, <2>1, <2>2, HolderOfGapGoesOn
<1>. QED
  BY <1>2, <1>3

(* However many saves meet, on whatever profiles, and whatever fails, each   *)
(* has a step to take or waits for one that has: the part of EverySaveEnds   *)
(* that is no matter of fairness.                                            *)
THEOREM SavesAreNeverStuck == Spec => []NoSaveIsStuck
BY SavesStayApart, SavesGoOn, PTL

-----------------------------------------------------------------------------
(* The fan-out *)

Scanned(kind) ==
    IF kind = "professional" THEN fanout.step # "idle" ELSE fanout.step \in {"areas", "users"}

(* What has been read of a profile is so, while the profile stays.           *)
Gathered(p) ==
    /\ p \in fanout.found => CategoryClause(p, fanout.request.category)
    /\ Scanned(KindOf(p)) /\ CategoryClause(p, fanout.request.category) =>
          \/ p \in fanout.found
          \/ Cardinality({q \in fanout.crowd : KindOf(q) = KindOf(p) /\ q > p}) >= CANDIDATE_SCAN_LIMIT
    /\ KindOf(p) \in fanout.loaded =>
          (p \in fanout.inPlace <=> p \in fanout.found /\ AnyAreaMatches(LoadAreas(p), fanout.request))

Telling ==
    IF fanout.step = "users"
    THEN /\ fanout.loaded = Kinds
         /\ \A p \in fanout.inPlace : \/ p \in fanout.todo \cup fanout.missed
                                      \/ FindUserIdsForProvider(p) \subseteq fanout.told
                                      \/ Cardinality(Ahead(p, fanout.inPlace)) >= MaxMatches
         /\ \A u \in fanout.told : \E p \in Own(u) : p \in fanout.inPlace
    ELSE fanout.told = {} /\ fanout.todo = {}

FInv == /\ FanOutTypeOK
        /\ fanout = [step |-> fanout.step, request |-> fanout.request, crowd |-> fanout.crowd,
                     found |-> fanout.found, loaded |-> fanout.loaded, inPlace |-> fanout.inPlace,
                     todo |-> fanout.todo, missed |-> fanout.missed, told |-> fanout.told]
        /\ fanout.step \in {"idle", "businesses"} => fanout.loaded = {} /\ fanout.inPlace = {}
        /\ \A q \in fanout.crowd : Scanned(KindOf(q))
        /\ \A p \in fanout.inPlace : KindOf(p) \in fanout.loaded
        /\ fanout.step # "idle" => \A p \in Profiles \ touched : Gathered(p)
        /\ fanout.step = "idle" => fanout = NoFanOut
        /\ Telling

LEMMA NoFanOutHolds == fanout = NoFanOut /\ touched = {} => FInv
BY DEF FInv, FanOutTypeOK, NoFanOut, Telling

(* What a quote check reads of a profile that has not changed. *)
LEMMA ProfileStays ==
    ASSUME NEW p \in Profiles, GetProviderMatchProfile(p)' = GetProviderMatchProfile(p)
    PROVE  /\ \A k : CategoryClause(p, k)' <=> CategoryClause(p, k)
           /\ LoadAreas(p)' = LoadAreas(p)
BY DEF GetProviderMatchProfile, CategoryClause

LEMMA MeanwhileKeeps == ASSUME FInv, Meanwhile PROVE FInv'
<1>1. UNCHANGED fanout /\ touched' = touched \cup Changed /\ touched' \subseteq Profiles
  BY DEF Meanwhile, Changed, FInv, FanOutTypeOK
<1>2. ASSUME NEW p \in Profiles \ touched', fanout.step # "idle" PROVE Gathered(p)'
  <2>1. GetProviderMatchProfile(p)' = GetProviderMatchProfile(p)
    <3>1. CASE UNCHANGED <<areas, saves, offerings>>
      BY <3>1 DEF GetProviderMatchProfile, Offered, LoadAreas, Writers
    <3>2. CASE ~UNCHANGED <<areas, saves, offerings>>
      BY <1>1, <1>2, <3>2 DEF Changed
    <3>. QED
      BY <3>1, <3>2
  <2>2. Gathered(p)
    BY <1>1, <1>2 DEF FInv
  <2>. QED
    BY <1>1, <2>1, <2>2, ProfileStays DEF Gathered, Scanned, AnyAreaMatches, KindOf
<1>3. Telling'
  BY <1>1 DEF FInv, Telling, FindUserIdsForProvider, Ahead
<1>. QED
  BY <1>1, <1>2, <1>3 DEF FInv, FanOutTypeOK, Scanned, KindOf

(* Nor does a step of the fan-out change what is read of anybody. *)
LEMMA NothingElseChanges ==
    ASSUME StandStill, NEW p \in Profiles
    PROVE  /\ \A k : CategoryClause(p, k)' <=> CategoryClause(p, k)
           /\ LoadAreas(p)' = LoadAreas(p)
BY DEF StandStill, CategoryClause, Offered, LoadAreas, Writers

LEMMA Counted == ASSUME NEW S \in SUBSET Profiles PROVE Cardinality(S) \in Nat
BY ProfilesAssumption, FS_Subset, FS_CardinalityType

(* Whom a scan leaves out of a set has that many newer ones in it. *)
LEMMA CutOff ==
    ASSUME NEW S \in SUBSET Profiles
    PROVE  /\ ScanCut(S) \subseteq S
           /\ \A p \in S : p \in ScanCut(S) \/ Cardinality({q \in S : q > p}) >= CANDIDATE_SCAN_LIMIT
<1>1. ASSUME NEW p \in S PROVE Cardinality({q \in S : q > p}) \in Nat
  BY Counted
<1>. QED
  BY <1>1, BoundsAssumption DEF ScanCut, Newest

LEMMA SlicedOff ==
    ASSUME NEW S \in SUBSET Profiles
    PROVE  /\ Sliced(S) \subseteq S
           /\ \A p \in S : p \in Sliced(S) \/ Cardinality(Ahead(p, S)) >= MaxMatches
<1>1. ASSUME NEW p \in S PROVE Cardinality(Ahead(p, S)) \in Nat
  BY Counted DEF Ahead
<1>. QED
  BY <1>1, BoundsAssumption DEF Sliced

LEMMA ItsKind == ASSUME NEW p PROVE KindOf(p) \in Kinds
BY DEF KindOf, Kinds

(* The scan of a kind that had not been scanned. *)
LEMMA ScanGathers ==
    ASSUME FInv, StandStill, NEW kind \in Kinds, NEW r, NEW next \in {"businesses", "areas"},
           Scan(kind, r, next), ~Scanned(kind), touched' \subseteq Profiles,
           fanout.step \in {"idle", "businesses"},
           \A k \in Kinds : Scanned(k)' <=> k = kind \/ Scanned(k),
           \A p \in Profiles \ touched' : Scanned(KindOf(p)) => Gathered(p) /\ r = fanout.request
    PROVE  FInv'
<1>. DEFINE crowd == {p \in OfKind(kind) : CategoryClause(p, r.category)}
<1>1. fanout' = [step |-> next, request |-> r, crowd |-> fanout.crowd \cup crowd,
                 found |-> fanout.found \cup ScanCut(crowd), loaded |-> {}, inPlace |-> {}, todo |-> {},
                 missed |-> fanout.missed, told |-> {}]
  BY DEF Scan, FInv, Telling
<1>2. crowd \in SUBSET Profiles /\ \A p \in crowd : KindOf(p) = kind /\ CategoryClause(p, r.category)
  BY DEF OfKind
<1>3. \A p \in Profiles : KindOf(p) = kind /\ CategoryClause(p, r.category) => p \in crowd
  BY DEF OfKind
<1>. HIDE DEF crowd
<1>4. /\ ScanCut(crowd) \subseteq crowd
      /\ \A p \in crowd : p \in ScanCut(crowd) \/ Cardinality({q \in crowd : q > p}) >= CANDIDATE_SCAN_LIMIT
  BY <1>2, CutOff
<1>5. \A q \in fanout.crowd : Scanned(KindOf(q)) /\ KindOf(q) # kind
  BY DEF FInv
<1>6. ASSUME NEW p \in Profiles \ touched' PROVE Gathered(p)'
  <2>. DEFINE newer(S) == {q \in S : KindOf(q) = KindOf(p) /\ q > p}
  <2>1. CategoryClause(p, r.category)' <=> CategoryClause(p, r.category)
    BY NothingElseChanges
  <2>2. KindOf(p) \in Kinds
    BY ItsKind
  <2>3. p \in fanout'.found => CategoryClause(p, r.category)
    <3>1. CASE p \in fanout.found
      <4>1. Scanned(KindOf(p))
        BY <1>5, <3>1 DEF FInv, FanOutTypeOK
      <4>. QED
        BY <3>1, <4>1 DEF Gathered
    <3>2. CASE p \in ScanCut(crowd)
      BY <1>2, <1>4, <3>2
    <3>. QED
      BY <1>1, <3>1, <3>2
  <2>4. ASSUME Scanned(KindOf(p))', CategoryClause(p, r.category), p \notin fanout'.found
        PROVE  Cardinality(newer(fanout'.crowd)) >= CANDIDATE_SCAN_LIMIT
    <3>1. CASE KindOf(p) = kind
      <4>1. newer(fanout'.crowd) = {q \in crowd : q > p}
        BY <1>1, <1>2, <1>5, <3>1
      <4>2. p \in crowd /\ p \notin ScanCut(crowd)
        BY <1>1, <1>3, <2>4, <3>1
      <4>. QED
        BY <1>4, <4>1, <4>2
    <3>2. CASE KindOf(p) # kind
      <4>1. newer(fanout'.crowd) = newer(fanout.crowd)
        BY <1>1, <1>2, <3>2
      <4>2. Scanned(KindOf(p))
        BY <2>2, <2>4, <3>2
      <4>3. Gathered(p) /\ r = fanout.request /\ p \notin fanout.found
        BY <1>1, <2>4, <4>2
      <4>. QED
        BY <2>4, <4>1, <4>2, <4>3 DEF Gathered
    <3>. QED
      BY <3>1, <3>2
  <2>. HIDE DEF newer
  <2>5. KindOf(p) \notin fanout'.loaded
    BY <1>1
  <2>6. fanout'.request = r
    BY <1>1
  <2>. QED
    BY <2>1, <2>3, <2>4, <2>5, <2>6 DEF Gathered, newer, Scanned, KindOf
<1>7. FanOutTypeOK'
  BY <1>1, <1>2, <1>4 DEF FInv, FanOutTypeOK
<1>8. \A q \in fanout'.crowd : Scanned(KindOf(q))'
  BY <1>1, <1>2, <1>5, ItsKind DEF KindOf
<1>9. Telling'
  BY <1>1 DEF Telling
<1>. QED
  BY <1>1, <1>6, <1>7, <1>8, <1>9 DEF FInv, KindOf

LEMMA EmitKeeps == ASSUME FInv, NEW r, EmitOpenRequestMatches(r) PROVE FInv'
<1>1. /\ fanout.step = "idle" /\ touched' = {} /\ StandStill
      /\ Scan("professional", r, "businesses") /\ fanout'.step = "businesses"
  BY DEF EmitOpenRequestMatches, Scan, FInv
<1>2. \A k \in Kinds : ~Scanned(k) /\ (Scanned(k)' <=> k = "professional")
  BY <1>1 DEF Kinds, Scanned
<1>. QED
  BY <1>1, <1>2, ScanGathers, ItsKind DEF Kinds

LEMMA ScanBusinessesKeeps == ASSUME FInv, ScanBusinesses PROVE FInv'
<1>1. /\ fanout.step = "businesses" /\ touched' = touched /\ StandStill
      /\ Scan("business", fanout.request, "areas") /\ fanout'.step = "areas"
  BY DEF ScanBusinesses, Scan, FInv
<1>2. ~Scanned("business") /\ \A k \in Kinds : Scanned(k)' <=> k = "business" \/ Scanned(k)
  BY <1>1 DEF Kinds, Scanned
<1>3. touched' \subseteq Profiles /\ \A p \in Profiles \ touched' : Gathered(p)
  BY <1>1 DEF FInv, FanOutTypeOK
<1>. QED
  BY <1>1, <1>2, <1>3, ScanGathers DEF Kinds

LEMMA LoadKeeps == ASSUME FInv, NEW kind \in Kinds, LoadAreasOf(kind) PROVE FInv'
<1>. DEFINE placed == fanout.inPlace \cup
              {p \in fanout.found : KindOf(p) = kind /\ AnyAreaMatches(LoadAreas(p), fanout.request)}
            loaded == fanout.loaded \cup {kind}
<1>1. /\ fanout.step = "areas" /\ kind \notin fanout.loaded /\ touched' = touched /\ StandStill
      /\ fanout' = [step |-> IF loaded = Kinds THEN "users" ELSE "areas",
                    request |-> fanout.request, crowd |-> fanout.crowd, found |-> fanout.found,
                    loaded |-> loaded, inPlace |-> placed,
                    todo |-> IF loaded = Kinds THEN Sliced(placed) ELSE {},
                    missed |-> fanout.missed, told |-> {}]
  BY DEF LoadAreasOf, FInv, Telling
<1>2. placed \subseteq fanout.found /\ placed \in SUBSET Profiles
  BY DEF FInv, FanOutTypeOK
<1>3. \A p \in placed : KindOf(p) \in loaded
  BY DEF FInv
<1>4. ASSUME NEW p \in fanout.found PROVE
        KindOf(p) \in loaded =>
          (p \in placed <=> IF KindOf(p) = kind THEN AnyAreaMatches(LoadAreas(p), fanout.request)
                            ELSE p \in fanout.inPlace)
  BY <1>1 DEF FInv
<1>. HIDE DEF placed
<1>5. /\ Sliced(placed) \subseteq placed
      /\ \A p \in placed : p \in Sliced(placed) \/ Cardinality(Ahead(p, placed)) >= MaxMatches
  BY <1>2, SlicedOff
<1>6. loaded \subseteq Kinds
  BY DEF FInv, FanOutTypeOK
<1>7. fanout'.step \in {"areas", "users"} /\ \A k \in Kinds : Scanned(k) /\ Scanned(k)'
  BY <1>1 DEF Scanned
<1>8. ASSUME NEW p \in Profiles \ touched' PROVE Gathered(p)'
  <2>1. Gathered(p) /\ KindOf(p) \in Kinds
    BY <1>1, <1>8, ItsKind DEF FInv
  <2>2. /\ \A k : CategoryClause(p, k)' <=> CategoryClause(p, k)
        /\ LoadAreas(p)' = LoadAreas(p)
    BY <1>1, NothingElseChanges
  <2>3. ASSUME KindOf(p) \in loaded
        PROVE  p \in placed <=> p \in fanout.found /\ AnyAreaMatches(LoadAreas(p), fanout.request)
    BY <1>2, <1>4, <2>1, <2>3 DEF Gathered
  <2>. HIDE DEF loaded
  <2>. QED
    BY <1>1, <1>7, <2>1, <2>2, <2>3 DEF Gathered, KindOf, AnyAreaMatches
<1>9. FanOutTypeOK'
  BY <1>1, <1>2, <1>5, <1>6, <1>7 DEF FInv, FanOutTypeOK
<1>10. Telling'
  <2>1. CASE loaded = Kinds
    BY <1>1, <1>5, <2>1 DEF Telling, Ahead
  <2>2. CASE loaded # Kinds
    BY <1>1, <2>2 DEF Telling
  <2>. QED
    BY <2>1, <2>2
<1>11. \A q \in fanout'.crowd : Scanned(KindOf(q))'
  BY <1>1, <1>7, ItsKind DEF KindOf, Kinds, Scanned
<1>12. \A p \in fanout'.inPlace : KindOf(p)' \in fanout'.loaded
  BY <1>1, <1>3 DEF KindOf
<1>. HIDE DEF loaded
<1>. QED
  BY <1>1, <1>7, <1>8, <1>9, <1>10, <1>11, <1>12 DEF FInv

(* The lookups leave alone what has been gathered. *)
LEMMA LookedUp ==
    ASSUME FInv, StandStill, touched' = touched, fanout.step = "users",
           NEW p \in fanout.todo, NEW missed, NEW told \in SUBSET Users,
           fanout' = [step |-> "users", request |-> fanout.request, crowd |-> fanout.crowd,
                      found |-> fanout.found, loaded |-> fanout.loaded, inPlace |-> fanout.inPlace,
                      todo |-> fanout.todo \ {p}, missed |-> missed, told |-> told],
           fanout.missed \subseteq missed, fanout.told \subseteq told,
           p \in missed \/ FindUserIdsForProvider(p) \subseteq told,
           told \subseteq fanout.told \cup FindUserIdsForProvider(p)
    PROVE  FInv'
<1>1. /\ fanout'.step = "users" /\ fanout'.request = fanout.request /\ fanout'.crowd = fanout.crowd
      /\ fanout'.found = fanout.found /\ fanout'.loaded = fanout.loaded /\ fanout'.inPlace = fanout.inPlace
      /\ fanout'.todo = fanout.todo \ {p} /\ fanout'.missed = missed /\ fanout'.told = told
  OBVIOUS
<1>2. ASSUME NEW q \in Profiles \ touched' PROVE Gathered(q)'
  <2>1. Gathered(q)
    BY <1>2 DEF FInv
  <2>2. /\ \A k : CategoryClause(q, k)' <=> CategoryClause(q, k)
        /\ LoadAreas(q)' = LoadAreas(q)
    BY NothingElseChanges
  <2>. QED
    BY <1>1, <2>1, <2>2 DEF Gathered, KindOf, AnyAreaMatches, Scanned
<1>3. FanOutTypeOK'
  BY <1>1 DEF FInv, FanOutTypeOK
<1>4. Telling'
  <2>1. \A q \in fanout.inPlace : \/ q \in (fanout.todo \ {p}) \cup missed
                                 \/ FindUserIdsForProvider(q) \subseteq told
                                 \/ Cardinality(Ahead(q, fanout.inPlace)) >= MaxMatches
    BY DEF FInv, Telling
  <2>2. \A u \in told : \E q \in Own(u) : q \in fanout.inPlace
    BY DEF FInv, FanOutTypeOK, Telling, FindUserIdsForProvider
  <2>3. fanout.loaded = Kinds
    BY DEF FInv, Telling
  <2>. QED
    BY <1>1, <2>1, <2>2, <2>3 DEF Telling, FindUserIdsForProvider, Ahead
<1>. QED
  BY <1>1, <1>2, <1>3, <1>4 DEF FInv, Scanned, KindOf

LEMMA FanOutKeeps == ASSUME FInv, FanOutStep PROVE FInv'
<1>1. ASSUME NEW r \in Requests, EmitOpenRequestMatches(r) PROVE FInv'
  BY <1>1, EmitKeeps
<1>2. CASE ScanBusinesses
  BY <1>2, ScanBusinessesKeeps
<1>3. ASSUME NEW kind \in Kinds, LoadAreasOf(kind) PROVE FInv'
  BY <1>3, LoadKeeps
<1>4. ASSUME NEW p \in fanout.todo, AddRecipients(p) PROVE FInv'
  <2>. DEFINE told == fanout.told \cup FindUserIdsForProvider(p)
  <2>1. fanout' = [step |-> "users", request |-> fanout.request, crowd |-> fanout.crowd,
                   found |-> fanout.found, loaded |-> fanout.loaded, inPlace |-> fanout.inPlace,
                   todo |-> fanout.todo \ {p}, missed |-> fanout.missed, told |-> told]
    BY <1>4 DEF AddRecipients, FInv
  <2>2. told \in SUBSET Users
    BY DEF FInv, FanOutTypeOK, FindUserIdsForProvider
  <2>3. /\ fanout.told \subseteq told /\ FindUserIdsForProvider(p) \subseteq told
        /\ told \subseteq fanout.told \cup FindUserIdsForProvider(p)
    OBVIOUS
  <2>4. StandStill /\ touched' = touched /\ fanout.step = "users"
    BY <1>4 DEF AddRecipients
  <2>. HIDE DEF told
  <2>. DEFINE missed == fanout.missed
  <2>5. fanout.missed \subseteq missed
    OBVIOUS
  <2>6. fanout' = [step |-> "users", request |-> fanout.request, crowd |-> fanout.crowd,
                   found |-> fanout.found, loaded |-> fanout.loaded, inPlace |-> fanout.inPlace,
                   todo |-> fanout.todo \ {p}, missed |-> missed, told |-> told]
    BY <2>1
  <2>. HIDE DEF missed
  <2>. QED
    BY <2>2, <2>3, <2>4, <2>5, <2>6, LookedUp
<1>5. ASSUME NEW p \in fanout.todo, LookupFails(p) PROVE FInv'
  <2>. DEFINE missed == fanout.missed \cup {p}
  <2>1. fanout' = [step |-> "users", request |-> fanout.request, crowd |-> fanout.crowd,
                   found |-> fanout.found, loaded |-> fanout.loaded, inPlace |-> fanout.inPlace,
                   todo |-> fanout.todo \ {p}, missed |-> missed, told |-> fanout.told]
    BY <1>5 DEF LookupFails, FInv
  <2>2. fanout.told \in SUBSET Users
    BY DEF FInv, FanOutTypeOK
  <2>3. fanout.missed \subseteq missed /\ p \in missed
    OBVIOUS
  <2>4. StandStill /\ touched' = touched /\ fanout.step = "users"
    BY <1>5 DEF LookupFails
  <2>. HIDE DEF missed
  <2>. QED
    BY <2>1, <2>2, <2>3, <2>4, LookedUp
<1>6. CASE NotifyMatches \/ FanOutFails
  <2>1. fanout' = NoFanOut /\ touched' = {}
    BY <1>6 DEF NotifyMatches, FanOutFails
  <2>. QED
    BY <2>1, NoFanOutHolds DEF FInv, FanOutTypeOK, NoFanOut, Telling, Scanned, KindOf, Gathered
<1>. QED
  BY <1>1, <1>2, <1>3, <1>4, <1>5, <1>6 DEF FanOutStep

LEMMA FanOutGathers == Spec => []FInv
<1>1. Init => FInv
  BY NoFanOutHolds DEF Init
<1>2. FInv /\ [Next]_vars => FInv'
  <2>. SUFFICES ASSUME FInv, [Next]_vars PROVE FInv'
    OBVIOUS
  <2>1. CASE UNCHANGED vars
    <3>1. Meanwhile
      BY <2>1 DEF vars, Meanwhile, Changed
    <3>. QED
      BY <3>1, MeanwhileKeeps
  <2>. QED
    BY <2>1, MeanwhileKeeps, FanOutKeeps DEF Next
<1>. QED
  BY <1>1, <1>2, PTL DEF Spec

LEMMA GatheredTells == FInv => WhoMatchesIsTold
<1>. SUFFICES ASSUME FInv, fanout.step = "users" PROVE WhoMatchesIsTold
  BY DEF WhoMatchesIsTold
<1>1. /\ \A p \in Profiles \ touched : Gathered(p)
      /\ fanout.inPlace \subseteq Profiles /\ \A k \in Kinds : k \in fanout.loaded /\ Scanned(k)
  BY DEF FInv, FanOutTypeOK, Telling, Scanned
<1>2. \A p, r : MayQuote(p, r) <=> CategoryClause(p, r.category) /\ AnyAreaMatches(LoadAreas(p), r)
  BY DEF MayQuote, GetProviderMatchProfile, CategoryClause
<1>3. ASSUME NEW u \in fanout.told, Own(u) \cap touched = {} PROVE CanQuoteOpenRequest(u, fanout.request)
  <2>1. PICK p \in Own(u) : p \in fanout.inPlace
    BY DEF FInv, Telling
  <2>2. Gathered(p) /\ KindOf(p) \in fanout.loaded
    BY <1>1, <1>3, <2>1, ItsKind
  <2>. QED
    BY <1>2, <2>1, <2>2 DEF Gathered, CanQuoteOpenRequest
<1>4. ASSUME NEW p \in Profiles \ (touched \cup fanout.todo \cup fanout.missed),
             MayQuote(p, fanout.request), ~CrowdedOut(p)
      PROVE  FindUserIdsForProvider(p) \subseteq fanout.told
  <2>1. Gathered(p) /\ KindOf(p) \in fanout.loaded /\ Scanned(KindOf(p))
    BY <1>1, ItsKind
  <2>2. p \in fanout.inPlace
    BY <1>2, <1>4, <2>1 DEF Gathered, CrowdedOut
  <2>. QED
    BY <1>4, <2>2 DEF FInv, Telling, CrowdedOut
<1>. QED
  BY <1>3, <1>4 DEF WhoMatchesIsTold

(* The fan-out tells exactly whom the check of a quote lets quote            *)
(* (emitOpenRequestMatches against canQuoteOpenRequest), up to the profiles  *)
(* changed while it runs, the failed lookups and the two limits, whatever    *)
(* these are and however many profiles there be.                             *)
THEOREM WhoMatchesIsAlwaysTold == Spec => []WhoMatchesIsTold
BY FanOutGathers, GatheredTells, PTL

(* The variables stay in their types. *)
THEOREM TypesOK == Spec => []TypeOK
<1>1. AInv /\ FInv => TypeOK
  BY DEF AInv, FInv, TypeOK
<1>. QED
  BY <1>1, SavesStayApart, FanOutGathers, PTL

=============================================================================
