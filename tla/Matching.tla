-------------------------------- MODULE Matching --------------------------------
(***************************************************************************)
(* Which provider hears of an open request and which may quote it.  The    *)
(* two are worked out in two places from the same rows: the offerings and  *)
(* the service areas of the provider's profiles.  The module has the calls *)
(* that change those rows (saving the areas goes over the caller's         *)
(* profiles, statement by statement), the fan-out that reads them, again   *)
(* statement by statement, and the check of a quote.  The requests are     *)
(* MarketplaceJob's matter: here they stand still.                         *)
(***************************************************************************)
EXTENDS Naturals, Sequences, SequencesExt, FiniteSetsExt

CONSTANTS
    None,
    Profiles,       \* provider profiles, numbered as they came: the newest is the highest
    Professionals,  \* those in professional_profiles; the others are in business_profiles
    NumericId,      \* NumericId[p]: the id of the profile in its table
    Users,
    ActsFor,        \* the profiles of a user, professional first (resolveIdentity)
    Categories,
    Catalogue,      \* the categories of a profile's professional_services / business_services
    Names,          \* names of offerings
    Areas,
    WordsOf,        \* the meaningful words of an area, possibly none (tokenizeLocation)
    Lists,          \* the area lists the validation lets through
    Requests,       \* open requests: records category, place (its words)
    CANDIDATE_SCAN_LIMIT,
    MaxMatches,     \* MAX_OPEN_REQUEST_MATCHES
    Calls,          \* bound: savings of areas under way at once
    MaxHandlers,    \* bound: savings and fan-outs under way at once
    MaxOfferings    \* bound: offering rows

ASSUME ProfilesAssumption == Profiles \subseteq Nat /\ IsFiniteSet(Profiles) /\ None \notin Profiles
ASSUME ActsForAssumption == \A u \in Users : ActsFor[u] \in Seq(Profiles) /\ ActsFor[u] # << >>
ASSUME ListsAssumption == \A l \in Lists : l # {} /\ l \subseteq Areas
ASSUME RequestsAssumption == \A r \in Requests : r.category \in Categories
ASSUME NumericIdAssumption == NumericId \in [Profiles -> Nat]
ASSUME BoundsAssumption == CANDIDATE_SCAN_LIMIT \in Nat /\ MaxMatches \in Nat

VARIABLES
    areas,      \* service_areas: the rows of each profile, committed or not
    saves,      \* the calls of PUT /providers/me/service-areas
    offerings,  \* service_offerings
    fanout,     \* the fan-out under way
    touched     \* history: the profiles that have changed since it began

vars == <<areas, saves, offerings, fanout, touched>>

(* A save: the profiles still to write, the one whose rows its transaction *)
(* has locked (None outside a transaction), the areas still to insert, and *)
(* what the transaction took out and put in.                               *)
Idle == [todo |-> << >>, list |-> {}, on |-> None, left |-> {}, gone |-> {}, added |-> {}]

Save == [todo : Seq(Profiles), list : Lists \cup {{}}, on : Profiles \cup {None},
         left : SUBSET Areas, gone : SUBSET Areas, added : SUBSET Areas]

Offering == [owner : Profiles, name : Names, category : Categories, removed : BOOLEAN]

(* A fan-out: the profiles in the category (history), those of them the    *)
(* scan kept, the kinds whose areas are loaded, those in the area, the     *)
(* matches whose users are still to be looked up, those whose lookup       *)
(* failed (history) and the users to tell.                                 *)
NoFanOut == [step |-> "idle", request |-> None, crowd |-> {}, found |-> {}, loaded |-> {},
             inPlace |-> {}, todo |-> {}, missed |-> {}, told |-> {}]

Own(u) == ToSet(ActsFor[u])

Init ==
    /\ areas = [p \in Profiles |-> {}]
    /\ saves = [c \in Calls |-> Idle]
    /\ offerings = << >>
    /\ fanout = NoFanOut
    /\ touched = {}

-----------------------------------------------------------------------------
(* Saving the areas. *)

Underway(c) == saves[c].todo # << >>

Room == Cardinality({c \in Calls : Underway(c)}) + (IF fanout.step = "idle" THEN 0 ELSE 1) < MaxHandlers

BeginReplace(c, u, list) ==
    /\ ~Underway(c) /\ Room
    /\ saves' = [saves EXCEPT ![c] = [Idle EXCEPT !.todo = ActsFor[u], !.list = list]]
    /\ UNCHANGED <<areas, offerings>>

(* The rows another transaction has deleted or inserted are locked; where  *)
(* it found none to delete it holds only the gap, and gap locks are shared *)
(* until somebody inserts.                                                 *)
RowsHeld(c, p) ==
    \E d \in Calls \ {c} : saves[d].on = p /\ saves[d].gone \cup saves[d].added # {}
GapHeld(c, p) == \E d \in Calls \ {c} : saves[d].on = p

(* What each statement of a save waits for. *)
MayDelete(c) == Underway(c) /\ saves[c].on = None /\ ~RowsHeld(c, Head(saves[c].todo))
MayInsert(c) == saves[c].left # {} /\ ~GapHeld(c, saves[c].on)
MayCommit(c) == Underway(c) /\ saves[c].on # None /\ saves[c].left = {}

(* Mutant: no transaction, the DELETE is committed on its own. *)
DeleteAreasAlone(c) ==
    LET p == Head(saves[c].todo) IN
    /\ MayDelete(c)
    /\ areas' = [areas EXCEPT ![p] = {}]
    /\ saves' = [saves EXCEPT ![c].on = p, ![c].left = saves[c].list]
    /\ UNCHANGED offerings

DeleteAreas(c) ==
    LET p == Head(saves[c].todo) IN
    /\ MayDelete(c)
    /\ areas' = [areas EXCEPT ![p] = {}]
    /\ saves' = [saves EXCEPT ![c].on = p, ![c].left = saves[c].list, ![c].gone = areas[p]]
    /\ UNCHANGED offerings

InsertArea(c) ==
    /\ MayInsert(c)
    /\ \E a \in saves[c].left :
        /\ areas' = [areas EXCEPT ![saves[c].on] = @ \cup {a}]
        /\ saves' = [saves EXCEPT ![c].left = @ \ {a}, ![c].added = @ \cup {a}]
        /\ UNCHANGED offerings

(* Commit, release, and on to the caller's next profile. *)
CommitAreas(c) ==
    /\ MayCommit(c)
    /\ saves' = [saves EXCEPT ![c] = [Idle EXCEPT !.todo = Tail(saves[c].todo),
                                                  !.list = saves[c].list]]
    /\ UNCHANGED <<areas, offerings>>

(* Mutant: the connection goes back to the pool with its transaction open. *)
KeepTransaction(c) ==
    /\ UNCHANGED areas
    /\ saves' = [saves EXCEPT ![c].todo = << >>, ![c].left = {}]

(* Roll back and answer 500: the profiles after this one are not written. *)
RollBack(c) ==
    LET s == saves[c] IN
    /\ areas' = IF s.on = None THEN areas
                ELSE [areas EXCEPT ![s.on] = (@ \ s.added) \cup s.gone]
    /\ saves' = [saves EXCEPT ![c] = Idle]

StatementFails(c) ==
    /\ Underway(c)
    /\ RollBack(c)
    /\ UNCHANGED offerings

(* Two that hold the same gap each wait for the other to insert: InnoDB    *)
(* rolls one of them back.                                                 *)
Deadlocked(c) == saves[c].left # {} /\ \E d \in Calls \ {c} : saves[d].on = saves[c].on /\ saves[d].left # {}

ChosenAsVictim(c) ==
    /\ Deadlocked(c)
    /\ RollBack(c)
    /\ UNCHANGED offerings

-----------------------------------------------------------------------------
(* Offerings.  The unique index counts removed rows; an owner never        *)
(* changes and no row goes, so each call is its one statement.             *)

NameTaken(p, n, except) ==
    \E i \in DOMAIN offerings \ except : offerings[i].owner = p /\ offerings[i].name = n

CreateOffering(u, p, n, k) ==
    /\ p \in Own(u)
    /\ Len(offerings) < MaxOfferings
    /\ ~NameTaken(p, n, {})
    /\ offerings' = Append(offerings, [owner |-> p, name |-> n, category |-> k, removed |-> FALSE])
    /\ UNCHANGED <<areas, saves>>

(* requireOwned reads removed rows too; only the statement skips them. *)
UpdateOffering(u, i, n, k) ==
    /\ offerings[i].owner \in Own(u)
    /\ ~offerings[i].removed
    /\ ~NameTaken(offerings[i].owner, n, {i})
    /\ offerings' = [offerings EXCEPT ![i].name = n, ![i].category = k]
    /\ UNCHANGED <<areas, saves>>

(* Nothing writes jobs.service_offering_id, so countOpenJobsForOffering is *)
(* 0 and no removal is refused.                                            *)
RemoveOffering(u, i) ==
    /\ offerings[i].owner \in Own(u)
    /\ ~offerings[i].removed
    /\ offerings' = [offerings EXCEPT ![i].removed = TRUE]
    /\ UNCHANGED <<areas, saves>>

-----------------------------------------------------------------------------
(* What a statement outside the transactions reads. *)

Writers(p) == {c \in Calls : saves[c].on = p}
LoadAreas(p) ==
    (areas[p] \ UNION {saves[c].added : c \in Writers(p)}) \cup UNION {saves[c].gone : c \in Writers(p)}

AnyAreaMatches(list, r) == \E a \in list : WordsOf[a] \cap r.place # {}

Offered(p) == {o.category : o \in {x \in ToSet(offerings) : x.owner = p /\ ~x.removed}}
CategoryClause(p, k) == k \in Offered(p) \/ k \in Catalogue[p]

(* The quote check reads the profile of the user it is asked for. *)
GetProviderMatchProfile(p) ==
    [categories |-> Offered(p) \cup Catalogue[p], areas |-> LoadAreas(p)]

MayQuote(p, r) == LET profile == GetProviderMatchProfile(p)
                  IN  r.category \in profile.categories /\ AnyAreaMatches(profile.areas, r)
CanQuoteOpenRequest(u, r) == \E p \in Own(u) : MayQuote(p, r)

-----------------------------------------------------------------------------
(* The fan-out of an open request, statement by statement. *)

Kinds == {"professional", "business"}
KindOf(p) == IF p \in Professionals THEN "professional" ELSE "business"
OfKind(kind) == {p \in Profiles : KindOf(p) = kind}

Newest(S, n) == {p \in S : Cardinality({q \in S : q > p}) < n}

(* Mutant: the scan is cut at the cap of the fan-out. *)
ScanAtCap(crowd) == Newest(crowd, MaxMatches)

ScanCut(crowd) == Newest(crowd, CANDIDATE_SCAN_LIMIT)

(* The profiles of a kind in the category, and the newest of them. *)
Scan(kind, r, next) ==
    LET crowd == {p \in OfKind(kind) : CategoryClause(p, r.category)}
    IN  fanout' = [fanout EXCEPT !.step = next, !.request = r, !.crowd = @ \cup crowd,
                                 !.found = @ \cup ScanCut(crowd)]

(* matches.sort and slice: the two kinds have numbers of their own.        *)
Before(p, q) == \/ NumericId[p] > NumericId[q]
                \/ NumericId[p] = NumericId[q] /\ KindOf(p) = "business" /\ KindOf(q) = "professional"
Ahead(p, S) == {q \in S : Before(q, p)}
Sliced(S) == {p \in S : Cardinality(Ahead(p, S)) < MaxMatches}

StandStill == UNCHANGED <<areas, saves, offerings>>

(* createJob and updateJob have announced an open request: the first scan. *)
EmitOpenRequestMatches(r) ==
    /\ fanout.step = "idle" /\ Room
    /\ Scan("professional", r, "businesses")
    /\ touched' = {}
    /\ StandStill

ScanBusinesses ==
    /\ fanout.step = "businesses"
    /\ Scan("business", fanout.request, "areas")
    /\ UNCHANGED touched
    /\ StandStill

(* The areas of each kind are loaded side by side; the second to come in   *)
(* makes the list.                                                         *)
LoadAreasOf(kind) ==
    LET placed == fanout.inPlace \cup
            {p \in fanout.found : KindOf(p) = kind /\ AnyAreaMatches(LoadAreas(p), fanout.request)}
        loaded == fanout.loaded \cup {kind}
    IN  /\ fanout.step = "areas" /\ kind \notin fanout.loaded
        /\ fanout' = [fanout EXCEPT !.inPlace = placed, !.loaded = loaded,
                                    !.step = IF loaded = Kinds THEN "users" ELSE "areas",
                                    !.todo = IF loaded = Kinds THEN Sliced(placed) ELSE {}]
        /\ UNCHANGED touched
        /\ StandStill

FindUserIdsForProvider(p) == {u \in Users : p \in Own(u)}

(* One lookup of users for each match.  They go by the order of the list,  *)
(* which nobody can tell: only the union of what they find is used.        *)
AddRecipients(p) ==
    /\ fanout.step = "users" /\ p \in fanout.todo
    /\ fanout' = [fanout EXCEPT !.todo = @ \ {p}, !.told = @ \cup FindUserIdsForProvider(p)]
    /\ UNCHANGED touched
    /\ StandStill

LookupFails(p) ==
    /\ fanout.step = "users" /\ p \in fanout.todo
    /\ fanout' = [fanout EXCEPT !.todo = @ \ {p}, !.missed = @ \cup {p}]
    /\ UNCHANGED touched
    /\ StandStill

(* createForUsers has the recipients. *)
NotifyMatches ==
    /\ fanout.step = "users" /\ fanout.todo = {}
    /\ fanout' = NoFanOut
    /\ touched' = {}
    /\ StandStill

(* A scan or a load throws: nobody is told. *)
FanOutFails ==
    /\ fanout.step \in {"businesses", "areas"}
    /\ fanout' = NoFanOut
    /\ touched' = {}
    /\ StandStill

-----------------------------------------------------------------------------
Offer ==
    \E u \in Users :
        \/ \E p \in Own(u), n \in Names, k \in Categories : CreateOffering(u, p, n, k)
        \/ \E i \in DOMAIN offerings :
            \/ RemoveOffering(u, i)
            \/ \E n \in Names, k \in Categories : UpdateOffering(u, i, n, k)

Replace(c) == DeleteAreas(c) \/ InsertArea(c) \/ CommitAreas(c) \/ ChosenAsVictim(c)

ProviderStep ==
    \/ Offer
    \/ \E c \in Calls :
        \/ \E u \in Users, list \in Lists : BeginReplace(c, u, list)
        \/ Replace(c)
        \/ StatementFails(c)

FanOutStep ==
    \/ \E r \in Requests : EmitOpenRequestMatches(r)
    \/ ScanBusinesses
    \/ \E kind \in Kinds : LoadAreasOf(kind)
    \/ \E p \in fanout.todo : AddRecipients(p) \/ LookupFails(p)
    \/ NotifyMatches \/ FanOutFails

Changed ==
    IF fanout.step = "idle" \/ UNCHANGED <<areas, saves, offerings>> THEN {}
    ELSE {p \in Profiles : GetProviderMatchProfile(p)' # GetProviderMatchProfile(p)}

(* What the provider side does leaves a fan-out as it is.                  *)
Meanwhile ==
    /\ UNCHANGED fanout
    /\ touched' = touched \cup Changed

Next == (ProviderStep /\ Meanwhile) \/ FanOutStep

Spec == Init /\ [][Next]_vars

(* A handler goes on to its next statement, InnoDB grants locks in the     *)
(* order they were asked for, and a deadlock is found.                     *)
FairSpec == Spec /\ \A c \in Calls : SF_<<areas, saves>>(Replace(c))

-----------------------------------------------------------------------------
(* Types of the variables. *)
ProvidersTypeOK ==
    /\ areas \in [Profiles -> SUBSET Areas]
    /\ saves \in [Calls -> Save]
    /\ offerings \in Seq(Offering)
FanOutTypeOK ==
    /\ fanout.step \in {"idle", "businesses", "areas", "users"}
    /\ fanout.crowd \subseteq Profiles /\ fanout.found \subseteq fanout.crowd
    /\ fanout.inPlace \subseteq fanout.found /\ fanout.todo \subseteq fanout.inPlace
    /\ fanout.loaded \subseteq Kinds /\ fanout.told \subseteq Users
    /\ touched \subseteq Profiles
TypeOK == ProvidersTypeOK /\ FanOutTypeOK

(* Fan-out and quote check agree, as the header of service-area-match.ts   *)
(* asks, though the one is spread over many statements and the rows change *)
(* under it.  Whoever is to be told of a request may quote it, unless a    *)
(* profile of theirs has changed meanwhile.  Whose profile has matched all *)
(* along is to be told, unless as many newer profiles as the scan takes    *)
(* are in the category, as many that match as the fan-out reaches come     *)
(* first, or the lookup of its users fails: candidates that turn out to    *)
(* work elsewhere crowd nobody out ("a scan capped at the fan-out limit    *)
(* would report no matches when matches existed just past the cut").       *)
CrowdedOut(p) ==
    \/ Cardinality({q \in fanout.crowd : KindOf(q) = KindOf(p) /\ q > p}) >= CANDIDATE_SCAN_LIMIT
    \/ Cardinality(Ahead(p, fanout.inPlace)) >= MaxMatches

WhoMatchesIsTold ==
    fanout.step = "users" =>
        /\ \A u \in fanout.told :
                CanQuoteOpenRequest(u, fanout.request) \/ Own(u) \cap touched # {}
        /\ \A p \in Profiles \ (touched \cup fanout.todo \cup fanout.missed) :
                MayQuote(p, fanout.request) /\ ~CrowdedOut(p)
                    => FindUserIdsForProvider(p) \subseteq fanout.told

(* The areas anybody reads of a profile change only into the whole list of *)
(* one save, whoever else saves and whatever fails: "what stops two        *)
(* concurrent saves from interleaving into a list belonging to neither     *)
(* caller", the comment on replaceServiceAreas.                            *)
AreasAreWhole ==
    [][\A p \in Profiles : LoadAreas(p)' # LoadAreas(p) =>
            \E c \in Calls : Underway(c) /\ LoadAreas(p)' = saves[c].list]_vars

(* No circle of saves waiting for each other is left alone: a save under   *)
(* way has a step of its own to take (a deadlock is one, InnoDB finds it), *)
(* or waits for rows or a gap that somebody holds who has.                 *)
GoesOn(c) == MayDelete(c) \/ MayInsert(c) \/ MayCommit(c) \/ Deadlocked(c)
NoSaveIsStuck ==
    \A c \in Calls : Underway(c) =>
        \/ GoesOn(c)
        \/ \E d \in Calls : saves[d].on = Head(saves[c].todo) /\ GoesOn(d)

(* Every save of areas is answered: a failed statement or a lost deadlock  *)
(* leaves no lock behind for the others to wait on.                        *)
EverySaveEnds == \A c \in Calls : []<>~Underway(c)
=============================================================================
