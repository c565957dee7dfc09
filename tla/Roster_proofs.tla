----------------------------- MODULE Roster_proofs -----------------------------
(***************************************************************************)
(* Theorems about Roster, for any accounts, businesses, calls and faults.  *)
(*                                                                         *)
(* An invitation is several statements, and what one of them found is      *)
(* what a later one relies on.  HandlersKnow says what stays true between  *)
(* them: the account is there, the role is there, the link was made.  For  *)
(* the listings, GoneIsGone ties the history in `gone` to the roster.      *)
(***************************************************************************)
EXTENDS Roster, NaturalsInduction, WellFoundedInduction, TLAPS

HandlersKnow ==
    \A c \in Calls :
        /\ call[c].at \in {"insert", "create", "relookup", "grant", "link"} => call[c].e \in Emails
        /\ call[c].at \in {"create", "relookup", "grant", "link"} =>
              call[c].b \in Businesses /\ call[c].does = "invite"
        /\ call[c].at = "insert" => call[c].does = "register"
        /\ call[c].at = "commit" =>
              call[c].b \in Businesses /\ call[c].e \in Emails /\ call[c].job \in JobsOf[call[c].b]
        /\ call[c].at \in {"grant", "link"} => Exists(call[c].e)
        /\ call[c].at = "link" => "TECHNICIAN" \in account[call[c].e].roles

Invited(c) == call[c].does = "invite" /\ call[c].at = "201"

LinkedIsThere ==
    \A c \in Calls : Invited(c) => /\ call[c].b \in Businesses /\ call[c].e \in Emails
                                   /\ technician[call[c].b][call[c].e] # "absent"

TInv == TypeOK /\ HandlersKnow

RosterInv == RowsInStep /\ LinkedIsThere /\ InvitedOnce

-----------------------------------------------------------------------------
(* The calls, one by one. *)
LEMMA CallFields ==
    ASSUME TypeOK, NEW c \in Calls
    PROVE  /\ call[c] \in CallState
           /\ call[c].at \in Phase \cup Answer
           /\ call[c].b \in Businesses \cup {None}
           /\ call[c].e \in Emails \cup {None}
           /\ call[c].phone \in Phones \cup {None}
           /\ call[c].shown \subseteq Jobs
           /\ call[c].gone \subseteq Businesses
<1>1. call[c] \in CallState
  BY DEF TypeOK
<1> QED
  BY <1>1 DEF CallState

LEMMA GoesStep ==
    ASSUME TypeOK, NEW c \in Calls, NEW phase \in Phase \cup Answer, Goes(c, phase)
    PROVE  /\ call' \in [Calls -> CallState]
           /\ call'[c] = [call[c] EXCEPT !.at = phase]
           /\ \A d \in Calls \ {c} : call'[d] = call[d]
<1>1. call' = [call EXCEPT ![c].at = phase]
  BY DEF Goes
<1>2. call'[c] = [call[c] EXCEPT !.at = phase]
  BY <1>1 DEF TypeOK
<1>3. call'[c] \in CallState
  BY <1>2, CallFields DEF CallState
<1> QED
  BY <1>1, <1>2, <1>3 DEF TypeOK

LEMMA BeginsStep ==
    ASSUME TypeOK, NEW c \in Calls, NEW state \in CallState, Begins(c, state)
    PROVE  /\ call[c].at = "idle"
           /\ call' \in [Calls -> CallState]
           /\ call'[c] = state
           /\ \A d \in Calls \ {c} : call'[d] = call[d]
BY DEF TypeOK, Begins

(* A record of calls that differs from this one in the history alone.      *)
SameBut(calls) ==
    /\ calls \in [Calls -> CallState]
    /\ \A d \in Calls : /\ calls[d].at = call[d].at /\ calls[d].b = call[d].b
                        /\ calls[d].e = call[d].e /\ calls[d].phone = call[d].phone
                        /\ calls[d].job = call[d].job /\ calls[d].does = call[d].does
                        /\ calls[d].shown = call[d].shown
                        /\ calls[d].gone \subseteq call[d].gone

LEMMA SeenStep ==
    ASSUME TypeOK, NEW b, NEW e
    PROVE  SameBut(Seen(b, e))
<1>1. ASSUME NEW d \in Calls
      PROVE  LET x == Seen(b, e)[d]
             IN  /\ x \in CallState
                 /\ x.at = call[d].at /\ x.b = call[d].b /\ x.e = call[d].e /\ x.phone = call[d].phone
                 /\ x.job = call[d].job /\ x.does = call[d].does /\ x.shown = call[d].shown
                 /\ x.gone \subseteq call[d].gone
  BY CallFields DEF Seen, CallState
<1>2. Seen(b, e) \in [Calls -> CallState]
  BY <1>1 DEF Seen
<1> QED
  BY <1>1, <1>2 DEF SameBut

LEMMA SameIsSame == TypeOK => SameBut(call)
BY DEF TypeOK, SameBut

LEMMA CommitsStep ==
    ASSUME TypeOK, NEW c \in Calls, NEW calls, SameBut(calls), NEW phase \in Phase \cup Answer,
           Commits(c, calls, phase)
    PROVE  /\ call' \in [Calls -> CallState]
           /\ \E at \in {phase, "500"} : call'[c] = [calls[c] EXCEPT !.at = at]
           /\ \A d \in Calls \ {c} : call'[d] = calls[d]
           /\ faults' \in 0..MaxFaults
<1>1. PICK at \in {phase, "500"} : call' = [calls EXCEPT ![c].at = at]
  BY DEF Commits
<1>2. faults' \in 0..MaxFaults
  BY RosterAssumption DEF Commits, Fault, TypeOK
<1>3. calls[c] \in CallState
  BY DEF SameBut
<1>4. call'[c] = [calls[c] EXCEPT !.at = at]
  BY <1>1 DEF SameBut
<1>5. call'[c] \in CallState
  BY <1>3, <1>4 DEF CallState, Answer
<1> QED
  BY <1>1, <1>2, <1>4, <1>5 DEF SameBut

-----------------------------------------------------------------------------
LEMMA InitRoster == Init => TInv /\ RosterInv
<1> SUFFICES ASSUME Init PROVE TInv /\ RosterInv
  OBVIOUS
<1>1. PICK rows \in SUBSET Technicians :
         /\ account = [e \in Emails |->
                 IF e \in Owners THEN Holder({"BUSINESS_OWNER"})
                 ELSE IF \E t \in rows : t[2] = e THEN Holder({"TECHNICIAN"})
                 ELSE None]
         /\ \A t \in rows : t[2] \notin Owners
         /\ member = [b \in Businesses |-> [e \in Emails |->
                 IF <<b, e>> \in rows THEN "active" ELSE "absent"]]
  BY DEF Init
<1>2. /\ technician = member
      /\ assigned = [j \in Jobs |-> None]
      /\ call = [c \in Calls |-> Idle]
      /\ faults = 0
  BY DEF Init
<1>3. Idle \in CallState
  BY DEF Idle, CallState, Phase
<1>4. \A c \in Calls : call[c] = Idle
  BY <1>2
<1>5. account \in [Emails -> Account \cup {None}]
  <2>1. Holder({"BUSINESS_OWNER"}) \in Account /\ Holder({"TECHNICIAN"}) \in Account
    BY DEF Account, Roles, Holder
  <2> QED
    BY <1>1, <2>1
<1>6. TypeOK
  BY <1>1, <1>2, <1>3, <1>5, RosterAssumption DEF TypeOK, Flag
<1>7. HandlersKnow /\ LinkedIsThere /\ InvitedOnce
  BY <1>4 DEF HandlersKnow, LinkedIsThere, Invited, InvitedOnce, Idle
<1>8. RowsInStep
  <2>1. ASSUME NEW b \in Businesses, NEW e \in Emails, <<b, e>> \in rows
        PROVE  Exists(e) /\ "TECHNICIAN" \in account[e].roles
    <3>1. e \notin Owners
      BY <1>1, <2>1
    <3>2. account[e] = Holder({"TECHNICIAN"})
      BY <1>1, <2>1, <3>1
    <3>3. account[e] \in Account
      BY <3>2 DEF Account, Roles, Holder
    <3> QED
      BY <3>2, <3>3, NoAccountAssumption DEF Exists, Holder
  <2> QED
    BY <1>1, <1>2, <2>1 DEF RowsInStep
<1> QED
  BY <1>6, <1>7, <1>8 DEF TInv, RosterInv

-----------------------------------------------------------------------------
LEMMA AccountFields ==
    ASSUME TypeOK, NEW e \in Emails, Exists(e)
    PROVE  account[e] \in Account /\ account[e].phone \in Phones \cup {None}
           /\ account[e].roles \subseteq Roles
<1>1. account[e] \in Account
  BY DEF TypeOK, Exists
<1> QED
  BY <1>1 DEF Account

(* Accounts only come, and only gain roles. *)
Grows == \A e \in Emails : Exists(e) => Exists(e)' /\ account[e].roles \subseteq account'[e].roles

LEMMA InsertStep ==
    ASSUME TypeOK, NEW c \in Calls, NEW roles \in SUBSET Roles, call[c].e \in Emails, Inserts(c, roles)
    PROVE  /\ account' \in [Emails -> Account \cup {None}]
           /\ account'[call[c].e] # None
           /\ \A e \in Emails : Exists(e) => Exists(e)' /\ account'[e] = account[e]
<1> DEFINE row == [phone |-> call[c].phone, roles |-> roles]
<1>1. row \in Account
  BY CallFields DEF Account
<1>2. account' = [account EXCEPT ![call[c].e] = row] /\ ~Exists(call[c].e)
  BY DEF Inserts
<1> HIDE DEF row
<1> QED
  BY <1>1, <1>2, NoAccountAssumption DEF TypeOK, Exists

LEMMA GrantStep ==
    ASSUME TypeOK, NEW e \in Emails, Exists(e),
           account' = [account EXCEPT ![e].roles = @ \cup {"TECHNICIAN"}]
    PROVE  /\ account' \in [Emails -> Account \cup {None}]
           /\ "TECHNICIAN" \in account'[e].roles
           /\ Grows
<1>1. account'[e] = [account[e] EXCEPT !.roles = @ \cup {"TECHNICIAN"}]
  BY DEF TypeOK
<1>2. account[e] \in Account
  BY AccountFields
<1>3. /\ account'[e] \in Account
      /\ account'[e].roles = account[e].roles \cup {"TECHNICIAN"}
  BY <1>1, <1>2 DEF Account, Roles
<1>4. \A d \in Emails \ {e} : account'[d] = account[d]
  BY DEF TypeOK
<1>5. account' \in [Emails -> Account \cup {None}]
  <2>1. account' = [d \in Emails |-> IF d = e THEN account'[e] ELSE account[d]]
    BY <1>4 DEF TypeOK
  <2>2. \A d \in Emails : account[d] \in Account \cup {None}
    BY DEF TypeOK
  <2> QED
    BY <1>3, <2>1, <2>2
<1>6. Exists(e)'
  BY <1>3, NoAccountAssumption DEF Exists
<1>7. Grows
  BY <1>3, <1>4, <1>6 DEF Exists, Grows
<1> QED
  BY <1>3, <1>5, <1>7

LEMMA SetStep ==
    ASSUME TypeOK, RowsInStep, NEW b \in Businesses, NEW e \in Emails, NEW flag \in Flag \ {"absent"},
           SetsBoth(b, e, flag), Exists(e), "TECHNICIAN" \in account[e].roles, UNCHANGED account
    PROVE  /\ member' \in [Businesses -> [Emails -> Flag]]
           /\ technician' \in [Businesses -> [Emails -> Flag]]
           /\ technician'[b][e] = flag
           /\ \A d \in Businesses, x \in Emails :
                 (d # b \/ x # e) => technician'[d][x] = technician[d][x]
           /\ RowsInStep'
<1>1. /\ technician' = [technician EXCEPT ![b][e] = flag]
      /\ member' = [member EXCEPT ![b][e] = flag]
  BY DEF SetsBoth
<1>2. /\ member' \in [Businesses -> [Emails -> Flag]]
      /\ technician' \in [Businesses -> [Emails -> Flag]]
      /\ technician'[b][e] = flag /\ member'[b][e] = flag
      /\ \A d \in Businesses, x \in Emails : (d # b \/ x # e) =>
            technician'[d][x] = technician[d][x] /\ member'[d][x] = member[d][x]
  BY <1>1 DEF TypeOK
<1> QED
  BY <1>2 DEF RowsInStep, Exists

-----------------------------------------------------------------------------
(* The handlers know what they knew when the accounts only grow, a call    *)
(* that goes on knows what its phase needs, and the others stand still but *)
(* for their history.                                                      *)
LEMMA KeepKnow ==
    ASSUME TInv, NEW c \in Calls, Grows,
           \A d \in Calls \ {c} : /\ call'[d].at = call[d].at /\ call'[d].b = call[d].b
                                  /\ call'[d].e = call[d].e /\ call'[d].job = call[d].job
                                  /\ call'[d].does = call[d].does,
           /\ call'[c].at \in {"insert", "create", "relookup", "grant", "link"} => call'[c].e \in Emails
           /\ call'[c].at \in {"create", "relookup", "grant", "link"} =>
                 call'[c].b \in Businesses /\ call'[c].does = "invite"
           /\ call'[c].at = "insert" => call'[c].does = "register"
           /\ call'[c].at = "commit" =>
                 call'[c].b \in Businesses /\ call'[c].e \in Emails /\ call'[c].job \in JobsOf[call'[c].b]
           /\ call'[c].at \in {"grant", "link"} => account'[call'[c].e] # None
           /\ call'[c].at = "link" => "TECHNICIAN" \in account'[call'[c].e].roles
    PROVE  HandlersKnow'
BY DEF TInv, HandlersKnow, Grows, Exists

(* Calls that begin and end without touching a table. *)
LEMMA BeginKeeps ==
    ASSUME TInv, NEW c \in Calls, NEW state \in CallState, Begins(c, state),
           UNCHANGED <<Tables, faults>>,
           /\ state.at \in {"insert", "create", "grant"} => state.e \in Emails
           /\ state.at \in {"create", "grant"} => state.b \in Businesses /\ state.does = "invite"
           /\ state.at = "insert" => state.does = "register"
           /\ state.at \notin {"relookup", "link", "201"}
           /\ state.at = "commit" =>
                 state.b \in Businesses /\ state.e \in Emails /\ state.job \in JobsOf[state.b]
           /\ state.at = "grant" => Exists(state.e)
    PROVE  TInv' /\ (RosterInv => RosterInv')
<1>1. /\ call' \in [Calls -> CallState] /\ call'[c] = state
      /\ \A d \in Calls \ {c} : call'[d] = call[d]
  BY BeginsStep DEF TInv
<1>2. Grows
  BY DEF Grows, Tables, Exists
<1>3. HandlersKnow'
  BY <1>1, <1>2, KeepKnow DEF Tables, Exists
<1>4. TypeOK'
  BY <1>1 DEF TInv, TypeOK, Tables
<1>5. RosterInv => RosterInv'
  BY <1>1 DEF RosterInv, RowsInStep, LinkedIsThere, Invited, InvitedOnce, Tables, Exists
<1> QED
  BY <1>3, <1>4, <1>5 DEF TInv

(* Calls that go on to `phase`, with no link made. *)
LEMMA GoesKeeps ==
    ASSUME TInv, NEW c \in Calls, NEW phase \in Phase \cup Answer, Goes(c, phase),
           UNCHANGED Tables, faults' \in 0..MaxFaults,
           phase \in {"grant", "relookup"} =>
              call[c].e \in Emails /\ call[c].b \in Businesses /\ call[c].does = "invite",
           phase = "grant" => Exists(call[c].e),
           phase \notin {"insert", "create", "link", "commit", "201"}
    PROVE  TInv' /\ (RosterInv => RosterInv')
<1>1. /\ call' \in [Calls -> CallState]
      /\ call'[c] = [call[c] EXCEPT !.at = phase]
      /\ \A d \in Calls \ {c} : call'[d] = call[d]
  BY GoesStep DEF TInv
<1>2. /\ call'[c].at = phase /\ call'[c].b = call[c].b /\ call'[c].e = call[c].e
      /\ call'[c].job = call[c].job /\ call'[c].does = call[c].does
  BY <1>1, CallFields DEF CallState, TInv
<1>3. Grows
  BY DEF Grows, Tables, Exists
<1>4. HandlersKnow'
  BY <1>1, <1>2, <1>3, KeepKnow DEF Tables, Exists
<1>5. TypeOK'
  BY <1>1 DEF TInv, TypeOK, Tables
<1>6. RosterInv => RosterInv'
  <2>1. \A d \in Calls : Invited(d)' => Invited(d) /\ d # c /\ call'[d] = call[d]
    BY <1>1, <1>2 DEF Invited
  <2>2. RosterInv => LinkedIsThere' /\ InvitedOnce'
    BY <2>1 DEF RosterInv, LinkedIsThere, InvitedOnce, Invited, Tables
  <2>3. RosterInv => RowsInStep'
    BY DEF RosterInv, RowsInStep, Tables, Exists
  <2> QED
    BY <2>2, <2>3 DEF RosterInv
<1> QED
  BY <1>4, <1>5, <1>6 DEF TInv

(* A non-empty set of businesses has a lowest. *)
LEMMA PrimaryIsMember ==
    ASSUME NEW e, Memberships(e) # {}
    PROVE  Primary(e) \in Memberships(e)
<1>1. Memberships(e) \subseteq Nat
  BY RosterAssumption DEF Memberships
<1>2. PICK b \in Memberships(e) : \A d \in Memberships(e) : <<d, b>> \notin OpToRel(<, Nat)
  BY <1>1, NatLessThanWellFounded, WFMin
<1>3. \A d \in Memberships(e) : b <= d
  <2>1. ASSUME NEW d \in Memberships(e) PROVE ~(d < b)
    <3>1. d \in Nat /\ b \in Nat
      BY <1>1, <1>2
    <3>2. d < b => <<d, b>> \in OpToRel(<, Nat)
      BY <3>1, Zenon DEF OpToRel
    <3> QED
      BY <1>2, <2>1, <3>2, Zenon
  <2>2. TAKE d \in Memberships(e)
  <2>3. b \in Nat /\ d \in Nat
    BY <1>1, <1>2, Zenon
  <2>4. ~(d < b)
    BY <2>1, Zenon
  <2> QED
    BY <2>3, <2>4
<1> QED
  BY <1>2, <1>3 DEF Primary

-----------------------------------------------------------------------------
LEMMA NextRoster == TInv /\ RosterInv /\ [Next]_vars => TInv' /\ RosterInv'
<1> SUFFICES ASSUME TInv, RosterInv, [Next]_vars PROVE TInv' /\ RosterInv'
  OBVIOUS
<1> USE RosterAssumption
<1>1. TypeOK /\ HandlersKnow
  BY DEF TInv
<1>2. ASSUME NEW c \in Calls, NEW e \in Emails, NEW p \in Phones \cup {None}, Register(c, e, p)
      PROVE  TInv' /\ RosterInv'
  <2> DEFINE state == [Idle EXCEPT !.at = IF Exists(e) THEN "409" ELSE "insert", !.e = e,
                                   !.phone = p, !.does = "register"]
  <2>1. Begins(c, state) /\ UNCHANGED <<Tables, faults>>
    BY <1>2 DEF Register
  <2>2. state \in CallState /\ state.at \in {"409", "insert"} /\ state.e = e /\ state.does = "register"
    BY DEF Idle, CallState, Phase, Answer
  <2> HIDE DEF state
  <2> QED
    BY <2>1, <2>2, BeginKeeps
<1>3. ASSUME NEW c \in Calls, NEW e \in Emails, NEW b \in Businesses, NEW p \in Phones \cup {None},
             NEW secret \in BOOLEAN, CreateTechnician(c, b, e, p, secret)
      PROVE  TInv' /\ RosterInv'
  <2> DEFINE state == [Idle EXCEPT !.b = b, !.e = e, !.phone = p, !.secret = secret, !.does = "invite",
                         !.at = IF Exists(e) THEN IF secret THEN "422" ELSE "grant"
                                ELSE IF secret THEN "create" ELSE "422"]
  <2>1. Begins(c, state) /\ UNCHANGED <<Tables, faults>>
    BY <1>3 DEF CreateTechnician
  <2>2. /\ state \in CallState /\ state.at \in {"422", "grant", "create"}
        /\ state.b = b /\ state.e = e /\ state.does = "invite"
        /\ state.at = "grant" => Exists(e)
    BY DEF Idle, CallState, Phase, Answer
  <2> HIDE DEF state
  <2> QED
    BY <2>1, <2>2, BeginKeeps
<1>4. ASSUME NEW c \in Calls, NEW e \in Emails, NEW b \in Businesses, NEW j \in Jobs,
             AssignTechnician(c, b, j, e)
      PROVE  TInv' /\ RosterInv'
  <2> DEFINE state == [Idle EXCEPT !.b = b, !.e = e, !.job = j, !.does = "assign",
                         !.at = IF j \notin JobsOf[b] \/ technician[b][e] = "absent" THEN "404"
                                ELSE IF technician[b][e] = "inactive" THEN "422" ELSE "commit"]
  <2>1. Begins(c, state) /\ UNCHANGED <<Tables, faults>>
    BY <1>4 DEF AssignTechnician
  <2>2. /\ state \in CallState /\ state.at \in {"404", "422", "commit"}
        /\ state.b = b /\ state.e = e /\ state.job = j
        /\ state.at = "commit" => j \in JobsOf[b]
    BY DEF Idle, CallState, Phase, Answer
  <2> HIDE DEF state
  <2> QED
    BY <2>1, <2>2, BeginKeeps
<1>5. ASSUME NEW c \in Calls, NEW e \in Emails, ListTechnicianJobs(c, e)
      PROVE  TInv' /\ RosterInv'
  <2> DEFINE state == [Idle EXCEPT !.e = e, !.does = "list",
                         !.at = IF "TECHNICIAN" \in account[e].roles THEN "member" ELSE "404",
                         !.gone = {b \in Businesses : technician[b][e] # "active"}]
  <2>1. Begins(c, state) /\ UNCHANGED <<Tables, faults>>
    BY <1>5 DEF ListTechnicianJobs
  <2>2. state \in CallState /\ state.at \in {"404", "member"}
    BY DEF Idle, CallState, Phase, Answer
  <2> HIDE DEF state
  <2> QED
    BY <2>1, <2>2, BeginKeeps
<1>6. ASSUME NEW b \in Businesses, NEW e \in Emails, NEW active \in BOOLEAN,
             UpdateTechnician(b, e, active)
      PROVE  TInv' /\ RosterInv'
  <2> DEFINE flag == IF active THEN "active" ELSE "inactive"
  <2>1. /\ SetsBoth(b, e, flag) /\ technician[b][e] # "absent"
        /\ UNCHANGED <<account, assigned, faults>>
        /\ call' \in {Seen(b, e), call}
    BY <1>6 DEF UpdateTechnician
  <2>2. Exists(e) /\ "TECHNICIAN" \in account[e].roles
    BY <2>1 DEF RosterInv, RowsInStep
  <2>3. /\ member' \in [Businesses -> [Emails -> Flag]] /\ technician' \in [Businesses -> [Emails -> Flag]]
        /\ technician'[b][e] = flag
        /\ \A d \in Businesses, x \in Emails :
              (d # b \/ x # e) => technician'[d][x] = technician[d][x]
        /\ RowsInStep'
    BY <1>1, <2>1, <2>2, SetStep DEF RosterInv, Flag
  <2>4. SameBut(call')
    BY <1>1, <2>1, SeenStep, SameIsSame
  <2>5. TypeOK'
    BY <1>1, <2>1, <2>3, <2>4 DEF TypeOK, SameBut
  <2>6. HandlersKnow'
    BY <1>1, <2>1, <2>4 DEF HandlersKnow, SameBut, Exists
  <2>7. LinkedIsThere'
    BY <2>3, <2>4 DEF RosterInv, LinkedIsThere, Invited, SameBut
  <2>8. InvitedOnce'
    BY <2>4 DEF RosterInv, InvitedOnce, SameBut
  <2> QED
    BY <2>3, <2>5, <2>6, <2>7, <2>8 DEF TInv, RosterInv
<1>7. ASSUME NEW c \in Calls, Fails(c) PROVE TInv' /\ RosterInv'
  <2>1. Goes(c, "500") /\ UNCHANGED Tables /\ faults' \in 0..MaxFaults
    BY <1>1, <1>7 DEF Fails, Fault, TypeOK
  <2> QED
    BY <2>1, GoesKeeps DEF Phase, Answer
<1>8. ASSUME NEW c \in Calls, Step(c) PROVE TInv' /\ RosterInv'
  <2>1. CASE CreateAccount(c) \/ Create(c)
    <3>1. ASSUME NEW phase \in {"201", "grant"}, NEW roles \in {{}, {"CUSTOMER"}},
                 Inserts(c, roles), Commits(c, call, phase), UNCHANGED <<member, technician, assigned>>,
                 call[c].e \in Emails,
                 phase = "201" => call[c].does = "register",
                 phase = "grant" => call[c].b \in Businesses /\ call[c].does = "invite"
          PROVE  TInv' /\ RosterInv'
      <4>1. /\ account' \in [Emails -> Account \cup {None}]
            /\ account'[call[c].e] # None
            /\ \A e \in Emails : Exists(e) => Exists(e)' /\ account'[e] = account[e]
        BY <1>1, <3>1, InsertStep DEF Roles
      <4>2. PICK at \in {phase, "500"} :
               /\ call' \in [Calls -> CallState]
               /\ call'[c] = [call[c] EXCEPT !.at = at]
               /\ \A d \in Calls \ {c} : call'[d] = call[d]
               /\ faults' \in 0..MaxFaults
        <5>1. SameBut(call) /\ phase \in Phase \cup Answer /\ c \in Calls /\ Commits(c, call, phase)
          BY <1>1, <3>1, SameIsSame DEF Phase, Answer
        <5> QED
          BY <1>1, <5>1, CommitsStep
      <4>3. /\ call'[c].at = at /\ call'[c].b = call[c].b /\ call'[c].e = call[c].e
            /\ call'[c].job = call[c].job /\ call'[c].does = call[c].does
        BY <1>1, <4>2, CallFields DEF CallState
      <4>4. Grows
        BY <4>1 DEF Grows
      <4>5. HandlersKnow'
        BY <3>1, <4>1, <4>2, <4>3, <4>4, KeepKnow
      <4>6. \A d \in Calls : Invited(d)' => Invited(d) /\ d # c /\ call'[d] = call[d]
        BY <3>1, <4>2, <4>3 DEF Invited
      <4>7. LinkedIsThere' /\ InvitedOnce'
        BY <3>1, <4>6 DEF RosterInv, LinkedIsThere, InvitedOnce, Invited
      <4>8. RowsInStep'
        BY <3>1, <4>1 DEF RosterInv, RowsInStep
      <4>9. TypeOK'
        BY <1>1, <3>1, <4>1, <4>2 DEF TypeOK
      <4> QED
        BY <4>5, <4>7, <4>8, <4>9 DEF TInv, RosterInv
    <3>2. ASSUME NEW phase \in {"409", "relookup"}, Goes(c, phase), UNCHANGED <<Tables, faults>>,
                 phase = "relookup" =>
                    call[c].e \in Emails /\ call[c].b \in Businesses /\ call[c].does = "invite"
          PROVE  TInv' /\ RosterInv'
      <4>1. faults' \in 0..MaxFaults
        BY <1>1, <3>2 DEF TypeOK
      <4> QED
        BY <3>2, <4>1, GoesKeeps DEF Phase, Answer
    <3>3. CASE CreateAccount(c)
      <4>1. call[c].at = "insert" /\ call[c].e \in Emails /\ call[c].does = "register"
        BY <1>1, <3>3 DEF CreateAccount, HandlersKnow
      <4>2. CASE Inserts(c, {"CUSTOMER"}) /\ Commits(c, call, "201")
        BY <3>1, <3>3, <4>1, <4>2 DEF CreateAccount
      <4>3. CASE Goes(c, "409") /\ UNCHANGED <<account, faults>>
        BY <3>2, <3>3, <4>3 DEF CreateAccount, Tables
      <4> QED
        BY <3>3, <4>2, <4>3 DEF CreateAccount
    <3>4. CASE Create(c)
      <4>1. call[c].e \in Emails /\ call[c].b \in Businesses /\ call[c].does = "invite"
        BY <1>1, <3>4 DEF Create, HandlersKnow
      <4>2. CASE Inserts(c, {}) /\ Commits(c, call, "grant")
        BY <3>1, <3>4, <4>1, <4>2 DEF Create
      <4>3. CASE Goes(c, "relookup") /\ UNCHANGED <<account, faults>>
        BY <3>2, <3>4, <4>1, <4>3 DEF Create, Tables
      <4> QED
        BY <3>4, <4>2, <4>3 DEF Create
    <3> QED
      BY <2>1, <3>3, <3>4
  <2>2. CASE LostRace(c)
    <3>1. /\ call[c].at = "relookup" /\ UNCHANGED <<Tables, faults>>
          /\ Goes(c, IF Exists(call[c].e) THEN "grant" ELSE "500")
      BY <2>2 DEF LostRace
    <3>2. call[c].e \in Emails /\ call[c].b \in Businesses /\ call[c].does = "invite"
      BY <1>1, <3>1 DEF HandlersKnow
    <3>3. faults' \in 0..MaxFaults
      BY <1>1, <3>1 DEF TypeOK
    <3> QED
      BY <3>1, <3>2, <3>3, GoesKeeps DEF Phase, Answer
  <2>3. CASE SetRoles(c)
    <3> DEFINE e == call[c].e
    <3>1. /\ call[c].at = "grant" /\ Goes(c, "link") /\ UNCHANGED <<member, technician, assigned, faults>>
          /\ account' = [account EXCEPT ![e].roles = @ \cup {"TECHNICIAN"}]
      BY <2>3 DEF SetRoles
    <3>2. e \in Emails /\ call[c].b \in Businesses /\ call[c].does = "invite" /\ Exists(e)
      BY <1>1, <3>1 DEF HandlersKnow
    <3>3. /\ account' \in [Emails -> Account \cup {None}]
          /\ "TECHNICIAN" \in account'[e].roles
          /\ Grows
      BY <1>1, <3>1, <3>2, GrantStep
    <3>4. /\ call' \in [Calls -> CallState]
          /\ call'[c] = [call[c] EXCEPT !.at = "link"]
          /\ \A d \in Calls \ {c} : call'[d] = call[d]
      BY <1>1, <3>1, GoesStep DEF Phase
    <3>5. /\ call'[c].at = "link" /\ call'[c].b = call[c].b /\ call'[c].e = e
          /\ call'[c].job = call[c].job /\ call'[c].does = call[c].does
      BY <1>1, <3>4, CallFields DEF CallState
    <3>6. account'[e] # None
      BY <3>2, <3>3 DEF Grows, Exists
    <3>7. HandlersKnow'
      BY <3>2, <3>3, <3>4, <3>5, <3>6, KeepKnow
    <3>8. \A d \in Calls : Invited(d)' => Invited(d) /\ d # c /\ call'[d] = call[d]
      BY <3>4, <3>5 DEF Invited
    <3>9. LinkedIsThere' /\ InvitedOnce'
      BY <3>1, <3>8 DEF RosterInv, LinkedIsThere, InvitedOnce, Invited
    <3>10. RowsInStep'
      BY <3>1, <3>3 DEF RosterInv, RowsInStep, Grows
    <3>11. TypeOK'
      BY <1>1, <3>1, <3>3, <3>4 DEF TypeOK
    <3> QED
      BY <3>7, <3>9, <3>10, <3>11 DEF TInv, RosterInv
  <2>4. CASE LinkTechnician(c)
    <3> DEFINE b == call[c].b
               e == call[c].e
    <3>1. call[c].at = "link" /\ UNCHANGED <<account, assigned>>
      BY <2>4 DEF LinkTechnician
    <3>2. /\ b \in Businesses /\ e \in Emails /\ call[c].does = "invite"
          /\ Exists(e) /\ "TECHNICIAN" \in account[e].roles
      BY <1>1, <3>1 DEF HandlersKnow
    <3>3. CASE Linked(b, e)
      <4>1. Goes(c, "409") /\ UNCHANGED <<Tables, faults>>
        BY <2>4, <3>3 DEF LinkTechnician, Tables
      <4>2. faults' \in 0..MaxFaults
        BY <1>1, <4>1 DEF TypeOK
      <4> QED
        BY <4>1, <4>2, GoesKeeps DEF Phase, Answer
    <3>4. CASE ~Linked(b, e)
      <4>1. SetsBoth(b, e, "active") /\ Commits(c, Seen(b, e), "201")
        BY <2>4, <3>4 DEF LinkTechnician
      <4>2. technician[b][e] = "absent"
        BY <3>4 DEF Linked
      <4>3. /\ member' \in [Businesses -> [Emails -> Flag]]
            /\ technician' \in [Businesses -> [Emails -> Flag]]
            /\ technician'[b][e] = "active"
            /\ \A d \in Businesses, x \in Emails :
                  (d # b \/ x # e) => technician'[d][x] = technician[d][x]
            /\ RowsInStep'
        <5>1. "active" \in Flag \ {"absent"} /\ RowsInStep
          BY DEF Flag, RosterInv
        <5> HIDE DEF b, e
        <5> QED
          BY <1>1, <3>1, <3>2, <4>1, <5>1, SetStep
      <4> DEFINE calls == Seen(b, e)
      <4>4. SameBut(calls)
        BY <1>1, SeenStep
      <4> HIDE DEF calls
      <4>5. PICK at \in {"201", "500"} :
               /\ call' \in [Calls -> CallState]
               /\ call'[c] = [calls[c] EXCEPT !.at = at]
               /\ \A d \in Calls \ {c} : call'[d] = calls[d]
               /\ faults' \in 0..MaxFaults
        BY <1>1, <4>1, <4>4, CommitsStep DEF Answer, calls
      <4>6. calls[c] \in CallState
        BY <4>4 DEF SameBut
      <4>7. /\ call'[c].at = at /\ call'[c].b = b /\ call'[c].e = e
            /\ call'[c].job = call[c].job /\ call'[c].does = call[c].does
        BY <4>4, <4>5, <4>6 DEF CallState, SameBut
      <4>8. \A d \in Calls \ {c} : /\ call'[d].at = call[d].at /\ call'[d].b = call[d].b
                                   /\ call'[d].e = call[d].e /\ call'[d].job = call[d].job
                                   /\ call'[d].does = call[d].does
        BY <4>4, <4>5 DEF SameBut
      <4>9. Grows
        BY <3>1 DEF Grows, Exists
      <4>10. HandlersKnow'
        BY <4>7, <4>8, <4>9, KeepKnow
      <4>11. \A d \in Calls \ {c} : Invited(d) => call[d].b # b \/ call[d].e # e
        BY <4>2 DEF RosterInv, LinkedIsThere
      <4>12. LinkedIsThere'
        BY <3>2, <4>3, <4>7, <4>8, <4>11 DEF RosterInv, LinkedIsThere, Invited
      <4>13. InvitedOnce'
        BY <4>7, <4>8, <4>11 DEF RosterInv, InvitedOnce, Invited
      <4>14. TypeOK'
        BY <1>1, <3>1, <4>3, <4>5 DEF TypeOK
      <4> QED
        BY <4>3, <4>10, <4>12, <4>13, <4>14 DEF TInv, RosterInv
    <3> QED
      BY <3>3, <3>4
  <2>5. CASE AssignJobTechnician(c)
    <3>1. /\ call[c].at = "commit" /\ Commits(c, call, "200") /\ UNCHANGED <<account, member, technician>>
          /\ assigned' = [assigned EXCEPT ![call[c].job] = <<call[c].b, call[c].e>>]
      BY <2>5 DEF AssignJobTechnician
    <3>2. PICK at \in {"200", "500"} :
             /\ call' \in [Calls -> CallState]
             /\ call'[c] = [call[c] EXCEPT !.at = at]
             /\ \A d \in Calls \ {c} : call'[d] = call[d]
             /\ faults' \in 0..MaxFaults
      BY <1>1, <3>1, SameIsSame, CommitsStep DEF Answer
    <3>3. call'[c].at = at
      BY <1>1, <3>2, CallFields DEF CallState
    <3>4. Grows
      BY <3>1 DEF Grows, Exists
    <3>5. HandlersKnow'
      BY <3>2, <3>3, <3>4, KeepKnow
    <3>6. \A d \in Calls : Invited(d)' => Invited(d) /\ d # c /\ call'[d] = call[d]
      BY <3>2, <3>3 DEF Invited
    <3>7. LinkedIsThere' /\ InvitedOnce'
      BY <3>1, <3>6 DEF RosterInv, LinkedIsThere, InvitedOnce, Invited
    <3>8. RowsInStep'
      BY <3>1 DEF RosterInv, RowsInStep, Exists
    <3>9. TypeOK'
      <4>1. <<call[c].b, call[c].e>> \in Technicians
        BY <1>1, <3>1 DEF HandlersKnow, Technicians
      <4> QED
        BY <1>1, <3>1, <3>2, <4>1 DEF TypeOK
    <3> QED
      BY <3>5, <3>7, <3>8, <3>9 DEF TInv, RosterInv
  <2>6. CASE FindBusinesses(c)
    <3> DEFINE e == call[c].e
    <3>1. faults' \in 0..MaxFaults /\ UNCHANGED Tables
      BY <1>1, <2>6 DEF FindBusinesses, TypeOK
    <3>2. CASE Goes(c, "404")
      BY <3>1, <3>2, GoesKeeps DEF Answer, Phase
    <3>3. CASE /\ Memberships(e) # {}
               /\ call' = [call EXCEPT ![c].at = "row", ![c].b = Primary(e)]
      <4>1. Primary(e) \in Businesses
        BY <3>3, PrimaryIsMember DEF Memberships
      <4>2. /\ call'[c] = [call[c] EXCEPT !.at = "row", !.b = Primary(e)]
            /\ \A d \in Calls \ {c} : call'[d] = call[d]
        BY <1>1, <3>3 DEF TypeOK
      <4>3. call'[c] \in CallState /\ call'[c].at = "row"
        BY <1>1, <4>1, <4>2, CallFields DEF CallState, Phase
      <4>4. call' \in [Calls -> CallState]
        BY <1>1, <3>3, <4>2, <4>3 DEF TypeOK
      <4>5. Grows
        BY <3>1 DEF Grows, Tables, Exists
      <4>6. HandlersKnow'
        BY <4>2, <4>3, <4>5, KeepKnow
      <4>7. \A d \in Calls : Invited(d)' => Invited(d) /\ d # c /\ call'[d] = call[d]
        BY <4>2, <4>3 DEF Invited
      <4>8. LinkedIsThere' /\ InvitedOnce'
        BY <3>1, <4>7 DEF RosterInv, LinkedIsThere, InvitedOnce, Invited, Tables
      <4>9. RowsInStep'
        BY <3>1 DEF RosterInv, RowsInStep, Exists, Tables
      <4>10. TypeOK'
        BY <1>1, <3>1, <4>4 DEF TypeOK, Tables
      <4> QED
        BY <4>6, <4>8, <4>9, <4>10 DEF TInv, RosterInv
    <3> QED
      BY <2>6, <3>2, <3>3 DEF FindBusinesses
  <2>7. CASE FindTechnician(c)
    <3>1. faults' \in 0..MaxFaults /\ UNCHANGED Tables
      BY <1>1, <2>7 DEF FindTechnician, TypeOK
    <3> QED
      BY <2>7, <3>1, GoesKeeps DEF FindTechnician, Answer, Phase
  <2>8. CASE ShowJobs(c)
    <3> DEFINE jobs == OfTechnician(call[c].b, call[c].e)
    <3>1. /\ UNCHANGED <<Tables, faults>>
          /\ call' = [call EXCEPT ![c].at = "200", ![c].shown = jobs]
      BY <2>8 DEF ShowJobs
    <3>2. jobs \subseteq Jobs
      BY DEF OfTechnician
    <3> HIDE DEF jobs
    <3>3. /\ call'[c] = [call[c] EXCEPT !.at = "200", !.shown = jobs]
          /\ \A d \in Calls \ {c} : call'[d] = call[d]
      BY <1>1, <3>1 DEF TypeOK
    <3>4. call'[c] \in CallState /\ call'[c].at = "200"
      BY <1>1, <3>2, <3>3, CallFields DEF CallState, Answer
    <3>5. call' \in [Calls -> CallState]
      BY <1>1, <3>1, <3>3, <3>4 DEF TypeOK
    <3>6. Grows
      BY <3>1 DEF Grows, Tables, Exists
    <3>7. HandlersKnow'
      BY <3>3, <3>4, <3>6, KeepKnow
    <3>8. \A d \in Calls : Invited(d)' => Invited(d) /\ d # c /\ call'[d] = call[d]
      BY <3>3, <3>4 DEF Invited
    <3>9. LinkedIsThere' /\ InvitedOnce'
      <4>1. technician' = technician
        BY <3>1 DEF Tables
      <4> QED
        BY <3>8, <4>1 DEF RosterInv, LinkedIsThere, InvitedOnce, Invited
    <3>10. RowsInStep'
      BY <3>1 DEF RosterInv, RowsInStep, Exists, Tables
    <3>11. TypeOK'
      BY <1>1, <3>1, <3>5 DEF TypeOK, Tables
    <3> QED
      BY <3>7, <3>9, <3>10, <3>11 DEF TInv, RosterInv
  <2> QED
    BY <1>8, <2>1, <2>2, <2>3, <2>4, <2>5, <2>6, <2>7, <2>8 DEF Step
<1>9. CASE UNCHANGED vars
  BY <1>9 DEF vars, TInv, TypeOK, HandlersKnow, RosterInv, RowsInStep, LinkedIsThere, Invited,
              InvitedOnce, Exists
<1> QED
  BY <1>2, <1>3, <1>4, <1>5, <1>6, <1>7, <1>8, <1>9 DEF Next

(* Every account, roster row and handler keeps its type. *)
THEOREM RosterTypes == Spec => []TypeOK
<1>1. TInv /\ RosterInv => TypeOK
  BY DEF TInv
<1> QED
  BY InitRoster, NextRoster, <1>1, PTL DEF Spec

(* The access gate and the roster never part, and no link is made before   *)
(* its account and its role are there, whatever calls come between the     *)
(* statements of an invitation and whichever of them fails.                *)
THEOREM GateAndRosterAgree == Spec => []RowsInStep
<1>1. TInv /\ RosterInv => RowsInStep
  BY DEF RosterInv
<1> QED
  BY InitRoster, NextRoster, <1>1, PTL DEF Spec

(* Of any number of racing invitations of one person to one business, one  *)
(* is answered 201.                                                        *)
THEOREM OneInvitationCounts == Spec => []InvitedOnce
<1>1. TInv /\ RosterInv => InvitedOnce
  BY DEF RosterInv
<1> QED
  BY InitRoster, NextRoster, <1>1, PTL DEF Spec

-----------------------------------------------------------------------------
(* Listings: the businesses in `gone` are those where nobody made the      *)
(* caller an active technician since, so the second look at the roster     *)
(* never finds one of them.                                                *)
GoneIsGone ==
    \A c \in Calls : \A b \in call[c].gone :
        call[c].e \in Emails /\ technician[b][call[c].e] # "active"

ListingsKnow ==
    \A c \in Calls :
        /\ call[c].at \in {"member", "row", "show"} => call[c].e \in Emails
        /\ call[c].at \in {"row", "show"} => call[c].b \in Businesses
        /\ call[c].at = "show" => call[c].b \notin call[c].gone

AssignedInside == \A j \in Jobs : assigned[j] # None => j \in JobsOf[assigned[j][1]]

ListInv == GoneIsGone /\ ListingsKnow /\ AssignedInside /\ RevokedSeesNothing

LEMMA BusinessOfJob ==
    ASSUME NEW b \in Businesses, NEW j \in JobsOf[b]
    PROVE  BusinessOf(j) = b
BY RosterAssumption DEF BusinessOf

(* Steps that show nothing new and activate nobody: the history shrinks.   *)
LEMMA ListKeeps ==
    ASSUME TInv, ListInv, NEW c \in Calls, UNCHANGED <<technician, assigned>>,
           \A d \in Calls \ {c} : call'[d] = call[d],
           call'[c].e = call[c].e, call'[c].b = call[c].b,
           call'[c].shown = call[c].shown, call'[c].gone = call[c].gone,
           call'[c].at \in {"member", "row", "show"} => call'[c].at = call[c].at
    PROVE  ListInv'
<1>1. GoneIsGone'
  BY DEF ListInv, GoneIsGone
<1>2. ListingsKnow'
  BY DEF ListInv, ListingsKnow
<1>3. AssignedInside'
  BY DEF ListInv, AssignedInside
<1>4. RevokedSeesNothing'
  BY DEF ListInv, RevokedSeesNothing
<1> QED
  BY <1>1, <1>2, <1>3, <1>4 DEF ListInv

LEMMA ListBegins ==
    ASSUME TInv, ListInv, NEW c \in Calls, NEW state \in CallState, Begins(c, state),
           UNCHANGED Tables, state.shown = {}, state.at \notin {"row", "show"},
           state.at = "member" => state.e \in Emails,
           \A b \in state.gone : state.e \in Emails /\ technician[b][state.e] # "active"
    PROVE  ListInv'
<1>1. /\ call'[c] = state
      /\ \A d \in Calls \ {c} : call'[d] = call[d]
  BY BeginsStep DEF TInv
<1>2. UNCHANGED <<technician, assigned>>
  BY DEF Tables
<1>3. GoneIsGone'
  BY <1>1, <1>2 DEF ListInv, GoneIsGone
<1>4. ListingsKnow'
  BY <1>1 DEF ListInv, ListingsKnow
<1>5. AssignedInside'
  BY <1>2 DEF ListInv, AssignedInside
<1>6. RevokedSeesNothing'
  BY <1>1 DEF ListInv, RevokedSeesNothing
<1> QED
  BY <1>3, <1>4, <1>5, <1>6 DEF ListInv

(* A roster row becomes active or inactive.                                *)
LEMMA ListActivates ==
    ASSUME TInv, ListInv, NEW b \in Businesses, NEW e \in Emails, UNCHANGED assigned,
           \A d \in Businesses, x \in Emails :
              (d # b \/ x # e) => technician'[d][x] = technician[d][x],
           \A d \in Calls : /\ call'[d].e = call[d].e /\ call'[d].b = call[d].b
                            /\ call'[d].shown = call[d].shown
                            /\ call'[d].gone \subseteq call[d].gone
                            /\ call[d].e = e /\ technician'[b][e] = "active" => b \notin call'[d].gone
                            /\ call'[d].at \in {"member", "row", "show"} => call'[d].at = call[d].at
    PROVE  ListInv'
<1>1. GoneIsGone'
  <2> SUFFICES ASSUME NEW d \in Calls, NEW x \in call'[d].gone
               PROVE  call'[d].e \in Emails /\ technician'[x][call'[d].e] # "active"
    BY DEF GoneIsGone
  <2>1. x \in call[d].gone /\ call'[d].e = call[d].e
    OBVIOUS
  <2>2. x \in Businesses
    BY <2>1, CallFields DEF TInv
  <2>3. call[d].e \in Emails /\ technician[x][call[d].e] # "active"
    BY <2>1 DEF ListInv, GoneIsGone
  <2> QED
    BY <2>1, <2>2, <2>3
<1>2. ListingsKnow'
  BY DEF ListInv, ListingsKnow
<1>3. AssignedInside'
  BY DEF ListInv, AssignedInside
<1>4. RevokedSeesNothing'
  BY DEF ListInv, RevokedSeesNothing
<1> QED
  BY <1>1, <1>2, <1>3, <1>4 DEF ListInv

(* A step that changes no roster row and forgets nothing of the history.   *)
LEMMA GoneKeeps ==
    ASSUME GoneIsGone, technician' = technician, NEW c \in Calls,
           \A d \in Calls \ {c} : call'[d] = call[d],
           call'[c].e = call[c].e, call'[c].gone = call[c].gone
    PROVE  GoneIsGone'
<1> SUFFICES ASSUME NEW d \in Calls, NEW b \in call'[d].gone
             PROVE  call'[d].e \in Emails /\ technician'[b][call'[d].e] # "active"
  BY DEF GoneIsGone
<1>1. call'[d].e = call[d].e /\ call'[d].gone = call[d].gone
  OBVIOUS
<1> QED
  BY <1>1 DEF GoneIsGone

LEMMA SeenForgets ==
    ASSUME TypeOK, NEW b, NEW e, NEW d \in Calls, call[d].e = e
    PROVE  b \notin Seen(b, e)[d].gone
BY CallFields DEF Seen, CallState

LEMMA InitList == Init => ListInv
<1> SUFFICES ASSUME Init PROVE ListInv
  OBVIOUS
<1>1. \A c \in Calls : call[c] = Idle
  BY DEF Init
<1>2. \A j \in Jobs : assigned[j] = None
  BY DEF Init
<1> QED
  BY <1>1, <1>2 DEF ListInv, GoneIsGone, ListingsKnow, AssignedInside, RevokedSeesNothing, Idle

LEMMA NextList == TInv /\ RosterInv /\ ListInv /\ [Next]_vars => ListInv'
<1> SUFFICES ASSUME TInv, RosterInv, ListInv, [Next]_vars PROVE ListInv'
  OBVIOUS
<1>1. TypeOK /\ HandlersKnow
  BY DEF TInv
<1>2. ASSUME NEW c \in Calls, NEW e \in Emails,
             \/ \E p \in Phones \cup {None} : Register(c, e, p)
             \/ \E b \in Businesses, p \in Phones \cup {None}, secret \in BOOLEAN :
                  CreateTechnician(c, b, e, p, secret)
             \/ \E b \in Businesses, j \in Jobs : AssignTechnician(c, b, j, e)
             \/ ListTechnicianJobs(c, e)
      PROVE  ListInv'
  <2>1. PICK state \in CallState :
           /\ Begins(c, state) /\ UNCHANGED Tables
           /\ state.shown = {} /\ state.at \notin {"row", "show"}
           /\ state.e = e
           /\ \A b \in state.gone : technician[b][state.e] # "active"
    <3>1. CASE \E p \in Phones \cup {None} : Register(c, e, p)
      <4>1. PICK p \in Phones \cup {None} : Register(c, e, p)
        BY <3>1
      <4> DEFINE state == [Idle EXCEPT !.at = IF Exists(e) THEN "409" ELSE "insert", !.e = e,
                                       !.phone = p, !.does = "register"]
      <4>2. /\ state \in CallState /\ state.shown = {} /\ state.at \notin {"row", "show"}
            /\ state.e = e /\ state.gone = {}
        BY DEF Idle, CallState, Phase, Answer
      <4> QED
        BY <4>1, <4>2 DEF Register
    <3>2. CASE \E b \in Businesses, p \in Phones \cup {None}, secret \in BOOLEAN :
                  CreateTechnician(c, b, e, p, secret)
      <4>1. PICK b \in Businesses, p \in Phones \cup {None}, secret \in BOOLEAN :
                  CreateTechnician(c, b, e, p, secret)
        BY <3>2
      <4> DEFINE state == [Idle EXCEPT !.b = b, !.e = e, !.phone = p, !.secret = secret, !.does = "invite",
                         !.at = IF Exists(e) THEN IF secret THEN "422" ELSE "grant"
                                ELSE IF secret THEN "create" ELSE "422"]
      <4>2. /\ state \in CallState /\ state.shown = {} /\ state.at \notin {"row", "show"}
            /\ state.e = e /\ state.gone = {}
        BY DEF Idle, CallState, Phase, Answer
      <4> QED
        BY <4>1, <4>2 DEF CreateTechnician
    <3>3. CASE \E b \in Businesses, j \in Jobs : AssignTechnician(c, b, j, e)
      <4>1. PICK b \in Businesses, j \in Jobs : AssignTechnician(c, b, j, e)
        BY <3>3
      <4> DEFINE state == [Idle EXCEPT !.b = b, !.e = e, !.job = j, !.does = "assign",
                         !.at = IF j \notin JobsOf[b] \/ technician[b][e] = "absent" THEN "404"
                                ELSE IF technician[b][e] = "inactive" THEN "422" ELSE "commit"]
      <4>2. /\ state \in CallState /\ state.shown = {} /\ state.at \notin {"row", "show"}
            /\ state.e = e /\ state.gone = {}
        BY DEF Idle, CallState, Phase, Answer
      <4> QED
        BY <4>1, <4>2 DEF AssignTechnician
    <3>4. CASE ListTechnicianJobs(c, e)
      <4> DEFINE state == [Idle EXCEPT !.e = e, !.does = "list",
                         !.at = IF "TECHNICIAN" \in account[e].roles THEN "member" ELSE "404",
                         !.gone = {b \in Businesses : technician[b][e] # "active"}]
      <4>1. /\ state \in CallState /\ state.shown = {} /\ state.at \notin {"row", "show"}
            /\ state.e = e /\ state.gone = {b \in Businesses : technician[b][e] # "active"}
        BY DEF Idle, CallState, Phase, Answer
      <4> QED
        BY <3>4, <4>1 DEF ListTechnicianJobs
    <3> QED
      BY <1>2, <3>1, <3>2, <3>3, <3>4
  <2> QED
    BY <2>1, ListBegins
<1>3. ASSUME NEW b \in Businesses, NEW e \in Emails, NEW active \in BOOLEAN,
             UpdateTechnician(b, e, active)
      PROVE  ListInv'
  <2> DEFINE flag == IF active THEN "active" ELSE "inactive"
  <2>1. /\ SetsBoth(b, e, flag) /\ UNCHANGED assigned
        /\ call' = IF active THEN Seen(b, e) ELSE call
    BY <1>3 DEF UpdateTechnician
  <2>2. /\ technician'[b][e] = flag
        /\ \A d \in Businesses, x \in Emails :
              (d # b \/ x # e) => technician'[d][x] = technician[d][x]
    BY <1>1, <2>1 DEF SetsBoth, TypeOK
  <2>3. SameBut(call')
    BY <1>1, <2>1, SeenStep, SameIsSame
  <2>4. \A d \in Calls : call[d].e = e /\ technician'[b][e] = "active" => b \notin call'[d].gone
    BY <1>1, <2>1, <2>2, SeenForgets
  <2> QED
    BY <2>1, <2>2, <2>3, <2>4, ListActivates DEF SameBut
<1>4. ASSUME NEW c \in Calls, NEW phase \in {"201", "grant", "409", "relookup", "500", "link", "200", "404"},
             UNCHANGED <<technician, assigned>>,
             call' = [call EXCEPT ![c].at = phase]
      PROVE  ListInv'
  <2>1. Goes(c, phase) /\ phase \in Phase \cup Answer
    BY <1>4 DEF Goes, Phase, Answer
  <2>2. /\ call'[c] = [call[c] EXCEPT !.at = phase]
        /\ \A d \in Calls \ {c} : call'[d] = call[d]
    BY <1>1, <2>1, GoesStep
  <2>3. /\ call'[c].at = phase /\ call'[c].e = call[c].e /\ call'[c].b = call[c].b
        /\ call'[c].shown = call[c].shown /\ call'[c].gone = call[c].gone
    BY <1>1, <2>2, CallFields DEF CallState
  <2> QED
    BY <1>4, <2>2, <2>3, ListKeeps
<1>5. ASSUME NEW c \in Calls, CreateAccount(c) \/ Create(c) \/ LostRace(c) \/ SetRoles(c) \/ Fails(c)
      PROVE  ListInv'
  BY <1>4, <1>5 DEF CreateAccount, Create, LostRace, SetRoles, Fails, Goes, Commits, Tables
<1>6. ASSUME NEW c \in Calls, LinkTechnician(c) PROVE ListInv'
  <2> DEFINE b == call[c].b
             e == call[c].e
  <2>1. b \in Businesses /\ e \in Emails /\ UNCHANGED assigned
    BY <1>1, <1>6 DEF LinkTechnician, HandlersKnow
  <2>2. CASE Linked(b, e)
    BY <1>4, <1>6, <2>2 DEF LinkTechnician, Goes
  <2>3. CASE ~Linked(b, e)
    <3>1. SetsBoth(b, e, "active") /\ Commits(c, Seen(b, e), "201")
      BY <1>6, <2>3 DEF LinkTechnician
    <3>2. \A d \in Businesses, x \in Emails : (d # b \/ x # e) => technician'[d][x] = technician[d][x]
      BY <1>1, <3>1 DEF SetsBoth, TypeOK
    <3> DEFINE calls == Seen(b, e)
    <3>3. SameBut(calls) /\ \A d \in Calls : call[d].e = e => b \notin calls[d].gone
      BY <1>1, SeenStep, SeenForgets
    <3> HIDE DEF calls
    <3>4. PICK at \in {"201", "500"} : /\ call'[c] = [calls[c] EXCEPT !.at = at]
                                       /\ \A d \in Calls \ {c} : call'[d] = calls[d]
      <4>1. Commits(c, calls, "201") /\ "201" \in Phase \cup Answer
        BY <3>1 DEF calls, Answer
      <4> QED
        BY <1>1, <3>3, <4>1, CommitsStep
    <3>5. /\ call'[c].at = at /\ call'[c].e = calls[c].e /\ call'[c].b = calls[c].b
          /\ call'[c].shown = calls[c].shown /\ call'[c].gone = calls[c].gone
      BY <3>3, <3>4 DEF SameBut, CallState
    <3>6. \A d \in Calls : /\ call'[d].e = call[d].e /\ call'[d].b = call[d].b
                           /\ call'[d].shown = call[d].shown
                           /\ call'[d].gone \subseteq call[d].gone
                           /\ call[d].e = e => b \notin call'[d].gone
                           /\ call'[d].at \in {"member", "row", "show"} => call'[d].at = call[d].at
      <4> SUFFICES ASSUME NEW d \in Calls
                   PROVE  /\ call'[d].e = call[d].e /\ call'[d].b = call[d].b
                          /\ call'[d].shown = call[d].shown
                          /\ call'[d].gone \subseteq call[d].gone
                          /\ call[d].e = e => b \notin call'[d].gone
                          /\ call'[d].at \in {"member", "row", "show"} => call'[d].at = call[d].at
        OBVIOUS
      <4>1. /\ calls[d].e = call[d].e /\ calls[d].b = call[d].b /\ calls[d].at = call[d].at
            /\ calls[d].shown = call[d].shown /\ calls[d].gone \subseteq call[d].gone
            /\ call[d].e = e => b \notin calls[d].gone
        BY <3>3 DEF SameBut
      <4>2. CASE d = c
        BY <3>5, <4>1, <4>2
      <4>3. CASE d # c
        BY <3>4, <4>1, <4>3
      <4> QED
        BY <4>2, <4>3
    <3> HIDE DEF b, e
    <3> QED
      BY <2>1, <3>2, <3>6, ListActivates
  <2> QED
    BY <2>2, <2>3
<1>7. ASSUME NEW c \in Calls, AssignJobTechnician(c) PROVE ListInv'
  <2>1. /\ call[c].at = "commit" /\ UNCHANGED technician
        /\ assigned' = [assigned EXCEPT ![call[c].job] = <<call[c].b, call[c].e>>]
    BY <1>7 DEF AssignJobTechnician
  <2>2. AssignedInside'
    BY <1>1, <2>1 DEF ListInv, AssignedInside, HandlersKnow, TypeOK
  <2>3. PICK at \in {"200", "500"} : call' = [call EXCEPT ![c].at = at]
    BY <1>7 DEF AssignJobTechnician, Commits
  <2>4. /\ call'[c] = [call[c] EXCEPT !.at = at]
        /\ \A d \in Calls \ {c} : call'[d] = call[d]
    BY <1>1, <2>3 DEF TypeOK
  <2>5. /\ call'[c].at = at /\ call'[c].e = call[c].e /\ call'[c].b = call[c].b
        /\ call'[c].shown = call[c].shown /\ call'[c].gone = call[c].gone
    BY <1>1, <2>4, CallFields DEF CallState
  <2>6. GoneIsGone'
    BY <2>1, <2>4, <2>5, GoneKeeps DEF ListInv
  <2>7. ListingsKnow'
    BY <2>4, <2>5 DEF ListInv, ListingsKnow
  <2>8. RevokedSeesNothing'
    BY <2>4, <2>5 DEF ListInv, RevokedSeesNothing
  <2> QED
    BY <2>2, <2>6, <2>7, <2>8 DEF ListInv
<1>8. ASSUME NEW c \in Calls, FindBusinesses(c) \/ FindTechnician(c) \/ ShowJobs(c) PROVE ListInv'
  <2> DEFINE b == call[c].b
             e == call[c].e
  <2>1. /\ technician' = technician /\ assigned' = assigned
        /\ call[c].at \in {"member", "row", "show"}
    BY <1>8 DEF FindBusinesses, FindTechnician, ShowJobs, Tables
  <2>2. e \in Emails
    BY <2>1 DEF ListInv, ListingsKnow
  <2>3. AssignedInside'
    BY <2>1 DEF ListInv, AssignedInside
  <2>4. CASE \E phase \in {"404", "200"} : Goes(c, phase)
    BY <1>4, <2>1, <2>4 DEF Goes
  <2>5. CASE /\ call[c].at = "member" /\ Memberships(e) # {}
             /\ call' = [call EXCEPT ![c].at = "row", ![c].b = Primary(e)]
    <3>1. Primary(e) \in Businesses
      BY <2>5, PrimaryIsMember DEF Memberships
    <3>2. /\ call'[c] = [call[c] EXCEPT !.at = "row", !.b = Primary(e)]
          /\ \A d \in Calls \ {c} : call'[d] = call[d]
      BY <1>1, <2>5 DEF TypeOK
    <3>3. /\ call'[c].at = "row" /\ call'[c].e = e /\ call'[c].b = Primary(e)
          /\ call'[c].shown = call[c].shown /\ call'[c].gone = call[c].gone
      BY <1>1, <3>2, CallFields DEF CallState
    <3>4. GoneIsGone'
      BY <2>1, <3>2, <3>3, GoneKeeps DEF ListInv
    <3>5. ListingsKnow'
      BY <2>2, <3>1, <3>2, <3>3 DEF ListInv, ListingsKnow
    <3>6. RevokedSeesNothing'
      BY <3>2, <3>3 DEF ListInv, RevokedSeesNothing
    <3> QED
      BY <2>3, <3>4, <3>5, <3>6 DEF ListInv
  <2>6. CASE call[c].at = "row" /\ technician[b][e] = "active" /\ Goes(c, "show")
    <3>1. /\ call'[c] = [call[c] EXCEPT !.at = "show"]
          /\ \A d \in Calls \ {c} : call'[d] = call[d]
      BY <1>1, <2>6, GoesStep DEF Phase
    <3>2. /\ call'[c].at = "show" /\ call'[c].e = e /\ call'[c].b = b
          /\ call'[c].shown = call[c].shown /\ call'[c].gone = call[c].gone
      BY <1>1, <3>1, CallFields DEF CallState
    <3>3. b \notin call[c].gone /\ b \in Businesses
      BY <2>6 DEF ListInv, GoneIsGone, ListingsKnow
    <3>4. GoneIsGone'
      BY <2>1, <3>1, <3>2, GoneKeeps DEF ListInv
    <3>5. ListingsKnow'
      BY <2>2, <3>1, <3>2, <3>3 DEF ListInv, ListingsKnow
    <3>6. RevokedSeesNothing'
      BY <3>1, <3>2 DEF ListInv, RevokedSeesNothing
    <3> QED
      BY <2>3, <3>4, <3>5, <3>6 DEF ListInv
  <2>7. CASE /\ call[c].at = "show"
             /\ call' = [call EXCEPT ![c].at = "200", ![c].shown = OfTechnician(b, e)]
    <3> DEFINE jobs == OfTechnician(b, e)
    <3>1. \A j \in jobs : BusinessOf(j) = b
      <4>1. TAKE j \in jobs
      <4>2. j \in Jobs /\ assigned[j] = <<b, e>> /\ b \in Businesses
        BY <2>7 DEF OfTechnician, ListInv, ListingsKnow
      <4>3. assigned[j] # None
        BY <1>1, <4>2, NoTechnicianAssumption, <2>2 DEF Technicians
      <4>4. j \in JobsOf[b]
        BY <4>2, <4>3 DEF ListInv, AssignedInside
      <4> QED
        BY <4>2, <4>4, BusinessOfJob
    <3>2. b \notin call[c].gone
      BY <2>7 DEF ListInv, ListingsKnow
    <3> HIDE DEF jobs
    <3>3. /\ call'[c] = [call[c] EXCEPT !.at = "200", !.shown = jobs]
          /\ \A d \in Calls \ {c} : call'[d] = call[d]
      BY <1>1, <2>7 DEF TypeOK, jobs
    <3>4. /\ call'[c].at = "200" /\ call'[c].e = e /\ call'[c].b = b
          /\ call'[c].shown = jobs /\ call'[c].gone = call[c].gone
      BY <1>1, <3>3, CallFields DEF CallState
    <3>5. GoneIsGone'
      BY <2>1, <3>3, <3>4, GoneKeeps DEF ListInv
    <3>6. ListingsKnow'
      BY <3>3, <3>4 DEF ListInv, ListingsKnow
    <3>7. RevokedSeesNothing'
      BY <3>1, <3>2, <3>3, <3>4 DEF ListInv, RevokedSeesNothing
    <3> QED
      BY <2>3, <3>5, <3>6, <3>7 DEF ListInv
  <2> QED
    BY <1>8, <2>4, <2>5, <2>6, <2>7 DEF FindBusinesses, FindTechnician, ShowJobs
<1>9. CASE UNCHANGED vars
  BY <1>9 DEF vars, ListInv, GoneIsGone, ListingsKnow, AssignedInside, RevokedSeesNothing
<1> QED
  BY <1>2, <1>3, <1>5, <1>6, <1>7, <1>8, <1>9 DEF Next, Step

(* A listing begun after a deactivation shows nothing of that business,    *)
(* whatever statement of it the deactivation precedes.                     *)
THEOREM RevokedSees == Spec => []RevokedSeesNothing
<1>1. ListInv => RevokedSeesNothing
  BY DEF ListInv
<1> QED
  BY InitRoster, InitList, NextRoster, NextList, <1>1, PTL DEF Spec
=============================================================================
