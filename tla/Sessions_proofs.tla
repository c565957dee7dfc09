---------------------------- MODULE Sessions_proofs ----------------------------
(***************************************************************************)
(* Theorems about Sessions, for any tabs, browsers and calls.              *)
(*                                                                         *)
(* OneSuccessor is not inductive by itself: a new login must not take the  *)
(* name of a chain that is in use.  Logins are named by the first token of *)
(* their chain, so LoginsAreIssued is the missing part.                    *)
(*                                                                         *)
(* StoredTokenWorks needs to know of every call under way what became of   *)
(* the token it presents, and of every store which of its tabs is about to *)
(* write it: SInv, which holds as long as nothing was lost or reloaded.    *)
(***************************************************************************)
EXTENDS Sessions, TLAPS

(* Every chain is named by a token that was issued. *)
LoginsAreIssued == \A k \in DOMAIN tokens : LoginOf(k) \in DOMAIN tokens

IInv == TypeOK /\ OneSuccessor /\ LoginsAreIssued

(* A call's record, field by field. *)
LEMMA CallFields ==
    ASSUME TypeOK, NEW r \in Calls
    PROVE  /\ call[r] \in Call
           /\ call[r].at \in Phase
           /\ call[r].tab \in Tabs \cup {None}
           /\ call[r].token \in Nat
           /\ call[r].got \in Nat
           /\ call[r].next \in {"retry", "revoke"}
BY DEF TypeOK, Call

(* What a new row does to the table. *)
LEMMA IssueFacts ==
    ASSUME tokens \in Seq(Row), NEW f \in Nat, Issue(f)
    PROVE  /\ tokens' \in Seq(Row)
           /\ Len(tokens') = Len(tokens) + 1
           /\ DOMAIN tokens' = DOMAIN tokens \cup {Len(tokens) + 1}
           /\ \A k \in DOMAIN tokens : k # Len(tokens) + 1 /\ tokens'[k] = tokens[k]
           /\ tokens'[Len(tokens) + 1] = [live |-> TRUE, login |-> f]
BY DEF Issue, Row

(* A table with the rows of another, some of them revoked. *)
LEMMA RevokeFacts ==
    ASSUME tokens \in Seq(Row), NEW S,
           tokens' = [k \in DOMAIN tokens |->
                         IF k \in S THEN [tokens[k] EXCEPT !.live = FALSE] ELSE tokens[k]]
    PROVE  /\ tokens' \in Seq(Row)
           /\ DOMAIN tokens' = DOMAIN tokens
           /\ \A k \in DOMAIN tokens : /\ tokens'[k].login = tokens[k].login
                                       /\ tokens'[k].live => tokens[k].live
                                       /\ k \in S => ~tokens'[k].live
<1> DEFINE row(k) == IF k \in S THEN [tokens[k] EXCEPT !.live = FALSE] ELSE tokens[k]
<1>1. DOMAIN tokens = 1..Len(tokens) /\ Len(tokens) \in Nat
  OBVIOUS
<1>2. \A k \in 1..Len(tokens) : row(k) \in Row
  <2> TAKE k \in 1..Len(tokens)
  <2>1. tokens[k] \in Row
    BY <1>1
  <2> QED
    BY <2>1 DEF Row
<1>3. tokens' \in [1..Len(tokens) -> Row]
  BY <1>1, <1>2
<1>4. tokens' \in Seq(Row)
  BY <1>1, <1>3
<1>5. \A k \in DOMAIN tokens : /\ row(k).login = tokens[k].login
                               /\ row(k).live => tokens[k].live
                               /\ k \in S => ~row(k).live
  <2> TAKE k \in DOMAIN tokens
  <2>1. tokens[k] \in Row
    BY <1>1
  <2> QED
    BY <2>1 DEF Row
<1> QED
  BY <1>1, <1>4, <1>5

LEMMA RevokeOne ==
    ASSUME tokens \in Seq(Row), NEW k \in DOMAIN tokens,
           tokens' = [tokens EXCEPT ![k].live = FALSE]
    PROVE  /\ tokens' \in Seq(Row)
           /\ DOMAIN tokens' = DOMAIN tokens
           /\ \A l \in DOMAIN tokens : /\ tokens'[l].login = tokens[l].login
                                       /\ tokens'[l].live => tokens[l].live
           /\ ~tokens'[k].live
<1>1. tokens' = [l \in DOMAIN tokens |->
                    IF l \in {k} THEN [tokens[l] EXCEPT !.live = FALSE] ELSE tokens[l]]
  OBVIOUS
<1> QED
  BY <1>1, RevokeFacts

LEMMA RevokeAll ==
    ASSUME tokens \in Seq(Row),
           tokens' = [k \in DOMAIN tokens |-> [tokens[k] EXCEPT !.live = FALSE]]
    PROVE  /\ tokens' \in Seq(Row)
           /\ DOMAIN tokens' = DOMAIN tokens
           /\ \A l \in DOMAIN tokens : /\ tokens'[l].login = tokens[l].login
                                       /\ ~tokens'[l].live
<1>1. tokens' = [l \in DOMAIN tokens |->
                    IF l \in DOMAIN tokens THEN [tokens[l] EXCEPT !.live = FALSE] ELSE tokens[l]]
  OBVIOUS
<1> QED
  BY <1>1, RevokeFacts

-----------------------------------------------------------------------------
(* Type correctness *)

(* A step that only moves on one call, or none, keeps the calls' types.      *)
LEMMA MovedCall ==
    ASSUME TypeOK, NEW r \in Calls, NEW c \in Call,
           call' = [call EXCEPT ![r] = c],
           DOMAIN tokens \subseteq DOMAIN tokens',
           c.at \in {"consume", "issue", "answer", "revoke"} => c.token \in DOMAIN tokens',
           c.at \in {"loginDone", "answer"} => c.got \in DOMAIN tokens'
    PROVE  /\ call' \in [Calls -> Call]
           /\ \A s \in Calls : call'[s].at \in {"consume", "issue", "answer", "revoke"} =>
                                 call'[s].token \in DOMAIN tokens'
           /\ \A s \in Calls : call'[s].at \in {"loginDone", "answer"} =>
                                 call'[s].got \in DOMAIN tokens'
<1>1. call \in [Calls -> Call]
  BY DEF TypeOK
<1>2. call' \in [Calls -> Call] /\ call'[r] = c /\ \A s \in Calls \ {r} : call'[s] = call[s]
  BY <1>1
<1> QED
  BY <1>2 DEF TypeOK

LEMMA TypeStep == TypeOK /\ [Next]_vars => TypeOK'
<1> SUFFICES ASSUME TypeOK, [Next]_vars PROVE TypeOK'
  OBVIOUS
<1> DEFINE CallsOK == /\ call \in [Calls -> Call]
                      /\ \A r \in Calls : call[r].at \in {"consume", "issue", "answer", "revoke"} =>
                                            call[r].token \in DOMAIN tokens
                      /\ \A r \in Calls : call[r].at \in {"loginDone", "answer"} =>
                                            call[r].got \in DOMAIN tokens
           Rest == /\ tokens \in Seq(Row)
                   /\ stored \in [Browsers -> {0} \cup DOMAIN tokens]
                   /\ view \in [Tabs -> AuthStatus]
                   /\ faults \in 0..MaxFaults
<1>0. TypeOK <=> CallsOK /\ Rest
  BY DEF TypeOK
<1>1. TypeOK' <=> CallsOK' /\ Rest'
  BY DEF TypeOK
<1>2. \A t \in Tabs : BrowserOf[t] \in Browsers /\ Store(t) \in {0} \cup DOMAIN tokens
  BY TabAssumption DEF TypeOK, Store
<1>3. DOMAIN tokens \subseteq Nat /\ Len(tokens) \in Nat
  BY DEF TypeOK
<1>5. Idle \in Call /\ Idle.at = "idle"
  BY DEF Idle, Call, Phase
<1>6. ASSUME NEW r \in Calls, NEW t \in Tabs, NEW p \in {"login", "consume", "revoke"}, NEW n \in {"retry", "revoke"},
             NEW k \in {0} \cup DOMAIN tokens, p # "login" => k # 0, Send(r, t, p, k, n)
      PROVE  TypeOK'
  <2> DEFINE c == [at |-> p, tab |-> t, token |-> k, got |-> 0, next |-> n]
  <2>1. c \in Call /\ c.at = p /\ c.token = k
    BY <1>6, <1>3 DEF Call, Phase, Refreshing
  <2>2. call' = [call EXCEPT ![r] = c] /\ UNCHANGED <<tokens, stored, view, faults>>
    BY <1>6 DEF Send
  <2> HIDE DEF c
  <2>3. CallsOK'
    BY <1>6, <2>1, <2>2, MovedCall
  <2> QED
    BY <2>2, <2>3, <1>0, <1>1
<1>7. ASSUME NEW r \in Calls, NEW p \in Phase, NEW g \in Nat,
             call' = [call EXCEPT ![r].at = p, ![r].got = g],
             DOMAIN tokens \subseteq DOMAIN tokens',
             p \in {"consume", "issue", "answer", "revoke"} => call[r].token \in DOMAIN tokens',
             p \in {"loginDone", "answer"} => g \in DOMAIN tokens'
      PROVE  CallsOK'
  <2> DEFINE c == [call[r] EXCEPT !.at = p, !.got = g]
  <2>1. c \in Call /\ c.at = p /\ c.token = call[r].token /\ c.got = g
    BY CallFields DEF Call
  <2>2. call' = [call EXCEPT ![r] = c]
    BY <1>7, <1>0
  <2> HIDE DEF c
  <2> QED
    BY <1>7, <2>1, <2>2, MovedCall
<1>8. ASSUME NEW r \in Calls, NEW p \in Phase, GoTo(r, p),
             DOMAIN tokens \subseteq DOMAIN tokens',
             p \in {"consume", "issue", "answer", "revoke"} => call[r].token \in DOMAIN tokens',
             p \in {"loginDone", "answer"} => call[r].got \in DOMAIN tokens'
      PROVE  CallsOK'
  <2> DEFINE c == [call[r] EXCEPT !.at = p]
  <2>1. c \in Call /\ c.at = p /\ c.token = call[r].token /\ c.got = call[r].got
    BY CallFields DEF Call
  <2>2. call' = [call EXCEPT ![r] = c]
    BY <1>8, <1>0 DEF GoTo
  <2> HIDE DEF c
  <2> QED
    BY <1>8, <2>1, <2>2, MovedCall
<1>9. ASSUME NEW r \in Calls, Done(r), DOMAIN tokens \subseteq DOMAIN tokens'
      PROVE  CallsOK'
  BY <1>5, <1>9, MovedCall DEF Done
<1>10. ASSUME NEW t \in Tabs, NEW k \in {0} \cup DOMAIN tokens,
              Save(t, k) \/ ClearLocalSession(t)
       PROVE  /\ stored' \in [Browsers -> {0} \cup DOMAIN tokens]
              /\ view' \in [Tabs -> AuthStatus]
  BY <1>0, <1>2, <1>10 DEF Save, ClearLocalSession, AuthStatus
<1>11. ASSUME NEW r \in Calls, IssueLogin(r) PROVE TypeOK'
  <2>1. call[r].at = "login" /\ Issue(Len(tokens) + 1)
        /\ call' = [call EXCEPT ![r].at = "loginDone", ![r].got = Len(tokens) + 1]
        /\ UNCHANGED <<stored, view, faults>>
    BY <1>11 DEF IssueLogin
  <2>2. tokens' \in Seq(Row) /\ DOMAIN tokens' = DOMAIN tokens \cup {Len(tokens) + 1}
    <3> DEFINE n == Len(tokens) + 1
    <3>1. n \in Nat /\ Issue(n)
      BY <2>1, <1>3
    <3> HIDE DEF n
    <3>2. tokens' \in Seq(Row) /\ DOMAIN tokens' = DOMAIN tokens \cup {Len(tokens) + 1}
      BY <3>1, <1>0, IssueFacts
    <3> QED
      BY <3>2
  <2>3. CallsOK'
    <3> DEFINE g == Len(tokens) + 1
    <3>1. /\ g \in Nat /\ g \in DOMAIN tokens' /\ DOMAIN tokens \subseteq DOMAIN tokens'
          /\ call' = [call EXCEPT ![r].at = "loginDone", ![r].got = g]
      BY <2>1, <2>2, <1>3
    <3> HIDE DEF g
    <3> QED
      BY <1>7, <3>1 DEF Phase
  <2> QED
    BY <1>0, <1>1, <2>1, <2>2, <2>3
<1>12. ASSUME NEW r \in Calls, IssueRefresh(r) PROVE TypeOK'
  <2>1. call[r].at = "issue" /\ Issue(LoginOf(call[r].token))
        /\ call' = [call EXCEPT ![r].at = "answer", ![r].got = Len(tokens) + 1]
        /\ UNCHANGED <<stored, view, faults>>
    BY <1>12 DEF IssueRefresh
  <2>2. call[r].token \in DOMAIN tokens
    BY <2>1, <1>0
  <2>3. tokens[call[r].token] \in Row
    BY <2>2, <1>0
  <2>4. LoginOf(call[r].token) \in Nat
    BY <2>3 DEF LoginOf, Row
  <2>5. tokens' \in Seq(Row) /\ DOMAIN tokens' = DOMAIN tokens \cup {Len(tokens) + 1}
    BY <2>1, <2>4, <1>0, IssueFacts
  <2>6. CallsOK'
    <3> DEFINE g == Len(tokens) + 1
    <3>1. /\ g \in Nat /\ g \in DOMAIN tokens' /\ DOMAIN tokens \subseteq DOMAIN tokens'
          /\ call' = [call EXCEPT ![r].at = "answer", ![r].got = g]
      BY <2>1, <2>5, <1>3
    <3> HIDE DEF g
    <3> QED
      BY <1>7, <2>2, <3>1 DEF Phase, Refreshing
  <2> QED
    BY <1>0, <1>1, <2>1, <2>5, <2>6
<1>13. ASSUME NEW r \in Calls, Consume(r) PROVE TypeOK'
  <2>1. call[r].at = "consume" /\ call[r].token \in DOMAIN tokens
    BY <1>13, <1>0 DEF Consume
  <2>2. ASSUME ~Consumable(call[r].token) PROVE TypeOK'
    <3>1. UNCHANGED <<tokens, stored, view, faults>> /\ GoTo(r, "refused")
      BY <1>13, <2>2 DEF Consume
    <3>2. CallsOK'
      BY <1>8, <3>1 DEF Phase, Refreshing
    <3> QED
      BY <1>0, <1>1, <3>1, <3>2
  <2>3. ASSUME Consumable(call[r].token) PROVE TypeOK'
    <3>1. /\ tokens' = [tokens EXCEPT ![call[r].token].live = FALSE]
          /\ UNCHANGED <<stored, view, faults>> /\ GoTo(r, "issue")
      BY <1>13, <2>3 DEF Consume
    <3>2. tokens' \in Seq(Row) /\ DOMAIN tokens' = DOMAIN tokens
      BY <2>1, <3>1, <1>0, RevokeOne
    <3>3. CallsOK'
      BY <1>8, <2>1, <3>1, <3>2 DEF Phase, Refreshing
    <3> QED
      BY <1>0, <1>1, <3>1, <3>2, <3>3
  <2> QED
    BY <2>2, <2>3
<1>14. ASSUME NEW r \in Calls, RevokeByHash(r) PROVE TypeOK'
  <2>1. /\ call[r].at = "revoke" /\ call[r].token \in DOMAIN tokens
        /\ tokens' = [tokens EXCEPT ![call[r].token].live = FALSE]
        /\ UNCHANGED <<stored, view, faults>> /\ GoTo(r, "revokeAll")
    BY <1>14, <1>0 DEF RevokeByHash
  <2>2. tokens' \in Seq(Row) /\ DOMAIN tokens' = DOMAIN tokens
    BY <2>1, <1>0, RevokeOne
  <2>3. CallsOK'
    BY <1>8, <2>1, <2>2 DEF Phase
  <2> QED
    BY <1>0, <1>1, <2>1, <2>2, <2>3
<1>15. ASSUME NEW r \in Calls, RevokeAllForUser(r) PROVE TypeOK'
  <2>1. /\ tokens' = [k \in DOMAIN tokens |-> [tokens[k] EXCEPT !.live = FALSE]]
        /\ UNCHANGED <<stored, view, faults>> /\ GoTo(r, "logoutDone")
    BY <1>15 DEF RevokeAllForUser
  <2>2. tokens' \in Seq(Row) /\ DOMAIN tokens' = DOMAIN tokens
    BY <2>1, <1>0, RevokeAll
  <2>3. CallsOK'
    BY <1>8, <2>1, <2>2 DEF Phase
  <2> QED
    BY <1>0, <1>1, <2>1, <2>2, <2>3
<1>16. ASSUME NEW r \in Calls, Answered(r) PROVE TypeOK'
  <2>1. tokens' = tokens
    BY <1>16 DEF Answered, ReceiveLogin, ReceiveRefresh, RefreshRefused, RetrySucceeds, RetryFails,
                 ReceiveLogout, Unheard
  <2>2. faults' \in 0..MaxFaults
    BY <1>16, <1>0, BoundAssumption
       DEF Answered, ReceiveLogin, ReceiveRefresh, RefreshRefused, RetrySucceeds, RetryFails,
           ReceiveLogout, Unheard
  <2>3. call[r].tab \in Tabs \cup {None} /\ call[r].next \in {"retry", "revoke"}
    BY CallFields
  <2>4. call[r].at \in {"loginDone", "answer"} => call[r].got \in DOMAIN tokens
    BY <1>0
  <2>5. \/ UNCHANGED <<stored, view>>
        \/ Heard(r, call[r].at) /\ ClearLocalSession(call[r].tab)
        \/ /\ call[r].at \in {"loginDone", "answer"}
           /\ Heard(r, call[r].at) /\ Save(call[r].tab, call[r].got)
    BY <1>16 DEF Answered, ReceiveLogin, ReceiveRefresh, RefreshRefused, RetrySucceeds, RetryFails,
                 ReceiveLogout, Unheard, SaveRefreshed, Heard
  <2>6. stored' \in [Browsers -> {0} \cup DOMAIN tokens] /\ view' \in [Tabs -> AuthStatus]
    BY <2>3, <2>4, <2>5, <1>0, <1>10 DEF Heard
  <2>7. Done(r) \/ (call[r].at = "answer" /\ GoTo(r, call[r].next))
    BY <1>16 DEF Answered, ReceiveLogin, ReceiveRefresh, RefreshRefused, RetrySucceeds, RetryFails,
                 ReceiveLogout, Unheard, Heard
  <2>8. call[r].at = "answer" => call[r].token \in DOMAIN tokens
    BY <1>0
  <2>9. CallsOK'
    BY <2>1, <2>3, <2>7, <2>8, <1>8, <1>9 DEF Phase
  <2> QED
    BY <1>0, <1>1, <2>1, <2>2, <2>6, <2>9
<1>17. ASSUME NEW r \in Calls, LoseCall(r) PROVE TypeOK'
  <2>1. UNCHANGED <<tokens, stored, view>> /\ faults' \in 0..MaxFaults
    BY <1>17, <1>0, BoundAssumption DEF LoseCall
  <2>2. Done(r) \/ GoTo(r, "refused") \/ GoTo(r, "logoutDone")
    BY <1>17 DEF LoseCall
  <2>3. CallsOK'
    BY <2>1, <2>2, <1>8, <1>9 DEF Phase, Refreshing
  <2> QED
    BY <1>0, <1>1, <2>1, <2>3
<1>18. ASSUME NEW t \in Tabs, Reload(t) PROVE TypeOK'
  <2>1. UNCHANGED <<tokens, stored>> /\ faults' \in 0..MaxFaults /\ view' \in [Tabs -> AuthStatus]
    BY <1>18, <1>0, BoundAssumption DEF Reload, AuthStatus
  <2>2. call' = [r \in Calls |-> IF call[r].tab = t THEN [call[r] EXCEPT !.tab = None] ELSE call[r]]
    BY <1>18 DEF Reload
  <2>3. \A r \in Calls : /\ call'[r] \in Call /\ call'[r].at = call[r].at
                         /\ call'[r].token = call[r].token /\ call'[r].got = call[r].got
    BY <2>2, CallFields DEF Call
  <2>4. CallsOK'
    BY <2>1, <2>2, <2>3, <1>0
  <2> QED
    BY <1>0, <1>1, <2>1, <2>4
<1>19. ASSUME NEW t \in Tabs, Restore(t) \/ RefreshWithoutToken(t) PROVE TypeOK'
  <2>1. UNCHANGED <<tokens, call, faults>> /\ view' \in [Tabs -> AuthStatus]
        /\ (UNCHANGED stored \/ ClearLocalSession(t))
    BY <1>19, <1>0 DEF Restore, RefreshWithoutToken, ClearLocalSession, AuthStatus
  <2>2. stored' \in [Browsers -> {0} \cup DOMAIN tokens]
    BY <2>1, <1>0, <1>10
  <2> QED
    BY <1>0, <1>1, <2>1, <2>2
<1>20. ASSUME NEW r \in Calls, NEW t \in Tabs,
              BeginLogin(r, t) \/ BeginRefresh(r, t) \/ BeginLogout(r, t) \/ BeginLogoutExpired(r, t)
       PROVE  TypeOK'
  <2>1. PICK p \in {"login", "consume", "revoke"}, n \in {"retry", "revoke"}, k \in {0} \cup DOMAIN tokens :
           (p # "login" => k # 0) /\ Send(r, t, p, k, n)
    BY <1>2, <1>20 DEF BeginLogin, BeginRefresh, BeginLogout, BeginLogoutExpired
  <2> QED
    BY <2>1, <1>6
<1>21. CASE UNCHANGED vars
  BY <1>21, <1>0, <1>1 DEF vars
<1> QED
  BY <1>11, <1>12, <1>13, <1>14, <1>15, <1>16, <1>17, <1>18, <1>19, <1>20, <1>21 DEF Next, Server

(* Sessions keeps its types, in particular a call never rotates, revokes or  *)
(* hands out a token that was not issued.                                    *)
THEOREM SessionTypes == Spec => []TypeOK
<1>1. Init => TypeOK
  BY BoundAssumption DEF Init, TypeOK, AuthStatus, Call, Idle, Phase, Row
<1>2. TypeOK /\ [Next]_vars => TypeOK'
  BY TypeStep
<1> QED
  BY <1>1, <1>2, PTL DEF Spec
-----------------------------------------------------------------------------
(* One successor *)

(* The chains that were over stay over. *)
StaysOver == \A k \in DOMAIN tokens : IsOver(LoginOf(k)) => IsOver(LoginOf(k))'

Kept == OneSuccessor' /\ LoginsAreIssued' /\ StaysOver

(* A step that revives no token and begins no rotation keeps everything.     *)
LEMMA Fewer ==
    ASSUME IInv, DOMAIN tokens' = DOMAIN tokens,
           \A k \in DOMAIN tokens : /\ tokens'[k].login = tokens[k].login
                                    /\ tokens'[k].live => tokens[k].live,
           \A r \in Calls : call'[r].at = "issue" =>
               call[r].at = "issue" /\ call'[r].token = call[r].token
    PROVE  Kept
<1>1. \A k \in DOMAIN tokens : LoginOf(k)' = LoginOf(k) /\ (Live(k)' => Live(k))
  BY DEF LoginOf, Live
<1>2. \A k : Live(k)' => k \in DOMAIN tokens
  BY DEF Live
<1>3. \A r \in Calls : call[r].at = "issue" => call[r].token \in DOMAIN tokens
  BY DEF IInv, TypeOK
<1>4. \A r \in Calls : call'[r].at = "issue" => LoginOf(call[r].token)' = LoginOf(call[r].token)
  BY <1>3 DEF LoginOf
<1>5. \A r \in Calls : \A f : Rotating(r, f)' => Rotating(r, f)
  BY <1>4 DEF Rotating
<1>6. OneSuccessor'
  BY <1>1, <1>2, <1>4, <1>5 DEF IInv, OneSuccessor
<1>7. LoginsAreIssued'
  BY <1>1 DEF IInv, LoginsAreIssued
<1>8. StaysOver
  BY <1>1, <1>2, <1>5 DEF StaysOver, IsOver
<1> QED
  BY <1>6, <1>7, <1>8 DEF Kept

(* A step that moves one call on, away from or not into "issue". *)
LEMMA Quiet ==
    ASSUME IInv, UNCHANGED tokens, NEW r \in Calls,
           \A s \in Calls \ {r} : call'[s] = call[s],
           call'[r].at # "issue"
    PROVE  Kept
BY Fewer

(* The consumed token was its chain's only one: the call takes its place.    *)
LEMMA ConsumeKeeps ==
    ASSUME IInv, NEW r \in Calls, Consume(r)
    PROVE  Kept
<1>0. PICK k, f : k = call[r].token /\ f = LoginOf(k)
  OBVIOUS
<1>1. call \in [Calls -> Call] /\ tokens \in Seq(Row) /\ call[r].at = "consume" /\ k \in DOMAIN tokens
  BY <1>0 DEF IInv, TypeOK, Consume
<1>2. ASSUME ~Consumable(k) PROVE Kept
  <2>1. UNCHANGED tokens /\ call' = [call EXCEPT ![r].at = "refused"]
    BY <1>0, <1>2 DEF Consume, GoTo
  <2>2. call'[r].at # "issue" /\ \A s \in Calls \ {r} : call'[s] = call[s]
    BY <1>1, <2>1 DEF Call
  <2> QED
    BY <2>1, <2>2, Quiet
<1>3. ASSUME Consumable(k) PROVE Kept
  <2>1. Live(k) /\ tokens' = [tokens EXCEPT ![k].live = FALSE]
        /\ call' = [call EXCEPT ![r].at = "issue"]
    BY <1>0, <1>3 DEF Consume, Consumable, GoTo
  <2>2. DOMAIN tokens' = DOMAIN tokens
        /\ \A l \in DOMAIN tokens : LoginOf(l)' = LoginOf(l) /\ (Live(l)' => Live(l))
    BY <1>1, <2>1, RevokeOne DEF LoginOf, Live
  <2>3. ~Live(k)'
    BY <1>1, <2>1, RevokeOne DEF Live
  <2>4. \A l : Live(l)' => l \in DOMAIN tokens
    BY <2>2 DEF Live
  <2>5. \A s \in Calls : /\ call'[s].token = call[s].token
                         /\ s = r => call'[s].at = "issue"
                         /\ s # r => call'[s].at = call[s].at
    BY <1>1, <2>1 DEF Call
  <2>6. \A s \in Calls : call'[s].at = "issue" =>
            /\ call[s].token \in DOMAIN tokens
            /\ LoginOf(call[s].token)' = LoginOf(call[s].token)
    BY <1>1, <2>2, <2>5 DEF IInv, TypeOK, LoginOf
  <2>7. \A s \in Calls : \A g : Rotating(s, g)' <=> Rotating(s, g) \/ (s = r /\ g = f)
    BY <1>0, <1>1, <2>2, <2>5, <2>6 DEF Rotating, LoginOf
  <2>8. \A s \in Calls : ~Rotating(s, f)
    BY <1>0, <1>1, <2>1 DEF IInv, OneSuccessor
  <2>9. \A l \in DOMAIN tokens : Live(l)' /\ LoginOf(l)' = f => FALSE
    BY <1>0, <1>1, <2>1, <2>2, <2>3 DEF IInv, OneSuccessor, LoginOf
  <2>10. \A l1, l2 \in DOMAIN tokens' : Live(l1)' /\ Live(l2)' /\ LoginOf(l1)' = LoginOf(l2)' => l1 = l2
    BY <2>2 DEF IInv, OneSuccessor
  <2>11. \A s1, s2 \in Calls :
            call'[s1].at = "issue" /\ Rotating(s2, LoginOf(call[s1].token))' => s1 = s2
    <3> SUFFICES ASSUME NEW s1 \in Calls, NEW s2 \in Calls,
                        call'[s1].at = "issue", call'[s2].at = "issue",
                        LoginOf(call[s2].token) = LoginOf(call[s1].token)
                 PROVE  s1 = s2
      BY <2>5, <2>6 DEF Rotating
    <3>1. s1 # r => Rotating(s1, LoginOf(call[s1].token))
      BY <2>5 DEF Rotating
    <3>2. s2 # r => Rotating(s2, LoginOf(call[s1].token))
      BY <2>5 DEF Rotating
    <3> QED
      BY <1>0, <2>5, <2>8, <3>1, <3>2 DEF IInv, OneSuccessor
  <2>12. \A l \in DOMAIN tokens', s \in Calls : Live(l)' => ~Rotating(s, LoginOf(l))'
    BY <2>2, <2>7, <2>9 DEF IInv, OneSuccessor, Rotating, LoginOf
  <2>13. OneSuccessor'
    BY <2>5, <2>10, <2>11, <2>12 DEF OneSuccessor
  <2>14. LoginsAreIssued'
    BY <2>2 DEF IInv, LoginsAreIssued
  <2>15. ~IsOver(f)
    BY <1>0, <1>1, <2>1 DEF IsOver
  <2>16. StaysOver
    BY <2>2, <2>4, <2>7, <2>15 DEF StaysOver, IsOver, LoginOf
  <2> QED
    BY <2>13, <2>14, <2>16 DEF Kept
<1> QED
  BY <1>2, <1>3

(* The new token is its chain's only one, in the place of the call.          *)
LEMMA IssueRefreshKeeps ==
    ASSUME IInv, NEW r \in Calls, IssueRefresh(r)
    PROVE  Kept
<1>0. PICK f, n : f = LoginOf(call[r].token) /\ n = Len(tokens) + 1
  OBVIOUS
<1>1. /\ call \in [Calls -> Call] /\ tokens \in Seq(Row) /\ call[r].at = "issue"
      /\ call[r].token \in DOMAIN tokens
  BY DEF IInv, TypeOK, IssueRefresh
<1>2. tokens[call[r].token] \in Row /\ f \in DOMAIN tokens
  BY <1>0, <1>1 DEF IInv, LoginsAreIssued, LoginOf
<1>3. f \in Nat /\ Issue(f)
  BY <1>0, <1>2 DEF LoginOf, Row, IssueRefresh
<1>4. /\ DOMAIN tokens' = DOMAIN tokens \cup {n}
      /\ \A k \in DOMAIN tokens : k # n /\ tokens'[k] = tokens[k]
      /\ tokens'[n] = [live |-> TRUE, login |-> f]
  BY <1>0, <1>1, <1>3, IssueFacts
<1>5. \A s \in Calls : /\ s = r => call'[s].at # "issue"
                       /\ s # r => call'[s] = call[s]
  BY <1>1 DEF Call, IssueRefresh
<1>6. \A k \in DOMAIN tokens : LoginOf(k)' = LoginOf(k) /\ (Live(k)' <=> Live(k))
  BY <1>4 DEF LoginOf, Live
<1>7. LoginOf(n)' = f /\ n \notin DOMAIN tokens
  BY <1>4 DEF LoginOf
<1>8. Rotating(r, f)
  BY <1>0, <1>1 DEF Rotating
<1>9. \A s \in Calls : s # r => ~Rotating(s, f)
  BY <1>0, <1>1 DEF IInv, OneSuccessor
<1>10. \A k \in DOMAIN tokens : Live(k) => LoginOf(k) # f
  BY <1>8 DEF IInv, OneSuccessor
<1>11. \A s \in Calls : \A g : Rotating(s, g)' <=> s # r /\ Rotating(s, g)
  <2>1. \A s \in Calls : call[s].at = "issue" => call[s].token \in DOMAIN tokens
    BY DEF IInv, TypeOK
  <2> QED
    BY <1>5, <1>6, <2>1 DEF Rotating, LoginOf
<1>12. \A k1, k2 \in DOMAIN tokens' : Live(k1)' /\ Live(k2)' /\ LoginOf(k1)' = LoginOf(k2)' => k1 = k2
  BY <1>4, <1>6, <1>7, <1>10 DEF IInv, OneSuccessor
<1>13. \A s1, s2 \in Calls :
          call'[s1].at = "issue" /\ Rotating(s2, LoginOf(call[s1].token))' => s1 = s2
  <2> SUFFICES ASSUME NEW s1 \in Calls, NEW s2 \in Calls,
                      call'[s1].at = "issue", Rotating(s2, LoginOf(call[s1].token))'
               PROVE  s1 = s2
    OBVIOUS
  <2>1. s1 # r /\ call[s1].at = "issue" /\ call'[s1].token = call[s1].token
    BY <1>5
  <2>2. call[s1].token \in DOMAIN tokens
    BY <2>1 DEF IInv, TypeOK
  <2>3. LoginOf(call[s1].token)' = LoginOf(call[s1].token)
    BY <1>6, <2>1, <2>2 DEF LoginOf
  <2>4. Rotating(s2, LoginOf(call[s1].token))
    BY <1>11, <2>3 DEF Rotating
  <2> QED
    BY <2>1, <2>4 DEF IInv, OneSuccessor
<1>14. \A k \in DOMAIN tokens', s \in Calls : Live(k)' => ~Rotating(s, LoginOf(k))'
  <2> SUFFICES ASSUME NEW k \in DOMAIN tokens', NEW s \in Calls, Live(k)', Rotating(s, LoginOf(k))'
               PROVE  FALSE
    OBVIOUS
  <2>1. PICK g : g = LoginOf(k)'
    OBVIOUS
  <2>2. s # r /\ Rotating(s, g)
    BY <1>11, <2>1 DEF Rotating
  <2>3. CASE k = n
    BY <1>7, <1>9, <2>1, <2>2, <2>3
  <2>4. CASE k \in DOMAIN tokens
    BY <1>6, <2>1, <2>2, <2>4 DEF IInv, OneSuccessor
  <2> QED
    BY <1>4, <2>3, <2>4
<1>15. OneSuccessor'
  BY <1>12, <1>13, <1>14 DEF OneSuccessor
<1>16. LoginsAreIssued'
  BY <1>2, <1>4, <1>6, <1>7 DEF IInv, LoginsAreIssued
<1>17. StaysOver
  <2> SUFFICES ASSUME NEW k \in DOMAIN tokens, IsOver(LoginOf(k)) PROVE IsOver(LoginOf(k))'
    BY DEF StaysOver
  <2>1. PICK g : g = LoginOf(k) /\ g = LoginOf(k)'
    BY <1>6
  <2>2. g # f /\ IsOver(g)
    BY <1>8, <2>1 DEF IsOver
  <2>3. \A l \in DOMAIN tokens' : LoginOf(l)' = g => ~Live(l)'
    BY <1>4, <1>6, <1>7, <2>2 DEF IsOver
  <2>4. \A s \in Calls : ~Rotating(s, g)'
    BY <1>11, <2>2 DEF IsOver
  <2> QED
    BY <2>1, <2>3, <2>4 DEF IsOver, Rotating
<1> QED
  BY <1>15, <1>16, <1>17 DEF Kept

(* A login begins a chain of its own. *)
LEMMA IssueLoginKeeps ==
    ASSUME IInv, NEW r \in Calls, IssueLogin(r)
    PROVE  Kept
<1>0. PICK n : n = Len(tokens) + 1
  OBVIOUS
<1>1. call \in [Calls -> Call] /\ tokens \in Seq(Row) /\ n \in Nat /\ Issue(n)
  BY <1>0 DEF IInv, TypeOK, IssueLogin
<1>2. /\ DOMAIN tokens' = DOMAIN tokens \cup {n}
      /\ \A k \in DOMAIN tokens : k # n /\ tokens'[k] = tokens[k]
      /\ tokens'[n] = [live |-> TRUE, login |-> n]
  BY <1>0, <1>1, IssueFacts
<1>3. \A s \in Calls : /\ s = r => call'[s].at # "issue" /\ call[s].at # "issue"
                       /\ s # r => call'[s] = call[s]
  BY <1>1 DEF Call, IssueLogin
<1>4. \A k \in DOMAIN tokens : LoginOf(k)' = LoginOf(k) /\ (Live(k)' <=> Live(k)) /\ LoginOf(k) # n
  BY <1>2 DEF LoginOf, Live, IInv, LoginsAreIssued
<1>5. LoginOf(n)' = n /\ n \notin DOMAIN tokens
  BY <1>2 DEF LoginOf
<1>6. \A s \in Calls : call[s].at = "issue" => call[s].token \in DOMAIN tokens
  BY DEF IInv, TypeOK
<1>7. \A s \in Calls : \A g : Rotating(s, g)' <=> Rotating(s, g)
  BY <1>3, <1>4, <1>6 DEF Rotating, LoginOf
<1>8. \A s \in Calls : ~Rotating(s, n)
  BY <1>4, <1>6 DEF Rotating
<1>9. \A k1, k2 \in DOMAIN tokens' : Live(k1)' /\ Live(k2)' /\ LoginOf(k1)' = LoginOf(k2)' => k1 = k2
  BY <1>2, <1>4, <1>5 DEF IInv, OneSuccessor
<1>10. \A s1, s2 \in Calls :
          call'[s1].at = "issue" /\ Rotating(s2, LoginOf(call[s1].token))' => s1 = s2
  <2> SUFFICES ASSUME NEW s1 \in Calls, NEW s2 \in Calls,
                      call'[s1].at = "issue", Rotating(s2, LoginOf(call[s1].token))'
               PROVE  s1 = s2
    OBVIOUS
  <2>1. call[s1].at = "issue" /\ call'[s1].token = call[s1].token
    BY <1>3
  <2>2. LoginOf(call[s1].token)' = LoginOf(call[s1].token)
    BY <1>4, <1>6, <2>1 DEF LoginOf
  <2>3. Rotating(s2, LoginOf(call[s1].token))
    BY <1>7, <2>2 DEF Rotating
  <2> QED
    BY <2>1, <2>3 DEF IInv, OneSuccessor
<1>11. \A k \in DOMAIN tokens', s \in Calls : Live(k)' => ~Rotating(s, LoginOf(k))'
  <2> SUFFICES ASSUME NEW k \in DOMAIN tokens', NEW s \in Calls, Live(k)', Rotating(s, LoginOf(k))'
               PROVE  FALSE
    OBVIOUS
  <2>1. PICK g : g = LoginOf(k)'
    OBVIOUS
  <2>2. Rotating(s, g)
    BY <1>7, <2>1 DEF Rotating
  <2>3. CASE k = n
    BY <1>5, <1>8, <2>1, <2>2, <2>3
  <2>4. CASE k \in DOMAIN tokens
    BY <1>4, <2>1, <2>2, <2>4 DEF IInv, OneSuccessor
  <2> QED
    BY <1>2, <2>3, <2>4
<1>12. OneSuccessor'
  BY <1>9, <1>10, <1>11 DEF OneSuccessor
<1>13. LoginsAreIssued'
  BY <1>2, <1>4, <1>5 DEF IInv, LoginsAreIssued
<1>14. StaysOver
  <2> SUFFICES ASSUME NEW k \in DOMAIN tokens, IsOver(LoginOf(k)) PROVE IsOver(LoginOf(k))'
    BY DEF StaysOver
  <2>1. PICK g : g = LoginOf(k) /\ g = LoginOf(k)'
    BY <1>4
  <2>2. g # n /\ IsOver(g)
    BY <1>4, <2>1
  <2>3. \A l \in DOMAIN tokens' : LoginOf(l)' = g => ~Live(l)'
    BY <1>2, <1>4, <1>5, <2>2 DEF IsOver
  <2>4. \A s \in Calls : ~Rotating(s, g)'
    BY <1>7, <2>2 DEF IsOver
  <2> QED
    BY <2>1, <2>3, <2>4 DEF IsOver, Rotating
<1> QED
  BY <1>12, <1>13, <1>14 DEF Kept

LEMMA RevocationKeeps ==
    ASSUME IInv, NEW r \in Calls, RevokeByHash(r) \/ RevokeAllForUser(r)
    PROVE  Kept
<1>1. call \in [Calls -> Call] /\ tokens \in Seq(Row)
  BY DEF IInv, TypeOK
<1>2. \A s \in Calls : /\ s = r => call'[s].at # "issue"
                       /\ s # r => call'[s] = call[s]
  BY <1>1 DEF RevokeByHash, RevokeAllForUser, GoTo, Call
<1>3. /\ DOMAIN tokens' = DOMAIN tokens
      /\ \A k \in DOMAIN tokens : /\ tokens'[k].login = tokens[k].login
                                  /\ tokens'[k].live => tokens[k].live
  <2>1. CASE RevokeByHash(r)
    <3>1. PICK k : k = call[r].token
      OBVIOUS
    <3>2. k \in DOMAIN tokens /\ tokens' = [tokens EXCEPT ![k].live = FALSE]
      BY <2>1, <3>1 DEF RevokeByHash, IInv, TypeOK
    <3> QED
      BY <1>1, <3>2, RevokeOne
  <2>2. CASE RevokeAllForUser(r)
    BY <1>1, <2>2, RevokeAll DEF RevokeAllForUser
  <2> QED
    BY <2>1, <2>2
<1> QED
  BY <1>2, <1>3, Fewer

LEMMA KeptStep == IInv /\ [Next]_vars => Kept
<1> SUFFICES ASSUME IInv, [Next]_vars PROVE Kept
  OBVIOUS
<1>1. call \in [Calls -> Call]
  BY DEF IInv, TypeOK
<1>2. ASSUME NEW r \in Calls, Server(r) PROVE Kept
  BY <1>2, IssueLoginKeeps, ConsumeKeeps, IssueRefreshKeeps, RevocationKeeps DEF Server
<1>3. ASSUME NEW r \in Calls, Answered(r) \/ LoseCall(r) PROVE Kept
  <2>1. UNCHANGED tokens
    BY <1>3 DEF Answered, ReceiveLogin, ReceiveRefresh, RefreshRefused, RetrySucceeds, RetryFails,
                ReceiveLogout, Unheard, LoseCall
  <2>2. Done(r) \/ GoTo(r, call[r].next) \/ GoTo(r, "refused") \/ GoTo(r, "logoutDone")
    BY <1>3 DEF Answered, ReceiveLogin, ReceiveRefresh, RefreshRefused, RetrySucceeds, RetryFails,
                ReceiveLogout, Unheard, LoseCall
  <2>3. call[r].next # "issue" /\ call[r] \in Call
    BY CallFields DEF IInv
  <2>4. call'[r].at # "issue" /\ \A s \in Calls \ {r} : call'[s] = call[s]
    BY <1>1, <2>2, <2>3 DEF Done, GoTo, Idle, Call
  <2> QED
    BY <2>1, <2>4, Quiet
<1>4. ASSUME NEW r \in Calls, NEW t \in Tabs,
             BeginLogin(r, t) \/ BeginRefresh(r, t) \/ BeginLogout(r, t) \/ BeginLogoutExpired(r, t)
      PROVE  Kept
  <2>1. UNCHANGED tokens
    BY <1>4 DEF BeginLogin, BeginRefresh, BeginLogout, BeginLogoutExpired, Send
  <2>2. call'[r].at # "issue" /\ \A s \in Calls \ {r} : call'[s] = call[s]
    BY <1>1, <1>4 DEF BeginLogin, BeginRefresh, BeginLogout, BeginLogoutExpired, Send
  <2> QED
    BY <2>1, <2>2, Quiet
<1>5. ASSUME NEW t \in Tabs, Restore(t) \/ RefreshWithoutToken(t) PROVE Kept
  BY <1>5, Fewer DEF Restore, RefreshWithoutToken
<1>6. ASSUME NEW t \in Tabs, Reload(t) PROVE Kept
  <2>1. UNCHANGED tokens
        /\ call' = [r \in Calls |-> IF call[r].tab = t THEN [call[r] EXCEPT !.tab = None] ELSE call[r]]
    BY <1>6 DEF Reload
  <2>2. \A r \in Calls : call'[r].at = call[r].at /\ call'[r].token = call[r].token
    BY <2>1, CallFields DEF IInv, Call
  <2> QED
    BY <2>1, <2>2, Fewer
<1>7. CASE UNCHANGED vars
  BY <1>7, Fewer DEF vars
<1> QED
  BY <1>2, <1>3, <1>4, <1>5, <1>6, <1>7 DEF Next

LEMMA InductiveInvariant == Spec => []IInv
<1>1. Init => IInv
  <2>1. Init => TypeOK
    BY BoundAssumption DEF Init, TypeOK, AuthStatus, Call, Idle, Phase, Row
  <2>2. Init => OneSuccessor /\ LoginsAreIssued
    BY DEF Init, OneSuccessor, LoginsAreIssued, Idle
  <2> QED
    BY <2>1, <2>2 DEF IInv
<1>2. IInv /\ [Next]_vars => IInv'
  BY KeptStep, TypeStep DEF IInv, Kept
<1> QED
  BY <1>1, <1>2, PTL DEF Spec

(* Rotation never forks a session, however many tabs replay one token: each  *)
(* login has one usable token or one call about to issue it.                 *)
THEOREM RotationNeverForks == Spec => []OneSuccessor
<1>1. IInv => OneSuccessor
  BY DEF IInv
<1> QED
  BY <1>1, InductiveInvariant, PTL

(* A session that has ended is never revived by a call, early or late.       *)
THEOREM EndedSessionsStayEnded == Spec => OverIsOver
<1>1. IInv /\ [Next]_vars =>
        [\A k \in DOMAIN tokens : IsOver(LoginOf(k)) => IsOver(LoginOf(k))']_vars
  BY KeptStep DEF Kept, StaysOver
<1> QED
  BY <1>1, InductiveInvariant, PTL DEF Spec, OverIsOver
-----------------------------------------------------------------------------
(* The stored token works *)

(* StoredTokenWorks does not survive an answer by itself: what the browser   *)
(* is about to store must be good as well (AnswersAreNew), and the answer it *)
(* takes off the wire must not be the one another browser was waiting for    *)
(* (OneHolder).  All three end with the first fault, when a page that asked  *)
(* for a new token is no longer there to store it (TabsWait).                *)

(* The call has token g for its browser. *)
Brings(r, g) == call[r].at \in {"loginDone", "answer"} /\ call[r].got = g

Sound(k) == Live(k) \/ IsOver(LoginOf(k))
Replaced(k) == \E r \in Calls : call[r].token = k /\ call[r].at \in {"issue", "answer"}

SentWereIssued == \A r \in Calls : call[r].token \in {0} \cup DOMAIN tokens

TabsWait == \A r \in Calls : call[r].at # "idle" => call[r].tab # None

(* A token under way to its browser is sound, and no one has it yet. *)
AnswersAreNew ==
    \A r \in Calls, g \in DOMAIN tokens : Brings(r, g) =>
        /\ Sound(g)
        /\ \A b \in Browsers : stored[b] # g
        /\ \A s \in Calls : call[s].token # g
        /\ \A s \in Calls : Brings(s, g) => s = r

(* A stored token is one browser's, and so are the calls that carry it. *)
OneHolder ==
    \A b \in Browsers, k \in DOMAIN tokens : stored[b] = k =>
        /\ \A c \in Browsers : stored[c] = k => c = b
        /\ \A r \in Calls : call[r].at # "idle" /\ call[r].token = k =>
                              BrowserOf[call[r].tab] = b

StoredWork == \A b \in Browsers, k \in DOMAIN tokens : stored[b] = k => Sound(k) \/ Replaced(k)

Faultless == TabsWait /\ AnswersAreNew /\ OneHolder /\ StoredWork

SInv == SentWereIssued /\ (faults = 0 => Faultless)

LEMMA NoZero ==
    ASSUME TypeOK
    PROVE  /\ 0 \notin DOMAIN tokens /\ DOMAIN tokens \subseteq Nat
           /\ \A b \in Browsers : stored[b] \in {0} \cup DOMAIN tokens
           /\ \A r \in Calls : call[r].at \in {"loginDone", "answer"} => Brings(r, call[r].got)
           /\ \A r \in Calls : \A g : Brings(r, g) => g \in DOMAIN tokens
BY DEF TypeOK, Brings

(* What a step must leave for a sound token to stay sound. *)
LEMMA SoundStays ==
    ASSUME StaysOver, NEW k \in DOMAIN tokens, LoginOf(k)' = LoginOf(k), Sound(k),
           Live(k) => Sound(k)'
    PROVE  Sound(k)'
<1>1. CASE Live(k)
  BY <1>1
<1>2. CASE IsOver(LoginOf(k))
  <2>1. PICK f : f = LoginOf(k) /\ f = LoginOf(k)'
    OBVIOUS
  <2>2. IsOver(f)'
    BY <1>2, <2>1 DEF StaysOver
  <2> QED
    BY <2>1, <2>2 DEF Sound
<1> QED
  BY <1>1, <1>2 DEF Sound

(* A step of the server: no store changes, each call keeps its token and its *)
(* tab, and at most one brings a token, n, that is new.                      *)
LEMMA ServerKeeps ==
    ASSUME TypeOK, TypeOK', StaysOver, Faultless, UNCHANGED stored, NEW n, n \notin {0} \cup DOMAIN tokens,
           SentWereIssued,
           DOMAIN tokens \subseteq DOMAIN tokens',
           \A k \in DOMAIN tokens : LoginOf(k)' = LoginOf(k),
           \A s \in Calls : /\ call'[s].token = call[s].token
                            /\ call'[s].tab = call[s].tab
                            /\ call'[s].at # "idle" => call[s].at # "idle"
                            /\ call[s].at \in {"issue", "answer"} => call'[s].at \in {"issue", "answer"},
           \A s \in Calls : \A g : Brings(s, g)' => Brings(s, g) \/ (g = n /\ Live(n)'),
           \A s, u \in Calls : Brings(s, n)' /\ Brings(u, n)' => s = u,
           \A k \in DOMAIN tokens : Live(k) =>
               \/ Sound(k)'
               \/ \E r \in Calls : call[r].token = k /\ call'[r].at \in {"issue", "answer"}
    PROVE  Faultless'
<1>0. \A b \in Browsers, k \in DOMAIN tokens' : stored[b] = k => k \in DOMAIN tokens
  <2>1. 0 \notin DOMAIN tokens'
    BY DEF TypeOK
  <2> QED
    BY <2>1, NoZero
<1>1. TabsWait'
  BY DEF Faultless, TabsWait
<1>2. OneHolder'
  BY <1>0 DEF Faultless, OneHolder
<1>3. ASSUME NEW k \in DOMAIN tokens, Sound(k)
      PROVE  Sound(k)' \/ Replaced(k)'
  <2>1. CASE Live(k)
    BY <2>1 DEF Replaced
  <2>2. CASE ~Live(k)
    BY <1>3, <2>2, SoundStays
  <2> QED
    BY <2>1, <2>2
<1>4. \A k : Replaced(k) => Replaced(k)'
  BY DEF Replaced
<1>5. StoredWork'
  BY <1>0, <1>3, <1>4 DEF Faultless, StoredWork
<1>6. AnswersAreNew'
  <2> SUFFICES ASSUME NEW r \in Calls, NEW g \in DOMAIN tokens', Brings(r, g)'
               PROVE  /\ Sound(g)'
                      /\ \A b \in Browsers : stored[b] # g
                      /\ \A s \in Calls : call[s].token # g
                      /\ \A s \in Calls : Brings(s, g)' => s = r
    BY DEF AnswersAreNew
  <2>1. CASE g = n
    <3>1. Sound(g)'
      <4>1. Brings(r, g) => FALSE
        BY <2>1, NoZero
      <4>2. Live(n)'
        BY <4>1
      <4> QED
        BY <2>1, <4>2 DEF Sound
    <3>2. \A b \in Browsers : stored[b] # g
      BY <2>1, NoZero
    <3>3. \A s \in Calls : call[s].token # g
      BY <2>1 DEF SentWereIssued
    <3> QED
      BY <2>1, <3>1, <3>2, <3>3
  <2>2. CASE g # n
    <3>1. Brings(r, g) /\ g \in DOMAIN tokens
      BY <2>2, NoZero
    <3>2. /\ Sound(g)
          /\ \A b \in Browsers : stored[b] # g
          /\ \A s \in Calls : call[s].token # g
          /\ \A s \in Calls : Brings(s, g) => s = r
      BY <3>1 DEF Faultless, AnswersAreNew
    <3>3. Sound(g)'
      BY <1>3, <3>1, <3>2 DEF Replaced
    <3> QED
      BY <2>2, <3>2, <3>3
  <2> QED
    BY <2>1, <2>2
<1> QED
  BY <1>1, <1>2, <1>5, <1>6 DEF Faultless

(* A step that drops stored tokens or finishes calls that replace nothing. *)
LEMMA DroppingKeeps ==
    ASSUME TypeOK, TypeOK', StaysOver, Faultless, UNCHANGED tokens,
           \A b \in Browsers : stored'[b] \in {0, stored[b]},
           \A s \in Calls : call'[s] = call[s] \/ (call'[s] = Idle /\ call[s].at \notin {"issue", "answer"})
    PROVE  Faultless'
<1>0. /\ 0 \notin DOMAIN tokens
      /\ \A s \in Calls : call'[s] = call[s] \/ (/\ call'[s].at = "idle" /\ call'[s].token = 0
                                                 /\ call[s].at \notin {"issue", "answer"})
      /\ \A k \in DOMAIN tokens : LoginOf(k)' = LoginOf(k) /\ Live(k)' = Live(k)
  BY NoZero DEF Idle, LoginOf, Live
<1>1. TabsWait'
  BY <1>0 DEF Faultless, TabsWait
<1>2. OneHolder'
  BY <1>0 DEF Faultless, OneHolder
<1>3. \A k \in DOMAIN tokens : Sound(k) => Sound(k)'
  <2> SUFFICES ASSUME NEW k \in DOMAIN tokens, Sound(k) PROVE Sound(k)'
    OBVIOUS
  <2>1. Live(k) => Sound(k)'
    BY <1>0 DEF Sound
  <2> QED
    BY <1>0, <2>1, SoundStays
<1>4. \A k : Replaced(k) => Replaced(k)'
  BY <1>0 DEF Replaced
<1>5. StoredWork'
  BY <1>0, <1>3, <1>4 DEF Faultless, StoredWork
<1>6. \A s \in Calls : \A g : Brings(s, g)' => Brings(s, g)
  BY <1>0 DEF Brings
<1>7. \A s \in Calls : \A g \in DOMAIN tokens : call[s].token # g => call'[s].token # g
  BY <1>0
<1>8. AnswersAreNew'
  BY <1>0, <1>3, <1>6, <1>7 DEF Faultless, AnswersAreNew
<1> QED
  BY <1>1, <1>2, <1>5, <1>8 DEF Faultless

(* A tab sends what its browser stores, or nothing. *)
LEMMA SendKeeps ==
    ASSUME TypeOK, TypeOK', StaysOver, Faultless, NEW r \in Calls, NEW t \in Tabs,
           NEW p \in {"login", "consume", "revoke"}, NEW k \in {0, Store(t)}, NEW n,
           Send(r, t, p, k, n)
    PROVE  Faultless'
<1>0. /\ call \in [Calls -> Call] /\ call[r] = Idle
      /\ \A s \in Calls \ {r} : call'[s] = call[s]
      /\ call'[r].at = p /\ call'[r].tab = t /\ call'[r].token = k
      /\ UNCHANGED <<tokens, stored>>
      /\ t # None /\ BrowserOf[t] \in Browsers
  BY TabAssumption DEF Send, TypeOK
<1>1. /\ 0 \notin DOMAIN tokens
      /\ \A l \in DOMAIN tokens : LoginOf(l)' = LoginOf(l) /\ Live(l)' = Live(l)
  BY <1>0, NoZero DEF LoginOf, Live
<1>2. TabsWait'
  BY <1>0 DEF Faultless, TabsWait
<1>3. OneHolder'
  <2> SUFFICES ASSUME NEW b \in Browsers, NEW l \in DOMAIN tokens, stored[b] = l
               PROVE  /\ \A c \in Browsers : stored[c] = l => c = b
                      /\ \A s \in Calls : call'[s].at # "idle" /\ call'[s].token = l =>
                                            BrowserOf[call'[s].tab] = b
    BY <1>0 DEF OneHolder
  <2>1. \A c \in Browsers : stored[c] = l => c = b
    BY DEF Faultless, OneHolder
  <2>2. \A s \in Calls \ {r} : call'[s].at # "idle" /\ call'[s].token = l => BrowserOf[call'[s].tab] = b
    BY <1>0 DEF Faultless, OneHolder
  <2>3. call'[r].token = l => BrowserOf[call'[r].tab] = b
    BY <1>0, <1>1, <2>1 DEF Store
  <2> QED
    BY <2>1, <2>2, <2>3
<1>4. \A l \in DOMAIN tokens : Sound(l) => Sound(l)'
  <2> SUFFICES ASSUME NEW l \in DOMAIN tokens, Sound(l) PROVE Sound(l)'
    OBVIOUS
  <2>1. Live(l) => Sound(l)'
    BY <1>1 DEF Sound
  <2> QED
    BY <1>1, <2>1, SoundStays
<1>5. \A l : Replaced(l) => Replaced(l)'
  BY <1>0 DEF Replaced, Idle
<1>6. StoredWork'
  BY <1>0, <1>4, <1>5 DEF Faultless, StoredWork
<1>7. \A s \in Calls : \A g : Brings(s, g)' => Brings(s, g)
  BY <1>0 DEF Brings
<1>8. ASSUME NEW s \in Calls, NEW g \in DOMAIN tokens, Brings(s, g)
      PROVE  \A u \in Calls : call'[u].token # g
  <2>1. /\ \A b \in Browsers : stored[b] # g
        /\ \A u \in Calls : call[u].token # g
    BY <1>8 DEF Faultless, AnswersAreNew
  <2> QED
    BY <1>0, <1>1, <2>1 DEF Store
<1>9. AnswersAreNew'
  BY <1>0, <1>4, <1>7, <1>8 DEF Faultless, AnswersAreNew
<1> QED
  BY <1>2, <1>3, <1>6, <1>9 DEF Faultless


(* A tab stores the token its call brought, and the call goes on to p. *)
LEMMA ReceiptKeeps ==
    ASSUME TypeOK, TypeOK', StaysOver, Faultless, SentWereIssued, NEW r \in Calls, NEW g,
           Brings(r, g), UNCHANGED tokens,
           stored' = [stored EXCEPT ![BrowserOf[call[r].tab]] = g],
           \A s \in Calls \ {r} : call'[s] = call[s],
           \/ call'[r] = Idle
           \/ /\ call'[r].at \in {"retry", "revoke"}
              /\ call'[r].token = call[r].token /\ call'[r].tab = call[r].tab
    PROVE  Faultless'
<1>0. PICK t, h : t = call[r].tab /\ h = BrowserOf[t]
  OBVIOUS
<1>1. t \in Tabs /\ h \in Browsers
  <2>1. call[r].tab # None /\ call[r].tab \in Tabs \cup {None}
    BY CallFields DEF Faultless, TabsWait, Brings
  <2> QED
    BY <1>0, <2>1, TabAssumption
<1>2. /\ 0 \notin DOMAIN tokens /\ g \in DOMAIN tokens
      /\ \A b \in Browsers : stored[b] \in {0} \cup DOMAIN tokens
      /\ \A l \in DOMAIN tokens : LoginOf(l)' = LoginOf(l) /\ Live(l)' = Live(l)
  BY NoZero DEF LoginOf, Live
<1>3. /\ Sound(g)
      /\ \A b \in Browsers : stored[b] # g
      /\ \A s \in Calls : call[s].token # g
      /\ \A s \in Calls : Brings(s, g) => s = r
  BY <1>2 DEF Faultless, AnswersAreNew
<1>4. \A b \in Browsers : stored'[b] = IF b = h THEN g ELSE stored[b]
  BY <1>0, <1>1 DEF TypeOK
<1>5. \A s \in Calls : /\ s # r => call'[s] = call[s]
                       /\ s = r => /\ call'[s].at \in {"idle", "retry", "revoke"}
                                   /\ \/ call'[s].at = "idle" /\ call'[s].token = 0
                                      \/ call'[s].token = call[s].token /\ call'[s].tab = call[s].tab
  BY DEF Idle
<1>6. TabsWait'
  BY <1>0, <1>1, <1>5, TabAssumption DEF Faultless, TabsWait
<1>7. \A s \in Calls : call'[s].token # g
  BY <1>2, <1>3, <1>5
<1>8. \A l \in DOMAIN tokens : Sound(l) => Sound(l)'
  <2> SUFFICES ASSUME NEW l \in DOMAIN tokens, Sound(l) PROVE Sound(l)'
    OBVIOUS
  <2>1. Live(l) => Sound(l)'
    BY <1>2 DEF Sound
  <2> QED
    BY <1>2, <2>1, SoundStays
<1>9. OneHolder'
  <2> SUFFICES ASSUME NEW b \in Browsers, NEW l \in DOMAIN tokens, stored'[b] = l
               PROVE  /\ \A c \in Browsers : stored'[c] = l => c = b
                      /\ \A s \in Calls : call'[s].at # "idle" /\ call'[s].token = l =>
                                            BrowserOf[call'[s].tab] = b
    BY DEF OneHolder
  <2>1. CASE l = g
    BY <1>3, <1>4, <1>7, <2>1
  <2>2. CASE l # g
    <3>1. stored[b] = l /\ b # h
      BY <1>4, <2>2
    <3>2. /\ \A c \in Browsers : stored[c] = l => c = b
          /\ \A s \in Calls : call[s].at # "idle" /\ call[s].token = l => BrowserOf[call[s].tab] = b
      BY <3>1 DEF Faultless, OneHolder
    <3>3. call[r].at # "idle"
      BY DEF Brings
    <3> QED
      BY <1>2, <1>4, <1>5, <2>2, <3>2, <3>3
  <2> QED
    BY <2>1, <2>2
<1>10. StoredWork'
  <2> SUFFICES ASSUME NEW b \in Browsers, NEW l \in DOMAIN tokens, stored'[b] = l
               PROVE  Sound(l)' \/ Replaced(l)'
    BY DEF StoredWork
  <2>1. CASE l = g
    BY <1>2, <1>3, <1>8, <2>1
  <2>2. CASE l # g
    <3>1. stored[b] = l /\ b # h
      BY <1>4, <2>2
    <3>2. CASE Sound(l)
      BY <1>8, <3>2
    <3>3. CASE Replaced(l)
      <4>1. PICK s \in Calls : call[s].token = l /\ call[s].at \in {"issue", "answer"}
        BY <3>3 DEF Replaced
      <4>2. BrowserOf[call[s].tab] = b
        BY <3>1, <4>1 DEF Faultless, OneHolder
      <4>3. s # r
        BY <1>0, <3>1, <4>2
      <4> QED
        BY <1>5, <4>1, <4>3 DEF Replaced
    <3> QED
      BY <3>1, <3>2, <3>3 DEF Faultless, StoredWork
  <2> QED
    BY <2>1, <2>2
<1>11. \A s \in Calls : \A l : Brings(s, l)' => Brings(s, l) /\ s # r
  BY <1>5 DEF Brings
<1>12. AnswersAreNew'
  <2> SUFFICES ASSUME NEW s \in Calls, NEW l \in DOMAIN tokens, Brings(s, l)'
               PROVE  /\ Sound(l)'
                      /\ \A b \in Browsers : stored'[b] # l
                      /\ \A u \in Calls : call'[u].token # l
                      /\ \A u \in Calls : Brings(u, l)' => u = s
    BY DEF AnswersAreNew
  <2>1. Brings(s, l) /\ s # r
    BY <1>11
  <2>2. /\ Sound(l)
        /\ \A b \in Browsers : stored[b] # l
        /\ \A u \in Calls : call[u].token # l
        /\ \A u \in Calls : Brings(u, l) => u = s
    BY <2>1 DEF Faultless, AnswersAreNew
  <2>3. l # g
    BY <1>3, <2>1
  <2>4. \A b \in Browsers : stored'[b] # l
    BY <1>4, <2>2, <2>3
  <2>5. \A u \in Calls : call'[u].token # l
    BY <1>2, <1>5, <2>2
  <2> QED
    BY <1>8, <1>11, <2>2, <2>4, <2>5
<1> QED
  BY <1>6, <1>9, <1>10, <1>12 DEF Faultless

(* What was sent stays issued: a call's token is replaced by a stored one.   *)
LEMMA SentStep ==
    ASSUME IInv, IInv', SentWereIssued, [Next]_vars
    PROVE  SentWereIssued'
<1>1. call \in [Calls -> Call] /\ TypeOK
  BY DEF IInv, TypeOK
<1>2. DOMAIN tokens \subseteq DOMAIN tokens'
  <2>1. ASSUME NEW r \in Calls, IssueLogin(r) PROVE DOMAIN tokens \subseteq DOMAIN tokens'
    <3>1. PICK n : n = Len(tokens) + 1
      OBVIOUS
    <3>2. n \in Nat /\ Issue(n) /\ tokens \in Seq(Row)
      BY <1>1, <2>1, <3>1 DEF IssueLogin, TypeOK
    <3> QED
      BY <3>2, IssueFacts
  <2>2. ASSUME NEW r \in Calls, IssueRefresh(r) PROVE DOMAIN tokens \subseteq DOMAIN tokens'
    <3>1. PICK f : f = LoginOf(call[r].token)
      OBVIOUS
    <3>2. call[r].token \in DOMAIN tokens /\ tokens \in Seq(Row) /\ Issue(f)
      BY <1>1, <2>2, <3>1 DEF IssueRefresh, TypeOK
    <3>3. tokens[call[r].token] \in Row
      BY <3>2
    <3>4. f \in Nat
      BY <3>1, <3>3 DEF LoginOf, Row
    <3> QED
      BY <3>2, <3>4, IssueFacts
  <2>3. ASSUME NEW r \in Calls, Consume(r) \/ RevokeByHash(r) \/ RevokeAllForUser(r)
        PROVE  DOMAIN tokens \subseteq DOMAIN tokens'
    BY <1>1, <2>3 DEF Consume, RevokeByHash, RevokeAllForUser, TypeOK
  <2>4. ASSUME UNCHANGED tokens PROVE DOMAIN tokens \subseteq DOMAIN tokens'
    BY <2>4
  <2>5. \/ \E r \in Calls : Server(r)
        \/ UNCHANGED tokens
    BY DEF Next, Answered, ReceiveLogin, ReceiveRefresh, RefreshRefused, RetrySucceeds, RetryFails,
           ReceiveLogout, Unheard, LoseCall, BeginLogin, BeginRefresh, BeginLogout,
           BeginLogoutExpired, Send, Restore, RefreshWithoutToken, Reload, vars
  <2> QED
    BY <2>1, <2>2, <2>3, <2>4, <2>5 DEF Server
<1>3. \A r \in Calls : call'[r].token \in {0} \cup DOMAIN tokens
  <2>1. \A r \in Calls : Idle.token = 0 /\ call[r].token \in {0} \cup DOMAIN tokens
    BY DEF SentWereIssued, Idle
  <2>2. ASSUME NEW r \in Calls, Server(r) \/ Answered(r) \/ LoseCall(r)
        PROVE  \A s \in Calls : call'[s].token \in {call[s].token, 0}
    <3>1. \/ Done(r)
          \/ \E p, g : call' = [call EXCEPT ![r].at = p, ![r].got = g]
          \/ \E p : GoTo(r, p)
      BY <2>2 DEF Server, IssueLogin, Consume, IssueRefresh, RevokeByHash, RevokeAllForUser,
                  Answered, ReceiveLogin, ReceiveRefresh, RefreshRefused, RetrySucceeds, RetryFails,
                  ReceiveLogout, Unheard, LoseCall
    <3>2. CASE Done(r)
      BY <1>1, <2>1, <3>2 DEF Done
    <3>3. CASE \E p, g : call' = [call EXCEPT ![r].at = p, ![r].got = g]
      BY <1>1, <3>3 DEF Call
    <3>4. CASE \E p : GoTo(r, p)
      BY <1>1, <3>4 DEF GoTo, Call
    <3> QED
      BY <3>1, <3>2, <3>3, <3>4
  <2>3. ASSUME NEW r \in Calls, NEW t \in Tabs,
               BeginLogin(r, t) \/ BeginRefresh(r, t) \/ BeginLogout(r, t) \/ BeginLogoutExpired(r, t)
        PROVE  \A s \in Calls : call'[s].token \in {call[s].token, 0, Store(t)}
    BY <1>1, <2>3 DEF BeginLogin, BeginRefresh, BeginLogout, BeginLogoutExpired, Send
  <2>4. \A t \in Tabs : Store(t) \in {0} \cup DOMAIN tokens
    BY <1>1, NoZero, TabAssumption DEF Store
  <2>5. ASSUME NEW t \in Tabs, Restore(t) \/ RefreshWithoutToken(t) \/ Reload(t)
        PROVE  \A s \in Calls : call'[s].token = call[s].token
    BY <1>1, <2>5 DEF Restore, RefreshWithoutToken, Reload, Call
  <2>6. CASE UNCHANGED vars
    BY <2>1, <2>6 DEF vars
  <2> QED
    BY <2>1, <2>2, <2>3, <2>4, <2>5, <2>6 DEF Next
<1> QED
  BY <1>2, <1>3 DEF SentWereIssued


(* Consumption and revocation: what dies is being replaced, or its chain was *)
(* the token's alone and is over.                                            *)
LEMMA DeathKeeps ==
    ASSUME IInv, IInv', Kept, Faultless, SentWereIssued, NEW r \in Calls,
           Consume(r) \/ RevokeByHash(r) \/ RevokeAllForUser(r)
    PROVE  Faultless'
<1>0. PICK k, n : k = call[r].token /\ n = Len(tokens) + 1
  OBVIOUS
<1>1. call \in [Calls -> Call] /\ tokens \in Seq(Row) /\ TypeOK /\ TypeOK'
  BY DEF IInv, TypeOK
<1>2. n \notin {0} \cup DOMAIN tokens
  BY <1>0, <1>1
<1>3. UNCHANGED stored /\ \E p \in {"issue", "refused", "revokeAll", "logoutDone"} : GoTo(r, p)
  BY DEF Consume, RevokeByHash, RevokeAllForUser
<1>4. call[r].at \in {"consume", "revoke", "revokeAll"}
  BY DEF Consume, RevokeByHash, RevokeAllForUser
<1>5. \A s \in Calls : /\ call'[s].token = call[s].token
                       /\ call'[s].tab = call[s].tab
                       /\ call'[s].got = call[s].got
                       /\ s # r => call'[s].at = call[s].at
                       /\ s = r => call'[s].at \notin {"loginDone", "answer", "idle"}
  BY <1>1, <1>3 DEF GoTo, Call
<1>6. call[r].at \in {"consume", "revoke"} => k \in DOMAIN tokens
  BY <1>0, <1>1 DEF TypeOK
<1>7. /\ DOMAIN tokens' = DOMAIN tokens
      /\ \A l \in DOMAIN tokens : /\ tokens'[l].login = tokens[l].login
                                  /\ tokens'[l].live => tokens[l].live
  <2>1. CASE Consume(r)
    <3>1. UNCHANGED tokens \/ tokens' = [tokens EXCEPT ![k].live = FALSE]
      BY <1>0, <2>1 DEF Consume
    <3>2. k \in DOMAIN tokens
      BY <1>6, <2>1 DEF Consume
    <3> QED
      BY <1>1, <3>1, <3>2, RevokeOne
  <2>2. CASE RevokeByHash(r)
    BY <1>0, <1>1, <1>6, <2>2, RevokeOne DEF RevokeByHash
  <2>3. CASE RevokeAllForUser(r)
    BY <1>1, <2>3, RevokeAll DEF RevokeAllForUser
  <2> QED
    BY <2>1, <2>2, <2>3
<1>8. \A l \in DOMAIN tokens : LoginOf(l)' = LoginOf(l) /\ (Live(l)' => Live(l))
  BY <1>7 DEF LoginOf, Live
<1>9. \A s \in Calls : \A g : Brings(s, g)' => Brings(s, g)
  BY <1>5 DEF Brings
<1>10. \A s \in Calls : ~Brings(s, n)
  BY <1>1, <1>2, NoZero
<1>11. ASSUME NEW l \in DOMAIN tokens, Live(l)
       PROVE  \/ Sound(l)'
              \/ \E s \in Calls : call[s].token = l /\ call'[s].at \in {"issue", "answer"}
  <2>0. PICK f : f = LoginOf(l) /\ f = LoginOf(l)'
    BY <1>8
  <2>1. CASE Consume(r)
    <3>1. CASE l = k
      <4>1. GoTo(r, "issue")
        BY <1>0, <1>11, <2>1, <3>1 DEF Consume, Consumable
      <4>2. call'[r].at = "issue"
        BY <1>1, <4>1 DEF GoTo, Call
      <4> QED
        BY <1>0, <3>1, <4>2
    <3>2. CASE l # k
      <4>1. UNCHANGED tokens \/ tokens' = [tokens EXCEPT ![k].live = FALSE]
        BY <1>0, <2>1 DEF Consume
      <4>2. tokens'[l] = tokens[l]
        BY <1>1, <3>2, <4>1
      <4> QED
        BY <1>7, <1>11, <4>2 DEF Sound, Live
    <3> QED
      BY <3>1, <3>2
  <2>2. \A s \in Calls : ~Rotating(s, f)
    BY <1>11, <2>0 DEF IInv, OneSuccessor
  <2>3. \A m \in DOMAIN tokens : Live(m) /\ LoginOf(m) = f => m = l
    BY <1>11, <2>0 DEF IInv, OneSuccessor
  <2>4. CASE RevokeByHash(r) \/ RevokeAllForUser(r)
    <3>1. \A s \in Calls : call'[s].at = "issue" => call[s].at = "issue"
      BY <1>1, <1>5, <2>4 DEF RevokeByHash, RevokeAllForUser, GoTo, Call
    <3>2. \A s \in Calls : call[s].at = "issue" => call[s].token \in DOMAIN tokens
      BY <1>1 DEF TypeOK
    <3>3. \A s \in Calls : ~Rotating(s, f)'
      BY <1>5, <1>8, <2>2, <3>1, <3>2 DEF Rotating, LoginOf
    <3>4. ~Live(l)' => IsOver(f)'
      BY <1>7, <1>8, <2>3, <3>3 DEF IsOver
    <3> QED
      BY <2>0, <3>4 DEF Sound
  <2> QED
    BY <2>1, <2>4
<1>12. \A s \in Calls : /\ call'[s].at # "idle" => call[s].at # "idle"
                        /\ call[s].at \in {"issue", "answer"} => call'[s].at \in {"issue", "answer"}
  BY <1>4, <1>5
<1> QED
  BY <1>1, <1>2, <1>3, <1>5, <1>7, <1>8, <1>9, <1>10, <1>11, <1>12, ServerKeeps DEF Kept

(* A new token is sound, and the call that issued it has it to itself. *)
LEMMA BirthKeeps ==
    ASSUME IInv, IInv', Kept, Faultless, SentWereIssued, NEW r \in Calls,
           IssueLogin(r) \/ IssueRefresh(r)
    PROVE  Faultless'
<1>0. PICK n, f : /\ n = Len(tokens) + 1
                  /\ f = IF call[r].at = "login" THEN n ELSE LoginOf(call[r].token)
  OBVIOUS
<1>1. call \in [Calls -> Call] /\ tokens \in Seq(Row) /\ TypeOK /\ TypeOK' /\ n \in Nat
  BY <1>0 DEF IInv, TypeOK
<1>2. n \notin {0} \cup DOMAIN tokens
  BY <1>0, <1>1
<1>3. Issue(f) /\ UNCHANGED stored
  BY <1>0 DEF IssueLogin, IssueRefresh
<1>4. f \in Nat
  <2>1. CASE call[r].at = "login"
    BY <1>0, <1>1, <2>1
  <2>2. CASE IssueRefresh(r)
    <3>1. call[r].token \in DOMAIN tokens
      BY <1>1, <2>2 DEF TypeOK, IssueRefresh
    <3>2. tokens[call[r].token] \in Row
      BY <1>1, <3>1
    <3> QED
      BY <1>0, <1>1, <3>2 DEF LoginOf, Row
  <2> QED
    BY <2>1, <2>2 DEF IssueLogin
<1>5. /\ DOMAIN tokens' = DOMAIN tokens \cup {n}
      /\ \A k \in DOMAIN tokens : k # n /\ tokens'[k] = tokens[k]
      /\ tokens'[n] = [live |-> TRUE, login |-> f]
  BY <1>0, <1>1, <1>3, <1>4, IssueFacts
<1>6. /\ \A k \in DOMAIN tokens : LoginOf(k)' = LoginOf(k) /\ (Live(k) => Live(k)')
      /\ Live(n)'
  BY <1>5 DEF LoginOf, Live
<1>7. \E p \in {"loginDone", "answer"} : /\ call' = [call EXCEPT ![r].at = p, ![r].got = n]
                                         /\ call[r].at = IF p = "answer" THEN "issue" ELSE "login"
  BY <1>0 DEF IssueLogin, IssueRefresh
<1>8. \A s \in Calls : /\ call'[s].token = call[s].token
                       /\ call'[s].tab = call[s].tab
                       /\ s # r => call'[s] = call[s]
                       /\ s = r => call'[s].got = n /\ call[s].at # "idle"
                       /\ call[s].at \in {"issue", "answer"} => call'[s].at \in {"issue", "answer"}
  BY <1>1, <1>7 DEF Call
<1>9. \A s \in Calls : \A g : Brings(s, g)' => Brings(s, g) \/ (g = n /\ Live(n)')
  BY <1>6, <1>8 DEF Brings
<1>10. \A s \in Calls : s # r => ~Brings(s, n)'
  <2>1. \A s \in Calls : ~Brings(s, n)
    BY <1>1, <1>2, NoZero
  <2> QED
    BY <1>8, <2>1 DEF Brings
<1>11. \A k \in DOMAIN tokens : Live(k) => Sound(k)'
  BY <1>6 DEF Sound
<1> QED
  BY <1>1, <1>2, <1>3, <1>5, <1>6, <1>8, <1>9, <1>10, <1>11, ServerKeeps DEF Kept

LEMMA FaultlessStep ==
    ASSUME IInv, IInv', Kept, SInv, [Next]_vars, faults' = 0
    PROVE  Faultless'
<1>1. TypeOK /\ TypeOK' /\ StaysOver /\ SentWereIssued /\ faults \in Nat
  BY BoundAssumption DEF IInv, Kept, SInv, TypeOK
<1>2. faults = 0 /\ faults' # faults + 1
  <2>1. ASSUME NEW r \in Calls, Server(r) \/ Answered(r) \/ LoseCall(r)
        PROVE  faults' \in {faults, faults + 1}
    BY <2>1 DEF Server, IssueLogin, Consume, IssueRefresh, RevokeByHash, RevokeAllForUser, Answered,
                ReceiveLogin, ReceiveRefresh, RefreshRefused, RetrySucceeds, RetryFails,
                ReceiveLogout, Unheard, LoseCall
  <2>2. ASSUME NEW r \in Calls, NEW t \in Tabs,
               BeginLogin(r, t) \/ BeginRefresh(r, t) \/ BeginLogout(r, t) \/ BeginLogoutExpired(r, t)
        PROVE  faults' \in {faults, faults + 1}
    BY <2>2 DEF BeginLogin, BeginRefresh, BeginLogout, BeginLogoutExpired, Send
  <2>3. ASSUME NEW t \in Tabs, Restore(t) \/ RefreshWithoutToken(t) \/ Reload(t)
        PROVE  faults' \in {faults, faults + 1}
    BY <2>3 DEF Restore, RefreshWithoutToken, Reload
  <2>4. faults' \in {faults, faults + 1}
    BY <2>1, <2>2, <2>3 DEF Next, vars
  <2> QED
    BY <1>1, <2>4
<1>3. Faultless /\ call \in [Calls -> Call]
  BY <1>2 DEF SInv, IInv, TypeOK
<1>4. ASSUME NEW r \in Calls, Server(r) PROVE Faultless'
  BY <1>1, <1>3, <1>4, DeathKeeps, BirthKeeps DEF Server
<1>5. ASSUME NEW r \in Calls, ReceiveLogin(r) \/ ReceiveRefresh(r) PROVE Faultless'
  <2>1. PICK g : g = call[r].got
    OBVIOUS
  <2>2. /\ Brings(r, g) /\ UNCHANGED tokens
        /\ stored' = [stored EXCEPT ![BrowserOf[call[r].tab]] = g]
        /\ Done(r) \/ GoTo(r, call[r].next)
    BY <1>5, <2>1 DEF ReceiveLogin, ReceiveRefresh, SaveRefreshed, Save, Heard, Brings
  <2>3. call[r].next \in {"retry", "revoke"} /\ call[r] \in Call
    BY <1>3 DEF Call
  <2>4. /\ \A s \in Calls \ {r} : call'[s] = call[s]
        /\ \/ call'[r] = Idle
           \/ /\ call'[r].at \in {"retry", "revoke"}
              /\ call'[r].token = call[r].token /\ call'[r].tab = call[r].tab
    BY <1>3, <2>2, <2>3 DEF Done, GoTo, Call
  <2> QED
    BY <1>1, <1>3, <2>2, <2>4, ReceiptKeeps
<1>6. ASSUME NEW r \in Calls, RefreshRefused(r) \/ RetrySucceeds(r) \/ ReceiveLogout(r) \/ Unheard(r)
      PROVE  Faultless'
  <2>1. /\ UNCHANGED tokens /\ Done(r)
        /\ UNCHANGED stored \/ ClearLocalSession(call[r].tab)
    BY <1>6 DEF RefreshRefused, RetrySucceeds, ReceiveLogout, Unheard
  <2>2. call[r].at # "idle" /\ call[r].at # "issue"
    BY <1>6 DEF RefreshRefused, RetrySucceeds, ReceiveLogout, Unheard, Heard
  <2>3. call[r].at # "answer"
    BY <1>3, <1>6, <2>2 DEF RefreshRefused, RetrySucceeds, ReceiveLogout, Unheard, Heard, Faultless, TabsWait
  <2>4. \A b \in Browsers : stored'[b] \in {0, stored[b]}
    BY <1>1, <2>1 DEF ClearLocalSession, TypeOK
  <2>5. \A s \in Calls : call'[s] = call[s] \/ (call'[s] = Idle /\ call[s].at \notin {"issue", "answer"})
    BY <1>3, <2>1, <2>2, <2>3 DEF Done
  <2> QED
    BY <1>1, <1>3, <2>1, <2>4, <2>5, DroppingKeeps
<1>7. ASSUME NEW r \in Calls, RetryFails(r) \/ LoseCall(r) PROVE FALSE
  BY <1>2, <1>7 DEF RetryFails, LoseCall
<1>8. ASSUME NEW r \in Calls, NEW t \in Tabs,
             BeginLogin(r, t) \/ BeginRefresh(r, t) \/ BeginLogout(r, t) \/ BeginLogoutExpired(r, t)
      PROVE  Faultless'
  <2>1. PICK p \in {"login", "consume", "revoke"}, n \in {"retry", "revoke"}, k \in {0, Store(t)} :
           Send(r, t, p, k, n)
    BY <1>8 DEF BeginLogin, BeginRefresh, BeginLogout, BeginLogoutExpired
  <2> QED
    BY <1>1, <1>3, <2>1, SendKeeps
<1>9. ASSUME NEW t \in Tabs, Restore(t) \/ RefreshWithoutToken(t) PROVE Faultless'
  <2>1. UNCHANGED <<tokens, call>> /\ (UNCHANGED stored \/ ClearLocalSession(t))
    BY <1>9 DEF Restore, RefreshWithoutToken
  <2>2. \A b \in Browsers : stored'[b] \in {0, stored[b]}
    BY <1>1, <2>1 DEF ClearLocalSession, TypeOK
  <2> QED
    BY <1>1, <1>3, <2>1, <2>2, DroppingKeeps
<1>10. ASSUME NEW t \in Tabs, Reload(t) PROVE FALSE
  BY <1>2, <1>10 DEF Reload
<1>11. CASE UNCHANGED vars
  BY <1>1, <1>3, <1>11, DroppingKeeps DEF vars
<1> QED
  BY <1>4, <1>5, <1>6, <1>7, <1>8, <1>9, <1>10, <1>11 DEF Next, Answered

(* Until the first fault a browser is never left with a dead token while its *)
(* session lives on: what it stores is usable, being replaced, or over.      *)
THEOREM StoredTokensWork == Spec => []StoredTokenWorks
<1>1. Init => SInv
  BY DEF Init, SInv, Faultless, SentWereIssued, TabsWait, AnswersAreNew, OneHolder, StoredWork, Idle
<1>2. IInv /\ IInv' /\ SInv /\ [Next]_vars => SInv'
  BY KeptStep, SentStep, FaultlessStep DEF SInv
<1>3. IInv /\ SInv => StoredTokenWorks
  <2> SUFFICES ASSUME IInv, SInv, NEW b \in Browsers, NEW k, k = stored[b], faults = 0, k # 0
               PROVE  Sound(k) \/ Replaced(k)
    BY DEF StoredTokenWorks, Sound, Replaced
  <2>1. k \in DOMAIN tokens
    BY NoZero DEF IInv
  <2> QED
    BY <2>1 DEF SInv, Faultless, StoredWork
<1> QED
  BY <1>1, <1>2, <1>3, InductiveInvariant, PTL DEF Spec
=============================================================================
