------------------------------- MODULE Sessions --------------------------------
(***************************************************************************)
(* Refresh sessions of one account: the refresh_tokens table and the       *)
(* handlers of auth.service.ts on one side, the browsers of the user on    *)
(* the other.  The tabs of a browser share one token store (localStorage); *)
(* each tab has its own AuthService and interceptor.                       *)
(*                                                                         *)
(* call[r] is one HTTP exchange: what the tab sent, how far the server is  *)
(* with it, and what the tab does with the answer.  The server takes one   *)
(* SQL statement at a time, so exchanges interleave between statements.    *)
(***************************************************************************)
EXTENDS Naturals, Sequences, FiniteSets

CONSTANTS
    Browsers,    \* token stores
    Tabs,        \* tabs, of all browsers
    BrowserOf,   \* BrowserOf[t]: the browser tab t belongs to
    Calls,       \* the exchanges that may be under way at once
    None,        \* the tab that sent a call is gone
    MaxTokens,   \* bound: refresh tokens issued in a behaviour
    MaxFaults    \* bound: lost calls, failing retries and reloads

ASSUME TabAssumption == BrowserOf \in [Tabs -> Browsers] /\ None \notin Tabs
ASSUME BoundAssumption == MaxTokens \in Nat /\ MaxFaults \in Nat

VARIABLES
    tokens,   \* refresh_tokens: is the row usable, and which login began its chain
    stored,   \* stored[b]: the refresh token in the browser's store, 0 when none
    view,     \* view[t]: AuthStatus of the tab
    call,     \* call[r]: exchange r
    faults    \* how many faults happened

vars == <<tokens, stored, view, call, faults>>

-----------------------------------------------------------------------------

AuthStatus == {"unknown", "authenticated", "anonymous"}

(* "consume" and "issue" are the two writes of refresh(), "revoke" and       *)
(* "revokeAll" those of logout(); the tab has yet to see "loginDone",        *)
(* "answer", "refused" and "logoutDone"; "retry" is the request that was     *)
(* refused with 401, sent again with the new access token.                   *)
Refreshing == {"consume", "issue", "answer", "refused"}
Phase == {"idle", "login", "loginDone", "retry", "revoke", "revokeAll", "logoutDone"}
         \cup Refreshing

(* token is the refresh token in the body, got the one in the answer.  A     *)
(* refresh is made for a request ("retry") or for a logout ("revoke") that   *)
(* was answered 401, and that is sent again afterwards.                      *)
Call == [at : Phase, tab : Tabs \cup {None}, token : Nat, got : Nat,
         next : {"retry", "revoke"}]
Idle == [at |-> "idle", tab |-> None, token |-> 0, got |-> 0, next |-> "retry"]

Row == [live : BOOLEAN, login : Nat]
Live(k) == k \in DOMAIN tokens /\ tokens[k].live
LoginOf(k) == tokens[k].login
Store(t) == stored[BrowserOf[t]]

Save(t, k) == /\ stored' = [stored EXCEPT ![BrowserOf[t]] = k]
              /\ view' = [view EXCEPT ![t] = "authenticated"]

ClearLocalSession(t) == /\ stored' = [stored EXCEPT ![BrowserOf[t]] = 0]
                        /\ view' = [view EXCEPT ![t] = "anonymous"]

Send(r, t, phase, k, next) ==
    /\ call[r] = Idle
    /\ call' = [call EXCEPT ![r] = [at |-> phase, tab |-> t, token |-> k, got |-> 0,
                                    next |-> next]]
    /\ UNCHANGED <<tokens, stored, view, faults>>

GoTo(r, phase) == call' = [call EXCEPT ![r].at = phase]
Done(r) == call' = [call EXCEPT ![r] = Idle]

(* issueSession: the row is inserted before the answer is sent. *)
Issue(login) == tokens' = Append(tokens, [live |-> TRUE, login |-> login])

(* Bound: the calls under way may not issue more than MaxTokens. *)
Room == Len(tokens) + Cardinality({r \in Calls : call[r].at \in {"login", "consume", "issue"}})
            < MaxTokens

(* The answer has come, and the page that sent the request is still there. *)
Heard(r, phase) == call[r].at = phase /\ call[r].tab # None

-----------------------------------------------------------------------------
Init == /\ tokens = << >>
        /\ stored = [b \in Browsers |-> 0]
        /\ view = [t \in Tabs |-> "unknown"]
        /\ call = [r \in Calls |-> Idle]
        /\ faults = 0

-----------------------------------------------------------------------------
(* Login, or registration, which answers with a session as well.  The guards *)
(* keep a tab that is not anonymous off the pages of both.                   *)

BeginLogin(r, t) == /\ view[t] = "anonymous"
                    /\ Room
                    /\ Send(r, t, "login", 0, "retry")

IssueLogin(r) ==
    /\ call[r].at = "login"
    /\ Issue(Len(tokens) + 1)
    /\ call' = [call EXCEPT ![r].at = "loginDone", ![r].got = Len(tokens) + 1]
    /\ UNCHANGED <<stored, view, faults>>

ReceiveLogin(r) ==
    /\ Heard(r, "loginDone")
    /\ Save(call[r].tab, call[r].got)
    /\ Done(r)
    /\ UNCHANGED <<tokens, faults>>

-----------------------------------------------------------------------------
(* restoreSession, and the refresh that follows a 401.                       *)

(* The stored access token is still good, or there is nothing to restore. *)
Restore(t) ==
    /\ view[t] = "unknown"
    /\ view' = [view EXCEPT ![t] = IF Store(t) = 0 THEN "anonymous" ELSE "authenticated"]
    /\ UNCHANGED <<tokens, stored, call, faults>>

(* refreshTokensShared: a tab has at most one refresh under way. *)
IsRefreshing(t) == \E r \in Calls : call[r].tab = t /\ call[r].at \in Refreshing

(* Some request of the tab is answered 401, or GET /auth/me is. *)
BeginRefresh(r, t) ==
    /\ view[t] # "anonymous"
    /\ ~IsRefreshing(t)
    /\ Store(t) # 0
    /\ Room
    /\ Send(r, t, "consume", Store(t), "retry")

(* There is no token to refresh with: another tab has dropped it. *)
RefreshWithoutToken(t) ==
    /\ view[t] = "authenticated"
    /\ ~IsRefreshing(t)
    /\ Store(t) = 0
    /\ ClearLocalSession(t)
    /\ UNCHANGED <<tokens, call, faults>>

(* Mutant: the row is read and then revoked, whoever revoked it meanwhile. *)
ConsumesAny(k) == k \in DOMAIN tokens

(* UPDATE ... WHERE revoked_at IS NULL: whoever changes the row may go on. *)
Consumable(k) == Live(k)

Consume(r) ==
    LET k == call[r].token IN
    /\ call[r].at = "consume"
    /\ IF Consumable(k)
       THEN /\ tokens' = [tokens EXCEPT ![k].live = FALSE]
            /\ GoTo(r, "issue")
       ELSE /\ UNCHANGED tokens
            /\ GoTo(r, "refused")
    /\ UNCHANGED <<stored, view, faults>>

IssueRefresh(r) ==
    /\ call[r].at = "issue"
    /\ Issue(LoginOf(call[r].token))
    /\ call' = [call EXCEPT ![r].at = "answer", ![r].got = Len(tokens) + 1]
    /\ UNCHANGED <<stored, view, faults>>

(* Mutant: the access token is replaced and the refresh token is not. *)
KeepsRefreshToken(t, k) == /\ stored' = stored
                           /\ view' = [view EXCEPT ![t] = "authenticated"]

SaveRefreshed(t, k) == Save(t, k)

(* The answer replaces the stored pair and the request is sent again: a      *)
(* logout with its old body and the new access token.                        *)
ReceiveRefresh(r) ==
    /\ Heard(r, "answer")
    /\ SaveRefreshed(call[r].tab, call[r].got)
    /\ GoTo(r, call[r].next)
    /\ UNCHANGED <<tokens, faults>>

RefreshRefused(r) ==
    /\ Heard(r, "refused")
    /\ ClearLocalSession(call[r].tab)
    /\ Done(r)
    /\ UNCHANGED <<tokens, faults>>

RetrySucceeds(r) ==
    /\ Heard(r, "retry")
    /\ Done(r)
    /\ UNCHANGED <<tokens, stored, view, faults>>

(* The interceptor's catchError covers the retried request as well. *)
RetryFails(r) ==
    /\ Heard(r, "retry")
    /\ faults < MaxFaults
    /\ faults' = faults + 1
    /\ ClearLocalSession(call[r].tab)
    /\ Done(r)
    /\ UNCHANGED tokens

-----------------------------------------------------------------------------
(* Logout, with the stored refresh token in the body. *)

BeginLogout(r, t) ==
    /\ view[t] = "authenticated"
    /\ Store(t) # 0
    /\ Send(r, t, "revoke", Store(t), "retry")

(* optionalAuth answers 401 to an access token that expired. *)
BeginLogoutExpired(r, t) ==
    /\ view[t] = "authenticated"
    /\ Store(t) # 0
    /\ ~IsRefreshing(t)
    /\ Room
    /\ Send(r, t, "consume", Store(t), "revoke")

RevokeByHash(r) ==
    /\ call[r].at = "revoke"
    /\ tokens' = [tokens EXCEPT ![call[r].token].live = FALSE]
    /\ GoTo(r, "revokeAll")
    /\ UNCHANGED <<stored, view, faults>>

RevokeAllForUser(r) ==
    /\ call[r].at = "revokeAll"
    /\ tokens' = [k \in DOMAIN tokens |-> [tokens[k] EXCEPT !.live = FALSE]]
    /\ GoTo(r, "logoutDone")
    /\ UNCHANGED <<stored, view, faults>>

ReceiveLogout(r) ==
    /\ Heard(r, "logoutDone")
    /\ ClearLocalSession(call[r].tab)
    /\ Done(r)
    /\ UNCHANGED <<tokens, faults>>

-----------------------------------------------------------------------------
(* Faults *)

(* The call fails at the network or in the server, before its next step or   *)
(* with its answer: a refresh counts as refused, a logout clears the tab.    *)
LoseCall(r) ==
    /\ call[r].at \in {"login", "loginDone", "consume", "issue", "answer", "revoke", "revokeAll"}
    /\ faults < MaxFaults
    /\ faults' = faults + 1
    /\ CASE call[r].at \in {"login", "loginDone"} -> Done(r)
         [] call[r].at \in {"consume", "issue", "answer"} -> GoTo(r, "refused")
         [] call[r].at \in {"revoke", "revokeAll"} -> GoTo(r, "logoutDone")
    /\ UNCHANGED <<tokens, stored, view>>

(* The page is reloaded: the server goes on with what the tab sent, and      *)
(* nobody waits for the answers.                                             *)
Reload(t) ==
    /\ faults < MaxFaults
    /\ faults' = faults + 1
    /\ view' = [view EXCEPT ![t] = "unknown"]
    /\ call' = [r \in Calls |-> IF call[r].tab = t THEN [call[r] EXCEPT !.tab = None] ELSE call[r]]
    /\ UNCHANGED <<tokens, stored>>

Unheard(r) ==
    /\ call[r].at \in {"loginDone", "answer", "refused", "retry", "logoutDone"}
    /\ call[r].tab = None
    /\ Done(r)
    /\ UNCHANGED <<tokens, stored, view, faults>>

-----------------------------------------------------------------------------
Server(r) == \/ IssueLogin(r) \/ Consume(r) \/ IssueRefresh(r)
             \/ RevokeByHash(r) \/ RevokeAllForUser(r)

Answered(r) == \/ ReceiveLogin(r) \/ ReceiveRefresh(r) \/ RefreshRefused(r)
               \/ RetrySucceeds(r) \/ RetryFails(r) \/ ReceiveLogout(r)
               \/ Unheard(r)

Next == \/ \E r \in Calls : \/ Server(r) \/ Answered(r) \/ LoseCall(r)
                           \/ \E t \in Tabs : \/ BeginLogin(r, t) \/ BeginRefresh(r, t)
                                              \/ BeginLogout(r, t) \/ BeginLogoutExpired(r, t)
        \/ \E t \in Tabs : Restore(t) \/ RefreshWithoutToken(t) \/ Reload(t)

Spec == Init /\ [][Next]_vars

-----------------------------------------------------------------------------
(* Properties *)

(* Every variable stays in its type, and a call that is rotating a token     *)
(* names one that was issued.                                                *)
TypeOK ==
    /\ tokens \in Seq(Row)
    /\ stored \in [Browsers -> {0} \cup DOMAIN tokens]
    /\ view \in [Tabs -> AuthStatus]
    /\ call \in [Calls -> Call]
    /\ \A r \in Calls : call[r].at \in {"consume", "issue", "answer", "revoke"} =>
                          call[r].token \in DOMAIN tokens
    /\ \A r \in Calls : call[r].at \in {"loginDone", "answer"} => call[r].got \in DOMAIN tokens
    /\ faults \in 0..MaxFaults

Rotating(r, f) == call[r].at = "issue" /\ LoginOf(call[r].token) = f
IsOver(f) == /\ \A k \in DOMAIN tokens : LoginOf(k) = f => ~Live(k)
             /\ \A r \in Calls : ~Rotating(r, f)

(* docs/API.md:181, docs/SECURITY.md:64: the token is consumed before its    *)
(* successor is issued, so replaying it from several tabs never forks the    *)
(* session: each login has one usable token, or one call about to issue it.  *)
OneSuccessor ==
    /\ \A k1, k2 \in DOMAIN tokens :
          Live(k1) /\ Live(k2) /\ LoginOf(k1) = LoginOf(k2) => k1 = k2
    /\ \A r1, r2 \in Calls :
          call[r1].at = "issue" /\ Rotating(r2, LoginOf(call[r1].token)) => r1 = r2
    /\ \A k \in DOMAIN tokens, r \in Calls : Live(k) => ~Rotating(r, LoginOf(k))

(* A session that is over stays over: once no token of a login is usable and *)
(* no call is replacing one, nothing sent before or later revives it.        *)
OverIsOver ==
    [][\A k \in DOMAIN tokens : IsOver(LoginOf(k)) => IsOver(LoginOf(k))']_vars

(* As long as no call is lost and no page reloaded, a browser is not left    *)
(* with a dead token while its session lives on elsewhere: the token it      *)
(* stores is usable, or being replaced, or its session is over.              *)
StoredTokenWorks ==
    \A b \in Browsers :
        LET k == stored[b] IN
        faults = 0 /\ k # 0 =>
            \/ Live(k)
            \/ IsOver(LoginOf(k))
            \/ \E r \in Calls : call[r].token = k /\ call[r].at \in {"issue", "answer"}
=============================================================================
