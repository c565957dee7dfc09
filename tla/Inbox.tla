--------------------------------- MODULE Inbox ---------------------------------
(***************************************************************************)
(* The reader's side of Notifications: one page of the web app, whoever is *)
(* signed in on it, with the badge of the header (NotificationService and  *)
(* the App shell) and the inbox screen (NotificationsComponent).           *)
(*                                                                         *)
(* A call is served by the server in one step and answered in another, in  *)
(* any order.  Leaving the screen unsubscribes from its own calls, which   *)
(* the server serves all the same; the calls of the shell and of the badge *)
(* outlive the session that made them.  A session ends by a logout, which  *)
(* leaves the screen, or when a call is refused and the tokens cannot be   *)
(* refreshed: then the screen stays, with nobody signed in.                *)
(***************************************************************************)
EXTENDS Notifications

CONSTANTS
    Readers,  \* the accounts that use this page
    None,     \* nobody is signed in
    MaxCalls, \* bound: calls under way, and one count more
    MaxMarks  \* bound: calls among them that mark something as read

ASSUME ReadersAssumption == Readers \subseteq Users /\ None \notin Users
ASSUME CallsAssumption == MaxCalls \in Nat \ {0} /\ MaxMarks \in Nat

VARIABLES
    who,     \* who is signed in
    reader,  \* who is signed in or, if nobody is, who was last
    badge,   \* NotificationService.unreadCount
    calls,   \* the calls under way
    status,  \* the inbox screen: "away" when it is not open
    items,   \* the ids it shows
    unread   \* those of them it shows as unread

screen == <<status, items, unread>>
client == <<who, reader, badge, calls, screen>>
vars == <<server, faults, client>>

-----------------------------------------------------------------------------
(* from: whose answer it is; "nobody" when the subscriber has gone.        *)
Call(op, from, i) ==
    [op |-> op, from |-> from, by |-> who, row |-> i, done |-> FALSE, items |-> {}, unread |-> {}]

Counts == {c \in calls : c.op = "count"}
CanCount(cs) == Cardinality(cs) < MaxCalls \/ cs \cap Counts = {}

Asks(call) == Cardinality(calls) < MaxCalls /\ calls' = calls \cup {call}
Marks(call) == /\ Cardinality({c \in calls : c.op \in {"markRead", "markAll"}}) < MaxMarks
               /\ Asks(call)
Polls(u) == /\ CanCount(calls)
            /\ calls' = calls \cup {[Call("count", "badge", 0) EXCEPT !.by = u]}

InboxInit == /\ ServerInit
             /\ who = None
             /\ reader = None
             /\ badge = 0
             /\ calls = {}
             /\ status = "away"
             /\ items = {}
             /\ unread = {}

NoServer == UNCHANGED <<server, faults>>

-----------------------------------------------------------------------------
(* The effect of the App shell: polling starts with a count at once.  The  *)
(* forms that sign somebody in are screens of their own; only a refresh    *)
(* that was under way when the session ended brings it back where it was.  *)
StartPolling(u) ==
    /\ who = None
    /\ status = "away" \/ u = reader
    /\ who' = u
    /\ reader' = u
    /\ Polls(u)
    /\ UNCHANGED <<badge, screen>>
    /\ NoServer

(* Mutant: no takeUntilDestroyed. *)
StillSubscribed(cs) == cs

(* The calls of the screen when the screen goes: those that are to mark    *)
(* something still reach the server, and nobody waits for any.             *)
ToMark(c) == c.op # "list" /\ ~c.done /\ c.by # None
Unsubscribed(cs) == {c \in cs : c.from # "page"}
                      \cup {[c EXCEPT !.from = "nobody"] : c \in {d \in cs : d.from = "page" /\ ToMark(d)}}
LeaveScreen(cs) == /\ calls' = Unsubscribed(cs)
                   /\ status' = "away"
                   /\ items' = {}
                   /\ unread' = {}

(* clearLocalSession, and the effect of the shell that sees it. *)
ClearLocalSession == /\ who' = None
                     /\ badge' = IF who = None THEN badge ELSE 0
                     /\ UNCHANGED reader

Logout == /\ who # None
          /\ ClearLocalSession
          /\ LeaveScreen(calls)
          /\ NoServer

(* Any other screen; what the panel shows as read is left for at once.     *)
Leave == /\ status # "away"
         /\ LeaveScreen(calls)
         /\ UNCHANGED <<who, reader, badge>>
         /\ NoServer

(* Mutant: a badge at zero is not refreshed. *)
RefreshWhileUnread == /\ who # None /\ badge > 0
                      /\ Polls(who)
                      /\ UNCHANGED <<who, reader, badge, screen>>
                      /\ NoServer

(* The timer: one count a minute while somebody is signed in. *)
RefreshUnreadCount == /\ who # None
                      /\ Polls(who)
                      /\ UNCHANGED <<who, reader, badge, screen>>
                      /\ NoServer

(* Opening the screen, the filter, the pages and retry all load; the open  *)
(* screen does so whether or not there is a session left.                  *)
Load == /\ who # None \/ status # "away"
        /\ status' = "loading"
        /\ Asks(Call("list", "page", 0))
        /\ UNCHANGED <<who, reader, badge, items, unread>>
        /\ NoServer

MarkingAll == \E c \in calls : c.op = "markAll" /\ c.from = "page"
MarkAllOnPage == /\ status = "ready" /\ items # {} /\ ~MarkingAll
                 /\ Marks(Call("markAll", "page", 0))
                 /\ UNCHANGED <<who, reader, badge, screen>>
                 /\ NoServer

(* A row the screen shows as unread is marked first, then left for the     *)
(* job; one it shows as read is left for the job at once.                  *)
Open(i) == /\ status = "ready"
           /\ \/ /\ i \in unread
                 /\ Marks(Call("markRead", "page", i))
                 /\ UNCHANGED screen
              \/ /\ i \in items \ unread
                 /\ LeaveScreen(calls)
           /\ UNCHANGED <<who, reader, badge>>
           /\ NoServer

(* The compact panel of the shell.  Its copy may be an old one, and even   *)
(* that of a reader before.                                                *)
MarkAllInPanel == /\ who # None
                  /\ Marks(Call("markAll", "panel", 0))
                  /\ UNCHANGED <<who, reader, badge, screen>>
                  /\ NoServer
OpenPanelItem(i) == /\ who # None
                    /\ rows[i].user \in Readers
                    /\ Marks(Call("markRead", "panel", i))
                    /\ UNCHANGED <<who, reader, badge, screen>>
                    /\ NoServer

-----------------------------------------------------------------------------
(* The server.  `by` is the account of the token the call carries, None if *)
(* it carries none.                                                        *)
Answer(c, table) ==
    [c EXCEPT !.done = TRUE,
              !.items = {i \in DOMAIN table : c.op = "list" /\ table[i].user = c.by},
              !.unread = {i \in DOMAIN table : /\ c.op \in {"list", "count"}
                                              /\ table[i].user = c.by /\ ~table[i].read}]

Serve(c) ==
    /\ c \in calls /\ ~c.done /\ c.by # None
    /\ UNCHANGED <<phase, todo, current, active, aborted, blurred, who, reader, badge, screen>>
    /\ NoFault
    /\ \/ c.op \in {"count", "list"} /\ UNCHANGED rows
       \/ c.op = "markRead" /\ MarkRead(c.by, c.row)
       \/ c.op = "markAll" /\ MarkAllRead(c.by)
    /\ calls' = (calls \ {c}) \cup (IF c.from = "nobody" THEN {} ELSE {Answer(c, rows')})

(* The interceptor sends a call that was refused once more, with the token *)
(* of whoever is signed in by then.                                        *)
Retry(c) == /\ c \in calls /\ ~c.done /\ c.from # "nobody"
            /\ who # None /\ c.by # who
            /\ calls' = (calls \ {c}) \cup {[c EXCEPT !.by = who]}
            /\ UNCHANGED <<who, reader, badge, screen>>
            /\ NoServer

Arrives(c, op) == c \in calls /\ c.done /\ c.op = op /\ c.from # "nobody"

(* The count that follows a mark is asked with the token of whoever is     *)
(* signed in by then; where there is no room for it the one under way      *)
(* stands for it.                                                          *)
Recount(cs) == IF who # None /\ CanCount(cs) THEN {Call("count", "badge", 0)} ELSE {}

TakeCount(c) == /\ Arrives(c, "count")
                /\ badge' = Cardinality(c.unread)
                /\ calls' = calls \ {c}
                /\ UNCHANGED <<who, reader, screen>>
                /\ NoServer

TakeList(c) == /\ Arrives(c, "list")
               /\ status' = "ready"
               /\ items' = c.items
               /\ unread' = c.unread
               /\ calls' = calls \ {c}
               /\ UNCHANGED <<who, reader, badge>>
               /\ NoServer

(* Who opened a notice is taken to its job whatever the answer; of another *)
(* account's notice the answer is that there is none, and nothing is       *)
(* counted anew.                                                           *)
TakeMarkRead(c) == /\ Arrives(c, "markRead")
                   /\ LET cs == calls \ {c}
                      IN  LeaveScreen(cs \cup (IF c.row \in RowsOf(c.by) THEN Recount(cs) ELSE {}))
                   /\ UNCHANGED <<who, reader, badge>>
                   /\ NoServer

TakeMarkAll(c) == /\ Arrives(c, "markAll")
                  /\ badge' = 0
                  /\ IF c.from = "page"
                     THEN /\ status' = "loading"
                          /\ unread' = {}
                          /\ calls' = (calls \ {c}) \cup {Call("list", "page", 0)}
                     ELSE /\ UNCHANGED <<status, unread>>
                          /\ calls' = calls \ {c}
                  /\ UNCHANGED <<who, reader, items>>
                  /\ NoServer

(* The error handler of a call. *)
Errs(c) ==
    \/ /\ c.op \in {"list", "markAll"} /\ c.from = "page"
       /\ status' = "error"
       /\ calls' = calls \ {c}
       /\ UNCHANGED <<items, unread>>
    \/ c.op = "markRead" /\ LeaveScreen(calls \ {c})
    \/ /\ c.op \in {"count", "markAll"} /\ c.from # "page"
       /\ calls' = calls \ {c}
       /\ UNCHANGED screen

(* The token has run out, or there is none, and it cannot be refreshed:    *)
(* the session ends, whosever call it was, and the call with it.           *)
SessionEnds(c) ==
    /\ c \in calls /\ ~c.done /\ c.from # "nobody"
    /\ Errs(c)
    /\ ClearLocalSession
    /\ NoServer

(* The call or its answer is lost, served or not; one that was sent again  *)
(* takes the session with it.                                              *)
CallFails(c) ==
    /\ c \in calls /\ c.from # "nobody"
    /\ Errs(c)
    /\ ClearLocalSession \/ UNCHANGED <<who, reader, badge>>
    /\ UNCHANGED server
    /\ Fault

Take(c) == TakeCount(c) \/ TakeList(c) \/ TakeMarkRead(c) \/ TakeMarkAll(c)

ClientStep == \/ \E u \in Readers : StartPolling(u)
              \/ Logout \/ Leave \/ RefreshUnreadCount \/ Load
              \/ MarkAllOnPage \/ MarkAllInPanel
              \/ \E i \in DOMAIN rows : Open(i) \/ OpenPanelItem(i)
              \/ \E c \in calls : Serve(c) \/ Retry(c) \/ Take(c)
                                   \/ SessionEnds(c) \/ CallFails(c)

Next == \/ ClientStep
        \/ ServerStep /\ UNCHANGED client

Spec == InboxInit /\ [][Next]_vars

(* The server's loops go on, a count that is not lost is served and        *)
(* answered, and the timer of a signed-in page fires again and again.      *)
FairSpec == /\ Spec
            /\ \A e \in Events : WF_vars(UNCHANGED client /\ Delivers(e))
            /\ WF_vars(\E c \in Counts : Serve(c))
            /\ WF_vars(\E c \in Counts : TakeCount(c))
            /\ WF_vars(RefreshUnreadCount)

-----------------------------------------------------------------------------
TypeOK ==
    /\ ServerTypeOK
    /\ reader \in Readers \cup {None}
    /\ who \in {None, reader}
    /\ badge \in Nat
    /\ calls \subseteq [op : {"count", "list", "markRead", "markAll"},
                        from : {"badge", "page", "panel", "nobody"},
                        by : Readers \cup {None}, row : Nat, done : BOOLEAN,
                        items : SUBSET DOMAIN rows, unread : SUBSET DOMAIN rows]
    /\ status \in {"away", "loading", "ready", "error"}
    /\ items \subseteq DOMAIN rows
    /\ unread \subseteq items

(* The list on the screen belongs to whoever is signed in and, where the   *)
(* session ended with the screen open, to the one who was: whoever signs   *)
(* in next is not shown it.  What it shows as read is read.  All this      *)
(* whichever loads overlapped, whichever answers overtook which and        *)
(* whoever used the page before.                                           *)
ScreenIsTrue ==
    status = "ready" => /\ items \subseteq RowsOf(IF who = None THEN reader ELSE who)
                        /\ \A i \in items \ unread : rows[i].read

(* "re-read from the server so an already-read notification cannot drive   *)
(* the count negative": counts answered late, to this session or to the    *)
(* one before, are overwritten, and the badge of a page that stays signed  *)
(* in comes to the number of the unread rows and stays there.              *)
BadgeConverges ==
    <>[][UNCHANGED who]_who => <>[](who # None => badge = Cardinality(Unread(who)))
=============================================================================
