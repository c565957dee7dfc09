-------------------------------- MODULE MCInbox --------------------------------
EXTENDS Inbox

CONSTANTS u1, u2, u3, e1

ThreeUsers == {u1, u2, u3}
TwoReaders == {u1, u2}
OneEvent == {e1}
Roles == (u1 :> {"PROFESSIONAL"}) @@ (u2 :> {"CUSTOMER"}) @@ (u3 :> {"CUSTOMER"})
OpenRequest == e1 :> "JOB_REQUEST_OPEN"
ListedTwice == e1 :> <<u1, u3, u1>>
=============================================================================
