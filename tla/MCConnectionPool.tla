--------------------------- MODULE MCConnectionPool ---------------------------
EXTENDS ConnectionPool

CONSTANTS photo, quote, complete, start, list, j1, j2

FiveHandlers == {photo, quote, complete, start, list}
OneReading == {list}
ThreeRereading == {photo, quote, complete}
TwoJobs == {j1, j2}
ThreeOnOneJob == [h \in FiveHandlers |-> IF h = quote THEN j2 ELSE j1]
=============================================================================
