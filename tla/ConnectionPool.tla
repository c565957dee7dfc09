---------------------------- MODULE ConnectionPool ----------------------------
(***************************************************************************)
(* The pool of connections every store shares.  A read takes one           *)
(* connection for one statement.  A transaction takes one, waits in it for *)
(* the lock on its job, and commits.  Some read their row back after the   *)
(* commit with pool.query, a second connection, before their `finally`     *)
(* releases the first: these are the handlers of `Rereading`; several      *)
(* reads in a row are one here.                                            *)
(*                                                                         *)
(* Who finds no connection queues, without a limit and without a timeout,  *)
(* and nothing bounds how many handlers run at once: PoolSize of those     *)
(* that re-read may each hold a connection and wait for one, for ever.     *)
(***************************************************************************)
EXTENDS Naturals, Sequences, FiniteSets

CONSTANTS
    Handlers,  \* the requests that may be under way at once
    Reading,   \* those that are one statement
    Rereading, \* the transactions that read back while they hold their connection
    Jobs,
    JobOf,     \* JobOf[h]: the job whose row transaction h locks
    None,      \* nobody holds the lock
    PoolSize   \* connectionLimit

ASSUME HandlersAssumption == /\ IsFiniteSet(Handlers)
                             /\ Reading \subseteq Handlers
                             /\ Rereading \subseteq Handlers \ Reading
                             /\ JobOf \in [Handlers -> Jobs]
                             /\ None \notin Handlers
ASSUME PoolAssumption == PoolSize \in Nat

VARIABLES
    at,    \* at[h]: how far handler h has come
    queue, \* those who wait for a connection, first come first
    free,  \* how many connections nobody holds
    lock   \* lock[j]: who holds the row of job j FOR UPDATE

vars == <<at, queue, free, lock>>

-----------------------------------------------------------------------------
(* queued: waits for its connection.  stalled: holds one and waits for     *)
(* another.                                                                *)
Waiting == {"queued", "stalled"}
Holding == {"began", "locked", "committed", "stalled", "rereading", "reread"}
Phase == {"idle", "queued"} \cup Holding

Granted(h) == IF at[h] = "queued" THEN "began" ELSE "rereading"

Init == /\ at = [h \in Handlers |-> "idle"]
        /\ queue = <<>>
        /\ free = PoolSize
        /\ lock = [j \in Jobs |-> None]

(* getConnection: a free connection, or the end of the queue.              *)
Acquires(h, got, wait) ==
    IF free > 0
    THEN /\ free' = free - 1
         /\ at' = [at EXCEPT ![h] = got]
         /\ UNCHANGED queue
    ELSE /\ queue' = Append(queue, h)
         /\ at' = [at EXCEPT ![h] = wait]
         /\ UNCHANGED free

(* Mutant: the last to come is served first. *)
ReleasesToLast(h, next) ==
    IF queue = <<>>
    THEN /\ free' = free + 1
         /\ at' = [at EXCEPT ![h] = next]
         /\ UNCHANGED queue
    ELSE LET last == queue[Len(queue)]
         IN  /\ queue' = SubSeq(queue, 1, Len(queue) - 1)
             /\ at' = [at EXCEPT ![h] = next, ![last] = Granted(last)]
             /\ UNCHANGED free

(* release: the connection goes to the head of the queue.                  *)
Releases(h, next) ==
    IF queue = <<>>
    THEN /\ free' = free + 1
         /\ at' = [at EXCEPT ![h] = next]
         /\ UNCHANGED queue
    ELSE /\ queue' = Tail(queue)
         /\ at' = [at EXCEPT ![h] = next, ![Head(queue)] = Granted(Head(queue))]
         /\ UNCHANGED free

-----------------------------------------------------------------------------
GetConnection(h) == /\ at[h] = "idle"
                    /\ Acquires(h, "began", "queued")
                    /\ UNCHANGED lock

(* pool.query: one statement and the connection is back. *)
Query(h) == /\ at[h] = "began" /\ h \in Reading
            /\ Releases(h, "idle")
            /\ UNCHANGED lock

(* SELECT ... FOR UPDATE of the job, in the transaction. *)
LockJob(h) == /\ at[h] = "began" /\ h \notin Reading
              /\ lock[JobOf[h]] = None
              /\ lock' = [lock EXCEPT ![JobOf[h]] = h]
              /\ at' = [at EXCEPT ![h] = "locked"]
              /\ UNCHANGED <<queue, free>>

(* Mutant: the row is read back inside the transaction, through the pool. *)
CommitsLater(h) == /\ at[h] = "locked"
                   /\ IF h \in Rereading
                      THEN Acquires(h, "rereading", "stalled") /\ UNCHANGED lock
                      ELSE /\ at' = [at EXCEPT ![h] = "committed"]
                           /\ lock' = [lock EXCEPT ![JobOf[h]] = None]
                           /\ UNCHANGED <<queue, free>>

(* The commit ends the lock; the connection is still held.                 *)
Commit(h) == /\ at[h] = "locked"
             /\ at' = [at EXCEPT ![h] = "committed"]
             /\ lock' = [lock EXCEPT ![JobOf[h]] = None]
             /\ UNCHANGED <<queue, free>>

ReadsBack == Rereading

(* The rest return what they have, or read it when the connection is back. *)
Release(h) == /\ at[h] = "committed" /\ h \notin ReadsBack
              /\ Releases(h, "idle")
              /\ UNCHANGED lock

ReadBack(h) == /\ at[h] = "committed" /\ h \in ReadsBack
               /\ Acquires(h, "rereading", "stalled")
               /\ UNCHANGED lock

ReadBackDone(h) == /\ at[h] = "rereading"
                   /\ Releases(h, "reread")
                   /\ UNCHANGED lock

ReleaseLast(h) == /\ at[h] = "reread"
                  /\ Releases(h, "idle")
                  /\ UNCHANGED lock

(* The transaction refuses, or gives up waiting for the lock: rollback in  *)
(* the catch, release in the finally.                                      *)
Refuse(h) == /\ at[h] \in {"began", "locked"} /\ h \notin Reading
             /\ Releases(h, "idle")
             /\ lock' = [j \in Jobs |-> IF lock[j] = h THEN None ELSE lock[j]]

-----------------------------------------------------------------------------
Proceed(h) == \/ Query(h) \/ Commit(h) \/ Release(h)
              \/ ReadBack(h) \/ ReadBackDone(h) \/ ReleaseLast(h)

Next == \E h \in Handlers : GetConnection(h) \/ LockJob(h) \/ Proceed(h) \/ Refuse(h)

Spec == Init /\ [][Next]_vars

(* Statements end, and InnoDB grants a lock to those who wait for it in    *)
(* turn.                                                                   *)
FairSpec == Spec /\ \A h \in Handlers : WF_vars(Proceed(h)) /\ SF_vars(LockJob(h))

-----------------------------------------------------------------------------
HoldsOne == {h \in Handlers : at[h] \in Holding}
HoldsTwo == {h \in Handlers : at[h] = "rereading"}

TypeOK ==
    /\ at \in [Handlers -> Phase]
    /\ queue \in Seq(Handlers)
    /\ free \in 0..PoolSize
    /\ lock \in [Jobs -> Handlers \cup {None}]

(* No connection is lost and none is handed out twice; who waits is in the *)
(* queue once, and nobody waits while a connection is free.                *)
PoolIsWhole ==
    /\ free + Cardinality(HoldsOne) + Cardinality(HoldsTwo) = PoolSize
    /\ {queue[i] : i \in DOMAIN queue} = {h \in Handlers : at[h] \in Waiting}
    /\ \A i, k \in DOMAIN queue : queue[i] = queue[k] => i = k
    /\ queue # <<>> => free = 0

(* A lock on a job is never held by a handler that waits for the pool, so  *)
(* the two kinds of waiting cannot close a circle.                         *)
LockHolderNeverWaits ==
    \A j \in Jobs : lock[j] # None => at[lock[j]] = "locked" /\ JobOf[lock[j]] = j

(* Whom a request waits for: a connection, or the lock on its job.         *)
Blocked(h) == \/ at[h] \in Waiting
              \/ at[h] = "began" /\ h \notin Reading /\ lock[JobOf[h]] # None

(* The circle: as many transactions as the pool has connections, each past *)
(* its commit, each holding one and waiting for another to read back.      *)
Exhausted == Cardinality({h \in Rereading : at[h] = "stalled"}) = PoolSize

(* While a request is under way somebody goes on, or it is the circle of   *)
(* those that read back.  Nothing less stops the API: not transactions     *)
(* that wait for a lock while they fill the pool, nor a read-back whose    *)
(* holder others wait for, nor any number of plain reads.                  *)
OnlyReadBacksStopThePool ==
    (\E h \in Handlers : at[h] # "idle")
        => (\E h \in Handlers : at[h] # "idle" /\ ~Blocked(h)) \/ Exhausted

(* Every request that asked for a connection is answered, however many     *)
(* ask, and the queue is fair to it; unless the circle closes, and then it *)
(* is closed for good.                                                     *)
AnsweredUnlessExhausted ==
    \A h \in Handlers : at[h] # "idle" ~> (at[h] = "idle" \/ []Exhausted)
=============================================================================
