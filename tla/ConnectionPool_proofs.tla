------------------------- MODULE ConnectionPool_proofs -------------------------
(***************************************************************************)
(* Theorems about ConnectionPool, for any handlers, jobs, pool and load.   *)
(*                                                                         *)
(* A release changes the phase of the handler at the head of the queue, so *)
(* that nothing can be said of anybody's phase without QueueIsOrderly: who *)
(* is in the queue waits, and is in it once.                               *)
(***************************************************************************)
EXTENDS ConnectionPool, FiniteSetTheorems, TLAPS

QueueIsOrderly ==
    /\ \A i \in DOMAIN queue : at[queue[i]] \in Waiting
    /\ \A i, k \in DOMAIN queue : queue[i] = queue[k] => i = k

Inv == /\ at \in [Handlers -> Phase]
       /\ queue \in Seq(Handlers)
       /\ lock \in [Jobs -> Handlers \cup {None}]
       /\ QueueIsOrderly
       /\ LockHolderNeverWaits

-----------------------------------------------------------------------------
(* What getConnection and release do to the queue and to the phases. *)
LEMMA AcquireStep ==
    ASSUME Inv, NEW h \in Handlers, NEW got \in Holding, NEW wait \in Waiting,
           at[h] \notin Waiting, Acquires(h, got, wait)
    PROVE  /\ at' \in [Handlers -> Phase]
           /\ queue' \in Seq(Handlers)
           /\ QueueIsOrderly'
           /\ \A g \in Handlers \ {h} : at'[g] = at[g]
           /\ at'[h] \in {got, wait}
<1> USE DEF Inv, Phase, Holding, Waiting
<1>1. \A i \in DOMAIN queue : queue[i] \in Handlers /\ queue[i] # h
  BY DEF QueueIsOrderly
<1>2. CASE free > 0
  BY <1>1, <1>2 DEF Acquires, QueueIsOrderly
<1>3. CASE ~(free > 0)
  <2>1. queue' = Append(queue, h) /\ at' = [at EXCEPT ![h] = wait]
    BY <1>3 DEF Acquires
  <2>2. /\ DOMAIN queue' = DOMAIN queue \cup {Len(queue) + 1}
        /\ queue'[Len(queue) + 1] = h
        /\ \A i \in DOMAIN queue : queue'[i] = queue[i]
        /\ Len(queue) + 1 \notin DOMAIN queue
    BY <2>1
  <2>3. QueueIsOrderly'
    BY <1>1, <2>1, <2>2 DEF QueueIsOrderly
  <2> QED
    BY <2>1, <2>3
<1> QED
  BY <1>2, <1>3

LEMMA ReleaseStep ==
    ASSUME Inv, NEW h \in Handlers, NEW next \in Phase \ Waiting,
           at[h] \notin Waiting, Releases(h, next)
    PROVE  /\ at' \in [Handlers -> Phase]
           /\ queue' \in Seq(Handlers)
           /\ QueueIsOrderly'
           /\ at'[h] = next
           /\ \A g \in Handlers \ {h} :
                 at'[g] = at[g] \/ (at[g] \in Waiting /\ at'[g] \in {"began", "rereading"})
<1> USE DEF Inv, Phase, Holding, Waiting, Granted
<1>1. \A i \in DOMAIN queue : queue[i] \in Handlers /\ queue[i] # h
  BY DEF QueueIsOrderly
<1>2. CASE queue = <<>>
  BY <1>1, <1>2 DEF Releases, QueueIsOrderly
<1>3. CASE queue # <<>>
  <2> DEFINE first == Head(queue)
  <2>1. /\ 1 \in DOMAIN queue /\ first = queue[1] /\ first \in Handlers /\ first # h
        /\ at[first] \in Waiting
    BY <1>1, <1>3 DEF QueueIsOrderly
  <2>2. /\ queue' = Tail(queue)
        /\ at' = [at EXCEPT ![h] = next, ![first] = Granted(first)]
    BY <1>3 DEF Releases
  <2>3. /\ queue' \in Seq(Handlers)
        /\ \A i \in DOMAIN queue' : i + 1 \in DOMAIN queue /\ queue'[i] = queue[i + 1] /\ i # 0
        /\ \A i \in DOMAIN queue' : i \in Nat
    BY <1>3, <2>2
  <2>4. \A g \in Handlers \ {h, first} : at'[g] = at[g]
    BY <2>2
  <2>5. at' \in [Handlers -> Phase] /\ at'[h] = next /\ at'[first] \in {"began", "rereading"}
    BY <2>1, <2>2
  <2>6. \A i \in DOMAIN queue' : queue'[i] \notin {h, first}
    BY <1>1, <2>1, <2>3 DEF QueueIsOrderly
  <2>7. QueueIsOrderly'
    BY <2>3, <2>4, <2>6 DEF QueueIsOrderly
  <2> QED
    BY <2>1, <2>3, <2>4, <2>5, <2>7
<1> QED
  BY <1>2, <1>3

-----------------------------------------------------------------------------
LEMMA InitPool == Init => Inv
BY DEF Init, Inv, Phase, QueueIsOrderly, LockHolderNeverWaits

LEMMA NextPool == Inv /\ [Next]_vars => Inv'
<1> SUFFICES ASSUME Inv, [Next]_vars PROVE Inv'
  OBVIOUS
<1> USE HandlersAssumption
<1>1. ASSUME NEW h \in Handlers, GetConnection(h) PROVE Inv'
  <2>1. at[h] = "idle" /\ Acquires(h, "began", "queued") /\ UNCHANGED lock
    BY <1>1 DEF GetConnection
  <2>2. /\ at' \in [Handlers -> Phase] /\ queue' \in Seq(Handlers) /\ QueueIsOrderly'
        /\ \A g \in Handlers \ {h} : at'[g] = at[g]
    BY <2>1, AcquireStep DEF Holding, Waiting
  <2> QED
    BY <2>1, <2>2 DEF Inv, LockHolderNeverWaits
<1>2. ASSUME NEW h \in Handlers, LockJob(h) PROVE Inv'
  <2>1. at' \in [Handlers -> Phase] /\ QueueIsOrderly'
    BY <1>2 DEF LockJob, Inv, QueueIsOrderly, Phase, Holding, Waiting
  <2>2. LockHolderNeverWaits'
    BY <1>2 DEF LockJob, Inv, LockHolderNeverWaits
  <2> QED
    BY <1>2, <2>1, <2>2 DEF LockJob, Inv
<1>3. ASSUME NEW h \in Handlers, Commit(h) PROVE Inv'
  <2>1. at' \in [Handlers -> Phase] /\ QueueIsOrderly'
    BY <1>3 DEF Commit, Inv, QueueIsOrderly, Phase, Holding, Waiting
  <2>2. LockHolderNeverWaits'
    BY <1>3 DEF Commit, Inv, LockHolderNeverWaits
  <2> QED
    BY <1>3, <2>1, <2>2 DEF Commit, Inv
<1>4. ASSUME NEW h \in Handlers, Query(h) \/ Release(h) \/ ReadBackDone(h) \/ ReleaseLast(h)
      PROVE  Inv'
  <2>1. PICK next \in {"idle", "reread"} : Releases(h, next)
    BY <1>4 DEF Query, Release, ReadBackDone, ReleaseLast
  <2>2. /\ at[h] \in {"began", "committed", "rereading", "reread"} /\ UNCHANGED lock
        /\ at[h] = "began" => h \in Reading
    BY <1>4 DEF Query, Release, ReadBackDone, ReleaseLast
  <2>3. /\ at' \in [Handlers -> Phase] /\ queue' \in Seq(Handlers) /\ QueueIsOrderly'
        /\ \A g \in Handlers \ {h} : at'[g] = at[g] \/ at[g] \in Waiting
    BY <2>1, <2>2, ReleaseStep DEF Phase, Holding, Waiting
  <2> QED
    BY <2>2, <2>3 DEF Inv, LockHolderNeverWaits, Waiting
<1>5. ASSUME NEW h \in Handlers, ReadBack(h) PROVE Inv'
  <2>1. at[h] = "committed" /\ Acquires(h, "rereading", "stalled") /\ UNCHANGED lock
    BY <1>5 DEF ReadBack
  <2>2. /\ at' \in [Handlers -> Phase] /\ queue' \in Seq(Handlers) /\ QueueIsOrderly'
        /\ \A g \in Handlers \ {h} : at'[g] = at[g]
    BY <2>1, AcquireStep DEF Holding, Waiting
  <2> QED
    BY <2>1, <2>2 DEF Inv, LockHolderNeverWaits
<1>6. ASSUME NEW h \in Handlers, Refuse(h) PROVE Inv'
  <2>1. /\ at' \in [Handlers -> Phase] /\ queue' \in Seq(Handlers) /\ QueueIsOrderly'
        /\ \A g \in Handlers \ {h} : at'[g] = at[g] \/ at[g] \in Waiting
    BY <1>6, ReleaseStep DEF Refuse, Phase, Holding, Waiting
  <2>2. lock' = [j \in Jobs |-> IF lock[j] = h THEN None ELSE lock[j]]
    BY <1>6 DEF Refuse
  <2> QED
    BY <2>1, <2>2 DEF Inv, LockHolderNeverWaits, Waiting
<1>7. CASE UNCHANGED vars
  BY <1>7 DEF vars, Inv, QueueIsOrderly, LockHolderNeverWaits
<1> QED
  BY <1>1, <1>2, <1>3, <1>4, <1>5, <1>6, <1>7 DEF Next, Proceed

(* Nobody waits for a connection while others wait for a lock they hold:   *)
(* the transactions read back after the commit, so the waiting for         *)
(* connections and the waiting for locks never close a circle.             *)
THEOREM LockHoldersGoOn == Spec => []LockHolderNeverWaits
<1>1. Inv => LockHolderNeverWaits
  BY DEF Inv
<1> QED
  BY InitPool, NextPool, <1>1, PTL DEF Spec

-----------------------------------------------------------------------------
(* Counting connections. *)
LEMMA CountAdd ==
    ASSUME NEW S \in SUBSET Handlers, NEW x \in Handlers \ S
    PROVE  /\ Cardinality(S) \in Nat
           /\ Cardinality(S \cup {x}) = Cardinality(S) + 1
<1>1. IsFiniteSet(S)
  BY HandlersAssumption, FS_Subset
<1>2. Cardinality(S \cup {x}) = IF x \in S THEN Cardinality(S) ELSE Cardinality(S) + 1
  BY <1>1, FS_AddElement, Zenon
<1> QED
  BY <1>1, <1>2, FS_CardinalityType

LEMMA CountRemove ==
    ASSUME NEW S \in SUBSET Handlers, NEW x \in S
    PROVE  /\ Cardinality(S) \in Nat /\ Cardinality(S \ {x}) \in Nat
           /\ Cardinality(S) = Cardinality(S \ {x}) + 1
<1>1. (S \ {x}) \cup {x} = S
  OBVIOUS
<1>2. S \ {x} \in SUBSET Handlers /\ x \in Handlers \ (S \ {x})
  OBVIOUS
<1>3. IsFiniteSet(S)
  BY HandlersAssumption, FS_Subset
<1> QED
  BY <1>1, <1>2, <1>3, CountAdd, FS_CardinalityType

LEMMA CountSwap ==
    ASSUME NEW S \in SUBSET Handlers, NEW x \in S, NEW y \in Handlers \ S
    PROVE  Cardinality((S \ {x}) \cup {y}) = Cardinality(S)
<1>1. S \ {x} \in SUBSET Handlers /\ y \in Handlers \ (S \ {x})
  OBVIOUS
<1> QED
  BY <1>1, CountAdd, CountRemove

Queued == {queue[i] : i \in DOMAIN queue}

Whole == /\ free \in Nat
         /\ free + Cardinality(HoldsOne) + Cardinality(HoldsTwo) = PoolSize
         /\ Queued = {h \in Handlers : at[h] \in Waiting}
         /\ queue # <<>> => free = 0

LEMMA AcquireWhole ==
    ASSUME Inv, Whole, NEW h \in Handlers, NEW got, NEW wait, Acquires(h, got, wait),
           \/ at[h] = "idle" /\ got = "began" /\ wait = "queued"
           \/ at[h] = "committed" /\ got = "rereading" /\ wait = "stalled"
    PROVE  Whole'
<1> USE DEF Inv, Waiting
<1>1. at \in [Handlers -> Phase]
  OBVIOUS
<1>2. CASE free > 0
  <2>1. free' = free - 1 /\ at' = [at EXCEPT ![h] = got] /\ queue' = queue
    BY <1>2 DEF Acquires
  <2>2. Queued' = {g \in Handlers : at'[g] \in Waiting}
    <3>1. Queued' = Queued
      BY <2>1 DEF Queued
    <3>2. \A g \in Handlers : at'[g] \in Waiting <=> at[g] \in Waiting
      BY <2>1
    <3> QED
      BY <3>1, <3>2 DEF Whole
  <2>3. CASE got = "began"
    <3>1. HoldsOne' = HoldsOne \cup {h} /\ HoldsTwo' = HoldsTwo /\ h \notin HoldsOne
      BY <2>1, <2>3 DEF HoldsOne, HoldsTwo, Holding
    <3>2. Cardinality(HoldsOne') = Cardinality(HoldsOne) + 1 /\ Cardinality(HoldsOne) \in Nat
      BY <3>1, CountAdd DEF HoldsOne
    <3> QED
      BY <1>2, <2>1, <2>2, <3>1, <3>2 DEF Whole
  <2>4. CASE got = "rereading"
    <3>1. HoldsOne' = HoldsOne /\ HoldsTwo' = HoldsTwo \cup {h} /\ h \notin HoldsTwo
      BY <2>1, <2>4 DEF HoldsOne, HoldsTwo, Holding
    <3>2. Cardinality(HoldsTwo') = Cardinality(HoldsTwo) + 1 /\ Cardinality(HoldsTwo) \in Nat
      BY <3>1, CountAdd DEF HoldsTwo
    <3>3. Cardinality(HoldsOne) \in Nat
      BY HandlersAssumption, FS_Subset, FS_CardinalityType DEF HoldsOne
    <3> QED
      BY <1>2, <2>1, <2>2, <3>1, <3>2, <3>3 DEF Whole
  <2> QED
    BY <2>3, <2>4
<1>3. CASE ~(free > 0)
  <2>1. free' = free /\ at' = [at EXCEPT ![h] = wait] /\ queue' = Append(queue, h)
    BY <1>3 DEF Acquires
  <2>2. HoldsOne' = HoldsOne /\ HoldsTwo' = HoldsTwo
    BY <2>1 DEF HoldsOne, HoldsTwo, Holding
  <2>3. Queued' = Queued \cup {h}
    <3>1. /\ DOMAIN queue' = DOMAIN queue \cup {Len(queue) + 1}
          /\ queue'[Len(queue) + 1] = h
          /\ \A i \in DOMAIN queue : queue'[i] = queue[i]
      BY <2>1
    <3> QED
      BY <3>1 DEF Queued
  <2>4. Queued' = {g \in Handlers : at'[g] \in Waiting}
    BY <2>1, <2>3 DEF Whole
  <2>5. free = 0
    BY <1>3 DEF Whole
  <2> QED
    BY <2>1, <2>2, <2>4, <2>5 DEF Whole
<1> QED
  BY <1>2, <1>3

LEMMA ReleaseWhole ==
    ASSUME Inv, Whole, NEW h \in Handlers, NEW next, Releases(h, next),
           \/ at[h] \in {"began", "locked", "committed", "reread"} /\ next = "idle"
           \/ at[h] = "rereading" /\ next = "reread"
    PROVE  Whole'
<1> USE DEF Inv, Waiting
<1>1. CASE queue = <<>>
  <2>1. free' = free + 1 /\ at' = [at EXCEPT ![h] = next] /\ queue' = queue
    BY <1>1 DEF Releases
  <2>2. Queued' = {g \in Handlers : at'[g] \in Waiting}
    <3>1. Queued' = Queued
      BY <2>1 DEF Queued
    <3>2. \A g \in Handlers : at'[g] \in Waiting <=> at[g] \in Waiting
      BY <2>1
    <3> QED
      BY <3>1, <3>2 DEF Whole
  <2>3. CASE next = "idle"
    <3>1. HoldsOne' = HoldsOne \ {h} /\ HoldsTwo' = HoldsTwo /\ h \in HoldsOne
      BY <2>1, <2>3 DEF HoldsOne, HoldsTwo, Holding
    <3>2. Cardinality(HoldsOne) = Cardinality(HoldsOne') + 1 /\ Cardinality(HoldsOne') \in Nat
      BY <3>1, CountRemove DEF HoldsOne
    <3>3. Cardinality(HoldsTwo) \in Nat
      BY HandlersAssumption, FS_Subset, FS_CardinalityType DEF HoldsTwo
    <3> QED
      BY <1>1, <2>1, <2>2, <3>1, <3>2, <3>3 DEF Whole
  <2>4. CASE next = "reread"
    <3>1. HoldsOne' = HoldsOne /\ HoldsTwo' = HoldsTwo \ {h} /\ h \in HoldsTwo
      BY <2>1, <2>4 DEF HoldsOne, HoldsTwo, Holding
    <3>2. Cardinality(HoldsTwo) = Cardinality(HoldsTwo') + 1 /\ Cardinality(HoldsTwo') \in Nat
      BY <3>1, CountRemove DEF HoldsTwo
    <3>3. Cardinality(HoldsOne) \in Nat
      BY HandlersAssumption, FS_Subset, FS_CardinalityType DEF HoldsOne
    <3> QED
      BY <1>1, <2>1, <2>2, <3>1, <3>2, <3>3 DEF Whole
  <2> QED
    BY <2>3, <2>4
<1>2. CASE queue # <<>>
  <2> DEFINE first == Head(queue)
  <2>1. /\ 1 \in DOMAIN queue /\ first = queue[1] /\ first \in Handlers /\ first # h
        /\ at[first] \in {"queued", "stalled"}
    BY <1>2 DEF QueueIsOrderly
  <2>2. /\ queue' = Tail(queue) /\ free' = free
        /\ at' = [at EXCEPT ![h] = next, ![first] = Granted(first)]
    BY <1>2 DEF Releases
  <2>3. Queued' = Queued \ {first}
    <3>1. /\ \A i \in DOMAIN queue' : i + 1 \in DOMAIN queue /\ queue'[i] = queue[i + 1] /\ i + 1 # 1
          /\ \A i \in DOMAIN queue \ {1} : i - 1 \in DOMAIN queue' /\ queue'[i - 1] = queue[i]
      BY <1>2, <2>2
    <3>2. ASSUME NEW g \in Queued' PROVE g \in Queued \ {first}
      BY <2>1, <3>1 DEF Queued, QueueIsOrderly
    <3>3. ASSUME NEW g \in Queued \ {first} PROVE g \in Queued'
      BY <2>1, <3>1 DEF Queued
    <3> QED
      BY <3>2, <3>3
  <2> HIDE DEF first
  <2>4. Queued' = {g \in Handlers : at'[g] \in Waiting}
    BY <2>1, <2>2, <2>3 DEF Whole, Granted
  <2>5. /\ at[h] # "rereading" => HoldsOne' \cup {h} = HoldsOne \cup {first} \cup {h}
        /\ at[h] # "rereading" => h \notin HoldsOne' /\ h \in HoldsOne
        /\ at[h] = "rereading" => HoldsOne' = HoldsOne \cup {first}
        /\ first \in HoldsOne <=> at[first] = "stalled"
        /\ first \in HoldsOne'
    BY <2>1, <2>2 DEF HoldsOne, Holding, Granted
  <2>6. /\ at[h] = "rereading" => h \in HoldsTwo /\ h \notin HoldsTwo'
        /\ at[h] # "rereading" => h \notin HoldsTwo /\ h \notin HoldsTwo'
        /\ at[first] = "queued" => HoldsTwo' = HoldsTwo \ {h}
        /\ at[first] = "stalled" => HoldsTwo' = (HoldsTwo \ {h}) \cup {first}
        /\ first \notin HoldsTwo
    BY <2>1, <2>2 DEF HoldsTwo, Granted
  <2>7. HoldsOne \in SUBSET Handlers /\ HoldsTwo \in SUBSET Handlers
    BY DEF HoldsOne, HoldsTwo
  <2>8. Cardinality(HoldsOne') + Cardinality(HoldsTwo') = Cardinality(HoldsOne) + Cardinality(HoldsTwo)
    <3>1. CASE at[h] # "rereading" /\ at[first] = "queued"
      <4>1. HoldsOne' = (HoldsOne \ {h}) \cup {first} /\ HoldsTwo' = HoldsTwo
        <5>1. HoldsTwo' = HoldsTwo
          BY <2>6, <3>1
        <5>2. \A g \in Handlers : g \in HoldsOne' <=> (g \in HoldsOne /\ g # h) \/ g = first
          BY <2>1, <2>2, <3>1 DEF HoldsOne, Holding, Granted
        <5>3. HoldsOne \subseteq Handlers /\ HoldsOne' \subseteq Handlers
          BY DEF HoldsOne
        <5> QED
          BY <2>1, <5>1, <5>2, <5>3
      <4>2. h \in HoldsOne /\ first \in Handlers \ HoldsOne
        BY <2>1, <2>5, <3>1
      <4>3. Cardinality((HoldsOne \ {h}) \cup {first}) = Cardinality(HoldsOne)
        BY <2>7, <4>2, CountSwap, Zenon
      <4>4. Cardinality(HoldsOne') = Cardinality(HoldsOne)
        BY <4>1, <4>3
      <4> QED
        BY <4>1, <4>4
    <3>2. CASE at[h] # "rereading" /\ at[first] = "stalled"
      <4>1. HoldsOne' = HoldsOne \ {h} /\ HoldsTwo' = HoldsTwo \cup {first}
        BY <2>1, <2>5, <2>6, <3>2
      <4>2. h \in HoldsOne /\ first \in Handlers \ HoldsTwo
        BY <2>1, <2>5, <2>6, <3>2
      <4>3. Cardinality(HoldsOne) = Cardinality(HoldsOne') + 1 /\ Cardinality(HoldsOne') \in Nat
        BY <2>7, <4>1, <4>2, CountRemove
      <4>4. Cardinality(HoldsTwo') = Cardinality(HoldsTwo) + 1 /\ Cardinality(HoldsTwo) \in Nat
        BY <2>7, <4>1, <4>2, CountAdd
      <4> QED
        BY <4>3, <4>4
    <3>3. CASE at[h] = "rereading" /\ at[first] = "queued"
      <4>1. HoldsOne' = HoldsOne \cup {first} /\ HoldsTwo' = HoldsTwo \ {h}
        BY <2>1, <2>5, <2>6, <3>3
      <4>2. h \in HoldsTwo /\ first \in Handlers \ HoldsOne
        BY <2>1, <2>5, <2>6, <3>3
      <4>3. Cardinality(HoldsTwo) = Cardinality(HoldsTwo') + 1 /\ Cardinality(HoldsTwo') \in Nat
        BY <2>7, <4>1, <4>2, CountRemove
      <4>4. Cardinality(HoldsOne') = Cardinality(HoldsOne) + 1 /\ Cardinality(HoldsOne) \in Nat
        BY <2>7, <4>1, <4>2, CountAdd
      <4> QED
        BY <4>3, <4>4
    <3>4. CASE at[h] = "rereading" /\ at[first] = "stalled"
      <4>1. HoldsOne' = HoldsOne /\ HoldsTwo' = (HoldsTwo \ {h}) \cup {first}
        BY <2>1, <2>5, <2>6, <3>4
      <4>2. h \in HoldsTwo /\ first \in Handlers \ HoldsTwo
        BY <2>1, <2>6, <3>4
      <4>3. Cardinality(HoldsTwo') = Cardinality(HoldsTwo)
        BY <2>7, <4>1, <4>2, CountSwap
      <4> QED
        BY <4>1, <4>3
    <3> QED
      BY <2>1, <3>1, <3>2, <3>3, <3>4
  <2>9. /\ Cardinality(HoldsOne) \in Nat /\ Cardinality(HoldsTwo) \in Nat
        /\ Cardinality(HoldsOne') \in Nat /\ Cardinality(HoldsTwo') \in Nat
    BY HandlersAssumption, FS_Subset, FS_CardinalityType DEF HoldsOne, HoldsTwo
  <2> QED
    BY <1>2, <2>2, <2>4, <2>8, <2>9 DEF Whole
<1> QED
  BY <1>1, <1>2

LEMMA NextWhole == Inv /\ Whole /\ [Next]_vars => Whole'
<1> SUFFICES ASSUME Inv, Whole, [Next]_vars PROVE Whole'
  OBVIOUS
<1>1. ASSUME NEW h \in Handlers, GetConnection(h) \/ ReadBack(h) PROVE Whole'
  BY <1>1, AcquireWhole DEF GetConnection, ReadBack
<1>2. ASSUME NEW h \in Handlers,
             Query(h) \/ Release(h) \/ ReadBackDone(h) \/ ReleaseLast(h) \/ Refuse(h)
      PROVE  Whole'
  BY <1>2, ReleaseWhole DEF Query, Release, ReadBackDone, ReleaseLast, Refuse
<1>3. ASSUME NEW h \in Handlers, LockJob(h) \/ Commit(h) PROVE Whole'
  <2>1. \A g \in Handlers : /\ at'[g] \in Holding <=> at[g] \in Holding
                            /\ at'[g] \in Waiting <=> at[g] \in Waiting
                            /\ at'[g] = "rereading" <=> at[g] = "rereading"
    BY <1>3 DEF LockJob, Commit, Inv, Holding, Waiting
  <2>2. HoldsOne' = HoldsOne /\ HoldsTwo' = HoldsTwo
    BY <2>1 DEF HoldsOne, HoldsTwo
  <2>3. UNCHANGED <<queue, free>>
    BY <1>3 DEF LockJob, Commit
  <2>4. Queued' = {g \in Handlers : at'[g] \in Waiting}
    BY <2>1, <2>3 DEF Queued, Whole
  <2> QED
    BY <2>2, <2>3, <2>4 DEF Whole
<1>4. CASE UNCHANGED vars
  BY <1>4 DEF vars, Whole, Queued, HoldsOne, HoldsTwo
<1> QED
  BY <1>1, <1>2, <1>3, <1>4 DEF Next, Proceed

LEMMA InitWhole == Init => Whole
<1> SUFFICES ASSUME Init PROVE Whole
  OBVIOUS
<1>1. HoldsOne = {} /\ HoldsTwo = {} /\ Queued = {}
  BY DEF Init, HoldsOne, HoldsTwo, Queued, Holding
<1>2. {h \in Handlers : at[h] \in Waiting} = {}
  BY DEF Init, Waiting
<1> QED
  BY <1>1, <1>2, FS_EmptySet, PoolAssumption DEF Init, Whole

(* Whatever refuses, reads back or gives up, every connection comes back   *)
(* to the pool or goes to one waiter, and none is idle while somebody      *)
(* waits.                                                                  *)
THEOREM PoolWhole == Spec => []PoolIsWhole
<1>1. Inv /\ Whole => PoolIsWhole
  BY DEF Inv, Whole, PoolIsWhole, QueueIsOrderly, Queued
<1> QED
  BY InitPool, NextPool, InitWhole, NextWhole, <1>1, PTL DEF Spec

-----------------------------------------------------------------------------
(* Who holds a connection and waits for another is reading back. *)
StalledReadBack == \A h \in Handlers : at[h] = "stalled" => h \in Rereading

LEMMA NextStalled == Inv /\ StalledReadBack /\ [Next]_vars => StalledReadBack'
<1> SUFFICES ASSUME Inv, StalledReadBack, [Next]_vars PROVE StalledReadBack'
  OBVIOUS
<1> USE DEF StalledReadBack
<1>1. ASSUME NEW h \in Handlers, GetConnection(h) PROVE StalledReadBack'
  <2>1. at'[h] \in {"began", "queued"} /\ \A g \in Handlers \ {h} : at'[g] = at[g]
    BY <1>1, AcquireStep DEF GetConnection, Holding, Waiting
  <2> QED
    BY <2>1
<1>2. ASSUME NEW h \in Handlers, ReadBack(h) PROVE StalledReadBack'
  <2>1. h \in Rereading /\ \A g \in Handlers \ {h} : at'[g] = at[g]
    BY <1>2, AcquireStep DEF ReadBack, ReadsBack, Holding, Waiting
  <2> QED
    BY <2>1
<1>3. ASSUME NEW h \in Handlers,
             Query(h) \/ Release(h) \/ ReadBackDone(h) \/ ReleaseLast(h) \/ Refuse(h)
      PROVE  StalledReadBack'
  <2>1. PICK next \in {"idle", "reread"} : Releases(h, next)
    BY <1>3 DEF Query, Release, ReadBackDone, ReleaseLast, Refuse
  <2>2. at[h] \notin Waiting
    BY <1>3 DEF Query, Release, ReadBackDone, ReleaseLast, Refuse, Waiting
  <2>3. /\ at'[h] = next
        /\ \A g \in Handlers \ {h} : at'[g] = at[g] \/ at'[g] \in {"began", "rereading"}
    BY <2>1, <2>2, ReleaseStep DEF Phase, Holding, Waiting
  <2> QED
    BY <2>3
<1>4. ASSUME NEW h \in Handlers, LockJob(h) \/ Commit(h) PROVE StalledReadBack'
  BY <1>4 DEF LockJob, Commit, Inv
<1>5. CASE UNCHANGED vars
  BY <1>5 DEF vars
<1> QED
  BY <1>1, <1>2, <1>3, <1>4, <1>5 DEF Next, Proceed

Stalled == {h \in Rereading : at[h] = "stalled"}

(* Were everybody under way to wait, nobody would hold a lock, so all who  *)
(* hold a connection would be reading back, and they would hold them all.  *)
LEMMA NoStandstill ==
    ASSUME Inv, Whole, StalledReadBack, NEW g \in Handlers, at[g] # "idle",
           \A h \in Handlers : at[h] # "idle" => Blocked(h)
    PROVE  Exhausted
<1>1. \A j \in Jobs : lock[j] = None
  <2>1. SUFFICES ASSUME NEW j \in Jobs, lock[j] # None PROVE FALSE
    OBVIOUS
  <2>2. lock[j] \in Handlers /\ at[lock[j]] = "locked"
    BY <2>1 DEF Inv, LockHolderNeverWaits
  <2> QED
    BY <2>2 DEF Blocked, Waiting
<1>2. \A h \in Handlers : at[h] # "idle" => at[h] \in Waiting
  BY <1>1, HandlersAssumption DEF Blocked
<1>3. HoldsTwo = {} /\ HoldsOne = Stalled
  BY <1>2, HandlersAssumption
     DEF HoldsTwo, HoldsOne, Holding, Waiting, StalledReadBack, Stalled
<1>4. free = 0
  <2>1. g \in Queued
    BY <1>2 DEF Whole
  <2>2. queue # << >>
    BY <2>1 DEF Queued
  <2> QED
    BY <2>2 DEF Whole
<1>5. Cardinality(Stalled) \in Nat
  <2>1. IsFiniteSet(Stalled)
    BY HandlersAssumption, FS_Subset DEF Stalled
  <2> QED
    BY <2>1, FS_CardinalityType
<1>6. Cardinality(HoldsTwo) = 0
  BY <1>3, FS_EmptySet
<1> QED
  BY <1>3, <1>4, <1>5, <1>6, PoolAssumption DEF Whole, Exhausted, Stalled

(* Whatever the handlers, the jobs and the size of the pool, and with no   *)
(* limit on the load: the one way the API comes to a standstill is that    *)
(* every connection is held by a transaction that is past its commit and   *)
(* waits for another connection to read its row back.                      *)
THEOREM OnlyReadBacksStop == Spec => []OnlyReadBacksStopThePool
<1>1. Init => Inv /\ Whole /\ StalledReadBack
  BY InitPool, InitWhole DEF Init, StalledReadBack
<1>2. Inv /\ Whole /\ StalledReadBack /\ [Next]_vars => Inv' /\ Whole' /\ StalledReadBack'
  BY NextPool, NextWhole, NextStalled
<1>3. Inv /\ Whole /\ StalledReadBack => OnlyReadBacksStopThePool
  BY NoStandstill DEF OnlyReadBacksStopThePool
<1> QED
  BY <1>1, <1>2, <1>3, PTL DEF Spec

-----------------------------------------------------------------------------
(* Those of the circle have every connection, so nobody else has one to    *)
(* give back: all that is left is to join the queue.                       *)
LEMMA NobodyElseHolds ==
    ASSUME Inv, Whole, Exhausted
    PROVE  free = 0 /\ HoldsTwo = {} /\ HoldsOne = Stalled
<1>1. IsFiniteSet(HoldsOne) /\ IsFiniteSet(HoldsTwo)
  BY HandlersAssumption, FS_Subset DEF HoldsOne, HoldsTwo
<1>2. Stalled \subseteq HoldsOne
  BY HandlersAssumption DEF Stalled, HoldsOne, Holding
<1>3. /\ Cardinality(Stalled) <= Cardinality(HoldsOne)
      /\ Cardinality(Stalled) = Cardinality(HoldsOne) => Stalled = HoldsOne
  BY <1>1, <1>2, FS_Subset
<1>4. Cardinality(HoldsOne) \in Nat /\ Cardinality(HoldsTwo) \in Nat
  BY <1>1, FS_CardinalityType
<1>5. Cardinality(Stalled) = PoolSize
  BY DEF Exhausted, Stalled
<1>6. Cardinality(HoldsOne) = PoolSize /\ Cardinality(HoldsTwo) = 0 /\ free = 0
  BY <1>3, <1>4, <1>5, PoolAssumption DEF Whole
<1> QED
  BY <1>1, <1>3, <1>5, <1>6, FS_EmptySet

LEMMA StaysExhausted == Inv /\ Whole /\ [Next]_vars => (Exhausted => Exhausted')
<1> SUFFICES ASSUME Inv, Whole, Exhausted, [Next]_vars PROVE Stalled' = Stalled
  BY DEF Exhausted, Stalled
<1>1. free = 0 /\ \A h \in Handlers : at[h] \in Holding => at[h] = "stalled"
  BY NobodyElseHolds DEF HoldsOne, Stalled
<1>2. ASSUME NEW h \in Handlers, GetConnection(h) PROVE Stalled' = Stalled
  BY <1>1, <1>2, HandlersAssumption DEF GetConnection, Acquires, Stalled, Inv
<1>3. ASSUME NEW h \in Handlers, LockJob(h) \/ Proceed(h) \/ Refuse(h) PROVE FALSE
  <2>1. at[h] \in {"began", "locked", "committed", "rereading", "reread"}
    BY <1>3 DEF LockJob, Proceed, Refuse, Query, Commit, Release, ReadBack,
                ReadBackDone, ReleaseLast
  <2> QED
    BY <1>1, <2>1 DEF Holding
<1>4. CASE UNCHANGED vars
  BY <1>4 DEF vars, Stalled
<1> QED
  BY <1>2, <1>3, <1>4 DEF Next

(* Once the circle has closed it never opens: no handler of it goes on, so *)
(* no connection comes back, until the process is started again.           *)
THEOREM ExhaustionIsForGood == Spec => [][Exhausted => Exhausted']_vars
<1>1. Init => Inv /\ Whole
  BY InitPool, InitWhole
<1>2. Inv /\ Whole /\ [Next]_vars => Inv' /\ Whole'
  BY NextPool, NextWhole
<1>3. Inv /\ Whole /\ [Next]_vars => [Exhausted => Exhausted']_vars
  BY StaysExhausted
<1> QED
  BY <1>1, <1>2, <1>3, PTL DEF Spec
=============================================================================
