-------------------------- MODULE AlertQueue_proofs --------------------------
(***************************************************************************)
(* Proofs about AlertQueue for every number of rows, threads, attempts,    *)
(* crashes, stops and faults.                                              *)
(***************************************************************************)
EXTENDS AlertQueue, FiniteSetTheorems, TLAPS

\* The requests a crash leaves in the network are a natural number of them.
LEMMA OutstandingIsNat ==
  ASSUME NEW i \in Ids
  PROVE  Cardinality({w \in Threads : pc[w] = "posting" /\ alertId[w] = i}) \in Nat
<1> DEFINE S == {w \in Threads : pc[w] = "posting" /\ alertId[w] = i}
<1>1. IsFiniteSet(S)
  BY FS_Subset, QueueAssumption
<1>2. QED
  BY <1>1, FS_CardinalityType

\* Counting one event more, or one less, of a row keeps a counter's type.
LEMMA CountUp ==
  ASSUME NEW f \in [Ids -> Nat], NEW x
  PROVE  [f EXCEPT ![x] = @ + 1] \in [Ids -> Nat]
<1>1. ASSUME NEW i \in Ids
      PROVE  [f EXCEPT ![x] = @ + 1][i] \in Nat
  <2>1. f[i] \in Nat /\ f[i] + 1 \in Nat
    OBVIOUS
  <2>2. QED
    BY <2>1
<1>2. QED
  BY <1>1

\* Counting one positive entry of a counter array down keeps it one (DeliverLate,
\* LoseLate).
LEMMA CountDown ==
  ASSUME NEW f \in [Ids -> Nat], NEW x \in Ids, f[x] > 0
  PROVE  [f EXCEPT ![x] = @ - 1] \in [Ids -> Nat]
<1>1. f[x] - 1 \in Nat
  OBVIOUS
<1>2. QED
  BY <1>1

\* Every step keeps the types; stated without the temporal part, for reuse.
LEMMA TypeStep == TypeOK /\ [Next]_vars => TypeOK'
<1> SUFFICES ASSUME TypeOK, [Next]_vars
             PROVE  TypeOK'
  OBVIOUS
<1> USE QueueAssumption DEF TypeOK, Ids, PC, queueVars, workVars, threadVars, netVars, boundVars
<1>1. CASE Add
  <2>1. nextId' \in 1..(MaxAlerts + 1) /\ table' \in SUBSET Ids
    BY <1>1 DEF Add
  <2>2. QED
    BY <1>1, <2>1 DEF Add
<1>2. CASE StopRetry
  <2>1. stops' \in Nat
    BY <1>2 DEF StopRetry
  <2>2. QED
    BY <1>2, <2>1 DEF StopRetry
<1>3. CASE Crash
  <2>1. crashes' \in Nat
    BY <1>3 DEF Crash
  <2>2. late' \in [Ids -> Nat]
    <3>1. \A i \in Ids :
            late[i] + Cardinality({w \in Threads : pc[w] = "posting" /\ alertId[w] = i}) \in Nat
      <4> SUFFICES ASSUME NEW i \in Ids
                   PROVE  late[i] + Cardinality({w \in Threads : pc[w] = "posting" /\ alertId[w] = i}) \in Nat
        OBVIOUS
      <4>1. late[i] \in Nat
        OBVIOUS
      <4>2. \A m, n \in Nat : m + n \in Nat
        OBVIOUS
      <4>3. QED
        BY <4>1, <4>2, OutstandingIsNat, Zenon
    <3>2. QED
      BY <1>3, <3>1 DEF Crash
  <2>3. /\ pc' \in [Threads -> PC]
        /\ batch' \in [Threads -> SUBSET Ids]
        /\ alertId' \in [Threads -> Ids \cup {0}]
    BY <1>3 DEF Crash
  <2>4. QED
    BY <1>3, <2>1, <2>2, <2>3 DEF Crash
<1>4. CASE Toggle
  BY <1>4 DEF Toggle
<1>5. ASSUME NEW w \in Threads, StartRetry(w)
      PROVE  TypeOK'
  <2>1. pc' \in [Threads -> PC] /\ overlapped' \in BOOLEAN
    BY <1>5 DEF StartRetry
  <2>2. QED
    BY <1>5, <2>1 DEF StartRetry
<1>6. ASSUME NEW w \in Threads, ThreadStep(w)
      PROVE  TypeOK'
  <2> USE DEF Go, NextRow
  <2>0. DbFails => dbFails' \in Nat
    BY DEF DbFails
  <2>1. CASE Fetch(w)
    BY <2>1 DEF Fetch, Pending
  <2>2. CASE FetchFails(w)
    BY <2>0, <2>2 DEF FetchFails
  <2>3. CASE Exit(w)
    BY <2>3 DEF Exit
  <2>4. CASE Post(w)
    <3>1. PICK i \in batch[w] : /\ alertId' = [alertId EXCEPT ![w] = i]
                                /\ posted' = [posted EXCEPT ![i] = @ + 1]
      BY <2>4 DEF Post
    <3>2. posted' \in [Ids -> Nat]
      BY <3>1, CountUp
    <3>3. alertId' \in [Threads -> Ids \cup {0}]
      BY <3>1
    <3>4. QED
      BY <2>4, <3>2, <3>3 DEF Post
  <2>5. CASE EndBatch(w)
    BY <2>5 DEF EndBatch
  <2>6. CASE Wake(w)
    BY <2>6 DEF Wake
  <2>7. CASE Delete(w)
    BY <2>7 DEF Delete
  <2>8. CASE DeleteFails(w)
    BY <2>0, <2>8 DEF DeleteFails
  <2>9. CASE Increment(w)
    <3>1. /\ attempts' \in [Ids -> Nat]
          /\ batch' \in [Threads -> SUBSET Ids]
      BY <2>9 DEF Increment
    <3>2. QED
      BY <3>1, <2>9 DEF Increment
  <2>10. CASE IncrementFails(w)
    <3>1. /\ batch' \in [Threads -> SUBSET Ids]
          /\ alertId' \in [Threads -> Ids \cup {0}]
      BY <2>10 DEF IncrementFails
    <3>2. QED
      BY <2>0, <3>1, <2>10 DEF IncrementFails
  <2>11. QED
    BY <1>6, <2>1, <2>2, <2>3, <2>4, <2>5, <2>6, <2>7, <2>8, <2>9, <2>10 DEF ThreadStep
<1>7. ASSUME NEW w \in Threads, NetworkStep(w)
      PROVE  TypeOK'
  <2> USE DEF Go
  <2>0. Fault => faults' \in Nat
    BY DEF Fault
  <2>1. CASE Handle(w)
    <3>1. received' \in [Ids -> Nat]
      BY <2>1, CountUp DEF Handle
    <3>2. QED
      BY <3>1, <2>1 DEF Handle
  <2>2. CASE Answer(w)
    BY <2>2 DEF Answer
  <2>3. CASE LoseAnswer(w)
    BY <2>0, <2>3 DEF LoseAnswer
  <2>4. CASE Reject(w)
    BY <2>0, <2>4 DEF Reject
  <2>5. CASE TimeOut(w)
    <3>1. late' \in [Ids -> Nat]
      BY <2>5, CountUp DEF TimeOut
    <3>2. QED
      BY <2>0, <3>1, <2>5 DEF TimeOut
  <2>6. CASE Refuse(w)
    BY <2>6 DEF Refuse
  <2>7. QED
    BY <1>7, <2>1, <2>2, <2>3, <2>4, <2>5, <2>6 DEF NetworkStep
<1>8. ASSUME NEW i \in Ids, DeliverLate(i)
      PROVE  TypeOK'
  <2>1. late' \in [Ids -> Nat] /\ received' \in [Ids -> Nat]
    BY <1>8, CountUp, CountDown DEF DeliverLate
  <2>2. QED
    BY <1>8, <2>1 DEF DeliverLate
<1>9. ASSUME NEW i \in Ids, LoseLate(i)
      PROVE  TypeOK'
  <2>1. late' \in [Ids -> Nat]
    BY <1>9, CountDown DEF LoseLate
  <2>2. QED
    BY <1>9, <2>1 DEF LoseLate
<1>10. CASE UNCHANGED vars
  BY <1>10 DEF vars
<1>11. QED
  BY <1>1, <1>2, <1>3, <1>4, <1>5, <1>6, <1>7, <1>8, <1>9, <1>10 DEF Next

-------------------------------------------------------------------------------
\* Which steps touch what: the frame of the proofs below.
LEMMA Frame ==
  ASSUME [Next]_vars
  PROVE  \/ Add \/ Crash
         \/ \E w \in Threads : Fetch(w) \/ Post(w) \/ EndBatch(w) \/ Delete(w)
                               \/ Increment(w) \/ IncrementFails(w) \/ Handle(w)
                               \/ Answer(w) \/ TimeOut(w)
         \/ \E i \in Ids : DeliverLate(i) \/ LoseLate(i)
         \/ /\ UNCHANGED <<table, attempts, nextId, batch, alertId, late, received, posted>>
            /\ \/ UNCHANGED pc
               \/ \E w \in Threads, to \in PC \ {"posting", "answered", "delete"} :
                    /\ pc' = [pc EXCEPT ![w] = to]
                    /\ to = "fail" => pc[w] \in Holding
<1> USE DEF queueVars, workVars, threadVars, netVars, boundVars, Go, PC, Holding
<1>1. CASE StopRetry \/ Toggle \/ UNCHANGED vars
  BY <1>1 DEF StopRetry, Toggle, vars
<1>2. ASSUME NEW w \in Threads, StartRetry(w)
      PROVE  /\ UNCHANGED <<table, attempts, nextId, batch, alertId, late, received, posted>>
             /\ pc' = [pc EXCEPT ![w] = "loop"]
  BY <1>2 DEF StartRetry
<1>3. ASSUME NEW w \in Threads, FetchFails(w) \/ Exit(w) \/ Wake(w)
      PROVE  /\ UNCHANGED <<table, attempts, nextId, batch, alertId, late, received, posted>>
             /\ \E to \in {"sleep", "none", "loop"} : pc' = [pc EXCEPT ![w] = to]
  BY <1>3 DEF FetchFails, Exit, Wake
<1>4. ASSUME NEW w \in Threads, DeleteFails(w) \/ LoseAnswer(w) \/ Reject(w) \/ Refuse(w)
      PROVE  /\ UNCHANGED <<table, attempts, nextId, batch, alertId, late, received, posted>>
             /\ pc' = [pc EXCEPT ![w] = "fail"]
             /\ pc[w] \in Holding
  BY <1>4 DEF DeleteFails, LoseAnswer, Reject, Refuse
<1>5. QED
  BY <1>1, <1>2, <1>3, <1>4 DEF Next, ThreadStep, NetworkStep

\* Steps that touch none of the rows, the snapshots or the network counts.
Quiet == UNCHANGED <<table, attempts, nextId, batch, alertId, late, received, posted>>

\* Rows the queue or the network knows of have been inserted.
LEMMA OnlyInsertedStep ==
  TypeOK /\ OnlyInserted /\ AtWork /\ [Next]_vars => OnlyInserted'
<1> SUFFICES ASSUME TypeOK, OnlyInserted, AtWork, [Next]_vars
             PROVE  OnlyInserted'
  OBVIOUS
<1> USE QueueAssumption DEF TypeOK, OnlyInserted, AtWork, Holding, Ids, Go, NextRow,
        queueVars, workVars, threadVars, netVars
<1>1. CASE Add
  BY <1>1 DEF Add
<1>2. CASE Crash
  <2>1. ASSUME NEW i \in Ids, late'[i] > 0, ~(late[i] > 0)
        PROVE  i < nextId
    <3> DEFINE S == {w \in Threads : pc[w] = "posting" /\ alertId[w] = i}
    <3>1. late'[i] = late[i] + Cardinality(S)
      BY <1>2 DEF Crash
    <3>2. S # {}
      <4>1. ASSUME S = {}
            PROVE  FALSE
        <5>1. Cardinality(S) = 0
          BY <4>1, FS_EmptySet
        <5>2. QED
          BY <2>1, <3>1, <5>1
      <4>2. QED
        BY <4>1
    <3>3. QED
      BY <3>2
  <2>2. QED
    BY <1>2, <2>1 DEF Crash
<1>3. ASSUME NEW w \in Threads,
             Fetch(w) \/ Post(w) \/ EndBatch(w) \/ Delete(w) \/ Increment(w)
             \/ IncrementFails(w) \/ Handle(w) \/ Answer(w) \/ TimeOut(w)
      PROVE  OnlyInserted'
  <2>1. CASE Fetch(w)
    BY <2>1 DEF Fetch, Pending
  <2>2. CASE Post(w)
    <3>1. PICK i \in batch[w] : posted' = [posted EXCEPT ![i] = @ + 1]
      BY <2>2 DEF Post
    <3>2. \A k \in Ids : k # i => posted'[k] = posted[k]
      BY <3>1
    <3>3. i < nextId /\ UNCHANGED <<table, nextId, batch, late, received>>
      BY <2>2, <3>1 DEF Post
    <3>4. QED
      BY <3>2, <3>3
  <2>3. CASE EndBatch(w)
    BY <2>3 DEF EndBatch
  <2>4. CASE Delete(w)
    BY <2>4 DEF Delete
  <2>5. CASE Increment(w)
    BY <2>5 DEF Increment
  <2>6. CASE IncrementFails(w)
    BY <2>6 DEF IncrementFails
  <2>7. CASE Handle(w)
    <3>1. \A k \in Ids : k # alertId[w] => received'[k] = received[k]
      BY <2>7 DEF Handle
    <3>2. alertId[w] < nextId /\ UNCHANGED <<table, nextId, batch, late, posted>>
      BY <2>7 DEF Handle
    <3>3. QED
      BY <3>1, <3>2
  <2>8. CASE Answer(w)
    BY <2>8 DEF Answer
  <2>9. CASE TimeOut(w)
    <3>1. \A k \in Ids : k # alertId[w] => late'[k] = late[k]
      BY <2>9 DEF TimeOut
    <3>2. alertId[w] < nextId /\ UNCHANGED <<table, nextId, batch, received, posted>>
      BY <2>9 DEF TimeOut
    <3>3. QED
      BY <3>1, <3>2
  <2>10. QED
    BY <1>3, <2>1, <2>2, <2>3, <2>4, <2>5, <2>6, <2>7, <2>8, <2>9
<1>4. ASSUME NEW i \in Ids, DeliverLate(i) \/ LoseLate(i)
      PROVE  OnlyInserted'
  <2>1. /\ late[i] > 0
        /\ \A k \in Ids : k # i => late'[k] = late[k] /\ received'[k] = received[k]
    BY <1>4 DEF DeliverLate, LoseLate
  <2>2. UNCHANGED <<table, nextId, batch, posted>>
    BY <1>4 DEF DeliverLate, LoseLate, queueVars, threadVars, workVars
  <2>3. QED
    BY <2>1, <2>2
<1>5. CASE Quiet
  BY <1>5 DEF Quiet
<1>6. QED
  BY <1>1, <1>2, <1>3, <1>4, <1>5, Frame DEF Quiet

\* A thread holds a row of its snapshot, and deletes only what was handled.
LEMMA AtWorkStep ==
  TypeOK /\ AtWork /\ [Next]_vars => AtWork'
<1> SUFFICES ASSUME TypeOK, AtWork, [Next]_vars
             PROVE  AtWork'
  OBVIOUS
<1> USE DEF TypeOK, AtWork, Holding, Go, NextRow, workVars, threadVars, netVars
<1>1. CASE Add
  BY <1>1 DEF Add
<1>2. CASE Crash
  BY <1>2 DEF Crash
<1>3. ASSUME NEW w \in Threads,
             Fetch(w) \/ Post(w) \/ EndBatch(w) \/ Delete(w) \/ Increment(w)
             \/ IncrementFails(w) \/ Handle(w) \/ Answer(w) \/ TimeOut(w)
      PROVE  AtWork'
  <2>1. CASE Fetch(w)
    BY <2>1 DEF Fetch
  <2>2. CASE Post(w)
    BY <2>2 DEF Post
  <2>3. CASE EndBatch(w)
    BY <2>3 DEF EndBatch
  <2>4. CASE Delete(w)
    BY <2>4 DEF Delete
  <2>5. CASE Increment(w)
    BY <2>5 DEF Increment
  <2>6. CASE IncrementFails(w)
    BY <2>6 DEF IncrementFails
  <2>7. CASE Handle(w)
    BY <2>7 DEF Handle
  <2>8. CASE Answer(w)
    BY <2>8 DEF Answer
  <2>9. CASE TimeOut(w)
    BY <2>9 DEF TimeOut
  <2>10. QED
    BY <1>3, <2>1, <2>2, <2>3, <2>4, <2>5, <2>6, <2>7, <2>8, <2>9
<1>4. ASSUME NEW i \in Ids, DeliverLate(i) \/ LoseLate(i)
      PROVE  AtWork'
  BY <1>4 DEF DeliverLate, LoseLate
<1>5. CASE Quiet /\ UNCHANGED pc
  BY <1>5 DEF Quiet
<1>6. ASSUME Quiet, NEW w \in Threads, NEW to \in PC \ {"posting", "answered", "delete"},
             pc' = [pc EXCEPT ![w] = to], to = "fail" => pc[w] \in Holding
      PROVE  AtWork'
  BY <1>6 DEF Quiet
<1>7. QED
  BY <1>1, <1>2, <1>3, <1>4, <1>5, <1>6, Frame DEF Quiet

\* Only Delete takes a row away, and only a row the backend has handled.
LEMMA NoSilentDropStep ==
  TypeOK /\ OnlyInserted /\ AtWork /\ NoSilentDrop /\ [Next]_vars => NoSilentDrop'
<1> SUFFICES ASSUME TypeOK, OnlyInserted, AtWork, NoSilentDrop, [Next]_vars
             PROVE  NoSilentDrop'
  OBVIOUS
<1> USE QueueAssumption DEF TypeOK, OnlyInserted, Ids, Go, NextRow, queueVars, workVars, threadVars, netVars, NoSilentDrop
<1>1. CASE Add
  BY <1>1 DEF Add
<1>2. CASE Crash
  BY <1>2 DEF Crash
<1>3. ASSUME NEW w \in Threads,
             Fetch(w) \/ Post(w) \/ EndBatch(w) \/ Delete(w) \/ Increment(w)
             \/ IncrementFails(w) \/ Handle(w) \/ Answer(w) \/ TimeOut(w)
      PROVE  NoSilentDrop'
  <2>1. CASE Fetch(w)
    BY <2>1 DEF Fetch
  <2>2. CASE Post(w)
    BY <2>2 DEF Post
  <2>3. CASE EndBatch(w)
    BY <2>3 DEF EndBatch
  <2>4. CASE Delete(w)
    <3>1. alertId[w] \in Ids /\ received[alertId[w]] > 0
      BY <2>4 DEF Delete, AtWork, Holding
    <3>2. QED
      BY <2>4, <3>1 DEF Delete
  <2>5. CASE Increment(w)
    BY <2>5 DEF Increment
  <2>6. CASE IncrementFails(w)
    BY <2>6 DEF IncrementFails
  <2>7. CASE Handle(w)
    <3>1. \A k \in Ids : received[k] > 0 => received'[k] > 0
      BY <2>7 DEF Handle
    <3>2. UNCHANGED <<table, nextId>>
      BY <2>7 DEF Handle
    <3>3. QED
      BY <3>1, <3>2
  <2>8. CASE Answer(w)
    BY <2>8 DEF Answer
  <2>9. CASE TimeOut(w)
    BY <2>9 DEF TimeOut
  <2>10. QED
    BY <1>3, <2>1, <2>2, <2>3, <2>4, <2>5, <2>6, <2>7, <2>8, <2>9
<1>4. ASSUME NEW i \in Ids, DeliverLate(i) \/ LoseLate(i)
      PROVE  NoSilentDrop'
  <2>1. \A k \in Ids : received[k] > 0 => received'[k] > 0
    <3>1. CASE DeliverLate(i)
      BY <3>1 DEF DeliverLate
    <3>2. CASE LoseLate(i)
      BY <3>2 DEF LoseLate
    <3>3. QED
      BY <1>4, <3>1, <3>2
  <2>2. UNCHANGED <<table, nextId>>
    BY <1>4 DEF DeliverLate, LoseLate
  <2>3. QED
    BY <2>1, <2>2
<1>5. CASE Quiet
  BY <1>5 DEF Quiet
<1>6. QED
  BY <1>1, <1>2, <1>3, <1>4, <1>5, Frame DEF Quiet

\* A row leaves a snapshot deleted or with an attempt counted, or the whole
\* snapshot is dropped; an inserted row is younger than every snapshot.
LEMMA SnapshotsAreDenseStep ==
  TypeOK /\ OnlyInserted /\ AtWork /\ SnapshotsAreDense /\ [Next]_vars => SnapshotsAreDense'
<1> SUFFICES ASSUME TypeOK, OnlyInserted, AtWork, SnapshotsAreDense, [Next]_vars
             PROVE  SnapshotsAreDense'
  OBVIOUS
<1> USE QueueAssumption DEF TypeOK, OnlyInserted, AtWork, Holding, Ids, Go, NextRow, queueVars, workVars, threadVars, netVars, SnapshotsAreDense
<1>1. CASE Add
  BY <1>1 DEF Add
<1>2. CASE Crash
  BY <1>2 DEF Crash
<1>3. ASSUME NEW w \in Threads,
             Fetch(w) \/ Post(w) \/ EndBatch(w) \/ Delete(w) \/ Increment(w)
             \/ IncrementFails(w) \/ Handle(w) \/ Answer(w) \/ TimeOut(w)
      PROVE  SnapshotsAreDense'
  <2>1. CASE Fetch(w)
    BY <2>1 DEF Fetch, Pending
  <2>2. CASE Post(w)
    BY <2>2 DEF Post
  <2>3. CASE EndBatch(w)
    BY <2>3 DEF EndBatch
  <2>4. CASE Delete(w)
    BY <2>4 DEF Delete
  <2>5. CASE Increment(w)
    <3>1. \A i \in Ids : attempts[i] > 0 \/ (i = alertId[w] /\ i \in table) => attempts'[i] > 0
      BY <2>5 DEF Increment
    <3>2. /\ UNCHANGED table
          /\ \A v \in Threads : batch'[v] \subseteq batch[v]
          /\ \A v \in Threads : \A i \in batch[v] : i \in batch'[v] \/ i = alertId[w]
      BY <2>5 DEF Increment
    <3>3. QED
      BY <3>1, <3>2
  <2>6. CASE IncrementFails(w)
    BY <2>6 DEF IncrementFails
  <2>7. CASE Handle(w)
    BY <2>7 DEF Handle
  <2>8. CASE Answer(w)
    BY <2>8 DEF Answer
  <2>9. CASE TimeOut(w)
    BY <2>9 DEF TimeOut
  <2>10. QED
    BY <1>3, <2>1, <2>2, <2>3, <2>4, <2>5, <2>6, <2>7, <2>8, <2>9
<1>4. ASSUME NEW i \in Ids, DeliverLate(i) \/ LoseLate(i)
      PROVE  SnapshotsAreDense'
  BY <1>4 DEF DeliverLate, LoseLate
<1>5. CASE Quiet
  BY <1>5 DEF Quiet
<1>6. QED
  BY <1>1, <1>2, <1>3, <1>4, <1>5, Frame DEF Quiet

\* A thread takes the oldest row left of a dense snapshot.
LEMMA FirstTryInOrderStep ==
  TypeOK /\ OnlyInserted /\ AtWork /\ SnapshotsAreDense /\ FirstTryInOrder /\ [Next]_vars => FirstTryInOrder'
<1> SUFFICES ASSUME TypeOK, OnlyInserted, AtWork, SnapshotsAreDense, FirstTryInOrder, [Next]_vars
             PROVE  FirstTryInOrder'
  OBVIOUS
<1> USE QueueAssumption DEF TypeOK, OnlyInserted, AtWork, Holding, Ids, Go, NextRow, queueVars, workVars, threadVars, netVars, FirstTryInOrder
<1>1. CASE Add
  BY <1>1 DEF Add
<1>2. CASE Crash
  BY <1>2 DEF Crash
<1>3. ASSUME NEW w \in Threads,
             Fetch(w) \/ Post(w) \/ EndBatch(w) \/ Delete(w) \/ Increment(w)
             \/ IncrementFails(w) \/ Handle(w) \/ Answer(w) \/ TimeOut(w)
      PROVE  FirstTryInOrder'
  <2>1. CASE Fetch(w)
    BY <2>1 DEF Fetch
  <2>2. CASE Post(w)
    <3>1. PICK k \in batch[w] : /\ \A j \in batch[w] : k <= j
                                /\ posted' = [posted EXCEPT ![k] = @ + 1]
      BY <2>2 DEF Post
    <3>2. \A j \in Ids : j # k => posted'[j] = posted[j]
      BY <3>1
    <3>3. \A i \in Ids : (i < k /\ i \in table) => attempts[i] > 0
      BY <3>1 DEF SnapshotsAreDense
    <3>4. UNCHANGED <<table, attempts>>
      BY <2>2 DEF Post
    <3>5. QED
      BY <3>2, <3>3, <3>4
  <2>3. CASE EndBatch(w)
    BY <2>3 DEF EndBatch
  <2>4. CASE Delete(w)
    BY <2>4 DEF Delete
  <2>5. CASE Increment(w)
    <3>1. \A i \in Ids : attempts[i] > 0 => attempts'[i] > 0
      BY <2>5 DEF Increment
    <3>2. UNCHANGED <<table, posted>>
      BY <2>5 DEF Increment
    <3>3. QED
      BY <3>1, <3>2
  <2>6. CASE IncrementFails(w)
    BY <2>6 DEF IncrementFails
  <2>7. CASE Handle(w)
    BY <2>7 DEF Handle
  <2>8. CASE Answer(w)
    BY <2>8 DEF Answer
  <2>9. CASE TimeOut(w)
    BY <2>9 DEF TimeOut
  <2>10. QED
    BY <1>3, <2>1, <2>2, <2>3, <2>4, <2>5, <2>6, <2>7, <2>8, <2>9
<1>4. ASSUME NEW i \in Ids, DeliverLate(i) \/ LoseLate(i)
      PROVE  FirstTryInOrder'
  BY <1>4 DEF DeliverLate, LoseLate
<1>5. CASE Quiet
  BY <1>5 DEF Quiet
<1>6. QED
  BY <1>1, <1>2, <1>3, <1>4, <1>5, Frame DEF Quiet

-------------------------------------------------------------------------------
\* The invariant holds of an empty table without threads.
LEMMA IndInvInit == Init => IndInv
<1> SUFFICES ASSUME Init
             PROVE  IndInv
  OBVIOUS
<1> USE QueueAssumption DEF Init, Ids
<1>1. TypeOK
  <2>1. nextId \in 1..(MaxAlerts + 1)
    OBVIOUS
  <2>2. 0 \in Nat /\ {} \in SUBSET Ids
    OBVIOUS
  <2>3. QED
    BY <2>1, <2>2 DEF TypeOK, PC
<1>2. OnlyInserted
  BY DEF OnlyInserted
<1>3. AtWork /\ NoSilentDrop /\ SnapshotsAreDense /\ FirstTryInOrder
  BY DEF AtWork, Holding, NoSilentDrop, SnapshotsAreDense, FirstTryInOrder
<1>4. QED
  BY <1>1, <1>2, <1>3 DEF IndInv

\* Every step of a caller, a thread, the network or a crash keeps the invariant.
LEMMA IndInvStep == IndInv /\ [Next]_vars => IndInv'
  BY TypeStep, OnlyInsertedStep, AtWorkStep, NoSilentDropStep, SnapshotsAreDenseStep,
     FirstTryInOrderStep DEF IndInv

\* The invariant the other results follow from.
THEOREM InvariantHolds == Spec => []IndInv
<1>1. QED
  BY IndInvInit, IndInvStep, PTL DEF Spec

\* The columns of the table, the thread states and the counters keep their
\* types whatever the threads, the network and the crashes do.
THEOREM TypeCorrect == Spec => []TypeOK
<1>1. IndInv => TypeOK
  BY DEF IndInv
<1>2. QED
  BY <1>1, InvariantHolds, PTL

\* No alert that was queued is dropped before the backend has it, for every
\* number of threads, crashes, stops, lost answers and failed database calls.
THEOREM NothingDropped == Spec => []NoSilentDrop
<1>1. IndInv => NoSilentDrop
  BY DEF IndInv
<1>2. QED
  BY <1>1, InvariantHolds, PTL

\* Alerts are first tried oldest first, even when two threads share the table.
THEOREM TriedInOrder == Spec => []FirstTryInOrder
<1>1. IndInv => FirstTryInOrder
  BY DEF IndInv
<1>2. QED
  BY <1>1, InvariantHolds, PTL

-------------------------------------------------------------------------------
(* The queue implements AlertDelivery: an insert accepts, a handled POST is *)
(* received, a delete of a waiting row forgets it, the rest stutters.       *)

Seen == {i \in Ids : received[i] > 0}

\* An empty queue is an empty AlertDelivery.
LEMMA DeliveryInit == Init => Delivery!Init
  BY QueueAssumption DEF Init, Delivery!Init, Ids

\* Every step of the queue is one of AlertDelivery, or changes nothing of it.
LEMMA DeliveryStep ==
  IndInv /\ [Next]_vars => [Delivery!Next]_(Delivery!abstractVars)
<1> SUFFICES ASSUME IndInv, [Next]_vars
             PROVE  Delivery!Next \/ UNCHANGED Delivery!abstractVars
  OBVIOUS
<1> DEFINE known == 1..(nextId - 1)
<1>0. TypeOK /\ OnlyInserted /\ AtWork
  BY DEF IndInv
<1> USE QueueAssumption, <1>0 DEF TypeOK, OnlyInserted, Ids, Go, NextRow,
        queueVars, workVars, threadVars, netVars
<1>1. ASSUME UNCHANGED <<table, nextId, received>>
      PROVE  UNCHANGED Delivery!abstractVars
  BY <1>1 DEF Delivery!abstractVars
<1>2. ASSUME NEW i \in Ids, i < nextId, UNCHANGED <<table, nextId>>,
             received' = [received EXCEPT ![i] = @ + 1]
      PROVE  Delivery!Next
  <2>1. Seen' = Seen \cup {i}
    BY <1>2 DEF Seen
  <2>2. Delivery!Receive(i)
    BY <1>2, <2>1 DEF Delivery!Receive, Seen
  <2>3. QED
    BY <2>2 DEF Delivery!Next
<1>3. CASE Add
  <2>1. Delivery!Accept(nextId)
    <3>1. nextId \notin table \cup (known \ table)
      OBVIOUS
    <3>2. (1..(nextId' - 1)) \ table' = known \ table
      <4>1. nextId' - 1 = nextId /\ table' = table \cup {nextId}
        BY <1>3 DEF Add
      <4>2. \A k : k \in 1..nextId <=> k \in known \/ k = nextId
        OBVIOUS
      <4>3. (1..nextId) \ (table \cup {nextId}) = known \ table
        BY <3>1, <4>2
      <4>4. QED
        BY <4>1, <4>3
    <3>3. table' = table \cup {nextId} /\ UNCHANGED received
      BY <1>3 DEF Add
    <3>4. (1..(nextId' - 1)) \ table' = known \ table /\ Seen' = Seen
      BY <3>2, <3>3 DEF Seen
    <3>5. QED
      BY <3>1, <3>3, <3>4 DEF Delivery!Accept, Seen
  <2>2. QED
    BY <1>3, <2>1 DEF Add, Delivery!Next
<1>4. CASE Crash
  BY <1>1, <1>4 DEF Crash
<1>5. ASSUME NEW w \in Threads, Delete(w)
      PROVE  Delivery!Next \/ UNCHANGED Delivery!abstractVars
  <2>1. alertId[w] \in Ids /\ received[alertId[w]] > 0
    BY <1>5 DEF Delete, AtWork, Holding
  <2>2. table' = table \ {alertId[w]} /\ UNCHANGED <<nextId, received>>
    BY <1>5 DEF Delete
  <2>3. CASE alertId[w] \in table
    <3>1. (1..(nextId' - 1)) \ table' = (known \ table) \cup {alertId[w]}
      BY <2>2, <2>3
    <3>2. alertId[w] \in table \cap Seen /\ Seen' = Seen
      BY <2>1, <2>2, <2>3 DEF Seen
    <3>3. Delivery!Forget(alertId[w])
      BY <2>2, <3>1, <3>2 DEF Delivery!Forget, Seen
    <3>4. QED
      BY <2>1, <3>3 DEF Delivery!Next
  <2>4. CASE alertId[w] \notin table
    BY <1>1, <2>2, <2>4
  <2>5. QED
    BY <2>3, <2>4
<1>6. ASSUME NEW w \in Threads, Handle(w)
      PROVE  Delivery!Next
  <2>1. /\ alertId[w] \in Ids /\ alertId[w] < nextId
        /\ UNCHANGED <<table, nextId>>
        /\ received' = [received EXCEPT ![alertId[w]] = @ + 1]
    BY <1>6 DEF Handle, AtWork, Holding
  <2>2. QED
    BY <1>2, <2>1
<1>7. ASSUME NEW w \in Threads,
             Fetch(w) \/ Post(w) \/ EndBatch(w) \/ Increment(w)
             \/ IncrementFails(w) \/ Answer(w) \/ TimeOut(w)
      PROVE  UNCHANGED Delivery!abstractVars
  BY <1>1, <1>7 DEF Fetch, Post, EndBatch, Increment, IncrementFails, Answer, TimeOut
<1>8. ASSUME NEW i \in Ids, DeliverLate(i)
      PROVE  Delivery!Next
  <2>1. /\ i < nextId /\ UNCHANGED <<table, nextId>>
        /\ received' = [received EXCEPT ![i] = @ + 1]
    BY <1>8 DEF DeliverLate
  <2>2. QED
    BY <1>2, <2>1
<1>9. ASSUME NEW i \in Ids, LoseLate(i)
      PROVE  UNCHANGED Delivery!abstractVars
  BY <1>1, <1>9 DEF LoseLate
<1>10. QED
  BY <1>1, <1>3, <1>4, <1>5, <1>6, <1>7, <1>8, <1>9, Frame

\* Every behaviour of the queue, with its threads, crashes and lost answers,
\* is a behaviour of the delivery promise.
THEOREM ImplementationOfDelivery == Spec => ImplementsDelivery
<1>1. QED
  BY DeliveryInit, DeliveryStep, InvariantHolds, PTL
     DEF Spec, ImplementsDelivery, Delivery!Spec


-------------------------------------------------------------------------------
(* The retry cap.  BudgetInv holds of a thread that serves the table alone. *)

\* An empty queue without threads is within its budget.
LEMMA BudgetInit == Init => BudgetInv
<1> SUFFICES ASSUME Init
             PROVE  BudgetInv
  OBVIOUS
<1> USE QueueAssumption DEF Init, Ids
<1>1. AtRest /\ Alone /\ Fresh
  BY DEF AtRest, Alone, Fresh
<1>2. Counted
  BY DEF Counted, Uncounted
<1>3. QED
  BY <1>1, <1>2 DEF BudgetInv

\* A step that only moves one live thread along, without taking up or giving
\* back a row, keeps the budget.
LEMMA BudgetMove ==
  ASSUME TypeOK, BudgetInv, NEW w \in Threads, NEW to \in PC,
         pc[w] # "none", pc' = [pc EXCEPT ![w] = to],
         pc[w] \in Holding <=> to \in Holding, pc[w] # "send", to # "send",
         UNCHANGED <<table, attempts, batch, alertId, posted, overlapped, crashes>>,
         dbFails' = dbFails \/ dbFails' = dbFails + 1
  PROVE  BudgetInv'
<1> USE DEF TypeOK, BudgetInv
<1>1. AtRest'
  BY DEF AtRest
<1>2. ASSUME ~overlapped
      PROVE  Alone' /\ Fresh'
  BY <1>2 DEF Alone, Fresh
<1>3. ASSUME ~overlapped
      PROVE  Counted'
  <2>1. \A i \in Ids : Uncounted(i)' <=> Uncounted(i)
    BY DEF Uncounted
  <2>2. QED
    BY <1>3, <2>1 DEF Counted, TypeOK
<1>4. QED
  BY <1>1, <1>2, <1>3

\* No step of a caller, a thread, the network or a crash lets a lone thread
\* overspend.
LEMMA BudgetStep == IndInv /\ BudgetInv /\ [Next]_vars => BudgetInv'
<1> SUFFICES ASSUME IndInv, BudgetInv, [Next]_vars
             PROVE  BudgetInv'
  OBVIOUS
<1>0. TypeOK /\ OnlyInserted /\ AtWork
  BY DEF IndInv
<1> USE QueueAssumption, <1>0
<1> USE DEF queueVars, workVars, threadVars, netVars, boundVars, Go, NextRow
<1>1. CASE Add
  <2>1. AtRest' /\ (~overlapped => Alone' /\ Fresh')
    BY <1>1 DEF Add, BudgetInv, AtRest, Alone, Fresh
  <2>2. ASSUME ~overlapped
        PROVE  Counted'
    <3> SUFFICES ASSUME NEW i \in Ids
                 PROVE  /\ attempts'[i] <= MaxAttempts
                        /\ i \notin table' => attempts'[i] < MaxAttempts
                        /\ posted'[i] <= attempts'[i] + crashes' + dbFails'
                                         + (IF Uncounted(i)' THEN 1 ELSE 0)
      BY DEF Counted
    <3>1. CASE i = nextId
      <4>1. posted[i] = 0
        BY <3>1 DEF OnlyInserted, TypeOK
      <4>2. QED
        BY <1>1, <2>2, <3>1, <4>1 DEF Add, BudgetInv, Counted, TypeOK
    <3>2. CASE i # nextId
      <4>1. Uncounted(i)' <=> Uncounted(i)
        BY <1>1, <3>2 DEF Add, Uncounted
      <4>2. QED
        BY <1>1, <2>2, <3>2, <4>1 DEF Add, BudgetInv, Counted, TypeOK
    <3>3. QED
      BY <3>1, <3>2
  <2>3. QED
    BY <1>1, <2>1, <2>2 DEF Add, BudgetInv
<1>2. CASE Crash
  <2>1. AtRest' /\ Alone' /\ Fresh'
    BY <1>2 DEF Crash, AtRest, Alone, Fresh
  <2>2. ASSUME ~overlapped
        PROVE  Counted'
    <3>1. \A i \in Ids : i \notin table' => Uncounted(i)'
      BY DEF Uncounted
    <3>2. \A i \in Ids : i \notin table <=> i \notin table'
      BY <1>2 DEF Crash
    <3>3. QED
      BY <1>2, <2>2, <3>1, <3>2 DEF Crash, BudgetInv, Counted, TypeOK
  <2>3. QED
    BY <1>2, <2>1, <2>2 DEF Crash, BudgetInv
<1>3. CASE StopRetry \/ Toggle \/ UNCHANGED vars \/ \E i \in Ids : DeliverLate(i) \/ LoseLate(i)
  <2>1. UNCHANGED <<table, attempts, workVars, posted, overlapped, crashes, dbFails>>
    BY <1>3 DEF StopRetry, Toggle, vars, DeliverLate, LoseLate
  <2>2. QED
    BY <2>1 DEF BudgetInv, AtRest, Alone, Fresh, Counted, Uncounted
<1>4. ASSUME NEW w \in Threads, StartRetry(w)
      PROVE  BudgetInv'
  <2>1. AtRest'
    BY <1>4 DEF StartRetry, BudgetInv, AtRest, Holding, TypeOK
  <2>2. ASSUME ~overlapped'
        PROVE  ~overlapped /\ \A v \in Threads : pc[v] = "none"
    BY <1>4, <2>2 DEF StartRetry, TypeOK
  <2>3. ASSUME ~overlapped'
        PROVE  Alone' /\ Fresh'
    BY <1>4, <2>2, <2>3 DEF StartRetry, Alone, Fresh, BudgetInv, TypeOK
  <2>4. ASSUME ~overlapped'
        PROVE  Counted'
    <3>1. \A i \in Ids : Uncounted(i)' <=> Uncounted(i)
      BY <1>4 DEF StartRetry, Uncounted, Holding, TypeOK
    <3>2. QED
      BY <1>4, <2>2, <2>4, <3>1 DEF StartRetry, BudgetInv, Counted
  <2>5. QED
    BY <2>1, <2>3, <2>4 DEF BudgetInv
<1>5. ASSUME NEW w \in Threads,
             FetchFails(w) \/ Exit(w) \/ Wake(w) \/ DeleteFails(w) \/ NetworkStep(w)
      PROVE  BudgetInv'
  <2>1. \E to \in PC :
          /\ pc[w] # "none" /\ pc' = [pc EXCEPT ![w] = to]
          /\ pc[w] \in Holding <=> to \in Holding
          /\ pc[w] # "send" /\ to # "send"
    BY <1>5 DEF FetchFails, Exit, Wake, DeleteFails, NetworkStep, Handle, Answer, LoseAnswer,
                Reject, TimeOut, Refuse, Holding, PC
  <2>2. /\ UNCHANGED <<table, attempts, batch, alertId, posted, overlapped, crashes>>
        /\ dbFails' = dbFails \/ dbFails' = dbFails + 1
    BY <1>5 DEF FetchFails, Exit, Wake, DeleteFails, NetworkStep, Handle, Answer, LoseAnswer,
                Reject, TimeOut, Refuse, DbFails
  <2>3. QED
    BY <2>1, <2>2, BudgetMove
<1>6. ASSUME NEW w \in Threads, Fetch(w)
      PROVE  BudgetInv'
  <2>1. AtRest'
    BY <1>6 DEF Fetch, BudgetInv, AtRest, TypeOK
  <2>2. ASSUME ~overlapped
        PROVE  Alone' /\ Fresh'
    BY <1>6, <2>2 DEF Fetch, Pending, Alone, Fresh, BudgetInv, TypeOK
  <2>3. ASSUME ~overlapped
        PROVE  Counted'
    <3>1. \A i \in Ids : Uncounted(i)' <=> Uncounted(i)
      BY <1>6 DEF Fetch, Uncounted, Holding, TypeOK
    <3>2. QED
      BY <1>6, <2>3, <3>1 DEF Fetch, BudgetInv, Counted
  <2>4. QED
    BY <1>6, <2>1, <2>2, <2>3 DEF Fetch, BudgetInv
<1>7. ASSUME NEW w \in Threads, Post(w)
      PROVE  BudgetInv'
  <2>1. PICK k \in batch[w] : /\ alertId' = [alertId EXCEPT ![w] = k]
                              /\ posted' = [posted EXCEPT ![k] = @ + 1]
    BY <1>7 DEF Post
  <2>2. /\ pc[w] = "send" /\ pc' = [pc EXCEPT ![w] = "posting"]
        /\ UNCHANGED <<table, attempts, batch, overlapped, crashes, dbFails>>
    BY <1>7 DEF Post
  <2>3. AtRest'
    BY <2>2 DEF BudgetInv, AtRest, Holding, TypeOK
  <2>4. ASSUME ~overlapped
        PROVE  Alone' /\ Fresh'
    BY <2>2, <2>4 DEF Alone, Fresh, BudgetInv, TypeOK
  <2>5. ASSUME ~overlapped
        PROVE  Counted'
    <3> SUFFICES ASSUME NEW i \in Ids
                 PROVE  /\ attempts'[i] <= MaxAttempts
                        /\ i \notin table' => attempts'[i] < MaxAttempts
                        /\ posted'[i] <= attempts'[i] + crashes' + dbFails'
                                         + (IF Uncounted(i)' THEN 1 ELSE 0)
      BY DEF Counted
    <3>1. CASE i = k
      <4>1. ~Uncounted(i)
        <5>1. i \in table
          BY <2>5, <3>1 DEF BudgetInv, Fresh
        <5>2. \A v \in Threads : pc[v] \notin Holding
          BY <2>2, <2>5 DEF BudgetInv, Alone, Holding
        <5>3. QED
          BY <5>1, <5>2 DEF Uncounted
      <4>2. Uncounted(i)'
        BY <2>1, <2>2, <3>1 DEF Uncounted, Holding, TypeOK
      <4>3. posted'[i] = posted[i] + 1 /\ posted[i] \in Nat
        BY <2>1, <3>1 DEF TypeOK
      <4>4. QED
        BY <2>2, <2>5, <4>1, <4>2, <4>3 DEF BudgetInv, Counted, TypeOK
    <3>2. CASE i # k
      <4>1. Uncounted(i) => Uncounted(i)'
        BY <2>1, <2>2, <3>2 DEF Uncounted, Holding, TypeOK
      <4>2. posted'[i] = posted[i]
        BY <2>1, <3>2 DEF TypeOK
      <4>3. QED
        BY <2>2, <2>5, <4>1, <4>2 DEF BudgetInv, Counted, TypeOK
    <3>3. QED
      BY <3>1, <3>2
  <2>6. QED
    BY <2>2, <2>3, <2>4, <2>5 DEF BudgetInv
<1>8. ASSUME NEW w \in Threads, EndBatch(w)
      PROVE  BudgetInv'
  <2>1. AtRest'
    BY <1>8 DEF EndBatch, BudgetInv, AtRest, Holding, TypeOK
  <2>2. ASSUME ~overlapped
        PROVE  Alone' /\ Fresh'
    BY <1>8, <2>2 DEF EndBatch, Alone, Fresh, BudgetInv, TypeOK
  <2>3. ASSUME ~overlapped
        PROVE  Counted'
    <3>1. \A i \in Ids : Uncounted(i)' <=> Uncounted(i)
      BY <1>8 DEF EndBatch, Uncounted, Holding, TypeOK
    <3>2. QED
      BY <1>8, <2>3, <3>1 DEF EndBatch, BudgetInv, Counted
  <2>4. QED
    BY <1>8, <2>1, <2>2, <2>3 DEF EndBatch, BudgetInv
<1>9. ASSUME NEW w \in Threads, Delete(w) \/ Increment(w) \/ IncrementFails(w)
      PROVE  BudgetInv'
  <2> DEFINE k == alertId[w]
  <2>1. /\ pc[w] \in Holding /\ k \in batch[w] /\ k \in Ids
        /\ UNCHANGED <<posted, overlapped, crashes>>
        /\ alertId' = [alertId EXCEPT ![w] = 0]
    BY <1>9 DEF Delete, Increment, IncrementFails, AtWork, Holding, TypeOK
  <2>2. AtRest'
    BY <1>9 DEF Delete, Increment, IncrementFails, BudgetInv, AtRest, Holding, TypeOK
  <2>3. ASSUME ~overlapped
        PROVE  \A v \in Threads \ {w} : pc[v] = "none" /\ pc'[v] = "none" /\ batch'[v] = {}
    BY <1>9, <2>1, <2>3
       DEF Delete, Increment, IncrementFails, BudgetInv, Alone, AtRest, Holding, TypeOK
  <2>4. ASSUME ~overlapped
        PROVE  Alone'
    BY <2>3, <2>4 DEF Alone
  <2>5. ASSUME ~overlapped
        PROVE  Fresh'
    <3>1. \A i \in batch'[w] : i \in batch[w] /\ i # k
      BY <1>9 DEF Delete, Increment, IncrementFails, TypeOK
    <3>2. \A i \in Ids \ {k} : (i \in table' <=> i \in table) /\ attempts'[i] = attempts[i]
      BY <1>9 DEF Delete, Increment, IncrementFails, TypeOK
    <3>3. batch[w] \subseteq Ids
      BY DEF TypeOK
    <3>4. QED
      BY <2>3, <2>5, <3>1, <3>2, <3>3 DEF BudgetInv, Fresh
  <2>6. ASSUME ~overlapped
        PROVE  Counted'
    <3> SUFFICES ASSUME NEW i \in Ids
                 PROVE  /\ attempts'[i] <= MaxAttempts
                        /\ i \notin table' => attempts'[i] < MaxAttempts
                        /\ posted'[i] <= attempts'[i] + crashes' + dbFails'
                                         + (IF Uncounted(i)' THEN 1 ELSE 0)
      BY DEF Counted
    <3>0. /\ attempts[i] <= MaxAttempts
          /\ i \notin table => attempts[i] < MaxAttempts
          /\ posted[i] <= attempts[i] + crashes + dbFails + (IF Uncounted(i) THEN 1 ELSE 0)
      BY <2>6 DEF BudgetInv, Counted
    <3>1. CASE i # k
      <4>1. (i \in table' <=> i \in table) /\ attempts'[i] = attempts[i]
        BY <1>9, <3>1 DEF Delete, Increment, IncrementFails, TypeOK
      <4>2. Uncounted(i) => Uncounted(i)'
        BY <2>1, <2>3, <2>6, <3>1, <4>1 DEF Uncounted, Holding, TypeOK
      <4>3. dbFails' = dbFails \/ dbFails' = dbFails + 1
        BY <1>9 DEF Delete, Increment, IncrementFails, DbFails
      <4>4. QED
        BY <2>1, <3>0, <4>1, <4>2, <4>3 DEF TypeOK
    <3>2. CASE i = k
      <4>0. i \in table /\ attempts[i] < MaxAttempts
        BY <2>1, <2>6, <3>2 DEF BudgetInv, Fresh
      <4>1. CASE Delete(w)
        <5>1. Uncounted(i)'
          BY <3>2, <4>1 DEF Delete, Uncounted
        <5>2. QED
          BY <2>1, <3>0, <4>0, <4>1, <5>1 DEF Delete, TypeOK
      <4>2. CASE Increment(w)
        <5>1. attempts'[i] = attempts[i] + 1 /\ UNCHANGED <<table, crashes, dbFails>>
          BY <3>2, <4>0, <4>2 DEF Increment
        <5>2. QED
          BY <2>1, <3>0, <4>0, <5>1 DEF TypeOK
      <4>3. CASE IncrementFails(w)
        <5>1. dbFails' = dbFails + 1 /\ UNCHANGED <<table, attempts, crashes>>
          BY <4>3 DEF IncrementFails, DbFails
        <5>2. QED
          BY <2>1, <3>0, <4>0, <5>1 DEF TypeOK
      <4>4. QED
        BY <1>9, <4>1, <4>2, <4>3
    <3>3. QED
      BY <3>1, <3>2
  <2>7. QED
    BY <2>1, <2>2, <2>4, <2>5, <2>6 DEF BudgetInv
<1>10. QED
  BY <1>1, <1>2, <1>3, <1>4, <1>5, <1>6, <1>7, <1>8, <1>9 DEF Next, ThreadStep

\* While no second thread runs beside the first, a row is POSTed at most
\* MaxAttempts times, plus once per crash or failed database call, for every
\* cap, number of rows and order of failures.
THEOREM WithinBudget == Spec => []RetryBudget
<1>1. IndInv /\ BudgetInv => RetryBudget
  <2> SUFFICES ASSUME IndInv, BudgetInv, ~overlapped, NEW i \in Ids
               PROVE  posted[i] <= MaxAttempts + crashes + dbFails
    BY DEF RetryBudget
  <2>1. attempts[i] + (IF Uncounted(i) THEN 1 ELSE 0) <= MaxAttempts
    <3>1. attempts[i] \in Nat /\ MaxAttempts \in Nat
      BY QueueAssumption DEF IndInv, TypeOK
    <3>2. Uncounted(i) => attempts[i] < MaxAttempts
      BY DEF Uncounted, BudgetInv, Counted, Fresh, IndInv, AtWork
    <3>3. QED
      BY <3>1, <3>2 DEF BudgetInv, Counted
  <2>2. QED
    BY <2>1, QueueAssumption DEF BudgetInv, Counted, IndInv, TypeOK
<1>2. IndInv /\ IndInv' /\ BudgetInv /\ [Next]_vars => BudgetInv'
  BY BudgetStep
<1>3. QED
  BY <1>1, <1>2, BudgetInit, InvariantHolds, PTL DEF Spec
=============================================================================
