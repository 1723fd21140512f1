------------------------------ MODULE AlertQueue ------------------------------
(***************************************************************************)
(* agent/core/alert_queue.py: the offline queue every dashboard message of *)
(* an agent goes through.  add_to_endpoint commits a row to a SQLite table *)
(* and a background thread POSTs the rows to the backend, deleting a row   *)
(* on 200/201 and counting an attempt on anything else.                    *)
(*                                                                         *)
(* The process may crash between any two steps (the table survives), the   *)
(* network may be down, an answer may be lost after the backend handled    *)
(* the request, a timed out request may still be delivered later, and a    *)
(* database call may fail.  stop_retry gives up waiting for the thread     *)
(* after 3 s while a POST may take 10 s, so a later start_retry can create *)
(* a second thread beside the first.                                       *)
(*                                                                         *)
(* Rows are identified by their AUTOINCREMENT id.  Their timestamp is      *)
(* taken under the lock that also assigns the id, so for a clock that is   *)
(* not set back "oldest first" is the order of the ids.                    *)
(***************************************************************************)
EXTENDS Integers, FiniteSets

CONSTANTS
  Threads,      \* identities of the retry threads start_retry may create
  MaxAttempts,  \* rows with this many failed attempts are not selected (5)
  MaxAlerts,    \* bound: number of rows ever inserted
  MaxCrashes,   \* bound: number of process crashes
  MaxStops,     \* bound: number of stop_retry calls
  MaxFaults,    \* bound: rejected, timed out or unanswered POSTs while online
  MaxDbFails    \* bound: failed database calls

ASSUME QueueAssumption ==
  /\ IsFiniteSet(Threads)
  /\ MaxAttempts \in Nat \ {0}
  /\ MaxAlerts \in Nat
  /\ MaxCrashes \in Nat /\ MaxStops \in Nat
  /\ MaxFaults \in Nat /\ MaxDbFails \in Nat

Ids == 1..MaxAlerts

VARIABLES
  table,        \* ids of the rows of pending_alerts
  attempts,     \* their attempts column (the last value, for a deleted row)
  nextId,       \* the next AUTOINCREMENT id
  running,      \* self._running
  pc,           \* where each retry thread is; "none" before start and after exit
  batch,        \* per thread, the rows of its snapshot not yet dealt with
  alertId,      \* per thread, the row being sent, or 0
  online,       \* is the backend reachable?
  late,         \* per row, timed out POSTs that may still reach the backend
  received,     \* per row, how often the backend handled a POST of it
  posted,       \* per row, how often it was POSTed (history)
  overlapped,   \* was a thread started while another was alive? (history)
  crashes, stops, faults, dbFails

queueVars  == <<table, attempts, nextId>>
workVars   == <<pc, batch, alertId>>
threadVars == <<running, overlapped, workVars>>
netVars    == <<online, late, received, posted>>
boundVars  == <<crashes, stops, faults, dbFails>>
vars == <<queueVars, threadVars, netVars, boundVars>>

PC == {"none", "loop", "send", "posting", "answered", "delete", "fail", "sleep"}

Init ==
  /\ table = {} /\ nextId = 1
  /\ attempts = [i \in Ids |-> 0]
  /\ running = FALSE
  /\ pc = [w \in Threads |-> "none"]
  /\ batch = [w \in Threads |-> {}]
  /\ alertId = [w \in Threads |-> 0]
  /\ online \in BOOLEAN
  /\ late = [i \in Ids |-> 0]
  /\ received = [i \in Ids |-> 0]
  /\ posted = [i \in Ids |-> 0]
  /\ overlapped = FALSE
  /\ crashes = 0 /\ stops = 0 /\ faults = 0 /\ dbFails = 0

-------------------------------------------------------------------------------
(* Callers of the queue: the dashboard bridge and the orchestrator.        *)

\* _add_sync: one committed INSERT under _db_lock.
Add ==
  /\ nextId \in Ids
  /\ table' = table \cup {nextId}
  /\ nextId' = nextId + 1
  /\ UNCHANGED <<attempts, threadVars, netVars, boundVars>>

\* start_retry: nothing but a warning when the flag is already set.
StartRetry(w) ==
  /\ ~running
  /\ pc[w] = "none"
  /\ running' = TRUE
  /\ pc' = [pc EXCEPT ![w] = "loop"]
  /\ overlapped' = (overlapped \/ \E v \in Threads : pc[v] # "none")
  /\ UNCHANGED <<queueVars, batch, alertId, netVars, boundVars>>

\* stop_retry: clears the flag; the join is given up after 3 s, so the call
\* returns whether or not the thread has ended.
StopRetry ==
  /\ running
  /\ stops < MaxStops
  /\ running' = FALSE
  /\ stops' = stops + 1
  /\ UNCHANGED <<queueVars, workVars, overlapped, netVars, crashes, faults, dbFails>>

-------------------------------------------------------------------------------
(* The retry thread.                                                       *)

Go(w, from, to) == pc[w] = from /\ pc' = [pc EXCEPT ![w] = to]

\* A database call raised: counted, to keep the model finite.
DbFails == dbFails < MaxDbFails /\ dbFails' = dbFails + 1

\* Fault: rows are selected whatever their attempts.
PendingUncapped == table

\* The rows _get_pending_alerts selects.
Pending == {i \in table : attempts[i] < MaxAttempts}

\* while self._running: take a snapshot of the rows that may be sent.
Fetch(w) ==
  /\ running
  /\ Go(w, "loop", "send")
  /\ batch' = [batch EXCEPT ![w] = Pending]
  /\ UNCHANGED <<queueVars, running, overlapped, alertId, netVars, boundVars>>

\* Fault: the error ends the thread, and nothing resets the flag.
FetchFailsForGood(w) ==
  /\ running
  /\ Go(w, "loop", "none")
  /\ DbFails
  /\ UNCHANGED <<queueVars, running, overlapped, batch, alertId, netVars, crashes, stops, faults>>

\* The snapshot query raised: the outer except sleeps and tries again.
FetchFails(w) ==
  /\ running
  /\ Go(w, "loop", "sleep")
  /\ DbFails
  /\ UNCHANGED <<queueVars, running, overlapped, batch, alertId, netVars, crashes, stops, faults>>

\* while self._running is false: the thread returns.
Exit(w) ==
  /\ ~running
  /\ Go(w, "loop", "none")
  /\ UNCHANGED <<queueVars, running, overlapped, batch, alertId, netVars, boundVars>>

\* Fault: the rows are served in no particular order.
PostAny(w) ==
  /\ running
  /\ Go(w, "send", "posting")
  /\ \E i \in batch[w] :
       /\ alertId' = [alertId EXCEPT ![w] = i]
       /\ posted' = [posted EXCEPT ![i] = @ + 1]
  /\ UNCHANGED <<queueVars, running, overlapped, batch, online, late, received, boundVars>>

\* The oldest row left of the snapshot is POSTed, if the thread may still run.
Post(w) ==
  /\ running
  /\ Go(w, "send", "posting")
  /\ \E i \in batch[w] :
       /\ \A j \in batch[w] : i <= j
       /\ alertId' = [alertId EXCEPT ![w] = i]
       /\ posted' = [posted EXCEPT ![i] = @ + 1]
  /\ UNCHANGED <<queueVars, running, overlapped, batch, online, late, received, boundVars>>

\* The snapshot is finished, or is abandoned because of stop_retry.
EndBatch(w) ==
  /\ batch[w] = {} \/ ~running
  /\ Go(w, "send", "sleep")
  /\ batch' = [batch EXCEPT ![w] = {}]
  /\ UNCHANGED <<queueVars, running, overlapped, alertId, netVars, boundVars>>

Wake(w) ==
  /\ Go(w, "sleep", "loop")
  /\ UNCHANGED <<queueVars, running, overlapped, batch, alertId, netVars, boundVars>>

\* The thread is done with its current row.
NextRow(w) ==
  /\ batch' = [batch EXCEPT ![w] = @ \ {alertId[w]}]
  /\ alertId' = [alertId EXCEPT ![w] = 0]

\* 200 or 201: the row is deleted (a no-op if another thread deleted it).
Delete(w) ==
  /\ Go(w, "delete", "send")
  /\ table' = table \ {alertId[w]}
  /\ NextRow(w)
  /\ UNCHANGED <<attempts, nextId, running, overlapped, netVars, boundVars>>

\* The DELETE raised: "except Exception" counts an attempt for a row that
\* was delivered.
DeleteFails(w) ==
  /\ Go(w, "delete", "fail")
  /\ DbFails
  /\ UNCHANGED <<queueVars, running, overlapped, batch, alertId, netVars, crashes, stops, faults>>

\* _increment_attempt: an UPDATE, which finds no row if it was deleted.
Increment(w) ==
  /\ Go(w, "fail", "send")
  /\ attempts' = [i \in Ids |->
       IF i = alertId[w] /\ i \in table THEN attempts[i] + 1 ELSE attempts[i]]
  /\ NextRow(w)
  /\ UNCHANGED <<table, nextId, running, overlapped, netVars, boundVars>>

\* The UPDATE raised inside the except clause: the rest of the snapshot is
\* dropped and the outer except sleeps.
IncrementFails(w) ==
  /\ Go(w, "fail", "sleep")
  /\ batch' = [batch EXCEPT ![w] = {}]
  /\ alertId' = [alertId EXCEPT ![w] = 0]
  /\ DbFails
  /\ UNCHANGED <<queueVars, running, overlapped, netVars, crashes, stops, faults>>

ThreadStep(w) ==
  \/ Fetch(w) \/ FetchFails(w) \/ Exit(w)
  \/ Post(w) \/ EndBatch(w) \/ Wake(w)
  \/ Delete(w) \/ DeleteFails(w) \/ Increment(w) \/ IncrementFails(w)

-------------------------------------------------------------------------------
(* The network and the backend, external to the queue.                     *)

\* The backend handles the request and answers 201.
Handle(w) ==
  /\ online
  /\ Go(w, "posting", "answered")
  /\ received' = [received EXCEPT ![alertId[w]] = @ + 1]
  /\ UNCHANGED <<queueVars, running, overlapped, batch, alertId, online, late, posted, boundVars>>

Answer(w) ==
  /\ Go(w, "answered", "delete")
  /\ UNCHANGED <<queueVars, running, overlapped, batch, alertId, netVars, boundVars>>

Fault == faults < MaxFaults /\ faults' = faults + 1

\* The answer is lost, or comes after httpx gave up.
LoseAnswer(w) ==
  /\ Go(w, "answered", "fail")
  /\ Fault
  /\ UNCHANGED <<queueVars, running, overlapped, batch, alertId, netVars, crashes, stops, dbFails>>

\* Fault: a row is deleted whatever the status of the answer.
RejectAsDelivered(w) ==
  /\ online
  /\ Go(w, "posting", "delete")
  /\ Fault
  /\ UNCHANGED <<queueVars, running, overlapped, batch, alertId, netVars, crashes, stops, dbFails>>

\* Any other status (429 of the rate limiter, 4xx, 5xx): nothing is stored.
Reject(w) ==
  /\ online
  /\ Go(w, "posting", "fail")
  /\ Fault
  /\ UNCHANGED <<queueVars, running, overlapped, batch, alertId, netVars, crashes, stops, dbFails>>

\* The POST times out while the request is still on its way.
TimeOut(w) ==
  /\ Go(w, "posting", "fail")
  /\ Fault
  /\ late' = [late EXCEPT ![alertId[w]] = @ + 1]
  /\ UNCHANGED <<queueVars, running, overlapped, batch, alertId, online, received, posted,
                 crashes, stops, dbFails>>

\* No connection: httpx.RequestError.
Refuse(w) ==
  /\ ~online
  /\ Go(w, "posting", "fail")
  /\ UNCHANGED <<queueVars, running, overlapped, batch, alertId, netVars, boundVars>>

NetworkStep(w) ==
  Handle(w) \/ Answer(w) \/ LoseAnswer(w) \/ Reject(w) \/ TimeOut(w) \/ Refuse(w)

DeliverLate(i) ==
  /\ online
  /\ late[i] > 0
  /\ late' = [late EXCEPT ![i] = @ - 1]
  /\ received' = [received EXCEPT ![i] = @ + 1]
  /\ UNCHANGED <<queueVars, threadVars, online, posted, boundVars>>

LoseLate(i) ==
  /\ late[i] > 0
  /\ late' = [late EXCEPT ![i] = @ - 1]
  /\ UNCHANGED <<queueVars, threadVars, online, received, posted, boundVars>>

Toggle ==
  /\ online' = ~online
  /\ UNCHANGED <<queueVars, threadVars, late, received, posted, boundVars>>

-------------------------------------------------------------------------------
\* Fault: the rows are kept in memory only.
CrashForgetful ==
  /\ crashes < MaxCrashes
  /\ crashes' = crashes + 1
  /\ running' = FALSE
  /\ table' = {}
  /\ pc' = [w \in Threads |-> "none"]
  /\ batch' = [w \in Threads |-> {}]
  /\ alertId' = [w \in Threads |-> 0]
  /\ UNCHANGED <<attempts, nextId, overlapped, netVars, stops, faults, dbFails>>

\* The process dies; the table survives.  Its successor has not called
\* start_retry yet.  A request that was under way may still be delivered.
Crash ==
  /\ crashes < MaxCrashes
  /\ crashes' = crashes + 1
  /\ running' = FALSE
  /\ pc' = [w \in Threads |-> "none"]
  /\ batch' = [w \in Threads |-> {}]
  /\ alertId' = [w \in Threads |-> 0]
  /\ late' = [i \in Ids |->
       late[i] + Cardinality({w \in Threads : pc[w] = "posting" /\ alertId[w] = i})]
  /\ UNCHANGED <<queueVars, overlapped, online, received, posted, stops, faults, dbFails>>

Next ==
  \/ Add
  \/ StopRetry
  \/ Crash
  \/ Toggle
  \/ \E w \in Threads : StartRetry(w) \/ ThreadStep(w) \/ NetworkStep(w)
  \/ \E i \in Ids : DeliverLate(i) \/ LoseLate(i)

Spec == Init /\ [][Next]_vars

(* The threads are scheduled, every POST ends within its 10 s timeout one  *)
(* way or the other, and the orchestrator calls start_retry at start-up.   *)
(* Nothing is assumed of the network itself.                               *)
Fairness ==
  /\ \A w \in Threads : WF_vars(ThreadStep(w)) /\ WF_vars(NetworkStep(w))
  /\ WF_vars(\E w \in Threads : StartRetry(w))

FairSpec == Spec /\ Fairness

-------------------------------------------------------------------------------
TypeOK ==
  /\ nextId \in 1..(MaxAlerts + 1)
  /\ table \in SUBSET Ids
  /\ attempts \in [Ids -> Nat]
  /\ running \in BOOLEAN /\ overlapped \in BOOLEAN /\ online \in BOOLEAN
  /\ pc \in [Threads -> PC]
  /\ batch \in [Threads -> SUBSET Ids]
  /\ alertId \in [Threads -> Ids \cup {0}]
  /\ late \in [Ids -> Nat] /\ received \in [Ids -> Nat] /\ posted \in [Ids -> Nat]
  /\ crashes \in Nat /\ stops \in Nat /\ faults \in Nat /\ dbFails \in Nat

\* A row leaves the table only because the backend has handled it: whatever
\* fails and in whatever order, an alert that was queued is still in the
\* table or was received (_delete_alert is reached from 200/201 only).
NoSilentDrop == \A i \in 1..(nextId - 1) : i \in table \/ received[i] > 0

\* Oldest first: no alert is ever POSTed while an older one is waiting that
\* has not failed yet.  Only a failed attempt lets a younger alert overtake.
FirstTryInOrder ==
  \A i, j \in Ids : (i < j /\ posted[j] > 0 /\ i \in table) => attempts[i] > 0

\* The retry cap works: while no second thread runs beside the first, a row
\* is POSTed at most MaxAttempts times, plus once per crash or failed
\* database call, so duplicates at the backend are bounded by the failures.
RetryBudget ==
  ~overlapped => \A i \in Ids : posted[i] <= MaxAttempts + crashes + dbFails

\* If the queue runs for good, every row is eventually delivered and deleted,
\* or has used up its attempts: the thread never stops serving a row early.
EventuallySettled ==
  <>[]running => \A i \in Ids : i \in table ~> (i \notin table \/ attempts[i] >= MaxAttempts)

\* What makes the two safety invariants above inductive.
Holding == {"posting", "answered", "delete", "fail"}

\* Nothing is known of a row before it is inserted.
OnlyInserted ==
  /\ table \subseteq 1..(nextId - 1)
  /\ \A w \in Threads : batch[w] \subseteq 1..(nextId - 1)
  /\ \A i \in Ids : (posted[i] > 0 \/ late[i] > 0 \/ received[i] > 0) => i < nextId

\* A thread works on a row of its snapshot, and deletes it only if handled.
AtWork ==
  \A w \in Threads :
    /\ pc[w] \in Holding => alertId[w] \in batch[w]
    /\ pc[w] \in {"answered", "delete"} => received[alertId[w]] > 0

\* A snapshot holds every waiting row older than its rows, but for those
\* that have failed before.
SnapshotsAreDense ==
  \A w \in Threads : \A j \in batch[w] : \A i \in Ids :
    (i < j /\ i \in table) => (attempts[i] > 0 \/ i \in batch[w])

IndInv ==
  TypeOK /\ OnlyInserted /\ AtWork /\ NoSilentDrop /\ SnapshotsAreDense /\ FirstTryInOrder

\* A row whose latest POST is not counted in attempts: it is being sent, or
\* was delivered and deleted.
Uncounted(i) == i \notin table \/ \E w \in Threads : pc[w] \in Holding /\ alertId[w] = i

\* What makes RetryBudget inductive: a thread that serves the table alone
\* holds only waiting rows that may be sent, and every POST but the latest is
\* counted in attempts, a crash or a failed database call.
Alone == \A v, w \in Threads : pc[v] # "none" /\ pc[w] # "none" => v = w
AtRest == \A w \in Threads : pc[w] \notin Holding \cup {"send"} => batch[w] = {}
Fresh == \A w \in Threads : \A i \in batch[w] : i \in table /\ attempts[i] < MaxAttempts
Counted ==
  \A i \in Ids :
    /\ attempts[i] <= MaxAttempts
    /\ i \notin table => attempts[i] < MaxAttempts
    /\ posted[i] <= attempts[i] + crashes + dbFails + (IF Uncounted(i) THEN 1 ELSE 0)

BudgetInv == AtRest /\ (~overlapped => Alone /\ Fresh /\ Counted)

\* The queue implements the delivery promise of AlertDelivery.
Delivery == INSTANCE AlertDelivery WITH
  kept      <- table,
  forgotten <- (1..(nextId - 1)) \ table,
  seen      <- {i \in Ids : received[i] > 0}

ImplementsDelivery == Delivery!Spec
==============================================================================
