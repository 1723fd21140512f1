------------------------------ MODULE ActionFeed ------------------------------
(***************************************************************************)
(* The way of an ActionRecord from the engine that acts to the row the     *)
(* dashboard shows:                                                        *)
(*   RealResponseEngine._execute_action publishes the record PENDING, runs *)
(*     the handler and publishes the same record with its final status;    *)
(*   DashboardBridge._on_action queues a row for each publication;         *)
(*   the queue delivers the rows at least once (AlertDelivery, which       *)
(*     AlertQueue implements);                                             *)
(*   POST /api/agent/actions files every row, newest first, and emits it;  *)
(*   App.tsx merges live events and fetched lists into one row per id.     *)
(***************************************************************************)
EXTENDS Naturals, Sequences, FiniteSets, SequencesExt

CONSTANTS
  Actions,      \* action_ids
  Fetches,      \* the GET requests that may be under way at once
  MaxStore,     \* ACTIONS_MAX (500)
  MaxSends,     \* bound: how often the backend gets one row
  MaxLosses     \* bound: rows the bridge fails to queue

ASSUME FeedAssumption ==
  /\ MaxStore \in Nat \ {0}
  /\ MaxSends \in Nat \ {0} /\ MaxLosses \in Nat

Final == {"success", "failed"}    \* "active" is shown like "success"
Status == {"pending"} \cup Final

VARIABLES
  run,        \* _execute_action of each action
  outcome,    \* what its handler did, once it is finished
  rows,       \* the rows queued so far, in order
  kept, forgotten, seen,   \* the queue, as AlertDelivery has it
  sends,      \* how often the backend got a row
  losses,
  store,      \* store.actions, newest first
  connected,  \* is the dashboard's socket up?
  feed,       \* agent:action events on their way to the dashboard
  fetching,   \* the GET /api/agent/actions that are under way
  reply,      \* their answers
  view        \* the status the dashboard shows for an action, or "none"

engineVars    == <<run, outcome, rows, losses>>
queueVars     == <<kept, forgotten, seen>>
dashboardVars == <<connected, fetching, reply, view>>
feedVars == <<engineVars, queueVars, sends, store, feed, dashboardVars>>

\* Two rows for each action.
RowIds == 1..(2 * Cardinality(Actions))
Queue == INSTANCE AlertDelivery WITH Ids <- RowIds

FeedInit ==
  /\ run = [a \in Actions |-> "new"]
  /\ outcome = [a \in Actions |-> "none"]
  /\ rows = <<>>
  /\ Queue!Init
  /\ sends = <<>>
  /\ losses = 0
  /\ store = <<>>
  /\ connected = FALSE
  /\ feed = <<>>
  /\ fetching = {} /\ reply = [f \in Fetches |-> <<>>]
  /\ view = [a \in Actions |-> "none"]

-------------------------------------------------------------------------------
(* The engine and the bridge.                                              *)

\* _on_action: the record is copied and a row queued before publish returns.
\* Any exception is logged and the row is missing.
Publish(a, st) ==
  \/ /\ rows' = Append(rows, <<a, st>>)
     /\ sends' = Append(sends, 0)
     /\ Queue!Accept(Len(rows'))
     /\ UNCHANGED losses
  \/ /\ losses < MaxLosses
     /\ losses' = losses + 1
     /\ UNCHANGED <<rows, sends, queueVars>>

Start(a) ==
  /\ run[a] = "new"
  /\ run' = [run EXCEPT ![a] = "running"]
  /\ Publish(a, "pending")
  /\ UNCHANGED <<outcome, store, feed, dashboardVars>>

\* Fault: the final record is published as a success whatever happened.
FinishAsSuccess(a) ==
  /\ run[a] = "running"
  /\ run' = [run EXCEPT ![a] = "done"]
  /\ \E st \in Final : outcome' = [outcome EXCEPT ![a] = st]
  /\ Publish(a, "success")
  /\ UNCHANGED <<store, feed, dashboardVars>>

\* The handler returned, or raised: the record is published again.
Finish(a) ==
  /\ run[a] = "running"
  /\ run' = [run EXCEPT ![a] = "done"]
  /\ \E st \in Final :
       /\ outcome' = [outcome EXCEPT ![a] = st]
       /\ Publish(a, st)
  /\ UNCHANGED <<store, feed, dashboardVars>>

\* The agent dies; the queued rows survive.
Die(a) ==
  /\ run[a] = "running"
  /\ run' = [run EXCEPT ![a] = "dead"]
  /\ UNCHANGED <<outcome, rows, losses, queueVars, sends, store, feed, dashboardVars>>

-------------------------------------------------------------------------------
(* The queue and the backend.                                              *)

\* POST /actions: pushAction files a new entry for every row it gets, again if
\* it gets it again, and the entry is emitted to the dashboards connected.
Store(i) ==
  /\ i \in DOMAIN rows
  /\ Queue!Receive(i)
  /\ sends[i] < MaxSends
  /\ sends' = [sends EXCEPT ![i] = @ + 1]
  /\ store' = LET s == <<rows[i]>> \o store
              IN IF Len(s) > MaxStore THEN Front(s) ELSE s
  /\ feed' = IF connected THEN Append(feed, rows[i]) ELSE feed
  /\ UNCHANGED <<engineVars, dashboardVars>>

\* The queue deletes a row the backend acknowledged.
Settle(i) ==
  /\ Queue!Forget(i)
  /\ UNCHANGED <<engineVars, sends, store, feed, dashboardVars>>

-------------------------------------------------------------------------------
(* The dashboard.                                                          *)

\* Fault: only the rows that are shown are updated.
mergeActionsKnown(old, incoming) ==
  [a \in Actions |->
    IF old[a] # "none" /\ \E k \in DOMAIN incoming : incoming[k][1] = a
    THEN incoming[CHOOSE k \in DOMAIN incoming :
           incoming[k][1] = a /\ \A m \in (k + 1)..Len(incoming) : incoming[m][1] # a][2]
    ELSE old[a]]

\* mergeActions: for each id the last record of the list wins, over the row
\* that was there.  (Cut to 2000 rows, which is never reached here.)
mergeActions(old, incoming) ==
  [a \in Actions |->
    IF \E k \in DOMAIN incoming : incoming[k][1] = a
    THEN incoming[CHOOSE k \in DOMAIN incoming :
           incoming[k][1] = a /\ \A m \in (k + 1)..Len(incoming) : incoming[m][1] # a][2]
    ELSE old[a]]

\* agent:action.
Live ==
  /\ feed # <<>>
  /\ view' = mergeActions(view, <<Head(feed)>>)
  /\ feed' = Tail(feed)
  /\ UNCHANGED <<engineVars, queueVars, sends, store, connected, fetching, reply>>

\* refreshActions or fetchAll: the backend answers with store.actions as it is.
\* The timer, the button and the first load do not wait for each other.
Request(f) ==
  /\ f \notin fetching
  /\ fetching' = fetching \cup {f}
  /\ reply' = [reply EXCEPT ![f] = store]
  /\ UNCHANGED <<engineVars, queueVars, sends, store, feed, connected, view>>

\* An answer is merged when it arrives, an older one perhaps after a newer one.
Merge(f) ==
  /\ f \in fetching
  /\ view' = mergeActions(view, reply[f])
  /\ fetching' = fetching \ {f} /\ reply' = [reply EXCEPT ![f] = <<>>]
  /\ UNCHANGED <<engineVars, queueVars, sends, store, feed, connected>>

\* The request failed: the view stays.
RequestFails(f) ==
  /\ f \in fetching
  /\ fetching' = fetching \ {f} /\ reply' = [reply EXCEPT ![f] = <<>>]
  /\ UNCHANGED <<engineVars, queueVars, sends, store, feed, connected, view>>

\* Nothing is fetched on connect.
Connect ==
  /\ ~connected
  /\ connected' = TRUE
  /\ UNCHANGED <<engineVars, queueVars, sends, store, feed, fetching, reply, view>>

Disconnect ==
  /\ connected
  /\ connected' = FALSE
  /\ feed' = <<>>
  /\ UNCHANGED <<engineVars, queueVars, sends, store, fetching, reply, view>>

FeedNext ==
  \/ \E a \in Actions : Start(a) \/ Finish(a) \/ Die(a)
  \/ \E i \in RowIds : Store(i) \/ Settle(i)
  \/ \E f \in Fetches : Request(f) \/ Merge(f) \/ RequestFails(f)
  \/ Live \/ Connect \/ Disconnect

FeedSpec == FeedInit /\ [][FeedNext]_feedVars

(* A dashboard without a socket polls every 5 s, and an answer is merged    *)
(* again and again even if some polls fail.                                *)
Fairness ==
  /\ WF_feedVars(~connected /\ \E f \in Fetches : Request(f))
  /\ SF_feedVars(\E f \in Fetches : Merge(f))

FairSpec == FeedSpec /\ Fairness

-------------------------------------------------------------------------------
\* The dashboard never shows an outcome the action did not have: not before
\* the handler has ended, not after the agent died, whatever is delivered late,
\* twice or out of order, and whichever list is merged over it.
ShownIsTrue == \A a \in Actions : view[a] \in Final => view[a] = outcome[a]

Stored(a) == \E k \in DOMAIN store : store[k][1] = a

\* A dashboard whose socket stays down still shows, by polling, every action
\* that is in the backend's list (and is not pushed out of it by newer ones).
PollShowsActions ==
  <>[]~connected =>
    \A a \in Actions : Stored(a) ~> (view[a] # "none" \/ ~Stored(a))
==============================================================================
