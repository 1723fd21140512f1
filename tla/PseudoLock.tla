------------------------------ MODULE PseudoLock ------------------------------
(***************************************************************************)
(* agent/agents/pseudo_lock_agent.py: for every finding that asks for a    *)
(* PSEUDO_LOCK the agent opens a decoy TCP listener and files it under the *)
(* lock id of the finding's event; restore closes the listener and marks   *)
(* the record, stop closes all of them.                                    *)
(*                                                                         *)
(* The handlers are coroutines of one event loop: a step below is what     *)
(* runs between two awaits.  A finding names its record and its listener   *)
(* (the LockRecord and the asyncio server it creates).  Findings of one    *)
(* event share a lock id: several agents report on the same event, and     *)
(* every MetaRiskArbiter alert without an event is filed under "unknown".  *)
(* A restore request is external: the agent subscribes to it and publishes *)
(* none itself.                                                            *)
(***************************************************************************)
EXTENDS Naturals, FiniteSets

CONSTANTS
  LockFindings,    \* findings whose actions include PSEUDO_LOCK
  Locks,           \* lock ids, "lock_" followed by an event id
  LockOf,          \* the lock id of each finding
  Requests,        \* PseudoLockRestoreRequests
  Ports,           \* candidate decoy ports
  Busy,            \* the ports other programs have bound
  MaxBinds,        \* bind attempts per finding (5)
  NoLock           \* the absence of a record, a port, a visit

ASSUME PseudoLockAssumption ==
  /\ LockOf \in [LockFindings -> Locks]
  /\ Busy \subseteq Ports
  /\ MaxBinds \in Nat \ {0}
  /\ NoLock \notin LockFindings \cup Ports \cup Locks \cup (Locks \X LockFindings)

VARIABLES
  apply,      \* _apply_pseudo_lock, per finding
  port,       \* the decoy port of a finding's listener and record
  binds,      \* bind attempts made
  listening,  \* findings whose listener is open
  registry,   \* _lock_registry: the record filed under a lock id
  servers,    \* _decoy_servers: the listener filed under a lock id
  restored,   \* records marked restored
  request,    \* restore(), per request
  asked,      \* the lock id a request names
  held,       \* the record a request has looked up
  stopping,   \* stop(): the lock ids it has still to visit
  visiting,   \* stop(): the lock id whose listener it is closing
  owed        \* the applied decoys that were open when stop() was called (history)

applyVars   == <<apply, port, binds>>
filedVars    == <<registry, servers, restored>>
requestVars == <<request, asked, held>>
stopVars    == <<stopping, visiting, owed>>
lockVars == <<applyVars, listening, filedVars, requestVars, stopVars>>

\* stop() snapshots (lock id, listener) pairs; NotStopped before it is called.
NotStopped == {NoLock}

LockInit ==
  /\ apply = [f \in LockFindings |-> "new"]
  /\ port = [f \in LockFindings |-> NoLock]
  /\ binds = [f \in LockFindings |-> 0]
  /\ listening = {}
  /\ registry = [l \in Locks |-> NoLock]
  /\ servers = [l \in Locks |-> NoLock]
  /\ restored = {}
  /\ request = [r \in Requests |-> "new"]
  /\ asked \in [Requests -> Locks]
  /\ held = [r \in Requests |-> NoLock]
  /\ stopping = NotStopped
  /\ visiting = NoLock
  /\ owed = {}

-------------------------------------------------------------------------------
(* Applying a lock.                                                        *)

InUse == Busy \cup {port[f] : f \in listening}

\* start_server bound the port: the listener is open, but start_server
\* yields to the loop once more before it returns.
Bind(f) ==
  /\ apply[f] = "new"
  /\ \E p \in Ports \ InUse : port' = [port EXCEPT ![f] = p]
  /\ listening' = listening \cup {f}
  /\ apply' = [apply EXCEPT ![f] = "bound"]
  /\ UNCHANGED <<binds, filedVars, requestVars, stopVars>>

\* The random port was taken: another one is tried, five times in all.  After
\* the fifth the RuntimeError ends the handler and nothing is filed.
BindFails(f) ==
  /\ apply[f] = "new"
  /\ InUse # {}
  /\ binds' = [binds EXCEPT ![f] = @ + 1]
  /\ apply' = [apply EXCEPT ![f] = IF binds'[f] = MaxBinds THEN "failed" ELSE "new"]
  /\ UNCHANGED <<port, listening, filedVars, requestVars, stopVars>>

\* Fault: the listener is not filed.
RegisterRecordOnly(f) ==
  /\ apply[f] = "bound"
  /\ apply' = [apply EXCEPT ![f] = "done"]
  /\ registry' = [registry EXCEPT ![LockOf[f]] = f]
  /\ UNCHANGED <<port, binds, listening, servers, restored, requestVars, stopVars>>

\* Fault: an older record of the event is kept when the listener is replaced.
RegisterKeepsRecord(f) ==
  /\ apply[f] = "bound"
  /\ apply' = [apply EXCEPT ![f] = "done"]
  /\ registry' = IF registry[LockOf[f]] = NoLock
                 THEN [registry EXCEPT ![LockOf[f]] = f] ELSE registry
  /\ servers' = [servers EXCEPT ![LockOf[f]] = f]
  /\ UNCHANGED <<port, binds, listening, restored, requestVars, stopVars>>

\* The record and the listener are filed, over whatever was there.
Register(f) ==
  /\ apply[f] = "bound"
  /\ apply' = [apply EXCEPT ![f] = "done"]
  /\ registry' = [registry EXCEPT ![LockOf[f]] = f]
  /\ servers' = [servers EXCEPT ![LockOf[f]] = f]
  /\ UNCHANGED <<port, binds, listening, restored, requestVars, stopVars>>

-------------------------------------------------------------------------------
(* Restoring a lock.                                                       *)

Active(l) == registry[l] # NoLock /\ registry[l] \notin restored

\* restore returns False for an unknown or restored lock.
Refuse(r) ==
  /\ request[r] = "new"
  /\ ~Active(asked[r])
  /\ request' = [request EXCEPT ![r] = "refused"]
  /\ UNCHANGED <<applyVars, listening, filedVars, asked, held, stopVars>>

\* The listener is taken out of _decoy_servers and closed; wait_closed awaits.
Close(r) ==
  LET l == asked[r] IN
  /\ request[r] = "new"
  /\ Active(l)
  /\ servers[l] # NoLock
  /\ held' = [held EXCEPT ![r] = registry[l]]
  /\ servers' = [servers EXCEPT ![l] = NoLock]
  /\ listening' = listening \ {servers[l]}
  /\ request' = [request EXCEPT ![r] = "closing"]
  /\ UNCHANGED <<applyVars, registry, restored, asked, stopVars>>

\* Fault: the request succeeds and the record is left as it is.
MarkForgotten(r) ==
  /\ request[r] = "closing"
  /\ request' = [request EXCEPT ![r] = "ok"]
  /\ UNCHANGED <<applyVars, listening, filedVars, asked, held, stopVars>>

\* wait_closed is over: the record looked up before the await is marked.
Mark(r) ==
  /\ request[r] = "closing"
  /\ restored' = restored \cup {held[r]}
  /\ request' = [request EXCEPT ![r] = "ok"]
  /\ UNCHANGED <<applyVars, listening, registry, servers, asked, held, stopVars>>

\* Another restore or stop has the listener already: the record is marked at once.
MarkOnly(r) ==
  LET l == asked[r] IN
  /\ request[r] = "new"
  /\ Active(l)
  /\ servers[l] = NoLock
  /\ restored' = restored \cup {registry[l]}
  /\ held' = [held EXCEPT ![r] = registry[l]]
  /\ request' = [request EXCEPT ![r] = "ok"]
  /\ UNCHANGED <<applyVars, listening, registry, servers, asked, stopVars>>

-------------------------------------------------------------------------------
(* Stopping the agent.                                                     *)

Stop ==
  /\ stopping = NotStopped
  /\ stopping' = {<<l, servers[l]>> : l \in {k \in Locks : servers[k] # NoLock}}
  /\ owed' = {f \in listening : apply[f] = "done"}
  /\ UNCHANGED <<applyVars, listening, filedVars, requestVars, visiting>>

\* Fault: the listeners are dropped without being closed.
StopForgetsToClose ==
  /\ stopping # NotStopped
  /\ visiting = NoLock
  /\ \E entry \in stopping :
       /\ stopping' = stopping \ {entry}
       /\ visiting' = entry[1]
  /\ UNCHANGED <<applyVars, listening, filedVars, requestVars, owed>>

\* The next listener of the snapshot is closed; wait_closed awaits.
StopCloses ==
  /\ stopping # NotStopped
  /\ visiting = NoLock
  /\ \E entry \in stopping :
       /\ stopping' = stopping \ {entry}
       /\ listening' = listening \ {entry[2]}
       /\ visiting' = entry[1]
  /\ UNCHANGED <<applyVars, filedVars, requestVars, owed>>

\* pop drops whatever listener is filed under the lock id by now.
StopDrops ==
  /\ visiting # NoLock
  /\ servers' = [servers EXCEPT ![visiting] = NoLock]
  /\ visiting' = NoLock
  /\ UNCHANGED <<applyVars, listening, registry, restored, requestVars, stopping, owed>>

StopReturned == stopping = {} /\ visiting = NoLock

-------------------------------------------------------------------------------
ApplyStep(f) == Bind(f) \/ BindFails(f) \/ Register(f)
RestoreStep(r) == Refuse(r) \/ Close(r) \/ Mark(r) \/ MarkOnly(r)

LockNext ==
  \/ \E f \in LockFindings : ApplyStep(f)
  \/ \E r \in Requests : RestoreStep(r)
  \/ Stop \/ StopCloses \/ StopDrops

LockSpec == LockInit /\ [][LockNext]_lockVars

(* The event loop runs every coroutine that is ready, bound decoys become  *)
(* ready, and closing a listener ends (its connections time out in 10 s).  *)
LockFairness ==
  /\ \A f \in LockFindings : WF_lockVars(ApplyStep(f))
  /\ \A r \in Requests : WF_lockVars(Mark(r))
  /\ WF_lockVars(StopCloses \/ StopDrops)

FairLockSpec == LockSpec /\ LockFairness

-------------------------------------------------------------------------------
NotStopping == stopping = NotStopped

\* No other finding of this instance reports on the event of f.
Alone(f) == \A g \in LockFindings \ {f} : LockOf[g] # LockOf[f]

\* A decoy that is open and filed can be closed by restore: its record is
\* the one under its lock id and it is not marked (active_locks shows it).
OpenIsRestorable ==
  \A l \in Locks : (servers[l] # NoLock /\ servers[l] \in listening) =>
    registry[l] = servers[l] /\ Active(l)

\* The listener of a finding that has its event to itself is never lost: it is
\* filed in _decoy_servers, or its handler is about to file it.
NoStrayListener ==
  \A f \in listening : Alone(f) => (apply[f] = "bound" \/ servers[LockOf[f]] = f)

\* A record that is filed and not marked has its decoy open, unless a restore
\* that already closed it is about to mark it (or the agent is being stopped).
ActiveMeansListening ==
  NotStopping => \A l \in Locks : Active(l) =>
    \/ registry[l] \in listening
    \/ \E r \in Requests : request[r] = "closing" /\ held[r] = registry[l]

\* A lock that a request has started to close is marked restored in the end,
\* even if the lock id has been taken over by another finding meanwhile.
RestoreFinishes ==
  \A f \in LockFindings :
    (\E r \in Requests : request[r] = "closing" /\ held[r] = f) ~> f \in restored

\* stop's docstring, "Close all active decoy servers on shutdown", holds of the
\* decoys whose event is theirs alone: none of them that had been applied when
\* stop was called is open when it returns, whatever restores run beside it.
\* (A decoy that a later finding of its event has replaced is in no map, and
\* neither stop nor restore reaches it.)
StopClosesOwn ==
  StopReturned => \A f \in owed : Alone(f) => f \notin listening
==============================================================================
