# AiBoO platform: TLA+ models, model checking and proofs

AiBoO is a security platform: an **agent** (Python, asyncio) watches an endpoint,
judges what it sees and responds; a **backend** (Node, Express, Socket.IO) collects
what agents report and relays commands; a **dashboard** (React) shows it; a **camera
service** (Flask, OpenCV, threads) reports detections. This directory models the parts
whose correctness depends on order, failure, time and concurrency, and the engines that
hear each other's reports over the agent's event bus.

All paths below are relative to `src/`; agent paths to `src/agent/` where that is clear.

## 1. Inventory

| Part | State | Operations | Talks to | Hard behaviour | Correct when |
|---|---|---|---|---|---|
| Offline queue `core/alert_queue.py` | SQLite table (id, attempts), `_running`, the retry thread's snapshot | add, start/stop retry, select, POST, delete, count | every reporter in the agent; the backend over HTTP | crash between POST and DELETE, lost answers, two threads, database errors, cap of five attempts | nothing is dropped that the backend has not got; oldest first; bounded retries |
| Pseudo-lock agent `agents/pseudo_lock_agent.py` | lock registry, listeners by lock id | apply, restore, stop | event bus | awaits inside every operation; lock ids shared by findings | what is open can be closed; what counts as active listens |
| Command channel `core/command_channel.py`, `backend/sockets/agentChannel.js` | socket per endpoint, command history; client connection, tasks | connect, dispatch, ack, execute, disconnect | Socket.IO, the response engine | each side sees a disconnect on its own; acks on two sockets; at most once | the history is truthful; the registered socket is open |
| Action feed `response/real_response_engine.py`, `core/backend_bridge.py`, `backend/routes/agent.routes.js`, `frontend/src/App.tsx` | action records, `store.actions`, merged rows | publish pending/final, queue, store, emit, fetch, merge | all four tiers | duplicates, reordering, crashes, polling against live events | no outcome is shown that did not happen; rows stay |
| Gates 1-3 `gates/` | recent times, device and place caches, sessions, risk cache, repeat counts | evaluate | event bus, arbiter | events overtake each other while a gate sleeps; caches expire | filters cannot be outrun; repeats are counted; suspicion never clears |
| Event bus, base agent `core/event_bus.py`, `base_agent.py` | fingerprints of the last minute | publish, subscribe, handle | everything in the agent | publication inside publication; reports about reports | chains of reports end |
| Detection agents `agents/` | places, device hashes, reported domains | judge an event, publish a finding | bus | one event judged by several agents under several types | findings say what they are about |
| Analysis engines `engines/` (twelve) | profiles, scores, sightings, indicators, histories, rules, violations | hear events, findings, requests; evaluate, decay, clean up | bus, each other | an alert of one is an event of the others; learning before judging; state kept twice | alerts rest on findings no stored alert has used; quarantine holds |
| Meta-risk arbiter `engines/meta_risk_arbiter.py` | score per entity and dimension, cooldown times | update, decay, corroborate, alert | bus, Gate 2 | cooldown written after an await; composite score fed back into itself | alerts are corroborated and spaced; scores backed by evidence |
| Zero-trust PDP/PEP `core/zero_trust_pdp.py`, `zero_trust_pep.py` | risk and trust caches, attempts; enforced sessions, recent actions | request, decide, enforce, expire | bus | two deduplications on different clocks; remembering after an await | rate limit holds in every window; who must do MFA has a challenge |
| Response engine handlers `response/real_response_engine.py` | temporary grants, revocation timers | kill, block, disable, grant, revoke | OS, bus, channel | commands that fail or time out half done; reused pids; two grants of a user; restart | no protected process dies; success means done; privileges end |
| Camera service `cv-service/app.py` | workers, registry, failed-detection buffer, per-worker caches | add, replace, remove, capture, post, retry, clean up | backend | threads between locks; removal while a stream opens; full buffer | a running worker can be removed and then ends; nothing reported twice or lost |
| Orchestrator, process killer and monitor, log ingestion, LLM, backend CRUD, installers | - | - | - | little coordination | see section 7 |

**What runs at this commit** matters for reading the models. The orchestrator does not
start `RealResponseEngine` (orchestrator.py:65), `CommandDashboard` or
`AutonomousResponseEngine`, and constructs no `CommandChannel`; these are modelled as
the code they are, not as something in operation (the last two not at all). Nothing
publishes `PseudoLockRestoreRequest`: the dashboard's restore
(`backend/routes/agent.routes.js:542`) marks a lock inactive in the backend only.
`Orchestrator.shutdown` never calls `PseudoLockAgent.stop`, and calls
`correlation.stop()` (orchestrator.py:243), which does not exist. Device registration,
verification and approval have no callers.

Every hazard of this code that a test would hardly reach is in `PROJECT.json`, at its
line, with the properties that would catch it.

## 2. Modules

| Module | Models | Composes |
|---|---|---|
| `AlertDelivery` | abstract promise of the queue: at-least-once delivery | - |
| `AlertQueue` | the queue, its threads, the network, crashes | implements `AlertDelivery` (refinement) |
| `PseudoLock`, `MCPseudoLock` | decoys: apply, restore, stop | - |
| `AgentChannel` | both ends of the command channel | - |
| `ActionFeed` | an action's records from engine to dashboard | `AlertDelivery` in place of the queue |
| `GateScoring` | verdicts of Gates 1 and 2 as functions | - |
| `GateEvidence` | comparison of verdicts on neighbouring inputs | `GateScoring` |
| `TriGate`, `MCTriGate` | bus, filters and three gates as one pipeline | `GateScoring` |
| `MetaRisk`, `MCMetaRisk` | the arbiter | - |
| `ZeroTrust`, `MCZeroTrust` | decision and enforcement point, and the bus between them | - |
| `ResponseEngine`, `MCResponseEngine` | handlers that change the machine, grants, timers, restart | - |
| `CameraService` | worker threads, registry, retry thread, clean-up thread | - |
| `BusEvents` | what travels on the bus | - |
| `InsiderThreat`, `UserBehavior`, `DeviceTrust`, `PhysicalSecurity`, `ThreatIntel`, `BehavioralDNA`, `RiskScoring`, `Converged`, `Correlation`, `Suppression`, `Compliance` | one analysis engine each (`Compliance` also the anomaly detection engine) | `BusEvents` |
| `DetectionAgents` | the specialist agents | `BusEvents` |
| `Engines`, `MCEngines` | all engines and agents on one bus | the twelve modules above |
| `AlertQueue_proofs`, `AgentChannel_proofs`, `CameraService_proofs`, `MetaRisk_proofs`, `ZeroTrust_proofs`, `Engines_proofs` | TLAPS proofs | the module of that name |
| `ResponseEngine_proofs` | TLAPS proofs about the three parts that respond | `ResponseEngine`, `ActionFeed`, `PseudoLock` |
| `Gates_proofs` | TLAPS proofs about the gates | `TriGate`, `GateEvidence` |

`PseudoLock`, `ActionFeed` and `GateEvidence` prefix the names of their specification
(`LockSpec`, `FeedSpec`, `EvidenceSpec`) so that one proof module can extend them together
with another component.

Operators whose comment begins with "Fault:" are not the code: each is a plausible
mistake in the operator below it. Replacing that operator by it must make the property
named in `PROJECT.json` fail, which shows that the property depends on the code.

### AlertQueue
`table`, `attempts`, `nextId` are the SQLite rows; `running` is `_running`; each retry
thread has a program counter `pc`, the rest of its snapshot `batch` and its row
`alertId`. An action is what happens between two database calls or network waits:
`Fetch` (select), `Post` (up to the request), `Handle`/`Answer`/`LoseAnswer`/`Reject`/
`TimeOut`/`Refuse` (what becomes of it), `Delete` or `Increment`, and the failing
variants of each database call. `Crash` resets the process and keeps the table; a
request under way may still arrive (`DeliverLate`). `stop_retry` gives up its join after
3 s, so `StartRetry` may create a second thread. Abstracted: payloads, endpoints, and
the clock: rows are ordered by id, which is the order of their timestamps for a clock
that is not set back. The pauses (30 s, 60 s) are `Wake`.

### PseudoLock
A finding stands for its `LockRecord` and its listener. The steps are cut at the awaits:
`Bind` (start_server), `Register`, `Close`/`Mark` around `wait_closed`,
`StopCloses`/`StopDrops` likewise. `owed` is a history variable for stop. Findings of one
event share a lock id, which is the interesting case. Left out: the decoy's conversation
with its client and its hit counter.

### AgentChannel
`agents`, `open`, `history`, `status` are the backend; `client`, `conns`, `task` the
agent; `down` and `up` the messages in transit on each socket. A socket is ordered, two
sockets are not. Both sides notice a disconnection separately. `Acknowledge` and `Finish`
are the two halves of `_handle_command`. `lost`, `dest` are history variables. The
python-socketio URL is taken to join the namespace of the backend.

### ActionFeed
`Start` and `Finish` are the two publications of `_execute_action`, each copied into a
row by `_on_action`. `kept`, `forgotten`, `seen` are the queue through `AlertDelivery`:
the detailed queue implements that module (proved), so what holds with it holds with the
real queue. `Store` files and emits a row; the dashboard's `Live`, `Request`, `Merge`
change `view`, its status per action id. The poll, the refresh button and the first load
do not wait for each other, so several lists may be fetched at once (`Fetches`) and be
merged in any order. "active" is treated as "success". The
dashboard's manual retry posts a record with a new id that nothing executes; it is not
modelled.

### GateScoring, GateEvidence, TriGate
An event is a record whose numbers are brackets of the thresholds they are compared with;
scores are thousandths. `Gate1` and `Gate2` give verdict and severity; the three branches
of Gate 2 that return an unassigned `reason` give "error". `GateEvidence` takes every
input as an initial state and every change to a more suspicious input as a step, so its
action properties are statements about pairs of inputs.

In `TriGate` `events` is the history of what was published, with the stage each event is
in; the lists of times the code keeps are read off it. Gates sleep 10-30 ms while the
filters' windows are seconds, so the clock advances only when no event is in a gate and
within a tick any order of the gates is possible. An entity is a user, or an address for
events without one. Risk scores from the arbiter arrive and expire at any time; so do the
entries of Gate 3's registry. Fingerprints are readings of the agent's own machine, as in
the code (gate1_perimeter.py:279).

### MetaRisk
One record per entity: `scores`, `composite`, `signals` and `lastUpdated` are the fields
of `EntityRiskState`, `lastAlert` is `_last_alert_time`. A handler is one action up to
the publication of its alert, which awaits; `publishing` holds the alerts whose
publication has not returned, `Published` and `PublishRaises` end one. `Decay` and
`Cleanup` are the two loops. What is filed under "unknown" counts as a dimension, as in
the code, and `composite` is overwritten by its reduced value at each evaluation. The
skeptic sums the confidences of the recent findings (`Total`).

### ZeroTrust
A request is handled in one piece up to a challenge the bus delivers, whose subscribers
are awaited: `handling` holds the decisions that wait, or have work left. `attempts` is
the sliding window of the rate limit, a set of `[at, n]` in place of a list of times
(`n` tells two of one time apart), `userRisk` and `failed` the caches that threat
events and findings fill and that expire. `recent` is the PEP's `_recent_actions`
(seconds), `published` the bus's own memory of a challenge (a minute). `evaluated` and
`settled` are history. `GRANT_TEMP_PRIVILEGE`, `QUARANTINE_DEVICE`, `FORCE_LOGOUT` and
`REVOKE_IDENTITY` look for a user or device that no entry of `_enforced_sessions` holds,
so they change nothing; the blacklist is searched for users although it holds addresses.

### ResponseEngine
A Gate 3 decision, a finding or a remote command becomes a task: it announces each of its
actions with a PENDING record, runs the handler and republishes the record with the
outcome. Handlers run in one piece (`subprocess.run` and psutil block the loop); tasks
interleave where a record is published. A command may succeed, fail, or time out after
it took effect. An event has three dictionaries (payload, the raw payload in it, metadata):
`Target` is what the record names, `IsolatedAddress`, `BlockedAddress`, `LockedUser` and
`QuarantinedDevice` what the handlers look up, each in its own order. A kill is two steps,
`CheckKill` and `Kill`, because the pid is looked up twice (lines 534 and 648); `busy` is
the kill between them, during which the event loop is blocked and the operating system is
not. `program` is what is behind a pid, which may end and be reused at any time. A name
that cannot be read lets the kill pass, as in the code (`read`), and the parent of the
agent may be unknown. `timers` are the tasks of `_revoke_privilege_at`; `orphans` are
administrators whose removal failed or whose grant a restart forgot (history). Not
modelled: the content of commands.

### CameraService
A worker is a `CameraWorker` object with a thread `pc`: opening the stream, reading,
analysing, posting, sending. `registry` is `workers`; `Add`, `Remove` and the clean-up
thread (whose lock excludes both) act on it and on a worker's `running` and `cap`, which
the thread assigns without a lock. `entries`, `loitering`, `breach` are what a worker
remembers of its tracks, `buffer` and `retrying` the failed detections. Which tracks a
frame shows, and whether anything else is to be reported, is an input. A frame may fail:
`YoloFails` returns no detections after tracks have been noted as reported (app.py:951-953),
`Raises` is the handler of everything else (line 600), which drops what the frame has not
posted yet and opens the stream again. `log` and `gone`
are history: every detection ever made, and those delivered, dropped or given up. It is
assumed that analysing one frame takes less than the life of an entry; a POST that timed
out at the client but was handled (and is then sent again) is not told apart from one
that failed.

### The engines and agents
Each engine is a module with its state, its handlers as operators over the event, and the
events they publish. `Engines` holds the bus: a queue whose head all engines hear in one
step, together with what they publish in their turn, and `recent`, the fingerprints of the
last minute, which exclude timestamp and id as in the code. What is published is numbered
in a row, as its id.

Two handlers wait for something outside, and have steps of their own. The correlation
engine publishes its alert, which the dashboard bridge stores (backend_bridge.py:145,
241-249), before it clears the buffers (correlation_engine.py:279-282): `evaluations` are
the evaluations that wait there, other findings are ingested and evaluated meanwhile, and
`AlertStored` clears and goes on with the patterns that are left, or ends the evaluation
with the exception of a failed storing. The decoy agent opens a listener before it confirms
a finding under the event that made it: `locking` are the findings it waits with,
`DecoyOpens` publishes the confirmation, or nothing if no port could be bound. What the
decoys do is `PseudoLock`; here only their reports matter.

Events come from a *story*, a sequence of chapters, each a set of events and administrator
calls that come in any order. `StoriesAssumption` says what may come from outside: threat
events with a type, access requests, and findings of the arbiter. All other publishers of
findings that the orchestrator starts are composed here: the agents, the engines and the
decoy agent. A chapter ends when its events are handled, its alerts stored and its decoys
open; the next is more than a minute later, so the fingerprints have expired. (The bus
keeps a thousand fingerprints at most, event_bus.py:28; that a flood pushes some out before
their minute is over is not modelled, and `ChainsEnd` is not claimed for it.)

What is worth noting, because the models follow the code and not its comments:

* `InsiderThreat`: `_recalculate_overall` reads attributes that do not exist (line 131),
  so the overall score is always 0; the hourly decay applies a day's rate.
* `UserBehavior`: `_update_stats` reads lists under other names (line 193): no profile
  becomes stable, so nothing is anomalous through it.
* `PhysicalSecurity`: an access request makes its handler raise (line 252); its own
  intrusion alerts are sightings.
* `DeviceTrust`: quarantine is a set and a flag, kept apart; every recalculation marks
  the device trusted.
* `Converged`: the ghost rule for an absent user scores 700 below its threshold of 800.
* `ThreatIntel`: expired indicators still match.
* `RiskScoring`: the decay is 32 % in five minutes where line 72 says per hour; nothing
  keeps a record beyond a day.
* `Correlation`: the buffer is a set of findings with their numbers, because the lists by
  type are only asked for their youngest member; its five minutes are less than an hour, so
  what is of another hour is stale.
* `BehavioralDNA`: the profile learns an event before the event is compared with it, so no
  hour, place or resource is ever new (section 4); volumes are compared with what was seen.
* `Suppression`: line 188 extends a rule's life, the cache that holds it does not.
* `DetectionAgents`: a confidence over 0.8 lowers an identity finding from CRITICAL to
  HIGH; rate thresholds overwrite a honeypot's CRITICAL; phishing and malware agents
  relabel what they find NETWORK_INTRUSION.

## 3. Runs

| Run | Question | Properties | Instance |
|---|---|---|---|
| `queue_core` | safety and refinement of the queue | `NoSilentDrop`, `FirstTryInOrder`, `RetryBudget`, `ImplementsDelivery` | 2 alerts, 2 threads, 2 attempts, one crash, stop, network and database fault |
| `queue_live` | does the thread keep serving? | `EventuallySettled` | 2 alerts, 1 thread, same failures, fairness |
| `lock` | do maps, records and listeners agree? | `OpenIsRestorable`, `NoStrayListener`, `ActiveMeansListening`, `StopClosesOwn`, `RestoreFinishes` | 3 findings, 2 of one event, 2 restores, stop, 2 ports |
| `channel_core` | are registry and history truthful, do commands settle? | `RegisteredIsOpen`, `FinalStatusIsTrue`, `RevertsOnlyAcrossSockets`, `EveryCommandSettles` | 2 commands, 2 connections, history of 1, one crash |
| `feed_core` | is what is shown true, does polling show it? | `ShownIsTrue`, `PollShowsActions` | 1 action, rows lost once, sent twice, list of 2, two fetches at once |
| `gate_evidence` | does more suspicion get a weaker answer? | `WorseIsNoWeaker`, `FasterIsNoWeaker`, `ContextNeverClears` | all brackets, 5 geo risks, 6 meta risks, 4 hits |
| `gates_core` | do burst filter and repeat counts hold? | `BurstCapped`, `RepeatersAreCritical` | 4 events of 3 kinds, 4 ticks |
| `meta_risk` | are alerts corroborated and spaced, scores backed? | `ScoreWithinEvidence`, `AlertsCorroborated`, `CooldownHeld` | 3 signals, 9 ticks, decay every 3, cleanup every 4, one publication raises |
| `zero_trust` | rate limit, challenges | `RateCapped`, `ChallengeStands` | 5 requests, 7 reports, limit 2 in 3 ticks, 6 ticks |
| `response` | kills, records, grants | `GrantsAreComplete`, `NoProtectedKill`, `SuccessMeansDone`, `ScheduledPrivilegesEnd` | 2 tasks, pids 4 to 7 (two of them the agent and its parent), 2 addresses, 3 ticks, one restart |
| `camera` | registry, reports, detections | `RunningIsRegistered`, `ReportedOnce`, `DetectionsAccounted`, `RemovedEnds` | 1 camera, 2 workers, 2 detections, buffer of 1, 2 retries, frames that fail |
| `engines` | chains of reports, what alerts rest on, quarantine | `ChainsEnd`, `NoFindingCountsTwice`, `EventsCorroborate`, `QuarantineHolds` | 12 stories, 3 hours |

Every action and every disjunct of a next-state relation fires in these runs.

**Why the bounds are enough.** Two alerts are the least with an order, two threads the
least with a race on one row, and two attempts let a row fail, be retried and reach the
cap; every failure kind occurs once. Two findings of one event and one of another are the
least in which a lock is taken over while another's must be left alone; two restores and a
stop are the least that contend for one listener. Two connections are one reconnection; a
history of one makes every second command trim. One action has two rows, each sent up to
twice: every repetition and reordering of them; actions meet only in the backend's list,
and a list of two already pushes out the older record. Two fetches are the least of which
the older can be merged last. In `gates_core` three kinds suffice
for two events on one key with different content and two types of one entity; windows of
1 to 4 ticks keep the order of the code's windows, but not their ratio: with the shipped
5 s, 10 s and three events the burst filter is never reached. In `meta_risk` two of the
kinds of signals make an alert, so three are the least in which a second alert can fall
into or out of the cooldown; entities share nothing but the loops. In `zero_trust` two
requests fill the limit, the third is refused, and two more fall into later windows; the
bus remembers as long as a challenge lives, as in the code (60 s both), and the PEP's
window is shorter. In `response` two tasks are two grants of one user, or a kill and
something that overtakes it; one event has different names in its dictionaries, one has
none; a pid is reserved, two are the agent and its parent, one is anybody's; three ticks let a first revocation run while the second grant
lasts. In `camera` two workers of one camera are a replacement; a buffer of one is full at
the first failure; two retries are the first with a further one. Each story of `engines`
exercises one kind of chain and every administrator call, and between them there are
alerts stored late, alerts not stored, and decoys opened for findings of agents and of the
arbiter; two of the three hours suffice
for every cooldown and expiry, which are set to one or two hours. `QuarantineHolds` is
about a step: where the quarantine set and the record of a device agree, they agree after
it, as long as the device keeps a record; registering a device anew is what parts them
(section 4). The safety and action properties are proved for all bounds (section 5).

**Fairness.** `AlertQueue`: threads are scheduled, a POST ends within its timeout, and
`start_retry` is called after a start; the network is not fair. `PseudoLock`: the event
loop runs ready coroutines and `wait_closed` ends, because a decoy's connections time out
after 10 s. `AgentChannel`: delivered messages are handled and actions end; connections
need not come back. `ActionFeed`: the poll timer of a disconnected dashboard, and answers
that do not all fail (strong fairness of `Merge`). `ResponseEngine`: time passes and a
sleeping revocation is woken. The others are checked for safety only. Deadlock is checked
for the queue, the engines and the response engine; the other systems may really stop
(bounded findings, commands, events).

## 4. Where the code and its words disagree

These were met while modelling. The models follow the code; none of the checked
properties claims what is denied here.

* alert_queue.py:3 "Ensures zero alert loss during network outages": a row that failed
  five times is neither sent nor deleted (line 208), so an outage longer than the retries
  leaves alerts behind. `EventuallySettled` says what does hold.
* backend/sockets/agentChannel.js:118: the late disconnect of an old socket deletes the
  entry of the agent's new connection, so `isOnline` (line 188, "Is this endpoint
  currently connected?") denies a connected agent. `RegisteredIsOpen` is the half that
  holds.
* core/events.py:248-251 says the final record replaces the pending one; the merge in
  frontend/src/App.tsx:40 takes the last of a list that is newest first, so polling shows
  the pending record again. `ShownIsTrue` and `PollShowsActions` hold.
* gate2_behavioural.py:244, 281, 309 return `reason` before it is assigned when the
  cached meta risk is above 0.6: the handler raises and the event gets no verdict.
* gate1_perimeter.py:142 assigns a severity where it should raise it; line 407 takes a
  biometric score of 0.0 for a missing field; gate2_behavioural.py:158 counts 21:00-21:59
  as business hours.
* zero_trust_pdp.py:213 "Increase risk score": the first report about a user sets 0.1,
  below the default of 0.2 an unreported user has; a failed health check likewise lowers
  the score of a device's requests.
* converged_security_engine.py:370-374 writes the cooldown before the alert is sent, and
  line 600 raises on a signal without destination: the alerts found before it are lost and
  stay in cooldown.
* correlation_engine.py:272-273 "ensure they are from distinct sources": nothing checks
  sources; the active types are read once per evaluation (line 253), so a later pattern may
  fire on what an earlier one left. `EventsCorroborate` shows when this still takes two
  events.
* correlation_engine.py:280 "Clear buffers to avoid duplicate alerts for the same pattern":
  the publication before it awaits the dashboard bridge, so a finding that is ingested
  meanwhile makes a second alert with the same findings, and is cleared with them when the
  first is stored although it may be linked by none. If the storing fails the buffers are
  not cleared at all. `NoFindingCountsTwice` says what is left: once the findings of an
  alert have been cleared, no later alert links them.
* meta_risk_arbiter.py:536 "Remove old states with low risk": the hourly decay counts as an
  update of every record (line 158), so none is ever old and none is removed.
* behavioral_dna_engine.py:148 and 512-539 have anomalies for new locations, new resources
  and unusual hours: the profile learns the event first (line 324), and none of them is ever
  raised.
* real_response_engine.py: the record of an action and its handler look for the target in
  different places (444-502 against 556-563, 585-592 and 706-713), so with different names
  in payload and raw payload a success is recorded for another target than the one acted on;
  `SuccessMeansDone` bounds when. A revocation is recorded as a success without a grant to
  revoke (801-813). A process whose name cannot be read passes for an ordinary one
  (542-545), and a pid that is reused between its two lookups (534, 648) is killed whatever
  it is by then; `NoProtectedKill` says that nothing else lets a protected process be ended.
  The docstring (100-104) promises that confirmed threats are ended by themselves, but
  cyber_threat_agent.py:491 hands the payload on as `metadata["raw_payload"]`, where
  `_extract_pid` (504-514) does not look.
* Two deduplications disagree about a challenge: one the bus drops at the end of its
  minute counts as carried out in the PEP (zero_trust_pep.py:135), so the next request
  within five seconds is skipped too, and a user is asked for MFA with a challenge that
  has expired. `ChallengeStands` bounds by how much. A step-up challenge lives 30 s
  (line 275), so it may have expired for half a minute.
* device_trust_engine.py:554 `reject_device` forgets the record and leaves the quarantine
  set alone: a quarantined device that is rejected and registered anew has a record without
  the flag and can become trusted while the set still names it. `QuarantineHolds` says that
  nothing else parts the two.
* A remote grant without its scheduled revocation is never revoked, although the log
  gives the time it expires at.
* Camera service: a breach or a loiterer is noted as reported even if the cooldown of its
  type swallows the report, or the frame fails before it is made (app.py:600, 951-953); the sets of reported tracks only grow; posts of one frame that
  fail (9 s each) can exceed the 120 s health timeout, whereupon the clean-up removes a
  healthy worker that nothing adds again; the signal handler sets an event nobody reads
  (app.py:1554-1558).

## 5. Proofs

Every safety invariant and every action property of the runs is a theorem, in eight proof
modules. The instance is arbitrary: any sets, any bounds, any windows that satisfy the
named `ASSUME` of the module, which TLC evaluates on every run. Besides sizes being
naturals and `None` being no ordinary value, these assume:

* `AlertQueue`: finitely many threads and at least one attempt.
* `MetaRisk`: scores and confidences are within their ranges, and an alert asks for three
  dimensions at most (meta_risk_arbiter.py:65: three).
* `ZeroTrust`: the bus remembers a challenge no longer than it lives (both 60 s).
* `ResponseEngine`: grants ask for a positive time, what is behind a pid at the start is a
  program or nothing, and neither `None` nor "unknown" is an address.
* `CameraService`: workers are numbered in the order they are created.
* `TriGate`: identity events name a user, events of the same content are of one type, key
  and entity, and risks are reported from 450 up (the arbiter alerts on no less).
* `Engines`: stories are sequences of chapters whose events are what the rest of the agent
  publishes (section 2).

Every proof has the same shape: an inductive invariant, a lemma that `Init` implies it, a
lemma that a step preserves it with one case per action, and the theorem by temporal
reasoning. What the invariants add is why the property holds:

* **`AlertQueue_proofs`**: `NoSilentDrop`, `FirstTryInOrder`, `RetryBudget`,
  `ImplementsDelivery`. When a row is deleted the backend has handled it, which the
  thread learned two steps earlier: `AtWork` carries that along the program counter. When
  row j is posted every older waiting row has failed before or is in the same snapshot:
  `SnapshotsAreDense`. For the cap, `BudgetInv` says that while no two threads overlap a
  snapshot holds only rows that are in the table and under the cap (`Fresh`), and that
  every POST but the one under way is counted in attempts, a crash or a failed database
  call (`Counted`). The refinement maps `Add` to `Accept`, the first `Handle` or `DeliverLate` to
  `Receive`, the deletion to `Forget`, and the rest to a stutter.
* **`AgentChannel_proofs`**: `RegisteredIsOpen`, `FinalStatusIsTrue`,
  `RevertsOnlyAcrossSockets`. `Underway`: a command travels once and what travels has not
  begun, so no ack can be of a second run. `InOrder` and `Overtaken`: on one socket nothing
  follows the last ack, so an ack that undoes a final status came by another one.
* **`ResponseEngine_proofs`**, the three parts that respond:
  * The handlers: `GrantsAreComplete`, `NoProtectedKill`, `SuccessMeansDone`.
    `Checked`: a kill under way passed the policy, and unless its pid has been reused since,
    the program behind it is the one that was checked. `SameTarget`: where an event names
    one user and one address, the two ways to look for a target find the same; the record of
    a pending action names what `Target` finds (`Announced`).
  * The action feed: `ShownIsTrue`. Every copy of a record, in the queue, the list, the
    feed or a reply, is `Honest`; the merge, a fold over the reply, yields a copy.
  * The decoys: `OpenIsRestorable`, `NoStrayListener`, `ActiveMeansListening`,
    `StopClosesOwn`. `Filed` ties the two maps to the lock id of the record in them;
    `Held` says that a record a restore waits for has been closed; `Visited` what stop has
    yet to close, and that it still holds every open decoy it owes. The four hold together
    or not at all: each handler relies on what the others leave in the maps at an await.
* **`ZeroTrust_proofs`**: `ChallengeStands`, `RateCapped`. `Counted`: what the PEP counts
  as carried out was delivered less than the bus's memory before it was counted;
  `Awaited`: a challenge whose subscribers are awaited was delivered this instant;
  `Standing` adds the PEP's window. For the rate limit, `Remembered`: a request that was
  evaluated is in the list that is counted for as long as any window that ends now holds
  it, so the list that is short enough to admit one more bounds every window.
* **`MetaRisk_proofs`**: `CooldownHeld`, `ScoreWithinEvidence`, `AlertsCorroborated`.
  `Timed`: for an entity whose alerts have not overlapped, the last alert is being
  published or its time is written. `ScoreInv` is about the numbers. The composite score stays within the weighted sum of the scores because every reduction
  multiplies by a fraction (`Share`) and the decay recalculates it. An alert has three
  dimensions behind it because with two above 0.15 the weighted sum is at most 490
  thousandths, and a quarter off leaves it below the threshold of 450; no test in the code
  counts them.
* **`Gates_proofs`**: `WorseIsNoWeaker`, `FasterIsNoWeaker`, `ContextNeverClears` for
  every set of risks, times and hits (`EvidenceType`), case by case of the two scorings;
  and for the pipeline `BurstCapped` and `RepeatersAreCritical`. For the cap: an event that the
  filters let through saw fewer than `MaxBurst` others of its key in the window, and what
  is in the window of a later event was in its own or came after it; the lists are sets of
  positions, counted. For repeats, `Counted`: the decisions about an entity have different
  numbers up to `hits`, and from the third on they are critical, so two at most are not.
* **`CameraService_proofs`**: `RunningIsRegistered`, `RemovedEnds`, `ReportedOnce`,
  `DetectionsAccounted`. `Roomy` bounds the work a stopped worker has left, which every
  step of its thread reduces. `OnceInv`: a reported track is in the set of its kind, and a
  worker whose entries were cleaned up keeps that set. `AccountInv`: within a place
  a detection occurs once, the places (workers' lists, buffer, retry, gone) are disjoint,
  and together they hold all that were ever made, those of frames that failed included.
* **`Engines_proofs`**, all engines and agents on one bus:
  * `QuarantineHolds`: a record keeps its fields (`DeviceType`), and only the calls that
    change the set change the flag.
  * `NoFindingCountsTwice` by `CountInv`: what waits on the bus is numbered in a row up to
    the last number given (`Numbered`), so a finding that is ingested is new; and no finding
    in the buffer is one that an alert of `cleared` links, while an evaluation that waits
    knows which alert it will clear (`Tidy`). This holds through the nineteen patterns of an
    evaluation that stops at each that fires, and for any number of evaluations that wait.
  * `ChainsEnd` by `ChainInv`, which names everything an engine can say about what another
    one said. An alert of an engine is a threat event
    with no indicator, no volume and no device, of a type only the physical engine reacts
    to (`Secondary`); its alert about its own alert describes the same sighting, whose
    alert in turn has a fingerprint the bus knows by then (`Traced`, `Echoes`). It needs
    that the UEBA and insider engines have learnt nothing that sets them off
    (`EnginesQuiet`): `TwoEnginesAreSilent` states that they never alert at all, which is
    what lines 193 and 131 of section 2 come to.
  * `EventsCorroborate` by `CorroborationInv`: of two findings that wait and are about one
    event the types are `Kin` (some type of event leads to reports of both), while every one
    of the nineteen patterns asks for two types that are not. What waits is in the buffer,
    on the bus, or with the decoy agent, whose confirmation repeats type and event of the
    finding it is for. The arbiter's findings and their confirmations are excepted
    (`Own`): they are filed under an event that others report on. A finding that fires
    late, on what an earlier pattern left, does not link all types of its pattern.

**Only model-checked:** the five liveness properties (`EventuallySettled`,
`RestoreFinishes`, `EveryCommandSettles`, `PollShowsActions`, `ScheduledPrivilegesEnd`):
fairness and `ENABLED` are beyond the prover.

## 6. What could follow

`TriGate` fed by `MetaRisk` in place of its input `Risks`; the backend's lists of
findings, endpoints and locks, with the manual retry in `ActionFeed`; the decoys with the backend's
lock store, to say which of them a dashboard shows; the process killer's queue; exceptions that travel through `gather` to a publisher
(event_bus.py:78). Of proofs: an abstract specification of the arbiter or of the grants
with a refinement, as `AlertDelivery` is for the queue; that the maps of the camera
service and of the decoys are bounded; and the safety half of the liveness properties
(what makes the next step of a retry thread or a restore possible).

## 7. Not modelled

* Image analysis, detectors with state of their own (falls, tripwire, abandoned objects,
  tampering), streaming and authentication of the camera service.
* Queries, reports, fetching of feeds and buffers nothing reads in the engines;
  `ThreatIntel`'s learning from findings is modelled, but no agent publishes findings of
  the form it wants. The process scan of `CyberThreatAgent`; the access-request handler of
  `ZeroTrustAgent`, which no event reaches. `converged_events.py`, the disabled
  `autonomous_response.py` and `command_dashboard.py`.
* `GateResponseBridge` (prints decisions), the orchestrator's start and stop, process
  monitor, log ingestion, LLM calls, configuration: no state that others depend on.
* Backend CRUD over MongoDB and authentication, presentation, installers, generated files.

`PROJECT.json` lists each component with its status and reason.

## 8. Running

    tlc -workers 2 -config AlertQueue_core.cfg AlertQueue
    tlc -workers 2 -config Engines.cfg MCEngines
    tlapm AlertQueue_proofs.tla

The module and configuration of each run are in `PROJECT.json`; the largest takes one
to two minutes, the proofs of a module from one to several minutes (`Engines_proofs`: a quarter
of an hour).
