-------------------------------- MODULE TriGate --------------------------------
(***************************************************************************)
(* The tri-gate pipeline on the event bus: EventBus.publish for a          *)
(* ThreatEvent (agent/core/event_bus.py), Gate1Perimeter, Gate2Behavioural *)
(* and Gate3Adaptive._evaluate (agent/gates/).                             *)
(*                                                                         *)
(* Every gate sleeps before it works, so the events in the pipeline        *)
(* overtake each other.  The sleeps are milliseconds and the windows of    *)
(* the filters seconds: the clock ticks only when no event is in a gate,   *)
(* and within a tick any order is possible.                                *)
(*                                                                         *)
(* The lists of recent times the filters keep are read off the history of  *)
(* the events: what the code removes from a list has left every window.    *)
(* GateScoring gives the verdicts.                                         *)
(***************************************************************************)
EXTENDS GateScoring, Sequences, FiniteSets

CONSTANTS
  Kinds,            \* what may be published, see KindType
  Contents,         \* payloads, as EventBus._get_fingerprint tells them apart
  Keys,             \* Gate 1's fingerprints: type, addresses, port and zone
  Entities,         \* users, or else addresses, or else sources
  Devices, Places,  \* device ids and locations an event may name
  Readings,         \* hardware fingerprints the agent's machine may be read as
  Risks,            \* composite scores the MetaRiskArbiter reports
  MaxFingerprints,  \* maxlen of the bus's deque (1000)
  BusWindow,        \* _fingerprint_ttl (60 s)
  DuplicateWindow,  \* _duplicate_window_seconds (5 s)
  BurstWindow,      \* _burst_window_seconds (10 s)
  MaxBurst,         \* _max_events_per_burst (3)
  SessionWindow,    \* _SESSION_WINDOW_SECONDS (300 s)
  MaxEvents,        \* bound: events published
  MaxTime,          \* bound: the clock
  None

\* An event names its entity as user_id (and then perhaps a device and a
\* place) or not at all.
KindType ==
  [event: Events, content: Contents, key: Keys, entity: Entities,
   isUser: BOOLEAN, device: Devices \cup {None}, place: Places \cup {None}]

ASSUME TriGateAssumption ==
  /\ Kinds \subseteq KindType
  /\ \A k \in Kinds : k.event.type = "identity" => k.isUser
  /\ \A j, k \in Kinds : j.content = k.content =>
       j.key = k.key /\ j.entity = k.entity /\ j.event.type = k.event.type
  /\ Readings # {} /\ Risks \subseteq 450..1000
  /\ MaxFingerprints \in Nat \ {0} /\ MaxBurst \in Nat \ {0}
  /\ BusWindow \in Nat /\ DuplicateWindow \in Nat
  /\ BurstWindow \in Nat /\ SessionWindow \in Nat
  /\ MaxEvents \in Nat /\ MaxTime \in Nat
  /\ None \notin Readings \cup Places \cup Devices

VARIABLES
  clock,
  events,     \* the events published, in order, with what became of them
  devices,    \* _trusted_device_hashes
  places,     \* _prev_locations
  meta,       \* _meta_risk_cache
  hits,       \* _repeat_hits
  registry    \* _registry: occurrences per type and entity, 0 without an entry

gateVars == <<devices, places, meta, hits, registry>>
vars == <<clock, events, gateVars>>

Types == {"network", "identity", "physical", "insider"}
InGate == {"gate1", "gate2", "gate3"}
Filtered == {"repeated", "duplicate", "burst"}
Stages == InGate \cup Filtered \cup {"passed", "cleared", "error", "final"}

Init ==
  /\ clock = 0
  /\ events = <<>>
  /\ devices = [u \in Entities |-> None]
  /\ places = [u \in Entities |-> None]
  /\ meta = [e \in Entities |-> NoRisk]
  /\ hits = [e \in Entities |-> 0]
  /\ registry = [t \in Types, e \in Entities |-> 0]

-------------------------------------------------------------------------------
(* Publishing a ThreatEvent: the bus and the filters of Gate 1 run before   *)
(* anything else does.                                                     *)

Enter(k, stage) ==
  /\ Len(events) < MaxEvents
  /\ events' = Append(events,
       [kind |-> k, at |-> clock, stage |-> stage, outcome |-> Outcome("none", k.event.severity),
        trusted |-> TRUE, session |-> FALSE, repeat |-> 0])
  /\ UNCHANGED <<clock, gateVars>>

Numbers == DOMAIN events
Admitted == {i \in Numbers : events[i].stage # "repeated"}

\* _is_duplicate of the bus: among the last MaxFingerprints admitted events.
Repeated(k) ==
  \E i \in Admitted :
    /\ events[i].kind.content = k.content
    /\ clock - events[i].at < BusWindow
    /\ Cardinality({j \in Admitted : j > i}) < MaxFingerprints

\* _track_event: the events with a key that have passed the filters.
Accepted(key) ==
  {i \in Numbers : events[i].stage \notin Filtered /\ events[i].kind.key = key}

Recent(key, window) == {i \in Accepted(key) : events[i].at > clock - window}

DropRepeated(k) == Repeated(k) /\ Enter(k, "repeated")

DropDuplicate(k) ==
  /\ ~Repeated(k)
  /\ Recent(k.key, DuplicateWindow) # {}
  /\ Enter(k, "duplicate")

DropBurst(k) ==
  /\ ~Repeated(k)
  /\ Recent(k.key, DuplicateWindow) = {}
  /\ Cardinality(Recent(k.key, BurstWindow)) >= MaxBurst
  /\ Enter(k, "burst")

\* Fault: one event more than the burst limit is let through.
AcceptOneMore(k) ==
  /\ ~Repeated(k)
  /\ Recent(k.key, DuplicateWindow) = {}
  /\ Cardinality(Recent(k.key, BurstWindow)) <= MaxBurst
  /\ Enter(k, "gate1")

Accept(k) ==
  /\ ~Repeated(k)
  /\ Recent(k.key, DuplicateWindow) = {}
  /\ Cardinality(Recent(k.key, BurstWindow)) < MaxBurst
  /\ Enter(k, "gate1")

Publish(k) == DropRepeated(k) \/ DropDuplicate(k) \/ DropBurst(k) \/ Accept(k)

-------------------------------------------------------------------------------
(* Gate 1.                                                                 *)

\* DeviceFingerprinter: the hash is of the machine the agent runs on, whatever
\* device the event names.  Reading the hardware again may give another one.
Fingerprint(device) == Readings

\* _check_geo_velocity: distances and times are not modelled.  A plausible
\* journey has up to half the risk of an implausible one.
GeoRisk(k) ==
  IF k.event.type # "identity" \/ k.place = None \/ places[k.entity] \in {None, k.place}
  THEN {0} ELSE {0, 100, 240, 500, 1000}

\* What the next gate does with a verdict.
Route(verdict) ==
  CASE verdict = "hold" -> "gate2"
    [] verdict \in {"block", "escalate"} -> "gate3"
    [] verdict = "pass" -> "passed"

\* Gate1Perimeter._evaluate after its sleep.  The device of any event that
\* names a user is checked, and remembered if it is the user's first; the
\* place only if the event is about an identity.
Gate1Decides(i) ==
  LET k == events[i].kind
      checked == k.isUser /\ k.device # None
  IN
  /\ events[i].stage = "gate1"
  /\ \E hash \in Fingerprint(k.device), geoRisk \in GeoRisk(k) :
       LET trusted == checked => devices[k.entity] \in {None, hash}
           o == Gate1(k.event, trusted, geoRisk)
       IN /\ events' = [events EXCEPT ![i].stage = Route(o.verdict),
                                      ![i].outcome = o, ![i].trusted = trusted]
          /\ devices' = IF checked /\ devices[k.entity] = None
                        THEN [devices EXCEPT ![k.entity] = hash] ELSE devices
          /\ places' = IF k.event.type = "identity" /\ k.place # None
                       THEN [places EXCEPT ![k.entity] = k.place] ELSE places
  /\ UNCHANGED <<clock, meta, hits, registry>>

-------------------------------------------------------------------------------
(* Gate 2, for the events Gate 1 holds.                                    *)

\* _update_session: this event and those of the entity in the window before.
Session(i) ==
  {i} \cup {j \in Numbers :
    /\ events[j].session
    /\ events[j].kind.entity = events[i].kind.entity
    /\ events[j].at > events[i].at - SessionWindow}

Gate2Decides(i) ==
  LET k == events[i].kind IN
  /\ events[i].stage = "gate2"
  /\ \E offHours \in BOOLEAN :
       LET o == Gate2(k.event, events[i].outcome.severity, Cardinality(Session(i)),
                      meta[k.entity], offHours)
       IN events' = [events EXCEPT
            ![i].stage = CASE o.verdict = "pass" -> "cleared"
                           [] o.verdict = "error" -> "error"
                           [] OTHER -> Route(o.verdict),
            ![i].outcome = o, ![i].session = TRUE]
  /\ UNCHANGED <<clock, gateVars>>

\* Gate2Behavioural._on_agent_finding.
RiskReported(e, r) ==
  /\ meta' = [meta EXCEPT ![e] = r]
  /\ UNCHANGED <<clock, events, devices, places, hits, registry>>

\* The cache entry is 600 s old, or is pushed out of a full cache.
RiskForgotten(e) ==
  /\ meta[e] # NoRisk
  /\ meta' = [meta EXCEPT ![e] = NoRisk]
  /\ UNCHANGED <<clock, events, devices, places, hits, registry>>

-------------------------------------------------------------------------------
(* Gate 3, for the events Gate 1 or Gate 2 blocks or escalates.            *)

\* Fault: the first three offences are let off.
Gate3DecidesLenient(i) ==
  LET k == events[i].kind
      repeat == hits[k.entity] + 1
      severity == IF repeat > 3 THEN Critical ELSE events[i].outcome.severity
  IN
  /\ events[i].stage = "gate3"
  /\ hits' = [hits EXCEPT ![k.entity] = repeat]
  /\ events' = [events EXCEPT ![i].stage = "final", ![i].repeat = repeat,
                              ![i].outcome = Outcome("block", severity)]
  /\ registry' = [registry EXCEPT ![<<k.event.type, k.entity>>] = @ + 1]
  /\ UNCHANGED <<clock, devices, places, meta>>

Gate3Decides(i) ==
  LET k == events[i].kind
      repeat == hits[k.entity] + 1
      severity == IF repeat >= 3 THEN Critical ELSE events[i].outcome.severity
  IN
  /\ events[i].stage = "gate3"
  /\ hits' = [hits EXCEPT ![k.entity] = repeat]
  /\ events' = [events EXCEPT ![i].stage = "final", ![i].repeat = repeat,
                              ![i].outcome = Outcome("block", severity)]
  /\ registry' = [registry EXCEPT ![<<k.event.type, k.entity>>] = @ + 1]
  /\ UNCHANGED <<clock, devices, places, meta>>

\* The registry entry is a week old, or is pushed out of a full registry.
EntryForgotten(t, e) ==
  /\ registry[t, e] > 0
  /\ registry' = [registry EXCEPT ![<<t, e>>] = 0]
  /\ UNCHANGED <<clock, events, devices, places, meta, hits>>

-------------------------------------------------------------------------------
Tick ==
  /\ clock < MaxTime
  /\ \A i \in Numbers : events[i].stage \notin InGate
  /\ clock' = clock + 1
  /\ UNCHANGED <<events, gateVars>>

Next ==
  \/ Tick
  \/ \E k \in Kinds : Publish(k)
  \/ \E i \in Numbers : Gate1Decides(i) \/ Gate2Decides(i) \/ Gate3Decides(i)
  \/ \E e \in Entities : RiskForgotten(e) \/ \E r \in Risks : RiskReported(e, r)
  \/ \E t \in Types, e \in Entities : EntryForgotten(t, e)

Spec == Init /\ [][Next]_vars

-------------------------------------------------------------------------------
Through == {i \in Numbers : events[i].stage \notin Filtered}

\* The burst filter caps what one key may send, whatever the windows are: of
\* the events with one key, at most MaxBurst get through within BurstWindow.
BurstCapped ==
  \A i \in Through :
    Cardinality({j \in Through :
      /\ events[j].kind.key = events[i].kind.key
      /\ events[j].at <= events[i].at /\ events[j].at > events[i].at - BurstWindow}) <= MaxBurst

\* A repeat offender does not get away with a low severity, even if several of
\* its events are in Gate 3 at once or its registry entry was dropped: at most
\* two final decisions about one entity are below CRITICAL.
RepeatersAreCritical ==
  \A e \in Entities :
    Cardinality({i \in Numbers :
      /\ events[i].stage = "final" /\ events[i].kind.entity = e
      /\ events[i].outcome.severity < Critical}) <= 2

==============================================================================
