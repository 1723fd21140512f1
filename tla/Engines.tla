------------------------------- MODULE Engines -------------------------------
(***************************************************************************)
(* The analysis engines of the agent on its event bus.  Every engine hears  *)
(* every event and may publish further ones, which all of them hear in      *)
(* their turn.  Handlers run up to their first pause, and the events they   *)
(* publish are handled in the order in which they were published: the bus   *)
(* is a queue, and handling its head is one step of all engines.  Two       *)
(* pauses have steps of their own: that of the correlation engine, until    *)
(* its alert is stored, and that of the decoy agent, until its listener is  *)
(* open.                                                                    *)
(*                                                                         *)
(* What comes from outside is a story: a sequence of chapters, each a set   *)
(* of events and of calls of administrators that come in any order.         *)
(***************************************************************************)
EXTENDS BusEvents, FiniteSets

CONSTANTS
    Stories,        \* what may happen
    StartHour,      \* the hour of the day at which it starts
    MaxClock,       \* hours that pass
    MinEvents, Window, MaxAnomalies, Confidence, MaxSightings, MaxHours, Sufficient, ProfileLife, StableAfter,
    EntityLife, GhostWindow, InsiderWindow, RansomWindow, AlertCooldown, Threshold, RuleLife, MaxViolations,
    KeptViolations, MinSamples, Internal, Honeypots

VARIABLES
    story,          \* what is still to come
    bus,            \* events that are published and not yet handled
    recent,         \* fingerprints of the threat events of the last minute
    published,      \* number of events so far
    clock,          \* hours since the start
    records, lastInsiderAlert,
    uebaProfiles,
    devices, pending, quarantined,
    sightings,
    iocs,
    entities,
    dnaProfiles, groups,
    histories, order, lastAlert,
    buffer, correlated, evaluations, cleared,
    rules, verdicts, audit,
    violations, counts, baselines,
    places, machines, hosts,
    locking         \* findings whose decoy is being opened

Insider == INSTANCE InsiderThreat WITH lastAlert <- lastInsiderAlert
UEBA == INSTANCE UserBehavior WITH profiles <- uebaProfiles
Device == INSTANCE DeviceTrust
Physical == INSTANCE PhysicalSecurity
Intel == INSTANCE ThreatIntel
RiskEngine == INSTANCE RiskScoring
DNA == INSTANCE BehavioralDNA WITH profiles <- dnaProfiles
CSDE == INSTANCE Converged
Correlator == INSTANCE Correlation
Suppressor == INSTANCE Suppression
Comply == INSTANCE Compliance
Agents == INSTANCE DetectionAgents

ASSUME EnginesAssumption ==
    /\ StartHour \in 0..23 /\ MaxClock \in Nat
    /\ UEBA!UserBehaviorAssumption /\ Device!DeviceTrustAssumption /\ Physical!PhysicalAssumption
    /\ RiskEngine!RiskScoringAssumption /\ DNA!BehavioralAssumption /\ CSDE!ConvergedAssumption
    /\ Suppressor!SuppressionAssumption /\ Comply!ComplianceAssumption /\ Agents!AgentsAssumption

\* An event that ingestion, the gates or the arbiter publish is no echo of
\* another, and its volume is a number.  The findings among them are the
\* arbiter's.
FromOutside(e) ==
    /\ {"kind", "source", "payload", "depth"} \subseteq DOMAIN e
    /\ \/ e.kind = "request"
       \/ "type" \in DOMAIN e /\ e.kind = "threat"
       \/ "type" \in DOMAIN e /\ e.kind = "finding" /\ e.source = "MetaRiskArbiter" /\ e.type = "correlated_attack"
    /\ e.depth = 0
    /\ DNA!Volume(e) \in Nat

\* An indicator that is added has a value.
Proper(call) ==
    /\ call.do = "publish" => FromOutside(call.event)
    /\ call.do = "add_ioc" => call.value # None

ASSUME StoriesAssumption ==
    /\ \A s \in Stories : s \in Seq({s[i] : i \in DOMAIN s}) /\ \A i \in DOMAIN s : \A call \in s[i] : Proper(call)
    /\ None \notin DOMAIN Intel!SampleIocs

insiderVars == <<records, lastInsiderAlert>>
deviceVars == <<devices, pending, quarantined>>
dnaVars == <<dnaProfiles, groups>>
csdeVars == <<histories, order, lastAlert>>
ruleVars == <<rules, verdicts, audit>>
correlationVars == <<buffer, correlated, evaluations, cleared>>
complianceVars == <<violations, counts, baselines>>
findingVars == <<correlationVars, complianceVars>>
agentVars == <<places, machines, hosts, locking>>
engineVars == <<agentVars, insiderVars, uebaProfiles, deviceVars, sightings, iocs, entities, dnaVars, csdeVars, ruleVars, findingVars>>
vars == <<story, bus, recent, published, clock, engineVars>>

Hour == (StartHour + clock) % 24

-----------------------------------------------------------------------------
(* The event bus.  A threat event that looks like one of the last minute,    *)
(* whatever its id, is dropped; findings and requests are not.               *)

Fingerprint(e) == <<e.type, e.source, e.payload>>

\* Fault: the bus without _is_duplicate
NoDuplicate(e, known) == FALSE

Duplicate(e, known) == e.kind = "threat" /\ Fingerprint(e) \in known

Published(state, e) ==
    IF Duplicate(e, state.recent) THEN state
    ELSE [queue |-> Append(state.queue, With(e, "id", state.n + 1)), n |-> state.n + 1,
          recent |-> IF e.kind = "threat" THEN state.recent \union {Fingerprint(e)} ELSE state.recent]

\* The bus after the last of the events
AllPublished(state, events) ==
    LET after[k \in 0..Len(events)] == IF k = 0 THEN state ELSE Published(after[k - 1], events[k])
    IN  after[Len(events)]

\* The events are published, the queue being what it is by then
Publish(queue, events) ==
    LET after == AllPublished([queue |-> queue, n |-> published, recent |-> recent], events)
    IN  /\ bus' = after.queue
        /\ published' = after.n
        /\ recent' = after.recent

-----------------------------------------------------------------------------
Init ==
    /\ story \in Stories
    /\ bus = <<>>
    /\ recent = {}
    /\ published = 0
    /\ clock = 0
    /\ Insider!Init /\ UEBA!Init /\ Device!Init /\ Physical!Init /\ Intel!Init /\ RiskEngine!Init /\ DNA!Init
    /\ locking = {}
    /\ Agents!Init /\ CSDE!Init /\ Correlator!Init /\ Suppressor!Init /\ Comply!Init

Coming == IF story = <<>> THEN {} ELSE Head(story)

Took(item) == story' = [story EXCEPT ![1] = @ \ {item}]

\* Nothing is to be handled, opened or stored
Quiet == bus = <<>> /\ locking = {} /\ evaluations = {}

\* Chapters are minutes apart: what one leads to is handled before the next,
\* and its fingerprints have expired
NextChapter ==
    /\ story # <<>> /\ Head(story) = {} /\ Quiet
    /\ story' = Tail(story)
    /\ recent' = {}
    /\ UNCHANGED <<bus, published, clock, engineVars>>

Calls(name) == {i \in Coming : i.do = name}

\* Ingestion, gates and the meta-risk arbiter publish
External ==
    \E item \in Calls("publish") :
        /\ Took(item)
        /\ Publish(bus, <<item.event>>)
        /\ UNCHANGED <<clock, engineVars>>

\* start_memory_scanning finds a process
MemoryScan ==
    \E item \in Calls("scan") :
        /\ Took(item)
        /\ Publish(bus, <<Agents!ScanFinding(item.sign, -(published + 1))>>)
        /\ UNCHANGED <<clock, engineVars>>

Handle ==
    /\ bus # <<>>
    /\ LET e == Head(bus) IN
       /\ Correlator!On(e) /\ DNA!On(e, Hour) /\ Device!On(e) /\ RiskEngine!On(e) /\ UEBA!On(e, Hour) /\ Intel!On(e)
       /\ Physical!On(e) /\ Insider!On(e) /\ Suppressor!On(e) /\ CSDE!On(e, Hour) /\ Comply!On(e)
       /\ Agents!On(e)
       /\ locking' = IF AsksForDecoy(e) THEN locking \union {e} ELSE locking
       /\ Publish(Tail(bus), DNA!Alerts(e, Hour) \o Device!Alerts(e) \o UEBA!Alerts(e, Hour) \o Intel!Alerts(e)
                             \o Physical!Alerts(e) \o Insider!Alerts(e) \o Comply!Findings(e)
                             \o Agents!Findings(e, Hour))
    /\ UNCHANGED <<story, clock>>

\* A decoy is open, or none of five ports could be bound
DecoyOpens ==
    \E f \in locking :
        /\ locking' = locking \ {f}
        /\ Publish(bus, <<Agents!Confirmation(f)>>) \/ Publish(bus, <<>>)
        /\ UNCHANGED <<story, clock, places, machines, hosts, insiderVars, uebaProfiles, deviceVars, sightings, iocs, entities,
                       dnaVars, csdeVars, ruleVars, findingVars>>

\* A correlated alert is stored, or is not
AlertStored ==
    /\ \E x \in evaluations : Correlator!Stored(x) \/ Correlator!StoreFails(x)
    /\ UNCHANGED <<story, bus, recent, published, clock, agentVars, insiderVars, uebaProfiles, deviceVars, sightings, iocs, entities,
                   dnaVars, csdeVars, ruleVars, complianceVars>>

\* The minute's evaluation of the converged engine
Evaluate ==
    /\ histories # << >>
    /\ CSDE!Evaluate
    /\ Publish(bus, CSDE!Findings)
    /\ UNCHANGED <<story, clock, agentVars, insiderVars, uebaProfiles, deviceVars, sightings, iocs, entities, dnaVars, ruleVars,
                   findingVars>>

\* What loops and caches do in an hour; whatever was published has long been
\* handled
HourPasses ==
    /\ clock < MaxClock
    /\ Quiet
    /\ clock' = clock + 1
    /\ recent' = {}
    /\ Insider!Decay /\ RiskEngine!Decay
    /\ Agents!Expire /\ UEBA!Expire /\ DNA!Expire /\ Suppressor!Expire
    /\ UNCHANGED <<story, bus, published, locking, deviceVars, sightings, iocs, csdeVars, findingVars>>

-----------------------------------------------------------------------------
(* Administrators and analysts. *)

DeviceCall ==
    /\ \/ \E c \in Calls("register") : Took(c) /\ Device!RegisterDevice(c.device, c.health) /\ Publish(bus, <<>>)
       \/ \E c \in Calls("approve") : Took(c) /\ Device!ApproveDevice(c.device) /\ Publish(bus, <<>>)
       \/ \E c \in Calls("reject") : Took(c) /\ Device!RejectDevice(c.device) /\ Publish(bus, <<>>)
       \/ \E c \in Calls("unquarantine") : Took(c) /\ Device!UnquarantineDevice(c.device) /\ Publish(bus, <<>>)
       \/ \E c \in Calls("health") : /\ Took(c)
                                     /\ Device!UpdateDeviceHealth(c.device, c.health)
                                     /\ Publish(bus, Device!HealthAlerts(c.device, c.health))
    /\ UNCHANGED <<clock, agentVars, insiderVars, uebaProfiles, sightings, iocs, entities, dnaVars, csdeVars, ruleVars, findingVars>>

AnalystCall ==
    /\ \/ \E c \in Calls("feedback") : Took(c) /\ Suppressor!RecordFeedback(c.fingerprint, c.verdict)
       \/ \E c \in Calls("add_rule") : Took(c) /\ Suppressor!AddRule(c.fingerprint, c.hours, c.max)
       \/ \E c \in Calls("remove_rule") : Took(c) /\ Suppressor!RemoveRule(c.fingerprint)
    /\ UNCHANGED <<bus, recent, published, clock, agentVars, insiderVars, uebaProfiles, deviceVars, sightings, iocs, entities, dnaVars,
                   csdeVars, findingVars>>

IntelCall ==
    /\ \/ \E c \in Calls("add_ioc") : Took(c) /\ Intel!AddIoc(c.value, c.ioc) /\ Publish(bus, <<>>)
       \/ \E c \in Calls("remove_ioc") : Took(c) /\ Intel!RemoveIoc(c.value) /\ Publish(bus, <<>>)
       \/ \E c \in Calls("mention") : Took(c) /\ Publish(bus, Intel!Mention(c.type, c.confidence)) /\ UNCHANGED iocs
    /\ UNCHANGED <<clock, agentVars, insiderVars, uebaProfiles, deviceVars, sightings, entities, dnaVars, csdeVars, ruleVars, findingVars>>

PeerCall ==
    /\ \E c \in Calls("peer") : Took(c) /\ DNA!SetPeerGroup(c.id, c.group)
    /\ UNCHANGED <<bus, recent, published, clock, agentVars, insiderVars, uebaProfiles, deviceVars, sightings, iocs, entities, csdeVars,
                   ruleVars, findingVars>>

Over == story = <<>> /\ Quiet /\ clock = MaxClock /\ UNCHANGED vars

Next == External \/ MemoryScan \/ NextChapter \/ Handle \/ DecoyOpens \/ AlertStored \/ Evaluate \/ HourPasses
        \/ DeviceCall \/ AnalystCall \/ IntelCall \/ PeerCall \/ Over

Spec == Init /\ [][Next]_vars

-----------------------------------------------------------------------------
\* An event from outside leads to alerts about alerts at most: the engines
\* hear their own alerts (an intrusion that the physical engine reports is
\* an intrusion), and the chain ends because the bus knows the third.
ChainsEnd == \A i \in DOMAIN bus : bus[i].depth <= 2

\* The quarantine is kept twice, in the set and in the record, and trust reads
\* the record: where the two agree they go on agreeing, so that a device in
\* quarantine is not trusted, whatever recalculates its scores meanwhile, and
\* one that is released is in no quarantine.  Only a device that is registered
\* anew parts them: reject_device forgets the record and not the quarantine.
QuarantineHolds ==
    [][\A d \in DOMAIN devices \intersect DOMAIN devices' :
          (devices[d].is_quarantined <=> d \in quarantined) => (devices'[d].is_quarantined <=> d \in quarantined')]_vars

\* An alert whose findings have been forgotten shares none with a later one.
\* The buffers are cleared "to avoid duplicate alerts for the same pattern"
\* (correlation_engine.py:280), but after the await: alerts that are emitted
\* while another is being stored, or after the storing has failed, may link
\* its findings again, and they alone.
NoFindingCountsTwice ==
    [][\A j \in DOMAIN correlated' \ DOMAIN correlated : \A i \in cleared' :
          {f.n : f \in correlated'[i].linked} \intersect {f.n : f \in correlated'[j].linked} = {}]_vars

\* No event corroborates itself, however many agents and engines report on
\* it and whatever they call it: an alert that links a finding of every type of
\* its pattern is about two events at least.  The exception is one with a
\* finding of the arbiter, which is filed under the event that made it look,
\* or with the decoy agent's confirmation of one.
\* (The types that are active are not read again after a pattern has fired
\* and its findings are forgotten: a later pattern of the same evaluation may
\* fire on the one finding that is left.)
EventsCorroborate ==
    \A i \in DOMAIN correlated :
        {f.type : f \in correlated[i].linked} = correlated[i].types =>
            \/ Cardinality({f.event : f \in correlated[i].linked}) > 1
            \/ \E f \in correlated[i].linked : f.agent \in {"MetaRiskArbiter", "PseudoLockAgent"} /\ f.type = "correlated_attack"
=============================================================================
