----------------------------- MODULE Correlation -----------------------------
(***************************************************************************)
(* The correlation engine (agent/engines/correlation_engine.py): recent     *)
(* findings by the type of their threat, and patterns of types.  Findings   *)
(* are linked whatever entity they are about.  When a pattern fires, the    *)
(* evaluation waits until the dashboard's bridge has stored the alert       *)
(* (core/backend_bridge.py:241-249), and forgets the findings of the        *)
(* pattern only then: meanwhile other findings are ingested, and evaluated  *)
(* with those the alert has linked.                                         *)
(***************************************************************************)
EXTENDS BusEvents, FiniteSetsExt

VARIABLES
    buffer,         \* _buffer: findings of the last five minutes, which are filed by type
    correlated,     \* the alerts that were emitted
    evaluations,    \* those that wait for their alert to be stored
    cleared,        \* the alerts whose findings have been forgotten
    clock           \* hours since the start

Pattern(types, min_severity, boost) == [types |-> types, min_severity |-> min_severity, boost |-> boost]

Patterns == <<
    Pattern({"network_intrusion", "physical_intrusion"}, "high", 150),
    Pattern({"identity_mismatch", "network_intrusion"}, "medium", 100),
    Pattern({"insider_threat", "physical_intrusion"}, "medium", 100),
    Pattern({"network_intrusion", "identity_mismatch", "physical_intrusion"}, "high", 200),
    Pattern({"geo_velocity", "identity_mismatch"}, "high", 250),
    Pattern({"device_health_fail", "network_intrusion"}, "high", 200),
    Pattern({"behavioral_anomaly", "zero_trust_violation"}, "medium", 150),
    Pattern({"zero_trust_violation", "insider_threat"}, "high", 200),
    Pattern({"geo_velocity", "device_health_fail", "behavioral_anomaly"}, "high", 300),
    Pattern({"access_request", "behavioral_anomaly"}, "medium", 100),
    Pattern({"zero_trust_violation", "network_intrusion"}, "critical", 250),
    Pattern({"insider_threat", "threat_intel_alert"}, "high", 250),
    Pattern({"physical_cyber_mismatch", "insider_threat"}, "high", 200),
    Pattern({"behavioral_anomaly", "threat_intel_alert"}, "medium", 200),
    Pattern({"correlated_attack", "network_intrusion"}, "critical", 300),
    Pattern({"correlated_attack", "insider_threat"}, "high", 250),
    Pattern({"physical_intrusion", "behavioral_anomaly"}, "medium", 150),
    Pattern({"network_intrusion", "identity_mismatch", "physical_intrusion", "threat_intel_alert"}, "critical", 350),
    Pattern({"insider_threat", "physical_cyber_mismatch", "anomalous_behavior"}, "high", 300) >>

\* _evict_stale and the append of _ingest
Ingested(e) ==
    {f \in buffer : f.at = clock}
    \union {[n |-> e.id, event |-> Event(e), agent |-> e.source, type |-> e.type, severity |-> e.severity,
             confidence |-> e.confidence, at |-> clock]}

\* The most recent finding of every type that still has one
Matched(pattern, known) == {f \in known : f.type \in pattern.types /\ \A g \in known : g.type = f.type => g.n <= f.n}

Fires(pattern, matched) ==
    \E f \in matched : SeverityWeight[f.severity] >= SeverityWeight[pattern.min_severity]

\* _emit_correlated_alert
Emitted(pattern, matched) ==
    LET mean == MapThenSumSet(LAMBDA f : f.confidence, matched) \div Cardinality(matched)
        weight == Max({SeverityWeight[f.severity] : f \in matched})
        sure(f) == f.agent = "MetaRiskArbiter" /\ f.confidence > 700
    IN  [types |-> pattern.types, linked |-> matched, confidence |-> Clamp(mean + pattern.boost),
         severity |-> CHOOSE s \in DOMAIN SeverityWeight : SeverityWeight[s] = weight,
         actions |-> {"escalate_soc"}
                     \union (IF pattern.boost >= 250 THEN {"isolate_asset", "notify_security"} ELSE {})
                     \union (IF \E f \in matched : sure(f) THEN {"pseudo_lock"} ELSE {})]

-----------------------------------------------------------------------------
(* _evaluate_patterns: one pattern after the other, up to the first that     *)
(* fires.                                                                    *)

\* The patterns from k on that fire: active is the set of types at the start
\* of the evaluation
Firing(active, known, k) ==
    {j \in k..Len(Patterns) : Patterns[j].types \subseteq active /\ Fires(Patterns[j], Matched(Patterns[j], known))}

\* The evaluation goes on at the k-th pattern
EvaluateFrom(active, known, k, waiting) ==
    LET due == Firing(active, known, k)
        pattern == Patterns[Min(due)]
    IN  IF due = {} THEN evaluations' = waiting /\ UNCHANGED correlated
        ELSE /\ correlated' = Append(correlated, Emitted(pattern, Matched(pattern, known)))
             /\ evaluations' = waiting \union {[active |-> active, pattern |-> Min(due), alert |-> Len(correlated) + 1]}

Init ==
    /\ buffer = {}
    /\ correlated = <<>>
    /\ evaluations = {}
    /\ cleared = {}

\* _ingest
On(e) ==
    /\ IF e.kind # "finding" THEN UNCHANGED <<buffer, correlated, evaluations>>
       ELSE /\ buffer' = Ingested(e)
            /\ EvaluateFrom({f.type : f \in Ingested(e)}, Ingested(e), 1, evaluations)
    /\ UNCHANGED cleared

\* Fault: the buffer keeps the findings of an alert
Retained(known, types) == known

\* The buffer forgets the findings of a pattern, those that came since the
\* alert was emitted included
Cleared(known, types) == {f \in known : f.type \notin types}

\* The alert is stored and the evaluation goes on.  The types that are active
\* are not read again: a later pattern fires on the findings that are left.
Stored(x) ==
    LET known == Cleared(buffer, Patterns[x.pattern].types) IN
    /\ buffer' = known
    /\ cleared' = cleared \union {x.alert}
    /\ EvaluateFrom(x.active, known, x.pattern + 1, evaluations \ {x})

\* The database fails (it is locked or full): the exception ends the
\* evaluation, and the findings stay
StoreFails(x) ==
    /\ evaluations' = evaluations \ {x}
    /\ UNCHANGED <<buffer, correlated, cleared>>
=============================================================================
