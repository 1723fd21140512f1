------------------------------ MODULE Compliance ------------------------------
(***************************************************************************)
(* The compliance engine (agent/engines/compliance_engine.py): violations   *)
(* of controls of four frameworks, and the anomaly detection engine         *)
(* (agent/engines/anomaly_detection_engine.py), whose findings it reads.    *)
(***************************************************************************)
EXTENDS BusEvents, SequencesExt

CONSTANTS
    MaxViolations,  \* length at which the list of violations is cut
    KeptViolations, \* and what is left of it
    MinSamples      \* DEFAULT_BASELINE_MIN_SAMPLES

\* Assumed by Engines.
ComplianceAssumption == {MaxViolations, KeptViolations} \subseteq Nat /\ MinSamples \in Nat \ {0}

VARIABLES
    violations,     \* _violations
    counts,         \* _violation_counts
    baselines,      \* _baselines: metric -> values of the last hour
    clock           \* hours since the start

Frameworks ==
    << [name |-> "GDPR", threshold |-> "high", controls |->
          [identity_mismatch |-> <<"art_32", "art_5">>, network_intrusion |-> <<"art_32", "art_33">>,
           insider_threat |-> <<"art_32", "art_5">>, device_health_fail |-> <<"art_32", "art_25">>,
           zero_trust_violation |-> <<"art_32">>, anomalous_behavior |-> <<"art_33", "art_32">>]],
       [name |-> "HIPAA", threshold |-> "high", controls |->
          [identity_mismatch |-> <<"sec_164_312">>, physical_intrusion |-> <<"sec_164_310">>,
           network_intrusion |-> <<"sec_164_312", "sec_164_308">>, insider_threat |-> <<"sec_164_308", "sec_164_312">>,
           device_health_fail |-> <<"sec_164_312", "sec_164_310">>]],
       [name |-> "PCI_DSS", threshold |-> "high", controls |->
          [identity_mismatch |-> <<"req_7", "req_10">>, network_intrusion |-> <<"req_6", "req_11", "req_4">>,
           insider_threat |-> <<"req_7", "req_10", "req_12">>, memory_threat |-> <<"req_6", "req_11">>,
           zero_trust_violation |-> <<"req_7", "req_10">>]],
       [name |-> "SOC_2", threshold |-> "medium", controls |->
          [identity_mismatch |-> <<"security", "confidentiality">>, network_intrusion |-> <<"security", "availability">>,
           insider_threat |-> <<"confidentiality", "privacy">>, device_health_fail |-> <<"availability", "security">>,
           physical_intrusion |-> <<"security", "confidentiality">>]] >>

Relevant(e) == e.kind = "finding" /\ e.confidence >= 300 /\ SeverityWeight[e.severity] >= 2

\* The violations of a framework; below its threshold they are recorded as low
Broken(e, framework) ==
    LET breach == SeverityWeight[e.severity] >= SeverityWeight[framework.threshold]
        controls == Get(framework.controls, e.type, <<>>)
    IN  [i \in DOMAIN controls |-> [control |-> <<framework.name, controls[i]>>, n |-> e.id,
                                    severity |-> IF breach THEN e.severity ELSE "low"]]

AllBroken(e) == IF ~Relevant(e) THEN <<>> ELSE FoldLeft(LAMBDA all, f : all \o Broken(e, f), <<>>, Frameworks)

\* The oldest half goes, breaches that have to be notified included
Cut(list) == IF Len(list) > MaxViolations THEN SubSeq(list, Len(list) - KeptViolations + 1, Len(list)) ELSE list

\* get_breach_notifications
BreachNotifications == SelectSeq(violations, LAMBDA v : Serious(v.severity))

-----------------------------------------------------------------------------
(* Anomaly detection: the value is a part of the baseline it is compared     *)
(* with.  With n values of sum S and square sum Q the square of the z-score  *)
(* of v is (n-1)(n v - S)^2 / (n (n Q - S^2)).                               *)

Metrics == {"packet_rate", "data_volume_gb", "unusual_data_volume_gb"}

Measured(e) == IF e.kind = "threat" THEN Metrics \intersect DOMAIN e.payload ELSE {}

Sampled(e, metric) ==
    Append(SelectSeq(Get(baselines, metric, <<>>), LAMBDA v : clock - v.at < 1), [value |-> e.payload[metric], at |-> clock])

\* The z-score is above limit, which is in quarters
ZScoreAbove(e, metric, limit) ==
    LET sample == Sampled(e, metric)
        n == Len(sample)
        S == SumFunction([i \in 1..n |-> sample[i].value])
        Q == SumFunction([i \in 1..n |-> sample[i].value * sample[i].value])
        d == n * e.payload[metric] - S
    IN  /\ n >= MinSamples
        /\ n * Q > S * S
        /\ 16 * (n - 1) * d * d > limit * limit * n * (n * Q - S * S)

Outlier(e, metric) == ZScoreAbove(e, metric, 10)

AnomalySeverity(e, metric) ==
    IF ZScoreAbove(e, metric, 20) THEN "critical" ELSE IF ZScoreAbove(e, metric, 15) THEN "high" ELSE "medium"

\* The confidence is a tenth of the z-score: above 0.25
Findings(e) ==
    LET odd == SetToSeq({metric \in Measured(e) : Outlier(e, metric)})
        finding(metric) == AgentFinding("AnomalyDetectionEngine", "anomalous_behavior", AnomalySeverity(e, metric),
                                        IF ZScoreAbove(e, metric, 12) THEN 300 ELSE 250, [metric |-> metric], e.depth + 1)
    IN  [i \in DOMAIN odd |-> With(finding(odd[i]), "event_id", e.id)]

Init ==
    /\ violations = <<>>
    /\ counts = << >>
    /\ baselines = << >>

On(e) ==
    /\ violations' = Cut(violations \o AllBroken(e))
    /\ counts' = FoldLeft(LAMBDA known, v : With(known, v.control, Get(known, v.control, 0) + 1), counts, AllBroken(e))
    /\ baselines' = [metric \in DOMAIN baselines \union Measured(e) |->
                        IF metric \in Measured(e) THEN Sampled(e, metric) ELSE baselines[metric]]
=============================================================================
