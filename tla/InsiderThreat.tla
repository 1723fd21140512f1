---------------------------- MODULE InsiderThreat ----------------------------
(***************************************************************************)
(* The insider threat engine (agent/engines/insider_threat_engine.py): a    *)
(* record of five scores for every user, an overall score and alerts with   *)
(* a cooldown of an hour.  Handlers are conjoined with those of the other   *)
(* engines in Engines.                                                      *)
(*                                                                         *)
(* Attr is Python's getattr with a default: _recalculate_overall asks for   *)
(* the attribute "behavioral", and a record has "behavioral_score".         *)
(***************************************************************************)
EXTENDS BusEvents

VARIABLES
    records,        \* _records: user -> scores
    lastAlert,      \* _last_alert_time: user -> hour
    clock           \* hours since the start

Weight == [behavioral |-> 30, data_exfil |-> 25, hr_signal |-> 15, physical |-> 15, peer_compare |-> 15]

HRWeight == [performance_review_negative |-> 300, performance_review_positive |-> -100,
             termination_notice |-> 500, leave_request |-> 200, complaint_filed |-> 400,
             promotion |-> -200, role_change_sensitive |-> 300]

SensitiveResources == {"database", "server_room", "data_vault", "admin_console"}

NewRecord == [behavioral_score |-> 0, data_exfil_score |-> 0, hr_signal_score |-> 0,
              physical_score |-> 0, peer_compare_score |-> 0, overall_score |-> 0, is_monitoring |-> FALSE]

Record(user) == Get(records, user, NewRecord)

Attr(record, name) == Get(record, name, 0)

Overall(record) ==
    LET part(dim) == Weight[dim] * Attr(record, dim)
    IN  (part("behavioral") + part("data_exfil") + part("hr_signal") + part("physical") + part("peer_compare")) \div 100

Recalculated(record) == [record EXCEPT !.overall_score = Overall(record)]

RiskLevel(score) ==
    CASE score >= 951 -> "severe"
      [] score >= 800 -> "critical"
      [] score >= 650 -> "high"
      [] score >= 450 -> "medium"
      [] OTHER -> "low"

RiskSeverity(score) == IF RiskLevel(score) = "severe" THEN "critical" ELSE RiskLevel(score)

-----------------------------------------------------------------------------
(* What an event, a request or a finding adds to the scores of its user. *)

UserOf(e) ==
    CASE e.kind = "threat" -> Either(e.payload, <<"user_id", "entity_id", "src_user">>)
      [] OTHER -> Get(e.payload, "user_id", None)

\* Large volumes are a strong signal
VolumeRisk(volume) == IF volume > 10 THEN 200 ELSE IF volume > 5 THEN 100 ELSE 0

HRAdjusted(score, p) ==
    LET signal == Get(p, "hr_signal", None)
        first == IF signal \in DOMAIN HRWeight THEN Clamp(score + (HRWeight[signal] * 3) \div 10) ELSE score
        event == Get(p, "hr_event_type", None)
    IN  IF event = None THEN first ELSE Clamp(first + (Get(HRWeight, event, 300) * 3) \div 10)

AfterThreat(record, e) ==
    LET p == e.payload
        anomaly == IF e.type = "anomalous_behavior" THEN Get(p, "overall_anomaly_score", 0) ELSE 0
        exfil == IF e.type = "insider_threat" THEN Get(p, "exfil_risk", 0) ELSE 0
        volume == Get(p, "unusual_data_volume_gb", Get(p, "data_volume_gb", 0))
        intrusion == e.type = "physical_intrusion" /\ "zone" \in DOMAIN p
    IN  [record EXCEPT !.behavioral_score = Clamp(@ + anomaly \div 5),
                       !.data_exfil_score = Clamp(@ + (exfil * 3) \div 10 + VolumeRisk(volume)),
                       !.physical_score = Clamp(@ + IF intrusion THEN 150 ELSE 0),
                       !.hr_signal_score = HRAdjusted(@, p),
                       !.peer_compare_score = Clamp(@ + (Get(p, "peer_deviation", 0) * 3) \div 10)]

After(e) ==
    LET record == Record(UserOf(e)) IN
    CASE e.kind = "threat" -> AfterThreat(record, e)
      [] e.kind = "request" ->
           IF e.payload.resource \in SensitiveResources
           THEN [record EXCEPT !.data_exfil_score = Clamp(@ + 50)] ELSE record
      [] e.kind = "finding" ->
           IF e.severity = "critical" /\ e.confidence > 800
           THEN [record EXCEPT !.behavioral_score = Clamp(@ + 300)] ELSE record

\* updated: the event said something about a score, which may be at its limit
Updates(e) ==
    LET p == e.payload
        has(key) == key \in DOMAIN p
    IN  CASE e.kind = "threat" ->
               \/ e.type = "anomalous_behavior" /\ Get(p, "overall_anomaly_score", 0) > 0
               \/ e.type = "insider_threat" /\ Get(p, "exfil_risk", 0) > 0
               \/ e.type = "physical_intrusion" /\ has("zone")
               \/ Get(p, "unusual_data_volume_gb", Get(p, "data_volume_gb", 0)) > 5
               \/ Get(p, "hr_signal", None) \in DOMAIN HRWeight
               \/ has("hr_event_type") \/ has("peer_deviation")
          [] e.kind = "request" -> p.resource \in SensitiveResources
          [] e.kind = "finding" -> e.severity = "critical" /\ e.confidence > 800

Alerting(e) ==
    /\ UserOf(e) # None
    /\ Updates(e)
    /\ RiskLevel(Overall(After(e))) # "low"
    /\ Get(lastAlert, UserOf(e), clock - 1) < clock

\* What handling e publishes
Alerts(e) ==
    IF ~Alerting(e) THEN <<>>
    ELSE LET score == Overall(After(e))
         IN  << ThreatEvent("InsiderThreatEngine", "insider_threat", RiskSeverity(score),
                            [user_id |-> UserOf(e), entity_id |-> UserOf(e), overall_score |-> score],
                            e.depth + 1) >>

Init ==
    /\ records = << >>
    /\ lastAlert = << >>

On(e) ==
    IF UserOf(e) = None THEN UNCHANGED <<records, lastAlert>>
    ELSE LET after == Recalculated(After(e))
             alarming == Alerting(e) /\ RiskLevel(after.overall_score) \in {"critical", "severe"}
         IN  /\ records' = With(records, UserOf(e), [after EXCEPT !.is_monitoring = @ \/ alarming])
             /\ lastAlert' = IF Alerting(e) THEN With(lastAlert, UserOf(e), clock) ELSE lastAlert

\* _decay_loop takes off the 3% of a day every hour.  The daily cleanup finds
\* no record that was not updated for 90 days: the decay is an update.
Decay ==
    LET decayed(r) == Recalculated([r EXCEPT !.behavioral_score = (@ * 97) \div 100, !.data_exfil_score = (@ * 97) \div 100,
                                             !.hr_signal_score = (@ * 97) \div 100, !.physical_score = (@ * 97) \div 100,
                                             !.peer_compare_score = (@ * 97) \div 100])
    IN  /\ records' = [u \in DOMAIN records |->
                          [decayed(records[u]) EXCEPT !.is_monitoring = @ /\ decayed(records[u]).overall_score >= 450]]
        /\ UNCHANGED lastAlert
=============================================================================
