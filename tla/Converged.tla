------------------------------ MODULE Converged ------------------------------
(***************************************************************************)
(* The converged security engine                                           *)
(* (agent/engines/converged_security_engine.py): a history of signals for   *)
(* every entity, and four rules that a loop evaluates every minute.         *)
(***************************************************************************)
EXTENDS BusEvents, SequencesExt

CONSTANTS
    GhostWindow, InsiderWindow, RansomWindow,   \* in hours
    AlertCooldown                               \* in hours

\* Assumed by Engines.
ConvergedAssumption == {GhostWindow, InsiderWindow, RansomWindow, AlertCooldown} \subseteq Nat \ {0}

VARIABLES
    histories,      \* _histories: entity -> signals
    order,          \* the entities in the order in which they came
    lastAlert,      \* _last_alert_time: <<entity, rule>> -> hour
    clock           \* hours since the start

vars == <<histories, order, lastAlert>>

SignalOf == [identity_mismatch |-> "login", physical_intrusion |-> "physical_access",
             network_intrusion |-> "network_behavior"]

\* No event becomes a signal of the camera, "cctv"
SignalType(e) ==
    CASE e.kind = "request" -> "access_request"
      [] e.kind = "finding" -> "anomaly"
      [] OTHER -> Get(SignalOf, e.type, "anomaly")

EntityOf(e) ==
    CASE e.kind = "request" -> e.payload.user_id
      [] e.kind = "finding" -> Either(e.payload, <<"entity_id", "user_id", "src_ip">>)
      [] OTHER -> Either(e.payload, <<"user_id", "src_ip", "device_id">>)

\* The metadata of a signal has the keys of the event it was made from, except
\* that those of a finding are put one level down
Signal(e, hour) ==
    [type |-> SignalType(e), at |-> clock, hour |-> hour, n |-> e.id,
     insider |-> e.kind = "threat" /\ e.type = "insider_threat",
     meta |-> IF e.kind = "finding" THEN << >> ELSE e.payload]

Init ==
    /\ histories = << >>
    /\ order = <<>>
    /\ lastAlert = << >>

On(e, hour) ==
    LET id == EntityOf(e) IN
    /\ histories' = IF id = None THEN histories ELSE With(histories, id, Append(Get(histories, id, <<>>), Signal(e, hour)))
    /\ order' = IF id = None \/ id \in DOMAIN histories THEN order ELSE Append(order, id)
    /\ UNCHANGED lastAlert

-----------------------------------------------------------------------------
(* The rules: scores between 0 and 1000. *)

Within(id, hours) == SelectSeq(histories[id], LAMBDA s : clock - s.at <= hours)
OfType(signals, type) == SelectSeq(signals, LAMBDA s : s.type = type)

OffHours(hour) == hour < 7 \/ hour > 21

GhostLogin(id) ==
    LET logins == OfType(Within(id, GhostWindow), "login")
        presence == OfType(Within(id, GhostWindow), "physical_access")
        login == Last(logins)
        place == Either(login.meta, <<"detected_location", "claimed_location", "src_ip">>)
        zone == Get(Last(presence).meta, "zone", None)
    IN  IF logins = <<>> THEN 0
        ELSE IF presence = <<>> THEN 700
        ELSE IF login.n > Last(presence).n /\ None \notin {place, zone} /\ place # zone THEN 850
        ELSE 0

Some(signals, P(_)) == \E i \in DOMAIN signals : P(signals[i])

Count(indicators) == Cardinality({i \in DOMAIN indicators : indicators[i]})

\* Data volume, resource, hours in the building, mail, resignation
InsiderIndicators(signals) ==
    LET volume(s) == IF s.insider THEN Either(s.meta, <<"unusual_data_volume_gb", "data_volume_gb">>) ELSE None
    IN  << Some(signals, LAMBDA s : s.type = "anomaly" /\ volume(s) # None /\ volume(s) > 5),
           Some(signals, LAMBDA s : s.type = "access_request" /\ Get(s.meta, "resource", None) = "sensitive_share"),
           Some(signals, LAMBDA s : s.type = "physical_access" /\ OffHours(s.hour)),
           Some(signals, LAMBDA s : s.type = "anomaly" /\ Get(s.meta, "destination", None) = "personal_email"),
           Some(signals, LAMBDA s : s.type = "anomaly" /\ Get(s.meta, "hr_signal", None) = "resignation") >>

Insider(id) ==
    LET signals == Within(id, InsiderWindow)
        count == Count(InsiderIndicators(signals))
    IN  IF Len(signals) < 3 \/ count < 3 THEN 0 ELSE IF 750 + 30 * count > 950 THEN 950 ELSE 750 + 30 * count

\* Two people on the camera: there are no signals of cameras
Tailgating(id) == IF OfType(histories[id], "cctv") = <<>> THEN 0 ELSE 850

\* An intrusion without a signature, or without a target, ends the rule with an
\* exception
RaisesOn(s) ==
    /\ s.type = "network_behavior"
    /\ "signature" \notin DOMAIN s.meta \/ "dst_ip" \notin DOMAIN s.meta

RansomwareRaises(id) == Some(Within(id, RansomWindow), RaisesOn)

Ransomware(id) ==
    LET signals == Within(id, RansomWindow)
        count == Count(<<
            Some(signals, LAMBDA s : s.type = "network_behavior" /\ Get(s.meta, "signature", None) = "DNS_TUNNELING"),
            Some(signals, LAMBDA s : s.type = "network_behavior" /\ Get(s.meta, "dst_ip", None) = "internal_ip"),
            Some(signals, LAMBDA s : s.type = "anomaly" /\ Get(s.meta, "anomaly_type", None) = "reconnaissance"),
            Some(signals, LAMBDA s : s.type = "access_request" /\ Get(s.meta, "network", None) = "vpn" /\ OffHours(s.hour)) >>)
    IN  IF count < 3 THEN 0 ELSE 800 + 20 * count

-----------------------------------------------------------------------------
(* _evaluate_entity: a rule that fires and is not cooling down is noted at   *)
(* once; what is published is the best of those that were noted.             *)

Cooling(id, rule) == clock - Get(lastAlert, <<id, rule>>, clock - AlertCooldown) < AlertCooldown

Fired(id) ==
    {r \in {<<"ghost_login", GhostLogin(id), 800>>, <<"insider", Insider(id), 750>>, <<"tailgating", Tailgating(id), 850>>}
           \union (IF RansomwareRaises(id) THEN {} ELSE {<<"ransomware", Ransomware(id), 800>>}) :
        r[2] >= r[3] /\ ~Cooling(id, r[1])}

Noted(id) == {<<id, r[1]>> : r \in Fired(id)}

ScoreSeverity(score) == IF score >= 900 THEN "critical" ELSE IF score >= 750 THEN "high" ELSE "medium"

Finding(id) ==
    LET score == Max({r[2] : r \in Fired(id)})
        asks == \E r \in Fired(id) : r[1] \in {"ghost_login", "ransomware"}
    IN  Decoyed(AgentFinding("ConvergedSecurityEngine", "correlated_attack", ScoreSeverity(score), score, [entity_id |-> id], 0), asks)

\* The loop ends at the first entity whose rules raise
Reached == {i \in DOMAIN order : \A j \in 1..(i - 1) : ~RansomwareRaises(order[j])}

Published == {i \in Reached : Fired(order[i]) # {} /\ ~RansomwareRaises(order[i])}

Findings ==
    LET nth(k) == CHOOSE i \in Published : Cardinality({j \in Published : j < i}) = k - 1
    IN  [k \in 1..Cardinality(Published) |-> Finding(order[nth(k)])]

Evaluate ==
    /\ LET noted == UNION {Noted(order[i]) : i \in Reached}
       IN  lastAlert' = [k \in DOMAIN lastAlert \union noted |-> IF k \in noted THEN clock ELSE lastAlert[k]]
    /\ UNCHANGED <<histories, order>>
=============================================================================
