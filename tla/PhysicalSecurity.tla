--------------------------- MODULE PhysicalSecurity ---------------------------
(***************************************************************************)
(* The physical security engine (agent/engines/physical_security_engine.py):*)
(* who was seen where, and whether somebody who acts on the network has     *)
(* been.  Its alerts about intrusions are intrusions themselves: the engine *)
(* hears them again and files them as further sightings.                    *)
(***************************************************************************)
EXTENDS BusEvents

CONSTANT MaxSightings               \* MAX_PHYSICAL_EVENTS_PER_USER

\* Assumed by Engines.
PhysicalAssumption == MaxSightings \in Nat \ {0}

VARIABLES
    sightings,      \* _physical_events: user -> recent sightings
    clock           \* hours since the start

ZoneLevel == [public_lobby |-> 0, office_floor |-> 1, restricted_corridor |-> 2, server_room_anteroom |-> 3,
              server_room |-> 4, executive_suite |-> 3, data_vault |-> 4]
RestrictedZones == {"server_room", "server_room_anteroom", "data_vault", "executive_suite"}

\* _on_threat_event: an intrusion without a user or a zone says nothing
Sighted(e) ==
    /\ e.kind = "threat" /\ e.type = "physical_intrusion"
    /\ Either(e.payload, <<"user_id", "entity_id">>) # None
    /\ "zone" \in DOMAIN e.payload

Sighting(e) ==
    LET p == e.payload
    IN  [user |-> Either(p, <<"user_id", "entity_id">>), zone |-> p.zone, at |-> clock,
         badge |-> Get(p, "badge_scan", FALSE), face |-> Get(p, "face_match", FALSE),
         motion |-> Get(p, "motion_anomaly_score", 0), tailgate |-> Get(p, "tailgate_detected", FALSE),
         confidence |-> Get(p, "confidence", 700)]

\* An event of another source may come with physical data, an intrusion too,
\* which is filed twice then
Witnessed(e) ==
    /\ e.kind = "threat" /\ Get(e.payload, "physical_context", FALSE)
    /\ {"user_id", "zone"} \subseteq DOMAIN e.payload

Witness(e) ==
    LET p == e.payload
    IN  [user |-> p.user_id, zone |-> p.zone, at |-> clock,
         badge |-> Get(p, "badge_scan", FALSE), face |-> Get(p, "face_match", FALSE),
         motion |-> Get(p, "motion_score", 0), tailgate |-> Get(p, "tailgate_detected", FALSE),
         confidence |-> Get(p, "confidence", 500)]

Filed(known, s) ==
    LET all == Append(Get(known, s.user, <<>>), s)
    IN  With(known, s.user, IF Len(all) > MaxSightings THEN Tail(all) ELSE all)

\* The sightings by the time the event is looked at as a cyber event
AfterEvent(e) ==
    LET seen == IF Sighted(e) THEN Filed(sightings, Sighting(e)) ELSE sightings
    IN  IF Witnessed(e) THEN Filed(seen, Witness(e)) ELSE seen

Severity(s) == IF Get(ZoneLevel, s.zone, 0) >= 3 THEN "critical" ELSE "high"

\* _publish_physical_anomaly; the motion goes out under another name than the
\* one it came in with
Anomaly(s, reason, depth) ==
    ThreatEvent("PhysicalSecurityEngine", "physical_intrusion", Severity(s),
                [user_id |-> s.user, zone |-> s.zone, badge_scan |-> s.badge, face_match |-> s.face,
                 motion_score |-> s.motion, tailgate_detected |-> s.tailgate, reason |-> reason], depth)

If(condition, event) == IF condition THEN <<event>> ELSE <<>>

\* _check_physical_anomalies
Anomalies(s, depth) ==
    If(s.zone \in RestrictedZones /\ ~(s.badge /\ s.face), Anomaly(s, "unauthorized", depth))
    \o If(s.motion > 850 /\ ~s.badge /\ ~s.face, Anomaly(s, "motion", depth))
    \o If(s.tailgate, Anomaly(s, "tailgating", depth))

-----------------------------------------------------------------------------
(* Correlation of a cyber event with the sightings of the last half hour.    *)

Cyber(e) == e.kind = "threat" /\ e.type \in {"network_intrusion", "identity_mismatch"} /\ "user_id" \in DOMAIN e.payload

Present(known) == SelectSeq(known, LAMBDA s : s.at = clock /\ s.confidence >= 600)

Mismatch(user, kind, severity, depth) ==
    << ThreatEvent("PhysicalSecurityEngine", "physical_cyber_mismatch", severity,
                   [user_id |-> user, mismatch_type |-> kind], depth) >>

Mismatches(e) ==
    LET user == e.payload.user_id
        known == Get(AfterEvent(e), user, <<>>)
        present == Present(known)
        latest == present[Len(present)]
        sensitive == Either(e.payload, <<"resource", "signature">>) \in RestrictedZones
    IN  IF known = <<>>
        THEN IF e.type = "network_intrusion" THEN Mismatch(user, "ghost_login", "high", e.depth + 1) ELSE <<>>
        ELSE IF present = <<>>
        THEN Mismatch(user, "ghost_login", IF sensitive THEN "critical" ELSE "high", e.depth + 1)
        ELSE IF ~(latest.badge /\ latest.face) THEN Mismatch(user, "auth_failure", "high", e.depth + 1)
        ELSE <<>>

Alerts(e) ==
    IF Sighted(e) THEN Anomalies(Sighting(e), e.depth + 1)
    ELSE IF Cyber(e) THEN Mismatches(e)
    ELSE <<>>

Init == sightings = << >>

On(e) == sightings' = AfterEvent(e)
=============================================================================
