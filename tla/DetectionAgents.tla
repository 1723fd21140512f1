--------------------------- MODULE DetectionAgents ---------------------------
(***************************************************************************)
(* The specialist agents (agent/agents): each looks at the threat events of *)
(* some types, for a tenth of a second at most, and publishes a finding     *)
(* about the event.  What a payload's texts, hashes and urls are worth to   *)
(* an agent is a number of the payload (url_risk, email_risk, file_risk,    *)
(* name_risk, command_risk); addresses are names.  Places are further apart *)
(* than anybody travels in the hours of the model, so that every move       *)
(* within the life of the previous one is impossible travel.                *)
(***************************************************************************)
EXTENDS BusEvents, TLC

CONSTANTS
    Internal,       \* addresses of private ranges
    Honeypots       \* addresses of the honeypot ranges, which are private ones

\* Assumed by Engines.
AgentsAssumption == Honeypots \subseteq Internal

VARIABLES
    places,         \* IdentityAgent._prev_locations, by user
    machines,       \* IdentityAgent._user_device_hashes: users with a hash, which is this machine's
    hosts           \* PhishingDetectionAgent._reported_domains: how often

\* A finding about e
About(e, agent, type, severity, confidence, metadata) ==
    With(AgentFinding(agent, type, severity, Clamp(confidence), metadata, e.depth), "event_id", e.id)

Points(condition, points) == IF condition THEN points ELSE 0

\* The value of the first case whose condition holds; the last one's always does
FirstOf(cases) == cases[CHOOSE i \in DOMAIN cases : cases[i][1] /\ \A j \in 1..(i - 1) : ~cases[j][1]][2]

User(e) == Get(e.payload, "user_id", "unknown")

-----------------------------------------------------------------------------
(* CyberThreatAgent *)

CriticalSignatures == {"SSH_BRUTE_FORCE", "SQL_INJECTION", "RCE_EXPLOIT", "RANSOMWARE_C2", "DATA_EXFIL"}

\* Risk adds up, and a first sign counts for more
Adding(risk, condition, more, first) ==
    IF ~condition THEN risk ELSE IF risk > 0 THEN Clamp(risk + more) ELSE first

TrafficRisk(p, hour) ==
    LET volume == Points(Get(p, "data_volume_gb", 0) > 10, 700)
        timed  == Adding(volume, hour >= 22 \/ hour <= 6, 200, 400)
        ported == Adding(timed, Get(p, "dst_port", None) \in {"443", "993", "995", "22", "3389"}, 100, 300)
    IN  Adding(ported, Get(p, "dst_ip", None) \notin Internal \union {None}, 100, 200)

CyberNetwork(e, hour) ==
    LET p == e.payload
        risk == TrafficRisk(p, hour)
        honeypot == Get(p, "dst_ip", None) \in Honeypots
        rate == Get(p, "packet_rate", 0)
        signed == Get(p, "signature", "") \in CriticalSignatures
        severity == FirstOf(<< <<rate >= 10000, "critical">>, <<rate >= 5000, "high">>, <<rate >= 1000, "medium">>,
                               <<honeypot, "critical">>, <<risk > 500, "high">>, <<TRUE, e.severity>> >>)
        confidence == Clamp(Clamp(550 + risk \div 2 + Points(honeypot, 400)) + Points(signed, 300)) + Points(rate >= 1000, 100)
    IN  Decoyed(About(e, "CyberThreatAgent", e.type, severity, confidence, << >>), honeypot \/ signed)

MemorySigns == [RANSOMWARE |-> <<950, "critical">>, ENCODED_POWERSHELL |-> <<850, "high">>,
                SUSPICIOUS_DOWNLOAD |-> <<850, "high">>, SUSPICIOUS_PROCESS |-> <<800, "high">>,
                HIGH_MEMORY_USAGE |-> <<650, "medium">>]

CyberMemory(e) ==
    LET sign == Get(MemorySigns, e.payload.memory_threat_type, <<550, e.severity>>)
    IN  Decoyed(About(e, "CyberThreatAgent", e.type, sign[2], sign[1], << >>), e.payload.memory_threat_type = "RANSOMWARE")

\* What the scan of the machine's memory finds goes past the bus: the agent
\* analyses an event of its own and publishes the finding only
ScanFinding(sign, id) ==
    CyberMemory([id |-> id, depth |-> 0, type |-> "network_intrusion", payload |-> [memory_threat_type |-> sign],
                 severity |-> IF sign = "RANSOMWARE" THEN "critical" ELSE "high"])

CyberInsider(e) ==
    LET leak == Get(e.payload, "unusual_data_volume_gb", 0) > 10 \/ Get(e.payload, "destination", None) = "external_usb"
    IN  About(e, "CyberThreatAgent", e.type, e.severity, 550 + Points(leak, 250), << >>)

Cyber(e, hour) ==
    CASE e.type \notin {"network_intrusion", "anomalous_behavior", "insider_threat"} -> <<>>
      [] "memory_threat_type" \in DOMAIN e.payload -> << CyberMemory(e) >>
      [] e.type = "network_intrusion" -> << CyberNetwork(e, hour) >>
      [] e.type = "insider_threat" -> << CyberInsider(e) >>
      [] OTHER -> << About(e, "CyberThreatAgent", e.type, e.severity, 550, << >>) >>

-----------------------------------------------------------------------------
(* PhishingDetectionAgent and MalwareAnalysisAgent call whatever they find a *)
(* network intrusion.                                                        *)

Reported(e) == Get(e.payload, "url_risk", 0) > 0

PhishingScore(e) ==
    LET known == Reported(e) /\ Get(hosts, e.payload.url_host, 0) >= 2
    IN  Clamp((Get(e.payload, "url_risk", 0) * 4) \div 10 + Points(known, 400) + (Get(e.payload, "email_risk", 0) * 3) \div 10)

PhishingAs(e, type) ==
    LET score == PhishingScore(e)
        severity == FirstOf(<< <<score >= 700, "critical">>, <<score >= 400, "high">>, <<TRUE, "medium">> >>)
    IN  IF e.type \in {"network_intrusion", "anomalous_behavior", "insider_threat"} /\ score > 0
        THEN << About(e, "PhishingDetectionAgent", type, severity, score, [user_id |-> User(e)]) >>
        ELSE <<>>

\* Fault: a lure is a violation of zero trust
PhishingAsViolation(e) == PhishingAs(e, "zero_trust_violation")

Phishing(e) == PhishingAs(e, "network_intrusion")

\* The risks of the file's name and of the command line come weighted
MalwareScore(p) ==
    Clamp(Get(p, "file_risk", 0) \div 2 + Get(p, "name_risk", 0) + Get(p, "command_risk", 0))

Malware(e) ==
    LET score == MalwareScore(e.payload)
        severity == FirstOf(<< <<score >= 800, "critical">>, <<score >= 500, "high">>, <<score >= 200, "medium">>,
                               <<TRUE, e.severity>> >>)
    IN  IF e.type \in {"network_intrusion", "anomalous_behavior", "memory_threat"} /\ score > 0
        THEN << About(e, "MalwareAnalysisAgent", "network_intrusion", severity, score, [user_id |-> User(e)]) >>
        ELSE <<>>
-----------------------------------------------------------------------------
(* IdentityVerificationAgent *)

Place(p) == IF Get(p, "detected_location", "") # "" THEN p.detected_location ELSE Get(p, "claimed_location", "")

Moved(e) == Place(e.payload) # "" /\ User(e) \in DOMAIN places /\ places[User(e)] # Place(e.payload)

\* The fingerprint is the agent's own machine's, whatever device the event names
DeviceRisk(e) == Points("device_info" \in DOMAIN e.payload /\ User(e) \in machines, 100)

IdentityRisk(e) ==
    LET p == e.payload
        claimed == Get(p, "claimed_location", "")
        detected == Get(p, "detected_location", "")
    IN  500 + Points(Get(p, "biometric_score", 1000) < 500, 300)
            + Points(claimed # "" /\ detected # "" /\ claimed # detected, 200)
            + Points(Moved(e), 400) + (DeviceRisk(e) * 3) \div 10

\* Above 0.8 the severity is set, which also lowers it
Identity(e) ==
    LET risk == IdentityRisk(e)
        named == Either(e.payload, <<"device_id", "device_info">>)
        device == IF named = None THEN << >> ELSE [device_id |-> named]
        given == IF Moved(e) THEN "critical" ELSE e.severity
        severity == FirstOf(<< <<risk > 900, "critical">>, <<risk > 800, "high">>,
                               <<risk > 600 /\ given = "low", "medium">>, <<TRUE, given>> >>)
    IN  IF e.type \in {"identity_mismatch", "insider_threat"}
        THEN << Decoyed(About(e, "IdentityAgent", e.type, severity, risk, [user_id |-> User(e), entity_id |-> User(e)] @@ device),
                        Moved(e)) >>
        ELSE <<>>

-----------------------------------------------------------------------------
(* SurveillanceAgent *)

ZoneLevel == [public_lobby |-> 0, office_floor |-> 1, restricted_corridor |-> 2, server_room_anteroom |-> 3,
              server_room |-> 4, executive_suite |-> 3, data_vault |-> 4]

Surveillance(e) ==
    LET p == e.payload
        zone == Get(p, "zone", "unknown")
        level == Get(ZoneLevel, zone, 0)
        person == Either(p, <<"user_id", "person_id", "entity_id">>)
        metadata == IF person = None THEN [zone |-> zone] ELSE [zone |-> zone, user_id |-> person, entity_id |-> person]
        score == 450 + Points(~Get(p, "face_match", TRUE), 200) + Points(~Get(p, "badge_scan", TRUE), 200)
                     + Points(Get(p, "motion_anomaly_score", 0) >= 800, 150) + Points(level >= 3, 100)
        severity == FirstOf(<< <<level >= 3, "critical">>, <<level >= 2, "high">>, <<TRUE, e.severity>> >>)
    IN  IF e.type = "physical_intrusion"
        THEN << About(e, "SurveillanceAgent", e.type, severity, score, metadata) >> ELSE <<>>

-----------------------------------------------------------------------------
(* ZeroTrustAgent.  Its profiles change with access requests only, and those *)
(* come as requests, never as the threat events it listens to: the profile   *)
(* of every user is the default one.                                         *)

RestrictedZones == {"server_room", "server_room_anteroom", "data_vault", "network_operations",
                    "security_operations", "crypto_lab"}

\* [severity, confidence] of every handler

VerifiedIdentity(e) ==
    FirstOf(<< <<Get(e.payload, "biometric_score", 0) > 700, <<"medium", 900>> >>,
               <<"auth_token" \in DOMAIN e.payload, <<"medium", 800>> >>,
               <<"behavioral_pattern" \in DOMAIN e.payload, <<"medium", 700>> >>,
               <<TRUE, <<"high", 0>> >> >>)

\* No address is in a honeypot or of low trust to this agent
VerifiedNetwork(e) == IF Get(e.payload, "data_volume_gb", 0) > 10 THEN <<"high", 500>> ELSE <<e.severity, 100>>

VerifiedPhysical(e, hour) ==
    LET restricted == Get(e.payload, "zone", "unknown") \in RestrictedZones
        present == Get(e.payload, "badge_scan", FALSE) /\ Get(e.payload, "face_match", FALSE)
    IN  FirstOf(<< <<restricted /\ ~present, <<"critical", 900>> >>, <<~present, <<"high", 500>> >>,
                   <<restricted /\ hour \notin 7..21, <<"medium", 300>> >>, <<TRUE, <<e.severity, 0>> >> >>)

AnalysedBehavior(e, hour) ==
    LET p == e.payload
        score == Points(hour \notin 7..18, 300)
                 + Points(Get(p, "location", "office") \notin {"office", "home", "vpn"}, 300)
                 + Points("device_info" \in DOMAIN p, 200)
                 + Points(Get(p, "data_volume_gb", 0) > 1, 200)
                 + Points(Get(p, "resource", "email") \notin {"email", "crm", "docs"}, 200)
    IN  <<IF score > 700 THEN "high" ELSE "medium", score>>

InsiderTransfer(e) ==
    FirstOf(<< <<Get(e.payload, "unusual_data_volume_gb", 0) > 1, <<"high", 600>> >>,
               <<Get(e.payload, "destination", "unknown") \in {"external_usb", "unknown_cloud", "personal_email"}, <<"high", 700>> >>,
               <<TRUE, <<e.severity, 0>> >> >>)

ZeroTrust(e, hour) ==
    LET result == CASE e.type = "identity_mismatch" -> VerifiedIdentity(e)
                    [] e.type = "network_intrusion" -> VerifiedNetwork(e)
                    [] e.type = "physical_intrusion" -> VerifiedPhysical(e, hour)
                    [] e.type = "anomalous_behavior" -> AnalysedBehavior(e, hour)
                    [] e.type = "insider_threat" -> InsiderTransfer(e)
                    [] OTHER -> <<>>
        port == IF "dst_port" \in DOMAIN e.payload THEN [dst_port |-> e.payload.dst_port] ELSE << >>
        metadata == CASE e.type = "network_intrusion" ->
                           [src_ip |-> Get(e.payload, "src_ip", "unknown"), dst_ip |-> Get(e.payload, "dst_ip", "unknown")] @@ port
                      [] e.type = "physical_intrusion" -> [user_id |-> User(e), zone |-> Get(e.payload, "zone", "unknown")]
                      [] OTHER -> [user_id |-> User(e)]
    IN  IF result = <<>> THEN <<>> ELSE << About(e, "ZeroTrustAgent", e.type, result[1], result[2], metadata) >>

-----------------------------------------------------------------------------
\* PseudoLockAgent (PseudoLock.tla): the listener it has opened for a finding
\* is a finding again, about the same event and of the same type
Confirmation(finding) ==
    With(AgentFinding("PseudoLockAgent", finding.type, finding.severity, 1000, [lock_id |-> Event(finding)], finding.depth),
         "event_id", Event(finding))

\* What the agents publish about e, in the order of the time they take
Findings(e, hour) ==
    IF e.kind # "threat" THEN <<>>
    ELSE ZeroTrust(e, hour) \o Cyber(e, hour) \o Phishing(e) \o Malware(e) \o Identity(e) \o Surveillance(e)

Init ==
    /\ places = << >>
    /\ machines = {}
    /\ hosts = << >>

On(e) ==
    LET identity == e.kind = "threat" /\ e.type \in {"identity_mismatch", "insider_threat"} IN
    /\ places' = IF identity /\ Place(e.payload) # "" THEN With(places, User(e), Place(e.payload)) ELSE places
    /\ machines' = IF identity /\ "device_info" \in DOMAIN e.payload THEN machines \union {User(e)} ELSE machines
    /\ hosts' = IF e.kind = "threat" /\ Reported(e) /\ Phishing(e) # <<>>
                THEN With(hosts, e.payload.url_host, Get(hosts, e.payload.url_host, 0) + 1) ELSE hosts

\* A place is kept for an hour, a hash for a day
Expire ==
    /\ places' = << >>
    /\ UNCHANGED <<machines, hosts>>
=============================================================================
