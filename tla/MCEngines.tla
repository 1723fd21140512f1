------------------------------ MODULE MCEngines ------------------------------
(* Stories for Engines: each brings one kind of chain, and a few of them two   *)
(* whose order is open.                                                        *)
EXTENDS Engines, TLC

Publishes(e) == [do |-> "publish", event |-> e]
Threat(type, severity, payload) == Publishes(ThreatEvent("ingestion", type, severity, payload, 0))
Requests(payload) == Publishes(AccessRequest(payload))

Ports == <<"22", "25", "53", "80", "110", "143", "443", "993", "995">>

Volume(k, size) == Threat("network_intrusion", "low", [src_ip |-> "host", dst_port |-> Ports[k], data_volume_gb |-> size])

Tailgater ==
    << {Threat("physical_intrusion", "high", [user_id |-> "alice", zone |-> "server_room", tailgate_detected |-> TRUE, badge_scan |-> FALSE,
                                             motion_anomaly_score |-> 900])},
       {Threat("network_intrusion", "high", [user_id |-> "alice", resource |-> "data_vault", signature |-> "RCE_EXPLOIT",
                                            dst_ip |-> "honeypot"])},
       {Threat("identity_mismatch", "high", [user_id |-> "bob", claimed_location |-> "home", detected_location |-> "office",
                                            auth_token |-> "token"]),
        Requests([user_id |-> "alice", resource |-> "server_room"])} >>

\* A spike after eight equal values, for the profiles and for the baselines
Stream == [k \in 1..8 |-> {Volume(k, 1)}] \o << {Volume(9, 60)} >>

\* Requests teach the networks, and the spike comes from another one
Spike ==
    << {Requests([user_id |-> "bob", resource |-> "mail", network |-> "corporate", location |-> "home"])},
       {Threat("insider_threat", "low", [user_id |-> "bob", data_volume_gb |-> 1, location |-> "home", resource |-> "mail"])},
       {Threat("insider_threat", "low", [user_id |-> "bob", data_volume_gb |-> 1, location |-> "office", resource |-> "mail"])},
       {Threat("insider_threat", "low", [user_id |-> "bob", data_volume_gb |-> 1, location |-> "cafe"])},
       {Threat("insider_threat", "low", [user_id |-> "bob", data_volume_gb |-> 60, network |-> "vpn"])},
       {[do |-> "peer", id |-> "bob", group |-> "staff"]} >>

DeviceStory ==
    << {[do |-> "register", device |-> "laptop", health |-> 900], 
        Threat("insider_threat", "high", [user_id |-> "frank", device_info |-> "laptop", biometric_score |-> 300,
                                          claimed_location |-> "home", detected_location |-> "office"])},
       {[do |-> "approve", device |-> "laptop"], Threat("network_intrusion", "critical", [device_id |-> "laptop", dst_port |-> "22"]),
        Threat("network_intrusion", "critical", [device_id |-> "laptop", dst_port |-> "80"])},
       {[do |-> "health", device |-> "laptop", health |-> 300], [do |-> "unquarantine", device |-> "laptop"]},
       {[do |-> "reject", device |-> "laptop"], [do |-> "health", device |-> "laptop", health |-> 1000]},
       {[do |-> "register", device |-> "laptop", health |-> 500]} >>

\* The resignation of a user who is blamed and takes a lot with him
Leaver ==
    << {Threat("network_intrusion", "high", [user_id |-> "bob", url_host |-> "lure", url_risk |-> 1000, email_risk |-> 1000]),
        Threat("insider_threat", "high", [user_id |-> "bob", data_volume_gb |-> 12, exfil_risk |-> 900, hr_signal |-> "resignation"])},
       {Requests([user_id |-> "bob", resource |-> "sensitive_share", network |-> "vpn"]),
        Threat("insider_threat", "medium", [user_id |-> "bob", hr_event_type |-> "termination_notice", peer_deviation |-> 900,
                                           destination |-> "personal_email", email_risk |-> 900])},
       {Threat("physical_intrusion", "low", [user_id |-> "bob", zone |-> "office_floor", badge_scan |-> TRUE, face_match |-> TRUE])} >>

\* Types that patterns share, an entity the arbiter scores
Arbiter(entity, severity, dimension) ==
    AgentFinding("MetaRiskArbiter", "correlated_attack", severity, 900,
                 [entity_id |-> entity, composite_score |-> 900, dimension |-> dimension, dimension_score |-> 700], 0)

Patterned ==
    << {Threat("physical_intrusion", "high", [user_id |-> "carol", zone |-> "restricted_corridor", face_match |-> FALSE])},
       {Threat("network_intrusion", "high", [src_ip |-> "host", dst_ip |-> "c2", signature |-> "RANSOMWARE_C2"])},
       {Threat("identity_mismatch", "medium", [user_id |-> "carol", claimed_location |-> "home"])} >>

\* An alert of the arbiter's, and what a database that fails leaves
Arbitrated ==
    << {Publishes([event_id |-> 0, pseudo_lock |-> TRUE] @@ Arbiter("carol", "critical", "behavioral"))},
       {Threat("network_intrusion", "critical", [src_ip |-> "host", user_id |-> "carol", physical_context |-> TRUE, zone |-> "data_vault",
                                                dst_ip |-> "honeypot"])},
       {Threat("identity_mismatch", "high", [user_id |-> "carol", biometric_score |-> 300])},
       {Requests([user_id |-> "carol", resource |-> "mail", network |-> "guest"])} >>

\* Verdicts about what the identity agent finds
Login(k) == Threat("identity_mismatch", "medium", [user_id |-> "carol", session |-> k])
False == [do |-> "feedback", fingerprint |-> Suppressor!Fingerprint(AgentFinding("IdentityAgent", "identity_mismatch", "medium", 500,
                                                                          [user_id |-> "carol"], 0)),
          verdict |-> "false_positive"]

Verdicts ==
    << {False}, {[False EXCEPT !.verdict = "true_positive"], Login(1)}, {False}, {Login(2), False},
       {[do |-> "add_rule", fingerprint |-> False.fingerprint, hours |-> 1, max |-> 1]},
       {Login(3), [do |-> "remove_rule", fingerprint |-> False.fingerprint]} >>

\* A login where somebody is not, and traffic the last rule cannot read
Ghost ==
    << {Threat("identity_mismatch", "high", [user_id |-> "dave", claimed_location |-> "home"])},
       {Threat("physical_intrusion", "low", [user_id |-> "dave", zone |-> "office_floor", badge_scan |-> TRUE, face_match |-> TRUE])},
       {Threat("network_intrusion", "low", [user_id |-> "dave", packet_rate |-> 20000])},
       {Threat("identity_mismatch", "medium", [user_id |-> "dave", claimed_location |-> "abroad"])} >>

Feed ==
    << {Threat("network_intrusion", "high", [src_ip |-> "host", dst_ip |-> "bad_ip", data_volume_gb |-> 12]),
        [do |-> "add_ioc", value |-> "host", ioc |-> [type |-> "ip", confidence |-> 900, severity |-> "critical", expires |-> 1]]},
       {Threat("network_intrusion", "medium", [src_ip |-> "host", dst_ip |-> "bad_ip"]), [do |-> "remove_ioc", value |-> "bad_ip"]},
       {[do |-> "mention", type |-> "ransomware", confidence |-> 800], [do |-> "mention", type |-> "forum", confidence |-> 500]},
       {Threat("device_health_fail", "medium", [device_id |-> "phone", root_detected |-> TRUE])} >>

\* Links, files and memory, users on the move with a device, and the arbiter,
\* which reports on the first event
Link(k, risk) == Threat("network_intrusion", "low", [user_id |-> "erin", url_host |-> "lure", url_risk |-> risk, dst_port |-> Ports[k],
                                                     packet_rate |-> 1000 * k])
Moves(place) == Threat("insider_threat", "low", [user_id |-> "erin", claimed_location |-> place, device_info |-> "erins",
                                                 unusual_data_volume_gb |-> 2, email_risk |-> 500])

Lures ==
    << {Link(1, 600)}, {Publishes([event_id |-> 1, pseudo_lock |-> TRUE] @@ Arbiter("erin", "critical", "insider")), Link(2, 700)},
       {Link(3, 1000)} >>

Movers ==
    << {[do |-> "scan", sign |-> "RANSOMWARE"], Moves("home")},
       {Threat("anomalous_behavior", "medium", [user_id |-> "erin", file_risk |-> 850, command_risk |-> 300, location |-> "cafe",
                                               device_info |-> "erins"])},
       {Moves("office")} >>

AllStories == {Lures, Movers, Arbitrated, Tailgater, Stream, Spike, DeviceStory, Leaver, Patterned, Verdicts, Ghost, Feed}
=============================================================================
