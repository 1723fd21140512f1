----------------------------- MODULE ThreatIntel -----------------------------
(***************************************************************************)
(* The threat intelligence engine                                          *)
(* (agent/engines/threat_intelligence_engine.py): a repository of           *)
(* indicators, filled by a feed, by what agents find and by administrators, *)
(* against which every threat event is matched.  An indicator that has      *)
(* expired still matches: only get_all_iocs leaves it out.                  *)
(***************************************************************************)
EXTENDS BusEvents

VARIABLES
    iocs,           \* _iocs: value -> item
    clock           \* hours since the start

Never == -1                         \* expires_at of an item that does not expire

Ioc(type, confidence, severity) ==
    [type |-> type, confidence |-> confidence, severity |-> severity, expires |-> Never]

\* _load_sample_iocs
SampleIocs ==
    [bad_ip |-> Ioc("ip", 900, "critical"), odd_ip |-> Ioc("ip", 700, "high"),
     c2_domain |-> Ioc("domain", 950, "critical"), bad_hash |-> Ioc("hash", 800, "high"),
     phish_mail |-> Ioc("email", 600, "medium"), exploit_url |-> Ioc("url", 850, "high")]

Graver(s, t) == IF SeverityWeight[t] > SeverityWeight[s] THEN t ELSE s

\* add_ioc: what is known of a value only becomes graver and surer
Added(known, value, ioc) ==
    IF value \notin DOMAIN known THEN With(known, value, ioc)
    ELSE [known EXCEPT ![value] = [@ EXCEPT !.confidence = IF ioc.confidence > @ THEN ioc.confidence ELSE @,
                                            !.severity = Graver(@, ioc.severity),
                                            !.expires = IF ioc.expires # Never THEN ioc.expires ELSE @]]

-----------------------------------------------------------------------------
(* match_event_against_iocs: an address that is source and target of the     *)
(* same event matches twice.                                                 *)

Indicators(p) ==
    << Get(p, "src_ip", None), Get(p, "dst_ip", None), Either(p, <<"domain", "dst_domain">>), Get(p, "url_host", None),
       Either(p, <<"file_hash", "hash">>), Either(p, <<"email", "sender">>) >>

Matches(e) == {i \in DOMAIN Indicators(e.payload) : Indicators(e.payload)[i] \in DOMAIN iocs}

Matched(e, i) == iocs[Indicators(e.payload)[i]]

HighestSeverity(e) ==
    (CHOOSE i \in Matches(e) :
        \A j \in Matches(e) : SeverityWeight[Matched(e, j).severity] <= SeverityWeight[Matched(e, i).severity])

\* The alert holds the event it is about, but none of its keys
Alerts(e) ==
    IF e.kind # "threat" \/ Matches(e) = {} THEN <<>>
    ELSE << ThreatEvent("ThreatIntelligenceEngine", "threat_intel_alert", Matched(e, HighestSeverity(e)).severity,
                        [original_event |-> e.id, matched_iocs |-> {Indicators(e.payload)[i] : i \in Matches(e)}],
                        e.depth + 1) >>

\* _on_agent_finding learns the addresses of a grave and sure finding
Learned(e) ==
    LET p == e.payload
        src == Get(p, "src_ip", None)
        dst == Get(p, "dst_ip", None)
        one == IF src = None THEN iocs ELSE Added(iocs, src, Ioc("ip", 700, "high"))
    IN  IF dst = None THEN one ELSE Added(one, dst, Ioc("ip", 600, "medium"))

Init == iocs = SampleIocs

On(e) ==
    iocs' = IF e.kind = "finding" /\ e.confidence > 800 /\ Serious(e.severity) THEN Learned(e) ELSE iocs

\* _refresh_feed_loop and add_ioc called by an administrator
AddIoc(value, ioc) == iocs' = Added(iocs, value, ioc)

RemoveIoc(value) == iocs' = [v \in DOMAIN iocs \ {value} |-> iocs[v]]

\* get_all_iocs
Active == {v \in DOMAIN iocs : iocs[v].expires = Never \/ iocs[v].expires > clock}

-----------------------------------------------------------------------------
(* _process_dark_web_mention; every mention that is simulated names the      *)
(* organisation and has a confidence of at least 0.5.                        *)

MentionSeverity(type, confidence) ==
    CASE type = "ransomware" /\ confidence > 700 -> "critical"
      [] type = "credential" /\ confidence > 600 -> "high"
      [] type = "data_breach" -> "high"
      [] OTHER -> "medium"

Mention(type, confidence) ==
    IF confidence < 400 THEN <<>>
    ELSE << ThreatEvent("ThreatIntelligenceEngine:DarkWeb", "threat_intel_alert", MentionSeverity(type, confidence),
                        [mention_type |-> type, confidence |-> confidence], 0) >>
=============================================================================
