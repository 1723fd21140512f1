------------------------------ MODULE MCMetaRisk ------------------------------
(* MetaRisk for TLC: three signals, of which two can make an alert.        *)
EXTENDS MetaRisk, TLC

Event(type, level) == [type |-> type, level |-> level, explicit |-> <<>>]

\* Events of three engines, one that speaks of no dimension, and one about an
\* insider that was ingested with scores of its own (the insider engine itself
\* never alerts).
SomeEvents ==
  {Event("network_intrusion", 1000), Event("network_intrusion", 250),
   Event("threat_intel_alert", 1000),
   Event("malware", 0),
   [type |-> "insider_threat", level |-> 650,
    explicit |-> [behavioral |-> 800, physical |-> 600]]}

\* A sure and critical finding, and a doubtful one.
SomeFindings ==
  {[agent |-> "other", critical |-> TRUE, confidence |-> 90],
   [agent |-> "identity", critical |-> FALSE, confidence |-> 20]}
==============================================================================
