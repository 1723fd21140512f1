------------------------------ MODULE BusEvents ------------------------------
(***************************************************************************)
(* What travels on the event bus of the agent (core/events.py): threat      *)
(* events, findings of agents and access requests.  A payload is a record   *)
(* of the keys it has, and Get reads it as dict.get does.  Scores between   *)
(* 0.0 and 1.0 are thousandths.                                             *)
(***************************************************************************)
EXTENDS Integers, Sequences

CONSTANT None                      \* the value of an absent key

Get(p, key, default) == IF key \in DOMAIN p THEN p[key] ELSE default

\* p.get(k1) or p.get(k2) or ...: the value of the first key that is there
Either(p, keys) ==
    LET there == {i \in 1..Len(keys) : keys[i] \in DOMAIN p}
    IN  IF there = {} THEN None ELSE p[keys[CHOOSE i \in there : \A j \in there : i <= j]]

\* f with key bound to value
With(f, key, value) == [k \in DOMAIN f \union {key} |-> IF k = key THEN value ELSE f[k]]

SeverityWeight == [low |-> 1, medium |-> 2, high |-> 3, critical |-> 4]

Serious(severity) == severity \in {"high", "critical"}

ThreatEvent(source, type, severity, payload, depth) ==
    [kind |-> "threat", source |-> source, type |-> type, severity |-> severity,
     payload |-> payload, depth |-> depth]

AgentFinding(agent, type, severity, confidence, metadata, depth) ==
    [kind |-> "finding", source |-> agent, type |-> type, severity |-> severity,
     confidence |-> confidence, payload |-> metadata, depth |-> depth]

\* A finding whose actions include PSEUDO_LOCK
Decoyed(finding, asks) == IF asks THEN With(finding, "pseudo_lock", TRUE) ELSE finding

AsksForDecoy(e) == e.kind = "finding" /\ "pseudo_lock" \in DOMAIN e

\* The event a finding is about; one that names none is about itself
Event(finding) == Get(finding, "event_id", -finding.id)

AccessRequest(payload) ==
    [kind |-> "request", source |-> "request", payload |-> payload, depth |-> 0]

Clamp(score) == IF score < 0 THEN 0 ELSE IF score > 1000 THEN 1000 ELSE score
=============================================================================
