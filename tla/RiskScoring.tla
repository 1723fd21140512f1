----------------------------- MODULE RiskScoring -----------------------------
(***************************************************************************)
(* The risk scoring engine (agent/engines/risk_scoring_engine.py): factors  *)
(* of risk for users, addresses and devices, their weighted mean, and the   *)
(* composite score of the meta-risk arbiter, which stands in for the mean   *)
(* once it has come.  Every record goes a day after it was made.            *)
(***************************************************************************)
EXTENDS BusEvents
LOCAL INSTANCE FiniteSetsExt
LOCAL INSTANCE SequencesExt

CONSTANTS
    StableAfter,    \* MIN_EVENTS_FOR_STABLE
    EntityLife      \* hours until the cache drops a record, from its creation

\* Assumed by Engines.
RiskScoringAssumption == StableAfter \in Nat \ {0} /\ EntityLife \in Nat \ {0}

VARIABLES
    entities,       \* _entities: entity -> EntityRisk
    clock           \* hours since the start

DefaultWeight == [identity |-> 20, device |-> 20, network |-> 10, location |-> 10, behavioral |-> 15,
                  geo_velocity |-> 10, threat_intel |-> 10, privilege |-> 5]

NewRisk == [factors |-> << >>, overall |-> 0, arbiter |-> None, events |-> 0, serious |-> 0, created |-> clock]

Risk(id) == Get(entities, id, NewRisk)

\* The weighted mean of the factors that are known
Mean(factors) ==
    LET weights == MapThenSumSet(LAMBDA f : DefaultWeight[f], DOMAIN factors)
    IN  IF weights = 0 THEN 0
        ELSE MapThenSumSet(LAMBDA f : factors[f] * DefaultWeight[f], DOMAIN factors) \div weights

\* _recalculate_overall: not once the arbiter has spoken
RecalculatedOverall(risk) == IF risk.arbiter # None THEN risk ELSE [risk EXCEPT !.overall = Mean(risk.factors)]

UpdateFactor(risk, factor, value) ==
    RecalculatedOverall([risk EXCEPT !.factors = With(@, factor, Clamp(value))])

AddEvent(risk, severity) ==
    [risk EXCEPT !.events = @ + 1, !.serious = IF Serious(severity) THEN @ + 1 ELSE @]

IsStable(risk) == risk.events >= StableAfter

RiskLevel(risk) ==
    CASE risk.overall >= 900 -> "critical"
      [] risk.overall >= 700 -> "high"
      [] risk.overall >= 400 -> "medium"
      [] OTHER -> "low"

-----------------------------------------------------------------------------
(* Threat events.  Points(c, n) is n if c holds. *)

Points(condition, n) == IF condition THEN n ELSE 0

ScoreIdentity(e) ==
    LET p == e.payload
        places == {Get(p, "claimed_location", None), Get(p, "detected_location", None)}
        mismatch == 400 + Points(Get(p, "biometric_score", 1000) < 500, 300)
                        + Points(None \notin places /\ \E a, b \in places : a # b, 200)
    IN  Clamp(100 * (SeverityWeight[e.severity] - 1)
              + CASE e.type = "identity_mismatch" -> mismatch [] e.type = "insider_threat" -> 300 [] OTHER -> 0)

ScoreNetwork(e) ==
    LET rate == Get(e.payload, "packet_rate", 0)
        c2 == Get(e.payload, "signature", None) \in {"RANSOMWARE_C2", "RCE_EXPLOIT", "DATA_EXFIL"}
    IN  IF e.type # "network_intrusion" THEN 0
        ELSE Clamp(300 + (IF rate > 10000 THEN 300 ELSE Points(rate > 5000, 200)) + Points(c2, 400))

ScoreDevice(e) ==
    LET p == e.payload IN
    Points(e.type = "device_health_fail", 500)
    + Points(Get(p, "root_detected", FALSE) \/ Get(p, "jailbreak_detected", FALSE), 300)
    + Points(~Get(p, "antivirus_active", TRUE), 200)

Update(id, factor, value) == IF id = None THEN <<>> ELSE << [id |-> id, factor |-> factor, value |-> value] >>

\* _extract_entities: every entity comes with a factor and its score, so that
\* _derive_risk_from_threat is never asked
Updates(e) ==
    LET user == Get(e.payload, "user_id", None)
    IN  Update(user, "identity", ScoreIdentity(e))
        \o Update(Get(e.payload, "src_ip", None), "network", ScoreNetwork(e))
        \o Update(Get(e.payload, "device_id", None), "device", ScoreDevice(e))
        \o (IF e.type # "anomalous_behavior" THEN <<>>
            ELSE Update(user, "behavioral", 250 * SeverityWeight[e.severity]))

AfterThreat(e) ==
    FoldLeft(LAMBDA known, u : With(known, u.id, AddEvent(UpdateFactor(Get(known, u.id, NewRisk), u.factor, u.value),
                                                          e.severity)),
             entities, Updates(e))

-----------------------------------------------------------------------------
(* Findings: of agents, and of the meta-risk arbiter. *)

\* The factor by a word in the name of the agent: none that publishes findings
\* has "device", "network" or "behavior" in its name
FactorOf(agent) == IF agent = "IdentityAgent" THEN "identity" ELSE "threat_intel"

Increase(e) ==
    LET base == (e.confidence * 3) \div 10 IN
    CASE e.severity = "critical" -> (base * 3) \div 2
      [] e.severity = "high" -> (base * 6) \div 5
      [] OTHER -> base

AfterFinding(e) ==
    LET id == Either(e.payload, <<"user_id", "src_ip", "device_id">>)
        factor == FactorOf(e.source)
        value == Get(Risk(id).factors, factor, 0) + Increase(e)
    IN  IF id = None THEN entities
        ELSE With(entities, id, AddEvent(UpdateFactor(Risk(id), factor, value), e.severity))

FactorOfDimension == [behavioral |-> "behavioral", threat_intel |-> "threat_intel", physical |-> "location",
                      insider |-> "behavioral", device |-> "device", network |-> "network"]

\* _update_from_meta_risk: the dimension becomes a factor, which no longer counts
AfterMetaRisk(e) ==
    LET p == e.payload
        risk == Risk(p.entity_id)
        factor == FactorOfDimension[p.dimension]
        score == Clamp(p.composite_score)
    IN  IF "entity_id" \notin DOMAIN p THEN entities
        ELSE With(entities, p.entity_id,
                  AddEvent([risk EXCEPT !.overall = score, !.arbiter = score,
                                        !.factors = With(@, factor, Clamp(p.dimension_score))], e.severity))

AfterRequest(e) ==
    LET user == e.payload.user_id
        network == Get(e.payload, "network", None)
        risk == IF network \in {None, "corporate", "vpn", "trusted"} THEN Risk(user)
                ELSE UpdateFactor(Risk(user), "network", Get(Risk(user).factors, "network", 0) + 100)
    IN  With(entities, user, AddEvent(risk, "medium"))

Init == entities = << >>

On(e) ==
    entities' = CASE e.kind = "threat" -> AfterThreat(e)
                  [] e.kind = "request" -> AfterRequest(e)
                  [] OTHER -> IF e.source = "MetaRiskArbiter" THEN AfterMetaRisk(e) ELSE AfterFinding(e)

-----------------------------------------------------------------------------
\* What _decay_loop leaves of a factor after five minutes, in thousandths: the
\* twelfth root of the rate, 1 - (1 - rate ** hours)
LeftOf == [low |-> 681, medium |-> 722, high |-> 747, critical |-> 779]

Decayed(risk) ==
    IF risk.arbiter # None THEN risk
    ELSE RecalculatedOverall([risk EXCEPT !.factors = [f \in DOMAIN @ |-> (@[f] * LeftOf[RiskLevel(risk)]) \div 1000]])

\* An hour of the loop
DecayedHour(risk) == FoldLeft(LAMBDA r, i : Decayed(r), risk, [i \in 1..12 |-> i])

Decay ==
    LET kept == {id \in DOMAIN entities : clock - entities[id].created < EntityLife}
    IN  entities' = [id \in kept |-> DecayedHour(entities[id])]
=============================================================================
