------------------------------ MODULE GateScoring ------------------------------
(***************************************************************************)
(* The verdicts of the first two gates as functions of an event:           *)
(* Gate1Perimeter._score_with_noise and Gate2Behavioural._score            *)
(* (agent/gates/gate1_perimeter.py, gate2_behavioural.py).                 *)
(*                                                                         *)
(* An event is a record; a number of its payload is the bracket of the     *)
(* thresholds it is compared with.  Scores are thousandths.  The reported  *)
(* confidence is kept only where a verdict depends on it (an identity      *)
(* event at Gate 1); reasons and actions are left out.                     *)
(***************************************************************************)
EXTENDS Integers

\* Severity.weight
Low == 1
Medium == 2
High == 3
Critical == 4

\* Verdicts by the strength of the response, weakest first.
Strength(verdict) ==
  CASE verdict = "pass" -> 0 [] verdict = "hold" -> 1
    [] verdict = "block" -> 2 [] verdict = "escalate" -> 3

Outcome(v, s) == [verdict |-> v, severity |-> s]

\* Packet rates are in one of five brackets.
Calm == 0         \* up to 1000/s
Raised == 1       \* above
Threshold == 2    \* from 3000/s
Fast == 3         \* from 8000/s
Flood == 4        \* from 15000/s

Rates  == Calm..Flood
Events ==
  [type: {"network"}, severity: Low..Critical, signature: {"none", "hold", "block"},
   rate: Rates, anomaly: BOOLEAN]
  \cup
  [type: {"identity"}, severity: Low..Critical,
   biometric: {"missing", "zero", "low", "middling", "good"},
   unknownPlace: BOOLEAN, anomaly: BOOLEAN, mismatch: BOOLEAN]
  \cup
  [type: {"physical"}, severity: Low..Critical, badge: BOOLEAN, face: BOOLEAN,
   restricted: BOOLEAN, motion: 0..2]
  \cup
  [type: {"insider"}, severity: Low..Critical, volume: 0..2]

-------------------------------------------------------------------------------
(* Gate 1.                                                                 *)

\* Fault: the severities of the table are in the opposite order.
RateSeverityReversed(e) ==
  CASE e.rate = Flood -> Medium
    [] e.rate = Fast -> High
    [] e.rate = Threshold -> Critical
    [] OTHER -> e.severity

\* _RATE_MAP: the first threshold that is reached sets the severity, above or
\* below the severity the event came with.
RateSeverity(e) ==
  CASE e.rate = Flood -> Critical
    [] e.rate = Fast -> High
    [] e.rate = Threshold -> Medium
    [] OTHER -> e.severity

Gate1Network(e) ==
  LET severity == RateSeverity(e) IN
  CASE e.signature = "block" ->
         Outcome(IF severity = Critical THEN "escalate" ELSE "block", severity)
    [] e.signature # "block" /\ e.anomaly -> Outcome("block", High)
    [] ~e.anomaly /\ (e.signature = "hold" \/ (e.signature = "none" /\ severity >= High)) ->
         Outcome("hold", severity)
    [] OTHER -> Outcome("pass", severity)

\* _calculate_completeness counts a field as present if its value is truthy:
\* a biometric score of 0.0 counts as missing.  One of the two expected fields
\* missing costs 0.3 * 1/2.  (Identity events name their user.)
Incomplete(e) == e.biometric \in {"missing", "zero"}

\* Fault: an incomplete event is scored higher, not lower.
IdentityScoreBonus(e, trusted, geoRisk) ==
  LET sum == 400
             + (CASE e.biometric \in {"zero", "low"} -> 300
                  [] e.biometric = "middling" -> 150
                  [] OTHER -> 0)
             - (IF e.unknownPlace THEN 200 ELSE 0)
             + (IF e.anomaly THEN 150 ELSE 0)
             + (geoRisk * 4) \div 10
             + (IF trusted THEN 0 ELSE 120)
             - (IF Incomplete(e) THEN 150 ELSE 0)
  IN IF sum < 0 THEN 0 ELSE IF sum > 1000 THEN 1000 ELSE sum

\* A missing biometric score defaults to 1.0.
IdentityScore(e, trusted, geoRisk) ==
  LET sum == 400
             + (CASE e.biometric \in {"zero", "low"} -> 300
                  [] e.biometric = "middling" -> 150
                  [] OTHER -> 0)
             + (IF e.unknownPlace THEN 200 ELSE 0)
             + (IF e.anomaly THEN 150 ELSE 0)
             + (geoRisk * 4) \div 10
             + (IF trusted THEN 0 ELSE 120)
             - (IF Incomplete(e) THEN 150 ELSE 0)
  IN IF sum > 1000 THEN 1000 ELSE sum

Gate1Identity(e, trusted, geoRisk) ==
  LET score == IdentityScore(e, trusted, geoRisk) IN
  CASE score >= 850 -> Outcome("escalate", Critical)
    [] score \in 650..849 -> Outcome("block", High)
    [] score \in 400..649 -> Outcome("hold", Medium)
    [] score < 400 -> Outcome("pass", e.severity)

Gate1Physical(e) ==
  CASE ~e.badge /\ ~e.face /\ e.restricted -> Outcome("escalate", Critical)
    [] e.badge /\ e.face -> Outcome("pass", e.severity)
    [] OTHER -> Outcome("hold", e.severity)

Gate1(e, trusted, geoRisk) ==
  CASE e.type = "network"  -> Gate1Network(e)
    [] e.type = "identity" -> Gate1Identity(e, trusted, geoRisk)
    [] e.type = "physical" -> Gate1Physical(e)
    [] e.type = "insider"  -> Outcome("hold", e.severity)

-------------------------------------------------------------------------------
(* Gate 2.  "hits" is the number of held events of the entity in its       *)
(* session, "risk" its MetaRiskArbiter score, or NoRisk.  The arbiter       *)
(* reports scores from 450 up.                                             *)

NoRisk == -1

\* The branches that return "reason" before it is bound: UnboundLocalError.
Unbound == Outcome("error", Low)

\* The hour of the UTC clock is compared, in half hours here: 07:00 to 21:59.
OffHours(time) == (time \div 2) \notin 7..21

\* A critical meta risk sets the severity, unless it is critical already.
MetaSeverity(severity, risk) ==
  IF risk >= 800 /\ severity # Critical THEN High ELSE severity

\* Fault: only the third probe is stopped.
Gate2NetworkThirdOnly(e, severity, hits, risk, offHours) ==
  CASE offHours /\ e.rate >= Raised ->
         IF risk > 600 THEN Outcome("escalate", Critical) ELSE Outcome("block", High)
    [] ~(offHours /\ e.rate >= Raised) /\ hits = 3 ->
         Outcome(IF risk > 500 THEN "escalate" ELSE "block", severity)
    [] ~(offHours /\ e.rate >= Raised) /\ hits # 3 /\ risk > 700 -> Outcome("block", High)
    [] OTHER -> Outcome("pass", severity)

Gate2Network(e, severity, hits, risk, offHours) ==
  CASE offHours /\ e.rate >= Raised ->
         IF risk > 600 THEN Outcome("escalate", Critical) ELSE Outcome("block", High)
    [] ~(offHours /\ e.rate >= Raised) /\ hits >= 3 ->
         Outcome(IF risk > 500 THEN "escalate" ELSE "block", severity)
    [] ~(offHours /\ e.rate >= Raised) /\ hits < 3 /\ risk > 700 -> Outcome("block", High)
    [] OTHER -> Outcome("pass", severity)

Gate2Identity(e, severity, risk, offHours) ==
  CASE e.mismatch /\ offHours -> Outcome("escalate", Critical)
    [] e.mismatch /\ ~offHours ->
         IF risk > 600 THEN Unbound ELSE Outcome("block", severity)
    [] ~e.mismatch /\ risk > 800 -> Outcome("block", High)
    [] OTHER -> Outcome("pass", severity)

\* motion: 0, or 1 above 0.70, or 2 above 0.85.
Gate2Physical(e, severity, risk, offHours) ==
  CASE e.motion = 2 /\ offHours -> Outcome("escalate", Critical)
    [] e.motion = 1 \/ (e.motion = 2 /\ ~offHours) ->
         IF risk > 600 THEN Unbound ELSE Outcome("block", severity)
    [] e.motion = 0 -> Outcome("pass", severity)

\* volume: 0, or 1 from 5 GB, or 2 from 12 GB.  Every other type is an insider.
Gate2Insider(e, severity, risk, offHours) ==
  CASE e.volume = 2 \/ (e.volume = 1 /\ offHours) -> Outcome("escalate", Critical)
    [] e.volume = 1 /\ ~offHours ->
         IF risk > 600 THEN Unbound ELSE Outcome("block", severity)
    [] e.volume = 0 /\ risk > 800 -> Outcome("block", High)
    [] OTHER -> Outcome("pass", severity)

Gate2(e, severity, hits, risk, offHours) ==
  LET s == MetaSeverity(severity, risk) IN
  CASE e.type = "network"  -> Gate2Network(e, s, hits, risk, offHours)
    [] e.type = "identity" -> Gate2Identity(e, s, risk, offHours)
    [] e.type = "physical" -> Gate2Physical(e, s, risk, offHours)
    [] e.type = "insider"  -> Gate2Insider(e, s, risk, offHours)
==============================================================================
