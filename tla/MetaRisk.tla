-------------------------------- MODULE MetaRisk --------------------------------
(***************************************************************************)
(* agent/engines/meta_risk_arbiter.py: every event, finding and access     *)
(* request of an entity updates its risk record, the composite score is    *)
(* reduced when too few dimensions support it or the findings doubt it,    *)
(* and an alert is published when it is MEDIUM or more and the last one is *)
(* older than the cooldown.  Gate 2, the decoys and the dashboard act on   *)
(* these alerts.                                                           *)
(*                                                                         *)
(* A handler runs in one piece up to the publication of its alert, which   *)
(* awaits every subscriber; the time of the alert is written afterwards.   *)
(* Two loops decay all scores once an hour and remove old records.         *)
(*                                                                         *)
(* Scores are thousandths, confidences percent, times ticks; a score is    *)
(* rounded down after every multiplication.                                *)
(***************************************************************************)
EXTENDS Integers, Sequences, FiniteSetsExt, SequencesExt

CONSTANTS
  Entities,          \* users, addresses and devices
  Events,            \* ThreatEvents: [type, level, explicit]
  Findings,          \* AgentFindings: [agent, critical, confidence]
  Requests,          \* risk scores of access requests; those of the API carry 0
  MinCorroborating,  \* MIN_CORROBORATING_SIGNALS (3)
  Window,            \* CORROBORATION_WINDOW (5 minutes)
  Cooldown,          \* ALERT_COOLDOWN_SECONDS (10 minutes)
  DecayPeriod,       \* the hour between two decays
  CleanupPeriod,     \* the day between two cleanups
  StaleAfter,        \* the 30 days after which a quiet record is removed
  MaxHistory,        \* max_signal_history (50)
  Recent,            \* signals the skeptic looks at (10)
  MaxSignals,        \* bound: signals of all entities
  MaxFails,          \* bound: publications that raise
  MaxTime,           \* bound: ticks
  None

\* DEFAULT_DIMENSION_WEIGHTS
Weight == [behavioral |-> 200, threat_intel |-> 200, physical |-> 150,
           insider |-> 150, device |-> 150, network |-> 150]
Dimensions == DOMAIN Weight

ASSUME MetaRiskAssumption ==
  /\ \A f \in Findings : f.confidence \in 0..100 /\ f.critical \in BOOLEAN
  /\ \A v \in Events :
       /\ v.level \in 0..1000
       /\ DOMAIN v.explicit \subseteq Dimensions
       /\ \A d \in DOMAIN v.explicit : v.explicit[d] \in 0..1000
  /\ Requests \subseteq 0..1000
  /\ MinCorroborating \in 0..3   \* of four dimensions three could make an alert
  /\ Window \in Nat /\ Cooldown \in Nat
  /\ DecayPeriod \in Nat \ {0} /\ CleanupPeriod \in Nat \ {0} /\ StaleAfter \in Nat
  /\ None \notin Int
  /\ MaxHistory \in Nat \ {0} /\ Recent \in Nat \ {0}
  /\ MaxSignals \in Nat /\ MaxFails \in Nat /\ MaxTime \in Nat

\* RISK_THRESHOLDS: an alert is due from MEDIUM on.
MediumRisk == 450
LowRisk == 200

VARIABLES
  known,        \* _states: the entities that have a record
  scores,       \* dimension_scores of each record
  composite,    \* composite_score
  signals,      \* recent_signals: [at, dimension, confidence]
  lastUpdated,
  lastAlert,    \* _last_alert_time, or None
  publishing,   \* alerts being published: how many were evaluated at each time
  nextDecay, nextCleanup,
  alerts,       \* all alerts of an entity: [at, active dimensions] (history)
  disturbed,    \* did two publications overlap, or one raise? (history)
  now, count, fails

recordVars == <<known, scores, composite, signals, lastUpdated>>
alertVars  == <<lastAlert, publishing, alerts, disturbed>>
clockVars  == <<nextDecay, nextCleanup, now>>
vars == <<recordVars, alertVars, clockVars, count, fails>>

NoScores == [d \in Dimensions |-> 0]

Init ==
  /\ known = {}
  /\ scores = [e \in Entities |-> NoScores]
  /\ composite = [e \in Entities |-> 0]
  /\ signals = [e \in Entities |-> <<>>]
  /\ lastUpdated = [e \in Entities |-> 0]
  /\ lastAlert = [e \in Entities |-> None]
  /\ publishing = [e \in Entities |-> [t \in 0..MaxTime |-> 0]]
  /\ nextDecay = DecayPeriod /\ nextCleanup = CleanupPeriod
  /\ alerts = [e \in Entities |-> <<>>]
  /\ disturbed = [e \in Entities |-> FALSE]
  /\ now = 0 /\ count = 0 /\ fails = 0

-------------------------------------------------------------------------------
(* Scoring.                                                                *)

AtMost(a, b) == IF a < b THEN a ELSE b
AtLeast(a, b) == IF a > b THEN a ELSE b

\* Fault: the mean of the dimensions that have a score.
WeightedOfPresent(s) ==
  LET present == {d \in Dimensions : s[d] > 0} IN
  IF present = {} THEN 0
  ELSE SumFunction([d \in present |-> Weight[d] * s[d]]) \div SumFunctionOnSet(Weight, present)

\* _recalculate: the weighted mean; the weights add up to 1.
Weighted(s) ==
  (Weight.behavioral * s.behavioral + Weight.threat_intel * s.threat_intel
     + Weight.physical * s.physical + Weight.insider * s.insider
     + Weight.device * s.device + Weight.network * s.network) \div 1000

\* The dimension a type of event speaks of, and what it says of it.
Typed(v) ==
  CASE v.type = "anomalous_behavior" -> [behavioral |-> v.level]
    [] v.type = "threat_intel_alert" -> [threat_intel |-> v.level]
    [] v.type = "physical_intrusion" -> [physical |-> 500]
    [] v.type = "insider_threat" -> [insider |-> IF v.level = 0 THEN 300 ELSE v.level]
    [] v.type = "network_intrusion" -> [network |-> v.level]
    [] v.type = "identity_mismatch" -> [behavioral |-> 400]
    [] v.type = "device_health_fail" -> [device |-> 600]
    [] OTHER -> <<>>

\* _extract_dimension_scores: explicit scores of the payload may add to it.
DimensionScores(v) ==
  LET typed == Typed(v) IN
  [d \in DOMAIN typed \cup DOMAIN v.explicit |->
     IF d \notin DOMAIN v.explicit THEN typed[d]
     ELSE IF d \notin DOMAIN typed THEN v.explicit[d]
     ELSE AtLeast(typed[d], v.explicit[d])]

\* The one dimension an event is filed under: that of its type.
FiledUnder(v) ==
  IF Typed(v) # <<>> THEN CHOOSE d \in DOMAIN Typed(v) : TRUE
  ELSE IF v.explicit # <<>> THEN CHOOSE d \in DOMAIN v.explicit : TRUE
  ELSE "unknown"

\* A critical, confident finding boosts a dimension its agent's name decides.
Boosts(f) ==
  CASE ~(f.critical /\ f.confidence > 80) -> <<>>
    [] f.agent = "network" -> [network |-> 400]
    [] f.agent = "identity" -> [behavioral |-> 300]
    [] f.agent = "insider" -> [insider |-> 400]
    [] OTHER -> [threat_intel |-> 300]

\* Dimensions of recent signals, however low, and all with a score above 0.15.
ActiveDimensions(s, history) ==
  {g.dimension : g \in {h \in ToSet(history) : h.dimension # None /\ h.at >= now - Window}}
  \cup {d \in Dimensions : s[d] > 150}

\* _apply_corroboration: 25% off for each dimension that is missing.
Corroborated(score, active) ==
  LET missing == AtLeast(0, MinCorroborating - Cardinality(active)) IN
  (score * AtLeast(200, 1000 - 250 * missing)) \div 1000

\* f[1] + ... + f[n]
Total(f, n) ==
  LET sum[i \in 0..n] == IF i = 0 THEN 0 ELSE sum[i - 1] + f[i] IN sum[n]

\* _apply_skeptic: less if the recent findings were unsure of themselves.
Skeptical(score, history) ==
  LET sure  == {i \in DOMAIN history :
                  i > Len(history) - Recent /\ history[i].confidence # None}
      votes == Cardinality(sure)
      doubt == 50 * votes
        - Total([i \in DOMAIN history |-> IF i \in sure THEN history[i].confidence ELSE 0],
                Len(history))
  IN IF doubt <= 0 THEN score ELSE (score * (1000 * votes - 3 * doubt)) \div (1000 * votes)

-------------------------------------------------------------------------------
(* The handlers.                                                           *)

InFlight(e) == \E t \in 0..MaxTime : publishing[e][t] > 0

\* add_signal and _evaluate_and_alert, up to the publication: "s" are the new
\* scores, "base" the composite score before the reductions.
Signal(e, s, base, signal) ==
  LET extended == Append(signals[e], signal)
      history  == SubSeq(extended, AtLeast(1, Len(extended) - MaxHistory + 1), Len(extended))
      active   == ActiveDimensions(s, history)
      final    == Skeptical(Corroborated(base, active), history)
      due      == /\ final >= MediumRisk
                  /\ lastAlert[e] = None \/ now - lastAlert[e] >= Cooldown
  IN
  /\ count < MaxSignals
  /\ count' = count + 1
  /\ known' = known \cup {e}
  /\ scores' = [scores EXCEPT ![e] = s]
  /\ signals' = [signals EXCEPT ![e] = history]
  /\ composite' = [composite EXCEPT ![e] = final]
  /\ lastUpdated' = [lastUpdated EXCEPT ![e] = now]
  /\ IF due
     THEN /\ publishing' = [publishing EXCEPT ![e][now] = @ + 1]
          /\ alerts' = [alerts EXCEPT ![e] =
               Append(@, [at |-> now, active |-> Cardinality(active)])]
          /\ disturbed' = [disturbed EXCEPT ![e] = @ \/ InFlight(e)]
     ELSE UNCHANGED <<publishing, alerts, disturbed>>
  /\ UNCHANGED <<lastAlert, clockVars, fails>>

\* _on_threat_event: a score replaces the one before it, be it lower or not.
OnThreatEvent(e, v) ==
  LET new == {d \in DOMAIN DimensionScores(v) : DimensionScores(v)[d] > 0}
      s   == [d \in Dimensions |-> IF d \in new THEN DimensionScores(v)[d] ELSE scores[e][d]]
  IN Signal(e, s, IF new = {} THEN composite[e] ELSE Weighted(s),
            [at |-> now, dimension |-> FiledUnder(v), confidence |-> None])

\* _on_agent_finding
OnAgentFinding(e, f) ==
  LET boost == Boosts(f)
      s == [d \in Dimensions |->
              IF d \in DOMAIN boost THEN AtMost(1000, scores[e][d] + boost[d]) ELSE scores[e][d]]
  IN Signal(e, s, IF boost = <<>> THEN composite[e] ELSE Weighted(s),
            [at |-> now, dimension |-> None, confidence |-> f.confidence])

\* _on_access_request: a request that carries a risk score above 0.3 replaces
\* the behavioral score by 30% of it.
OnAccessRequest(e, risk) ==
  LET s == IF risk > 300 THEN [scores[e] EXCEPT !.behavioral = (risk * 3) \div 10] ELSE scores[e]
  IN Signal(e, s, IF risk > 300 THEN Weighted(s) ELSE composite[e],
            [at |-> now, dimension |-> None, confidence |-> None])

\* Fault: the time of the alert is not written.
PublishedUntimed(e, t) ==
  /\ publishing[e][t] > 0
  /\ publishing' = [publishing EXCEPT ![e][t] = @ - 1]
  /\ UNCHANGED <<recordVars, lastAlert, alerts, disturbed, clockVars, count, fails>>

\* All subscribers are done with the alert: its time starts the cooldown.
Published(e, t) ==
  /\ publishing[e][t] > 0
  /\ publishing' = [publishing EXCEPT ![e][t] = @ - 1]
  /\ lastAlert' = [lastAlert EXCEPT ![e] = t]
  /\ UNCHANGED <<recordVars, alerts, disturbed, clockVars, count, fails>>

\* A subscriber raised: so does publish, and no time is written.
PublishRaises(e, t) ==
  /\ publishing[e][t] > 0
  /\ fails < MaxFails
  /\ fails' = fails + 1
  /\ publishing' = [publishing EXCEPT ![e][t] = @ - 1]
  /\ disturbed' = [disturbed EXCEPT ![e] = TRUE]
  /\ UNCHANGED <<recordVars, lastAlert, alerts, clockVars, count>>

-------------------------------------------------------------------------------
(* The loops and the clock.                                                *)

Decayed == [e \in Entities |-> [d \in Dimensions |-> (scores[e][d] * 99) \div 100]]
DecayDue == now >= nextDecay /\ nextDecay' = now + DecayPeriod

\* Fault: the composite score is not recalculated.
DecayScoresOnly ==
  /\ DecayDue
  /\ scores' = Decayed
  /\ lastUpdated' = [e \in Entities |-> IF e \in known THEN now ELSE lastUpdated[e]]
  /\ UNCHANGED <<known, composite, signals, alertVars, nextCleanup, now, count, fails>>

\* _decay_loop: 1% off every score.  The composite score is recalculated
\* without the reductions, and the record counts as updated.
Decay ==
  /\ DecayDue
  /\ scores' = Decayed
  /\ composite' = [e \in Entities |-> Weighted(Decayed[e])]
  /\ lastUpdated' = [e \in Entities |-> IF e \in known THEN now ELSE lastUpdated[e]]
  /\ UNCHANGED <<known, signals, alertVars, nextCleanup, now, count, fails>>

\* _cleanup_loop: records of low risk that have not been updated for long.
\* (Every decay updates all records: none gets as old as that.)
Cleanup ==
  LET old == {e \in known : lastUpdated[e] < now - StaleAfter /\ composite[e] < LowRisk} IN
  /\ now >= nextCleanup
  /\ nextCleanup' = now + CleanupPeriod
  /\ known' = known \ old
  /\ scores' = [e \in Entities |-> IF e \in old THEN NoScores ELSE scores[e]]
  /\ composite' = [e \in Entities |-> IF e \in old THEN 0 ELSE composite[e]]
  /\ signals' = [e \in Entities |-> IF e \in old THEN <<>> ELSE signals[e]]
  /\ UNCHANGED <<lastUpdated, alertVars, nextDecay, now, count, fails>>

\* Time passes, though not beyond a loop that is due.
Tick ==
  /\ now < MaxTime /\ now < nextDecay /\ now < nextCleanup
  /\ now' = now + 1
  /\ UNCHANGED <<recordVars, alertVars, nextDecay, nextCleanup, count, fails>>

Next ==
  \/ \E e \in Entities :
       \/ \E v \in Events : OnThreatEvent(e, v)
       \/ \E f \in Findings : OnAgentFinding(e, f)
       \/ \E risk \in Requests : OnAccessRequest(e, risk)
       \/ \E t \in 0..MaxTime : Published(e, t) \/ PublishRaises(e, t)
  \/ Decay \/ Cleanup \/ Tick

Spec == Init /\ [][Next]_vars

-------------------------------------------------------------------------------
\* Whatever the order of signals, decays and cleanups, the composite score is
\* never above what the dimension scores of the moment justify: the score that
\* alerts report is not a leftover of evidence that was since withdrawn.
ScoreWithinEvidence == \A e \in Entities : composite[e] <= Weighted(scores[e])

\* No alert is published that fewer than MIN_CORROBORATING_SIGNALS dimensions
\* support.  Nothing in the code asks for that number: it follows from the
\* weights of the dimensions, the reduction and the threshold of MEDIUM.
AlertsCorroborated ==
  \A e \in Entities : \A i \in 1..Len(alerts[e]) : alerts[e][i].active >= MinCorroborating

Spaced(e) ==
  \A i \in 2..Len(alerts[e]) : alerts[e][i].at - alerts[e][i - 1].at >= Cooldown

\* Two alerts of an entity are closer than the cooldown only if one was being
\* published while the other was decided on, or its publication raised: the
\* time of an alert is written after the publication has been awaited.
CooldownHeld == \A e \in Entities : disturbed[e] \/ Spaced(e)
==============================================================================
