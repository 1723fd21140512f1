----------------------------- MODULE GateEvidence -----------------------------
(***************************************************************************)
(* How the verdicts of the first two gates answer to their input.  A state *)
(* is one complete input of Gate1Perimeter._score_with_noise and           *)
(* Gate2Behavioural._score, a step makes one part of it more suspicious.   *)
(* The properties compare the verdicts before and after the step: no unit  *)
(* test of one input could.                                                *)
(***************************************************************************)
EXTENDS GateScoring

CONSTANTS
  GeoRisks,     \* geo-velocity risks, in thousandths
  MetaRisks,    \* composite scores the MetaRiskArbiter reports
  Times,        \* times of the day, in half hours from midnight
  MaxHits       \* bound: held events in a session

ASSUME EvidenceAssumption ==
  /\ GeoRisks \subseteq 0..1000 /\ MetaRisks \subseteq 450..1000
  /\ Times \subseteq 0..47 /\ MaxHits \in Nat \ {0}

VARIABLES
  event,                     \* the ThreatEvent
  trusted, geoRisk,          \* Gate 1: device check and geo-velocity risk
  held, risk, time           \* Gate 2: session, cached meta risk, clock

contextVars == <<trusted, geoRisk, held, risk, time>>
evidenceVars == <<event, contextVars>>

EvidenceInit ==
  /\ event \in Events
  /\ trusted \in BOOLEAN /\ geoRisk \in GeoRisks
  /\ held \in 1..MaxHits /\ risk \in MetaRisks \cup {NoRisk} /\ time \in Times
  /\ event.type # "identity" => trusted /\ geoRisk = 0

First == Gate1(event, trusted, geoRisk)
Second == Gate2(event, event.severity, held, risk, OffHours(time))

-------------------------------------------------------------------------------
(* More suspicious in one respect.                                         *)

Raise(field, value) ==
  /\ event' = [event EXCEPT ![field] = value]
  /\ UNCHANGED contextVars

\* A signature on one of the lists, a higher anomaly score.
Network ==
  /\ event.type = "network"
  /\ \/ event.signature = "none" /\ Raise("signature", "hold")
     \/ event.signature # "block" /\ Raise("signature", "block")
     \/ ~event.anomaly /\ Raise("anomaly", TRUE)

\* A faster packet rate.
Faster ==
  /\ event.type = "network"
  /\ event.rate < Flood
  /\ Raise("rate", event.rate + 1)

\* A worse biometric score, though not yet zero; an unknown place, ...
Identity ==
  /\ event.type = "identity"
  /\ \/ event.biometric = "good" /\ Raise("biometric", "middling")
     \/ event.biometric = "middling" /\ Raise("biometric", "low")
     \/ ~event.unknownPlace /\ Raise("unknownPlace", TRUE)
     \/ ~event.anomaly /\ Raise("anomaly", TRUE)
     \/ ~event.mismatch /\ Raise("mismatch", TRUE)

\* A biometric score of zero.
Zero ==
  /\ event.type = "identity"
  /\ event.biometric = "low"
  /\ Raise("biometric", "zero")

Physical ==
  /\ event.type = "physical"
  /\ \/ event.badge /\ Raise("badge", FALSE)
     \/ event.face /\ Raise("face", FALSE)
     \/ ~event.restricted /\ Raise("restricted", TRUE)
     \/ event.motion < 2 /\ Raise("motion", event.motion + 1)

Insider ==
  /\ event.type = "insider"
  /\ event.volume < 2
  /\ Raise("volume", event.volume + 1)

\* An untrusted device, a faster journey.
Journey ==
  /\ event.type = "identity"
  /\ \/ trusted /\ trusted' = FALSE /\ UNCHANGED geoRisk
     \/ /\ UNCHANGED trusted
        /\ \E g \in GeoRisks : g > geoRisk /\ geoRisk' = g
  /\ UNCHANGED <<event, held, risk, time>>

\* One more held event of the entity, a higher meta risk, a later hour.
Context ==
  /\ \/ held < MaxHits /\ held' = held + 1 /\ UNCHANGED <<risk, time>>
     \/ /\ \E r \in MetaRisks : r > risk /\ risk' = r
        /\ UNCHANGED <<held, time>>
     \/ /\ ~OffHours(time)
        /\ \E t \in Times : OffHours(t) /\ time' = t
        /\ UNCHANGED <<held, risk>>
  /\ UNCHANGED <<event, trusted, geoRisk>>

EvidenceNext ==
  \/ Network \/ Faster \/ Identity \/ Zero \/ Physical \/ Insider
  \/ Journey \/ Context

EvidenceSpec == EvidenceInit /\ [][EvidenceNext]_evidenceVars

-------------------------------------------------------------------------------
(* The response of a gate is never weaker after a step than before.        *)

Gate1NoWeaker == Strength(First'.verdict) >= Strength(First.verdict)

\* An event that looks worse in any respect but its packet rate or a biometric
\* score of zero is never answered more weakly by Gate 1.
WorseIsNoWeaker == [][(Faster \/ Zero) \/ Gate1NoWeaker]_evidenceVars

\* A faster packet rate never weakens Gate 1's answer to an event that came
\* with a severity below HIGH.
FasterIsNoWeaker == [][(Faster /\ event.severity < High) => Gate1NoWeaker]_evidenceVars

Answered == Second.verdict # "error"
Stopped == Second.verdict \in {"block", "escalate"}

\* Whatever Gate 2 learns beyond the event itself, a longer session, a higher
\* meta risk or an unusual hour, it never lets an event pass that it would have
\* stopped knowing less, as far as it gives a verdict at all.  (The strength of
\* the verdict may fall from ESCALATE to BLOCK: off-hours rates come first.)
ContextNeverClears ==
  [][(Context /\ Stopped /\ Answered') => Stopped']_evidenceVars
==============================================================================
