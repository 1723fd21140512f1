----------------------------- MODULE Gates_proofs -----------------------------
(***************************************************************************)
(* Proofs about the gates.  GateEvidence: for every event and every set of *)
(* risks, of times and of journeys.  TriGate: for every set of kinds of    *)
(* events, window, limit and clock.                                        *)
(***************************************************************************)
EXTENDS TriGate, GateEvidence, FiniteSetTheorems, TLAPS

NetworkEvents ==
  [type: {"network"}, severity: Low..Critical, signature: {"none", "hold", "block"},
   rate: Rates, anomaly: BOOLEAN]
IdentityEvents ==
  [type: {"identity"}, severity: Low..Critical,
   biometric: {"missing", "zero", "low", "middling", "good"},
   unknownPlace: BOOLEAN, anomaly: BOOLEAN, mismatch: BOOLEAN]
PhysicalEvents ==
  [type: {"physical"}, severity: Low..Critical, badge: BOOLEAN, face: BOOLEAN,
   restricted: BOOLEAN, motion: 0..2]
InsiderEvents == [type: {"insider"}, severity: Low..Critical, volume: 0..2]

\* An event is of one of the four types.
LEMMA FourTypes ==
  /\ Events = NetworkEvents \cup IdentityEvents \cup PhysicalEvents \cup InsiderEvents
  /\ \A e \in Events :
       /\ e.severity \in Low..Critical
       /\ e.type = "network" => e \in NetworkEvents
       /\ e.type = "identity" => e \in IdentityEvents
       /\ e.type = "physical" => e \in PhysicalEvents
       /\ e.type = "insider" => e \in InsiderEvents
       /\ e.type \in {"network", "identity", "physical", "insider"}
<1>1. Events = NetworkEvents \cup IdentityEvents \cup PhysicalEvents \cup InsiderEvents
  BY DEF Events, NetworkEvents, IdentityEvents, PhysicalEvents, InsiderEvents
<1>2. /\ \A e \in NetworkEvents : e.type = "network" /\ e.severity \in Low..Critical
      /\ \A e \in IdentityEvents : e.type = "identity" /\ e.severity \in Low..Critical
      /\ \A e \in PhysicalEvents : e.type = "physical" /\ e.severity \in Low..Critical
      /\ \A e \in InsiderEvents : e.type = "insider" /\ e.severity \in Low..Critical
  BY DEF NetworkEvents, IdentityEvents, PhysicalEvents, InsiderEvents
<1>3. QED
  BY <1>1, <1>2

\* How strongly Gate 1 answers to each type of event.
LEMMA NetworkAnswer ==
  ASSUME NEW e \in NetworkEvents, NEW t, NEW g
  PROVE  Strength(Gate1(e, t, g).verdict) =
           IF e.signature = "block" THEN IF RateSeverity(e) = Critical THEN 3 ELSE 2
           ELSE IF e.anomaly THEN 2
           ELSE IF e.signature = "hold" \/ RateSeverity(e) >= High THEN 1 ELSE 0
<1>1. e.type = "network" /\ e.signature \in {"none", "hold", "block"} /\ e.anomaly \in BOOLEAN
  BY DEF NetworkEvents
<1>2. Gate1(e, t, g) = Gate1Network(e)
  BY <1>1 DEF Gate1
<1>3. QED
  BY <1>1, <1>2 DEF Gate1Network, Outcome, Strength

\* The parts of the score of an identity event.
Biometrics(e) ==
  CASE e.biometric \in {"zero", "low"} -> 300 [] e.biometric = "middling" -> 150 [] OTHER -> 0
Circumstances(e) == (IF e.unknownPlace THEN 200 ELSE 0) + (IF e.anomaly THEN 150 ELSE 0)
Travel(g) == (g * 4) \div 10
Machine(t) == IF t THEN 0 ELSE 120
Penalty(e) == IF Incomplete(e) THEN 150 ELSE 0
Sum(e, t, g) == 400 + Biometrics(e) + Circumstances(e) + Travel(g) + Machine(t) - Penalty(e)

LEMMA Parts ==
  ASSUME NEW e \in IdentityEvents, NEW t, NEW g \in Nat
  PROVE  /\ Biometrics(e) \in Nat /\ Circumstances(e) \in Nat /\ Travel(g) \in Nat
         /\ Machine(t) \in Nat /\ Penalty(e) \in Nat
         /\ Sum(e, t, g) \in Int
         /\ IdentityScore(e, t, g) = IF Sum(e, t, g) > 1000 THEN 1000 ELSE Sum(e, t, g)
         /\ IdentityScore(e, t, g) \in Int
<1> DEFINE place == IF e.unknownPlace THEN 200 ELSE 0
           anomalous == IF e.anomaly THEN 150 ELSE 0
           sum == 400 + Biometrics(e) + place + anomalous + Travel(g) + Machine(t) - Penalty(e)
<1>1. Biometrics(e) \in Nat
  BY DEF Biometrics
<1>2. place \in Nat /\ anomalous \in Nat /\ Circumstances(e) = place + anomalous
  BY DEF Circumstances
<1>3. Travel(g) \in Nat
  BY DEF Travel
<1>4. Machine(t) \in Nat /\ Penalty(e) \in Nat
  BY DEF Machine, Penalty
<1>5. IdentityScore(e, t, g) = IF sum > 1000 THEN 1000 ELSE sum
  BY DEF IdentityScore, Biometrics, Travel, Machine, Penalty
<1> HIDE DEF place, anomalous
<1>6. sum = Sum(e, t, g)
  BY <1>1, <1>2, <1>3, <1>4 DEF Sum
<1>7. sum \in Int
  BY <1>1, <1>2, <1>3, <1>4
<1> HIDE DEF sum
<1>8. QED
  BY <1>1, <1>2, <1>3, <1>4, <1>5, <1>6, <1>7

LEMMA IdentityAnswer ==
  ASSUME NEW e \in IdentityEvents, NEW t, NEW g \in Nat
  PROVE  LET score == IdentityScore(e, t, g) IN
         Strength(Gate1(e, t, g).verdict) =
           IF score >= 850 THEN 3 ELSE IF score >= 650 THEN 2 ELSE IF score >= 400 THEN 1 ELSE 0
<1>1. e.type = "identity"
  BY DEF IdentityEvents
<1>2. Gate1(e, t, g) = Gate1Identity(e, t, g)
  BY <1>1 DEF Gate1
<1> DEFINE score == IdentityScore(e, t, g)
<1>3. score \in Int
  BY Parts
<1> HIDE DEF score
<1>4. Gate1Identity(e, t, g).verdict =
        IF score >= 850 THEN "escalate" ELSE IF score >= 650 THEN "block"
        ELSE IF score >= 400 THEN "hold" ELSE "pass"
  <2>1. CASE score >= 850
    BY <1>3, <2>1 DEF Gate1Identity, Outcome, score
  <2>2. CASE score \in 650..849
    BY <1>3, <2>2 DEF Gate1Identity, Outcome, score
  <2>3. CASE score \in 400..649
    BY <1>3, <2>3 DEF Gate1Identity, Outcome, score
  <2>4. CASE score < 400
    BY <1>3, <2>4 DEF Gate1Identity, Outcome, score
  <2>5. QED
    BY <1>3, <2>1, <2>2, <2>3, <2>4
<1>5. QED
  BY <1>2, <1>3, <1>4 DEF Strength, score

LEMMA PhysicalAnswer ==
  ASSUME NEW e \in PhysicalEvents, NEW t, NEW g
  PROVE  Strength(Gate1(e, t, g).verdict) =
           IF ~e.badge /\ ~e.face /\ e.restricted THEN 3 ELSE IF e.badge /\ e.face THEN 0 ELSE 1
<1>1. e.type = "physical" /\ e.badge \in BOOLEAN /\ e.face \in BOOLEAN /\ e.restricted \in BOOLEAN
  BY DEF PhysicalEvents
<1>2. Gate1(e, t, g) = Gate1Physical(e)
  BY <1>1 DEF Gate1
<1>3. QED
  BY <1>1, <1>2 DEF Gate1Physical, Outcome, Strength

LEMMA InsiderAnswer ==
  ASSUME NEW e \in InsiderEvents, NEW t, NEW g
  PROVE  Strength(Gate1(e, t, g).verdict) = 1
BY DEF InsiderEvents, Gate1, Outcome, Strength


-----------------------------------------------------------------------------
(* The steps of GateEvidence.                                              *)

EvidenceType == event \in Events /\ trusted \in BOOLEAN /\ geoRisk \in Nat /\ held \in Nat /\ risk \in Int

LEMMA NetworkStep ==
  ASSUME EvidenceType, Network \/ Faster
  PROVE  /\ EvidenceType'
         /\ Network => Gate1NoWeaker
         /\ event.severity < High => Gate1NoWeaker
<1>1. event.type = "network" /\ event \in NetworkEvents
  BY FourTypes DEF EvidenceType, Network, Faster
<1>2. event' \in NetworkEvents /\ UNCHANGED contextVars
  <2>1. /\ UNCHANGED contextVars
        /\ \/ event' = [event EXCEPT !.signature = "hold"]
           \/ event' = [event EXCEPT !.signature = "block"]
           \/ event' = [event EXCEPT !.anomaly = TRUE]
           \/ event.rate + 1 \in Rates /\ event' = [event EXCEPT !.rate = event.rate + 1]
    BY <1>1 DEF Network, Faster, Raise, NetworkEvents, Rates, Calm, Flood
  <2>2. QED
    BY <1>1, <2>1 DEF NetworkEvents
<1>3. EvidenceType'
  BY <1>2, FourTypes DEF EvidenceType, contextVars
<1>4. Strength(First.verdict) =
        IF event.signature = "block" THEN IF RateSeverity(event) = Critical THEN 3 ELSE 2
        ELSE IF event.anomaly THEN 2
        ELSE IF event.signature = "hold" \/ RateSeverity(event) >= High THEN 1 ELSE 0
  BY <1>1, NetworkAnswer DEF First
<1>5. Strength(First'.verdict) =
        IF event'.signature = "block" THEN IF RateSeverity(event') = Critical THEN 3 ELSE 2
        ELSE IF event'.anomaly THEN 2
        ELSE IF event'.signature = "hold" \/ RateSeverity(event') >= High THEN 1 ELSE 0
  BY <1>2, NetworkAnswer DEF First
<1>6. CASE Network
  <2>1. /\ event'.rate = event.rate /\ event'.severity = event.severity
        /\ \/ event.signature = "none" /\ event'.signature = "hold" /\ event'.anomaly = event.anomaly
           \/ event'.signature = "block"
           \/ ~event.anomaly /\ event'.anomaly /\ event'.signature = event.signature
    BY <1>1, <1>6 DEF Network, Raise, NetworkEvents
  <2>2. RateSeverity(event') = RateSeverity(event)
    BY <2>1 DEF RateSeverity
  <2>3. event.signature # "block" \/ event'.signature = event.signature
    BY <1>1, <1>6 DEF Network, Raise, NetworkEvents
  <2>4. Gate1NoWeaker
    BY <1>4, <1>5, <2>1, <2>2, <2>3 DEF Gate1NoWeaker
  <2>5. QED
    BY <1>3, <2>4
<1>7. CASE Faster /\ ~Network
  <2>1. ASSUME event.severity < High
        PROVE  Gate1NoWeaker
    <3>1. /\ event'.rate = event.rate + 1 /\ event'.severity = event.severity
          /\ event'.signature = event.signature /\ event'.anomaly = event.anomaly
      BY <1>1, <1>7 DEF Faster, Raise, NetworkEvents
    <3>2. event.rate \in Rates /\ event'.rate \in Rates /\ event.severity \in Low..Critical
      BY <1>1, <1>2 DEF NetworkEvents
    <3>3. /\ RateSeverity(event') = Critical \/ RateSeverity(event) # Critical
          /\ RateSeverity(event') >= High \/ ~(RateSeverity(event) >= High)
      BY <2>1, <3>1, <3>2 DEF RateSeverity, Rates, Calm, Threshold, Fast, Flood, Low, Medium, High, Critical
    <3>4. QED
      BY <1>4, <1>5, <3>1, <3>3 DEF Gate1NoWeaker
  <2>2. QED
    BY <1>3, <1>7, <2>1
<1>8. QED
  BY <1>6, <1>7


LEMMA HigherIsNoWeaker ==
  ASSUME NEW e \in IdentityEvents, NEW f \in IdentityEvents, NEW t, NEW u, NEW g \in Nat, NEW h \in Nat,
         Biometrics(f) >= Biometrics(e), Circumstances(f) >= Circumstances(e), h >= g,
         Machine(u) >= Machine(t), Penalty(f) <= Penalty(e)
  PROVE  Strength(Gate1(f, u, h).verdict) >= Strength(Gate1(e, t, g).verdict)
<1> DEFINE old == IdentityScore(e, t, g)
           new == IdentityScore(f, u, h)
<1>1. Travel(h) >= Travel(g)
  BY DEF Travel
<1>2. Sum(f, u, h) >= Sum(e, t, g)
  <2>1. /\ Biometrics(e) \in Nat /\ Circumstances(e) \in Nat /\ Travel(g) \in Nat
        /\ Machine(t) \in Nat /\ Penalty(e) \in Nat
    BY Parts
  <2>2. /\ Biometrics(f) \in Nat /\ Circumstances(f) \in Nat /\ Travel(h) \in Nat
        /\ Machine(u) \in Nat /\ Penalty(f) \in Nat
    BY Parts
  <2>3. QED
    BY <1>1, <2>1, <2>2 DEF Sum
<1>3. old \in Int /\ new \in Int /\ new >= old
  <2>1. old \in Int /\ old = IF Sum(e, t, g) > 1000 THEN 1000 ELSE Sum(e, t, g)
    BY Parts
  <2>2. new \in Int /\ new = IF Sum(f, u, h) > 1000 THEN 1000 ELSE Sum(f, u, h)
    BY Parts
  <2>3. Sum(e, t, g) \in Int /\ Sum(f, u, h) \in Int
    BY Parts
  <2> HIDE DEF old, new
  <2>4. QED
    BY <1>2, <2>1, <2>2, <2>3
<1>4. Strength(Gate1(e, t, g).verdict) =
        IF old >= 850 THEN 3 ELSE IF old >= 650 THEN 2 ELSE IF old >= 400 THEN 1 ELSE 0
  BY IdentityAnswer
<1>5. Strength(Gate1(f, u, h).verdict) =
        IF new >= 850 THEN 3 ELSE IF new >= 650 THEN 2 ELSE IF new >= 400 THEN 1 ELSE 0
  BY IdentityAnswer
<1> HIDE DEF old, new
<1>6. QED
  BY <1>3, <1>4, <1>5

LEMMA IdentityStep ==
  ASSUME EvidenceType, Identity \/ Zero
  PROVE  EvidenceType' /\ (~Zero => Gate1NoWeaker)
<1>1. event.type = "identity" /\ event \in IdentityEvents
  BY FourTypes DEF EvidenceType, Identity, Zero
<1>2. /\ UNCHANGED contextVars
      /\ \/ event.biometric = "good" /\ event' = [event EXCEPT !.biometric = "middling"]
         \/ event.biometric = "middling" /\ event' = [event EXCEPT !.biometric = "low"]
         \/ event' = [event EXCEPT !.unknownPlace = TRUE]
         \/ event' = [event EXCEPT !.anomaly = TRUE]
         \/ event' = [event EXCEPT !.mismatch = TRUE]
         \/ Zero /\ event' = [event EXCEPT !.biometric = "zero"]
  BY <1>1 DEF Identity, Zero, Raise
<1>3. event' \in IdentityEvents
  BY <1>1, <1>2 DEF IdentityEvents
<1>4. EvidenceType'
  BY <1>2, <1>3, FourTypes DEF EvidenceType, contextVars
<1>5. ASSUME ~Zero
      PROVE  Gate1NoWeaker
  <2>1. Biometrics(event') >= Biometrics(event) /\ Penalty(event') <= Penalty(event)
    BY <1>1, <1>2, <1>5 DEF IdentityEvents, Biometrics, Penalty, Incomplete
  <2>2. Circumstances(event') >= Circumstances(event)
    BY <1>1, <1>2, <1>5 DEF IdentityEvents, Circumstances
  <2>3. trusted' = trusted /\ geoRisk' = geoRisk /\ geoRisk \in Nat
    BY <1>2 DEF EvidenceType, contextVars
  <2>4. Machine(trusted') >= Machine(trusted)
    BY <2>3 DEF Machine
  <2>5. Strength(Gate1(event', trusted', geoRisk').verdict) >= Strength(Gate1(event, trusted, geoRisk).verdict)
    BY <1>1, <1>3, <2>1, <2>2, <2>3, <2>4, HigherIsNoWeaker
  <2>6. QED
    BY <2>5 DEF Gate1NoWeaker, First
<1>6. QED
  BY <1>4, <1>5

LEMMA JourneyStep ==
  ASSUME GeoRisks \subseteq 0..1000, EvidenceType, Journey
  PROVE  EvidenceType' /\ Gate1NoWeaker
<1>1. event.type = "identity" /\ event \in IdentityEvents
  BY FourTypes DEF EvidenceType, Journey
<1>2. /\ UNCHANGED <<event, held, risk>> /\ geoRisk \in Nat /\ geoRisk' \in Nat /\ geoRisk' >= geoRisk
  BY DEF EvidenceType, Journey
<1>3. trusted' \in BOOLEAN /\ Machine(trusted') >= Machine(trusted)
  <2>1. CASE trusted' = FALSE
    <3>1. Machine(trusted') = 120 /\ Machine(trusted) \in {0, 120}
      BY <2>1 DEF Machine
    <3>2. trusted' \in BOOLEAN
      BY <2>1
    <3>3. 120 >= Machine(trusted)
      BY <3>1
    <3>4. QED
      BY <3>1, <3>2, <3>3
  <2>2. CASE UNCHANGED trusted
    BY <2>2 DEF Machine, EvidenceType
  <2>3. QED
    BY <2>1, <2>2 DEF Journey
<1>4. Biometrics(event') >= Biometrics(event) /\ Circumstances(event') >= Circumstances(event)
      /\ Penalty(event') <= Penalty(event)
  BY <1>1, <1>2, Parts
<1>5. Strength(Gate1(event', trusted', geoRisk').verdict) >= Strength(Gate1(event, trusted, geoRisk).verdict)
  BY <1>1, <1>2, <1>3, <1>4, HigherIsNoWeaker
<1>6. EvidenceType'
  BY <1>2, <1>3 DEF EvidenceType
<1>7. QED
  BY <1>5, <1>6 DEF Gate1NoWeaker, First

LEMMA PhysicalStep ==
  ASSUME EvidenceType, Physical
  PROVE  EvidenceType' /\ Gate1NoWeaker
<1>1. event.type = "physical" /\ event \in PhysicalEvents
  BY FourTypes DEF EvidenceType, Physical
<1>2. /\ UNCHANGED contextVars
      /\ \/ event' = [event EXCEPT !.badge = FALSE]
         \/ event' = [event EXCEPT !.face = FALSE]
         \/ event' = [event EXCEPT !.restricted = TRUE]
         \/ event.motion + 1 \in 0..2 /\ event' = [event EXCEPT !.motion = event.motion + 1]
  BY <1>1 DEF Physical, Raise, PhysicalEvents
<1>3. event' \in PhysicalEvents
  BY <1>1, <1>2 DEF PhysicalEvents
<1>4. EvidenceType'
  BY <1>2, <1>3, FourTypes DEF EvidenceType, contextVars
<1>5. /\ event'.badge => event.badge
      /\ event'.face => event.face
      /\ event.restricted => event'.restricted
  BY <1>1, <1>2 DEF PhysicalEvents
<1>6. Strength(First.verdict) =
        IF ~event.badge /\ ~event.face /\ event.restricted THEN 3 ELSE IF event.badge /\ event.face THEN 0 ELSE 1
  BY <1>1, PhysicalAnswer DEF First
<1>7. Strength(First'.verdict) =
        IF ~event'.badge /\ ~event'.face /\ event'.restricted THEN 3 ELSE IF event'.badge /\ event'.face THEN 0 ELSE 1
  BY <1>3, PhysicalAnswer DEF First
<1>8. QED
  BY <1>4, <1>5, <1>6, <1>7 DEF Gate1NoWeaker

LEMMA InsiderStep ==
  ASSUME EvidenceType, Insider
  PROVE  EvidenceType' /\ Gate1NoWeaker
<1>1. event.type = "insider" /\ event \in InsiderEvents
  BY FourTypes DEF EvidenceType, Insider
<1>2. UNCHANGED contextVars /\ event.volume < 2 /\ event' = [event EXCEPT !.volume = event.volume + 1]
  BY <1>1 DEF Insider, Raise
<1>3. event' \in InsiderEvents
  BY <1>1, <1>2 DEF InsiderEvents
<1>4. EvidenceType'
  BY <1>2, <1>3, FourTypes DEF EvidenceType, contextVars
<1>5. QED
  BY <1>1, <1>3, <1>4, InsiderAnswer DEF Gate1NoWeaker, First


\* What Gate 2 stops, by the type of the event.
LEMMA SecondStops ==
  ASSUME NEW e \in Events, NEW h \in Nat, NEW r \in Int, NEW o \in BOOLEAN
  PROVE  LET v == Gate2(e, e.severity, h, r, o).verdict IN
         /\ e.type = "network" =>
              (v \in {"block", "escalate"} <=> (o /\ e.rate >= Raised) \/ h >= 3 \/ r > 700)
         /\ e.type = "identity" /\ v # "error" =>
              (v \in {"block", "escalate"} <=> e.mismatch \/ r > 800)
         /\ e.type = "physical" /\ v # "error" => (v \in {"block", "escalate"} <=> e.motion # 0)
         /\ e.type = "insider" /\ v # "error" =>
              (v \in {"block", "escalate"} <=> e.volume # 0 \/ r > 800)
<1> DEFINE s == MetaSeverity(e.severity, r)
           v == Gate2(e, e.severity, h, r, o).verdict
<1>1. CASE e.type = "network"
  <2>1. v = Gate2Network(e, s, h, r, o).verdict
    BY <1>1 DEF Gate2
  <2>2. v \in {"block", "escalate"} <=> (o /\ e.rate >= Raised) \/ h >= 3 \/ r > 700
    <3> HIDE DEF s, v
    <3>1. QED
      BY <2>1 DEF Gate2Network, Outcome
  <2>3. QED
    BY <1>1, <2>2
<1>2. CASE e.type = "identity"
  <2>1. v = Gate2Identity(e, s, r, o).verdict /\ e.mismatch \in BOOLEAN
    BY <1>2, FourTypes DEF Gate2, IdentityEvents
  <2>2. v # "error" => (v \in {"block", "escalate"} <=> e.mismatch \/ r > 800)
    <3> HIDE DEF s, v
    <3>1. QED
      BY <2>1 DEF Gate2Identity, Outcome, Unbound
  <2>3. QED
    BY <1>2, <2>2
<1>3. CASE e.type = "physical"
  <2>1. v = Gate2Physical(e, s, r, o).verdict /\ e.motion \in 0..2
    BY <1>3, FourTypes DEF Gate2, PhysicalEvents
  <2>2. v # "error" => (v \in {"block", "escalate"} <=> e.motion # 0)
    <3> HIDE DEF s, v
    <3>1. QED
      BY <2>1 DEF Gate2Physical, Outcome, Unbound
  <2>3. QED
    BY <1>3, <2>2
<1>4. CASE e.type = "insider"
  <2>1. v = Gate2Insider(e, s, r, o).verdict /\ e.volume \in 0..2
    BY <1>4, FourTypes DEF Gate2, InsiderEvents
  <2>2. v # "error" => (v \in {"block", "escalate"} <=> e.volume # 0 \/ r > 800)
    <3> HIDE DEF s, v
    <3>1. QED
      BY <2>1 DEF Gate2Insider, Outcome, Unbound
  <2>3. QED
    BY <1>4, <2>2
<1>5. QED
  BY <1>1, <1>2, <1>3, <1>4, FourTypes

LEMMA ContextStep ==
  ASSUME EvidenceType, MetaRisks \subseteq 450..1000, Context
  PROVE  EvidenceType' /\ (Stopped /\ Answered' => Stopped')
<1>1. /\ UNCHANGED <<event, trusted, geoRisk>> /\ held' \in Nat /\ risk' \in Int
      /\ held' >= held /\ risk' >= risk
  BY DEF EvidenceType, Context
<1>2. EvidenceType'
  BY <1>1 DEF EvidenceType
<1>3. OffHours(time) => OffHours(time')
  BY DEF Context
<1>4. OffHours(time) \in BOOLEAN /\ OffHours(time') \in BOOLEAN
  BY DEF OffHours
<1>5. CASE event.type = "network"
  BY <1>1, <1>2, <1>3, <1>4, <1>5, SecondStops DEF EvidenceType, Stopped, Second
<1>6. CASE event.type = "identity"
  BY <1>1, <1>2, <1>3, <1>4, <1>6, SecondStops DEF EvidenceType, Stopped, Answered, Second
<1>7. CASE event.type = "physical"
  BY <1>1, <1>2, <1>3, <1>4, <1>7, SecondStops DEF EvidenceType, Stopped, Answered, Second
<1>8. CASE event.type = "insider"
  BY <1>1, <1>2, <1>3, <1>4, <1>8, SecondStops DEF EvidenceType, Stopped, Answered, Second
<1>9. QED
  BY <1>2, <1>5, <1>6, <1>7, <1>8, FourTypes DEF EvidenceType


\* What the three properties say of a step.
NoWeaker == (Faster \/ Zero) \/ Gate1NoWeaker
FasterNoWeaker == (Faster /\ event.severity < High) => Gate1NoWeaker
NeverClears == (Context /\ Stopped /\ Answered') => Stopped'

LEMMA EvidenceStart == EvidenceInit => EvidenceType
<1> SUFFICES ASSUME EvidenceInit PROVE EvidenceType
  OBVIOUS
<1>1. GeoRisks \subseteq 0..1000 /\ MetaRisks \subseteq 450..1000 /\ MaxHits \in Nat
  BY EvidenceAssumption
<1>2. event \in Events /\ trusted \in BOOLEAN
  BY DEF EvidenceInit
<1>3. geoRisk \in Nat /\ held \in Nat /\ risk \in Int
  BY <1>1 DEF EvidenceInit, NoRisk
<1>4. QED
  BY <1>2, <1>3 DEF EvidenceType

LEMMA EvidenceStep ==
  EvidenceType /\ [EvidenceNext]_evidenceVars =>
    EvidenceType' /\ [NoWeaker]_evidenceVars /\ [FasterNoWeaker]_evidenceVars /\ [NeverClears]_evidenceVars
<1> SUFFICES ASSUME EvidenceType, [EvidenceNext]_evidenceVars
             PROVE  /\ EvidenceType'
                    /\ [NoWeaker]_evidenceVars /\ [FasterNoWeaker]_evidenceVars /\ [NeverClears]_evidenceVars
  OBVIOUS
<1>1. GeoRisks \subseteq 0..1000 /\ MetaRisks \subseteq 450..1000
  BY EvidenceAssumption
<1>2. CASE UNCHANGED evidenceVars
  BY <1>2 DEF EvidenceType, evidenceVars, contextVars
<1>3. ASSUME EvidenceNext
      PROVE  EvidenceType'
  BY <1>1, <1>3, NetworkStep, IdentityStep, JourneyStep, PhysicalStep, InsiderStep, ContextStep
     DEF EvidenceNext
<1>4. ASSUME EvidenceNext
      PROVE  NoWeaker
  <2>1. CASE Context
    <3>1. UNCHANGED <<event, trusted, geoRisk>>
      BY <2>1 DEF Context
    <3>2. Strength(First'.verdict) = Strength(First.verdict) /\ Strength(First.verdict) \in Nat
      <4>1. First' = First
        BY <3>1 DEF First
      <4>2. CASE event.type = "network"
        <5>1. event \in NetworkEvents
          BY <4>2, FourTypes DEF EvidenceType
        <5>2. QED
          BY <4>1, <5>1, NetworkAnswer DEF First
      <4>3. CASE event.type = "identity"
        <5>1. event \in IdentityEvents
          BY <4>3, FourTypes DEF EvidenceType
        <5>2. QED
          BY <4>1, <5>1, IdentityAnswer DEF First, EvidenceType
      <4>4. CASE event.type = "physical"
        <5>1. event \in PhysicalEvents
          BY <4>4, FourTypes DEF EvidenceType
        <5>2. QED
          BY <4>1, <5>1, PhysicalAnswer DEF First
      <4>5. CASE event.type = "insider"
        <5>1. event \in InsiderEvents
          BY <4>5, FourTypes DEF EvidenceType
        <5>2. QED
          BY <4>1, <5>1, InsiderAnswer DEF First
      <4>6. QED
        BY <4>2, <4>3, <4>4, <4>5, FourTypes DEF EvidenceType
    <3>3. QED
      BY <3>2 DEF NoWeaker, Gate1NoWeaker
  <2>2. QED
    BY <1>1, <1>4, <2>1, NetworkStep, IdentityStep, JourneyStep, PhysicalStep, InsiderStep
       DEF EvidenceNext, NoWeaker
<1>5. FasterNoWeaker
  BY NetworkStep DEF FasterNoWeaker
<1>6. NeverClears
  BY <1>1, ContextStep DEF NeverClears
<1>7. QED
  BY <1>2, <1>3, <1>4, <1>5, <1>6

\* An event that looks worse to Gate 1 is never answered more weakly, unless
\* what is worse is its packet rate or a biometric score of zero.
THEOREM Worse == EvidenceSpec => WorseIsNoWeaker
<1>1. EvidenceType /\ [EvidenceNext]_evidenceVars => [(Faster \/ Zero) \/ Gate1NoWeaker]_evidenceVars
  BY EvidenceStep DEF NoWeaker
<1>2. EvidenceType /\ [EvidenceNext]_evidenceVars => EvidenceType'
  BY EvidenceStep
<1>3. QED
  BY <1>1, <1>2, EvidenceStart, PTL DEF EvidenceSpec, WorseIsNoWeaker

\* A faster packet rate never weakens Gate 1's answer to an event below HIGH.
THEOREM Quicker == EvidenceSpec => FasterIsNoWeaker
<1>1. EvidenceType /\ [EvidenceNext]_evidenceVars =>
        [(Faster /\ event.severity < High) => Gate1NoWeaker]_evidenceVars
  BY EvidenceStep DEF FasterNoWeaker
<1>2. EvidenceType /\ [EvidenceNext]_evidenceVars => EvidenceType'
  BY EvidenceStep
<1>3. QED
  BY <1>1, <1>2, EvidenceStart, PTL DEF EvidenceSpec, FasterIsNoWeaker

\* What Gate 2 learns beyond the event never clears what it would have stopped.
THEOREM Sterner == EvidenceSpec => ContextNeverClears
<1>1. EvidenceType /\ [EvidenceNext]_evidenceVars =>
        [(Context /\ Stopped /\ Answered') => Stopped']_evidenceVars
  BY EvidenceStep DEF NeverClears
<1>2. EvidenceType /\ [EvidenceNext]_evidenceVars => EvidenceType'
  BY EvidenceStep
<1>3. QED
  BY <1>1, <1>2, EvidenceStart, PTL DEF EvidenceSpec, ContextNeverClears


-----------------------------------------------------------------------------
(* TriGate.                                                                *)

Verdicts == {"none", "pass", "hold", "block", "escalate", "error"}
Entry ==
  [kind: Kinds, at: Nat, stage: Stages,
   outcome: [verdict: Verdicts, severity: Low..Critical],
   trusted: BOOLEAN, session: BOOLEAN, repeat: Nat]

GatesType ==
  /\ clock \in Nat
  /\ events \in Seq(Entry)
  /\ hits \in [Entities -> Nat]

\* No event is from the future.
Past == \A i \in Numbers : events[i].at <= clock

\* Gate 3 numbers its decisions about an entity, each with a number of its own,
\* and from the third on they are critical.
Counted ==
  \A i \in Numbers : events[i].stage = "final" =>
    /\ events[i].repeat \in 1..hits[events[i].kind.entity]
    /\ events[i].repeat >= 3 => events[i].outcome.severity = Critical
    /\ \A j \in Numbers :
         j # i /\ events[j].stage = "final" /\ events[j].kind.entity = events[i].kind.entity =>
           events[j].repeat # events[i].repeat

GatesInv == GatesType /\ Past /\ BurstCapped /\ Counted

\* The events that passed the filters in the burst window that ends with one.
Burst(i) ==
  {j \in Through :
    /\ events[j].kind.key = events[i].kind.key
    /\ events[j].at <= events[i].at /\ events[j].at > events[i].at - BurstWindow}

LEMMA KindsTyped ==
  ASSUME NEW k \in Kinds
  PROVE  /\ k.event \in Events /\ k.entity \in Entities
         /\ k.event.severity \in Low..Critical
<1>1. k \in KindType
  BY TriGateAssumption
<1>2. k.event \in Events /\ k.entity \in Entities
  BY <1>1 DEF KindType
<1>3. QED
  BY <1>2, FourTypes

\* Gate 1 gives one of four verdicts and a severity.
LEMMA FirstTyped ==
  ASSUME NEW e \in Events, NEW t, NEW g \in Nat
  PROVE  Gate1(e, t, g) \in [verdict: {"pass", "hold", "block", "escalate"}, severity: Low..Critical]
<1> DEFINE Answers == [verdict: {"pass", "hold", "block", "escalate"}, severity: Low..Critical]
<1>1. e.severity \in Low..Critical
  BY FourTypes
<1>2. CASE e.type = "network"
  <2>1. RateSeverity(e) \in Low..Critical
    BY <1>1 DEF RateSeverity, Low, Medium, High, Critical
  <2>2. e \in NetworkEvents
    BY <1>2, FourTypes
  <2>3. Gate1Network(e) \in Answers
    BY <2>1, <2>2 DEF Gate1Network, Outcome, NetworkEvents, Low, High, Critical
  <2>4. QED
    BY <1>2, <2>3 DEF Gate1
<1>3. CASE e.type = "identity"
  <2> DEFINE score == IdentityScore(e, t, g)
  <2>1. score \in Int
    BY <1>3, FourTypes, Parts
  <2> HIDE DEF score
  <2>2. Gate1Identity(e, t, g) \in Answers
    <3>1. CASE score >= 850
      BY <2>1, <3>1 DEF Gate1Identity, Outcome, score, Low, Critical
    <3>2. CASE score \in 650..849
      BY <2>1, <3>2 DEF Gate1Identity, Outcome, score, Low, High, Critical
    <3>3. CASE score \in 400..649
      BY <2>1, <3>3 DEF Gate1Identity, Outcome, score, Low, Medium, Critical
    <3>4. CASE score < 400
      BY <1>1, <2>1, <3>4 DEF Gate1Identity, Outcome, score
    <3>5. QED
      BY <2>1, <3>1, <3>2, <3>3, <3>4
  <2>3. QED
    BY <1>3, <2>2 DEF Gate1
<1>4. CASE e.type = "physical"
  BY <1>1, <1>4 DEF Gate1, Gate1Physical, Outcome, Low, Critical
<1>5. CASE e.type = "insider"
  BY <1>1, <1>5 DEF Gate1, Outcome
<1>6. QED
  BY <1>2, <1>3, <1>4, <1>5, FourTypes

\* Gate 2 gives one of three verdicts and a severity, or fails.
LEMMA SecondTyped ==
  ASSUME NEW e \in Events, NEW sev \in Low..Critical, NEW h, NEW r, NEW o \in BOOLEAN
  PROVE  Gate2(e, sev, h, r, o) \in [verdict: {"pass", "block", "escalate", "error"}, severity: Low..Critical]
<1> DEFINE Answers == [verdict: {"pass", "block", "escalate", "error"}, severity: Low..Critical]
           s == MetaSeverity(sev, r)
<1>1. s \in Low..Critical
  BY DEF MetaSeverity, Low, High, Critical
<1> HIDE DEF s
<1>2. CASE e.type = "network"
  <2>1. Gate2Network(e, s, h, r, o) \in Answers
    BY <1>1 DEF Gate2Network, Outcome, Low, High, Critical
  <2>2. QED
    BY <1>2, <2>1 DEF Gate2, s
<1>3. CASE e.type = "identity"
  <2>1. e.mismatch \in BOOLEAN
    BY <1>3, FourTypes DEF IdentityEvents
  <2>2. Gate2Identity(e, s, r, o) \in Answers
    BY <1>1, <2>1 DEF Gate2Identity, Outcome, Unbound, Low, High, Critical
  <2>3. QED
    BY <1>3, <2>2 DEF Gate2, s
<1>4. CASE e.type = "physical"
  <2>1. e.motion \in 0..2
    BY <1>4, FourTypes DEF PhysicalEvents
  <2>2. Gate2Physical(e, s, r, o) \in Answers
    BY <1>1, <2>1 DEF Gate2Physical, Outcome, Unbound, Low, High, Critical
  <2>3. QED
    BY <1>4, <2>2 DEF Gate2, s
<1>5. CASE e.type = "insider"
  <2>1. e.volume \in 0..2
    BY <1>5, FourTypes DEF InsiderEvents
  <2>2. Gate2Insider(e, s, r, o) \in Answers
    BY <1>1, <2>1 DEF Gate2Insider, Outcome, Unbound, Low, High, Critical
  <2>3. QED
    BY <1>5, <2>2 DEF Gate2, s
<1>6. QED
  BY <1>2, <1>3, <1>4, <1>5, FourTypes


-----------------------------------------------------------------------------
\* An event enters the pipeline: the others stay as they are.
LEMMA Entering ==
  ASSUME GatesType, NEW k \in Kinds, NEW stage \in Filtered \cup {"gate1"}, Enter(k, stage)
  PROVE  LET n == Len(events) + 1 IN
         /\ UNCHANGED <<clock, hits>> /\ GatesType'
         /\ Numbers' = Numbers \cup {n} /\ n \notin Numbers
         /\ events'[n].kind = k /\ events'[n].at = clock /\ events'[n].stage = stage
         /\ \A i \in Numbers : events'[i] = events[i]
<1> DEFINE n == Len(events) + 1
           new == [kind |-> k, at |-> clock, stage |-> stage, outcome |-> Outcome("none", k.event.severity),
                   trusted |-> TRUE, session |-> FALSE, repeat |-> 0]
<1>1. events' = Append(events, new) /\ UNCHANGED <<clock, hits>>
  BY DEF Enter, gateVars
<1>2. new \in Entry
  <2>1. Outcome("none", k.event.severity) \in [verdict: Verdicts, severity: Low..Critical]
    BY KindsTyped DEF Outcome, Verdicts
  <2>2. stage \in Stages /\ clock \in Nat
    BY DEF Filtered, Stages, GatesType, InGate
  <2>3. QED
    BY <2>1, <2>2 DEF Entry
<1>3. new.kind = k /\ new.at = clock /\ new.stage = stage
  OBVIOUS
<1> HIDE DEF new
<1>4. events \in Seq(Entry)
  BY DEF GatesType
<1>5. /\ events' \in Seq(Entry) /\ Len(events') = n /\ events'[n] = new
      /\ \A i \in Numbers : events'[i] = events[i]
      /\ Numbers = 1..Len(events) /\ Numbers' = 1..n /\ Len(events) \in Nat
  BY <1>1, <1>2, <1>4 DEF Numbers
<1>6. Numbers' = Numbers \cup {n} /\ n \notin Numbers
  BY <1>5
<1>7. GatesType'
  BY <1>1, <1>5 DEF GatesType
<1>8. QED
  BY <1>1, <1>3, <1>5, <1>6, <1>7

\* A gate decides on an event: the others stay as they are.
LEMMA Deciding ==
  ASSUME GatesType, NEW i \in Numbers, NEW r \in Entry, events' = [events EXCEPT ![i] = r]
  PROVE  /\ events' \in Seq(Entry) /\ Numbers' = Numbers /\ events'[i] = r
         /\ \A j \in Numbers : j # i => events'[j] = events[j]
<1>1. events \in Seq(Entry) /\ i \in DOMAIN events
  BY DEF GatesType, Numbers
<1>2. QED
  BY <1>1 DEF Numbers

\* A step that moves no event into the filters or out of them keeps the bursts.
LEMMA SameBursts ==
  ASSUME GatesType, BurstCapped, Numbers' = Numbers,
         \A i \in Numbers : /\ events'[i].kind = events[i].kind /\ events'[i].at = events[i].at
                            /\ events'[i].stage \in Filtered <=> events[i].stage \in Filtered
  PROVE  BurstCapped'
<1>1. Through' = Through /\ Through \subseteq Numbers
  BY DEF Through
<1>2. ASSUME NEW i \in Through
      PROVE  Burst(i)' = Burst(i)
  BY <1>1 DEF Burst
<1>3. \A i \in Through : Cardinality(Burst(i)) <= MaxBurst
  BY DEF BurstCapped, Burst
<1>4. \A i \in Through' : Cardinality(Burst(i)') <= MaxBurst
  BY <1>1, <1>2, <1>3
<1>5. QED
  BY <1>4 DEF BurstCapped, Burst

\* What a filter drops is in no burst, and what is accepted only in its own.
LEMMA DropKeepsBursts ==
  ASSUME GatesInv, NEW k \in Kinds, NEW stage \in Filtered, Enter(k, stage)
  PROVE  BurstCapped'
<1> DEFINE n == Len(events) + 1
<1>1. /\ Numbers' = Numbers \cup {n} /\ n \notin Numbers /\ events'[n].stage \in Filtered
      /\ \A i \in Numbers : events'[i] = events[i]
  BY Entering DEF GatesInv
<1> HIDE DEF n
<1>2. Through' = Through /\ Through \subseteq Numbers
  BY <1>1 DEF Through
<1>3. ASSUME NEW i \in Through
      PROVE  Burst(i)' = Burst(i)
  BY <1>1, <1>2 DEF Burst
<1>4. \A i \in Through : Cardinality(Burst(i)) <= MaxBurst
  BY DEF BurstCapped, Burst, GatesInv
<1>5. \A i \in Through' : Cardinality(Burst(i)') <= MaxBurst
  BY <1>2, <1>3, <1>4
<1>6. QED
  BY <1>5 DEF BurstCapped, Burst

LEMMA AcceptKeepsBursts ==
  ASSUME GatesInv, NEW k \in Kinds, Accept(k)
  PROVE  BurstCapped'
<1> DEFINE n == Len(events) + 1
           before == Recent(k.key, BurstWindow)
<1>1. /\ Numbers' = Numbers \cup {n} /\ n \notin Numbers /\ UNCHANGED clock
      /\ events'[n].kind = k /\ events'[n].at = clock /\ events'[n].stage = "gate1"
      /\ \A i \in Numbers : events'[i] = events[i]
  BY Entering DEF GatesInv, Accept
<1>2. clock \in Nat /\ BurstWindow \in Nat /\ MaxBurst \in Nat
  BY TriGateAssumption DEF GatesInv, GatesType
<1>3. ASSUME NEW i \in Numbers
      PROVE  events[i].at \in Nat /\ events[i].at <= clock
  <2>1. events[i] \in Entry
    BY DEF GatesInv, GatesType, Numbers
  <2>2. QED
    BY <2>1 DEF GatesInv, Past, Entry
<1>4. IsFiniteSet(before) /\ n \notin before /\ Cardinality(before) < MaxBurst
  <2>1. before \subseteq 1..Len(events) /\ Len(events) \in Nat /\ Numbers = 1..Len(events)
    BY DEF Recent, Accepted, Numbers, GatesInv, GatesType
  <2>2. IsFiniteSet(1..Len(events))
    BY <2>1, FS_Interval
  <2>3. IsFiniteSet(before)
    BY <2>1, <2>2, FS_Subset
  <2>4. QED
    BY <1>1, <2>1, <2>3 DEF Accept
<1>5. Cardinality(before \cup {n}) <= MaxBurst
  <2>1. Cardinality(before \cup {n}) = Cardinality(before) + 1
    BY <1>4, FS_AddElement
  <2>2. Cardinality(before) \in Nat
    BY <1>4, FS_CardinalityType
  <2>3. QED
    BY <1>2, <1>4, <2>1, <2>2
<1> HIDE DEF n
<1>6. Through' = Through \cup {n} /\ Through \subseteq Numbers /\ n \notin Through
  BY <1>1 DEF Through, Filtered
<1>7. ASSUME NEW i \in Through', events'[i].at = clock, events'[i].kind.key = k.key
      PROVE  Cardinality(Burst(i)') <= MaxBurst
  <2>1. ASSUME NEW j \in Through, j \in Burst(i)'
        PROVE  j \in before
    BY <1>1, <1>2, <1>3, <1>6, <1>7, <2>1 DEF Burst, Recent, Accepted, Through
  <2>2. Burst(i)' \subseteq Through'
    BY DEF Burst
  <2>3. Burst(i)' \subseteq before \cup {n}
    BY <1>6, <2>1, <2>2
  <2>4. /\ IsFiniteSet(before \cup {n}) /\ Cardinality(before \cup {n}) \in Nat
        /\ Cardinality(Burst(i)') <= Cardinality(before \cup {n})
        /\ Cardinality(Burst(i)') \in Nat
    BY <1>4, <2>3, FS_AddElement, FS_Subset, FS_CardinalityType
  <2>5. QED
    BY <1>2, <1>5, <2>4
<1>8. ASSUME NEW i \in Through', ~(events'[i].at = clock /\ events'[i].kind.key = k.key)
      PROVE  i \in Through /\ Burst(i)' = Burst(i)
  <2>1. i \in Through
    BY <1>1, <1>6, <1>8
  <2>2. n \notin Burst(i)'
    BY <1>1, <1>2, <1>3, <1>6, <1>8, <2>1 DEF Burst
  <2>3. ASSUME NEW j \in Through
        PROVE  j \in Burst(i)' <=> j \in Burst(i)
    BY <1>1, <1>6, <2>1, <2>3 DEF Burst
  <2>4. Burst(i)' \subseteq Through' /\ Burst(i) \subseteq Through
    BY DEF Burst
  <2>5. QED
    BY <1>6, <2>1, <2>2, <2>3, <2>4
<1>9. \A i \in Through : Cardinality(Burst(i)) <= MaxBurst
  BY DEF BurstCapped, Burst, GatesInv
<1>10. \A i \in Through' : Cardinality(Burst(i)') <= MaxBurst
  BY <1>5, <1>7, <1>8, <1>9
<1>11. QED
  BY <1>10 DEF BurstCapped, Burst


-----------------------------------------------------------------------------
LEMMA EntryAt ==
  ASSUME GatesType, NEW i \in Numbers
  PROVE  /\ events[i] \in Entry /\ events[i].kind \in Kinds /\ events[i].at \in Nat
         /\ events[i].kind.entity \in Entities
         /\ hits[events[i].kind.entity] \in Nat
<1>1. events[i] \in Entry
  BY DEF GatesType, Numbers
<1>2. events[i].kind \in Kinds /\ events[i].at \in Nat
  BY <1>1 DEF Entry
<1>3. events[i].kind.entity \in Entities
  BY <1>2, KindsTyped
<1>4. QED
  BY <1>1, <1>2, <1>3 DEF GatesType

LEMMA PublishStep ==
  ASSUME GatesInv, NEW k \in Kinds, Publish(k)
  PROVE  GatesInv'
<1>1. PICK stage \in Filtered \cup {"gate1"} :
        Enter(k, stage) /\ (stage \in Filtered \/ Accept(k))
  BY DEF Publish, DropRepeated, DropDuplicate, DropBurst, Accept, Filtered
<1> DEFINE n == Len(events) + 1
<1>2. /\ UNCHANGED <<clock, hits>> /\ GatesType'
      /\ Numbers' = Numbers \cup {n} /\ n \notin Numbers
      /\ events'[n].at = clock /\ events'[n].stage = stage
      /\ \A i \in Numbers : events'[i] = events[i]
  BY <1>1, Entering DEF GatesInv
<1> HIDE DEF n
<1>3. BurstCapped'
  BY <1>1, DropKeepsBursts, AcceptKeepsBursts
<1>4. Past'
  BY <1>2 DEF GatesInv, GatesType, Past
<1>5. stage # "final"
  BY DEF Filtered
<1>6. Counted'
  BY <1>2, <1>5 DEF GatesInv, Counted
<1>7. QED
  BY <1>2, <1>3, <1>4, <1>6 DEF GatesInv

\* Gates 1 and 2 send an event on, neither back to a filter nor to its end.
LEMMA RoutingKeeps ==
  ASSUME GatesInv, NEW i \in Numbers, NEW r \in Entry, UNCHANGED <<clock, hits>>,
         events' = [events EXCEPT ![i] = r], r.kind = events[i].kind, r.at = events[i].at,
         events[i].stage \in InGate, r.stage \in Stages \ (Filtered \cup {"final"})
  PROVE  GatesInv'
<1>1. /\ events' \in Seq(Entry) /\ Numbers' = Numbers /\ events'[i] = r
      /\ \A j \in Numbers : j # i => events'[j] = events[j]
  BY Deciding DEF GatesInv
<1>2. events[i].stage \notin Filtered /\ events[i].stage # "final"
  BY DEF InGate, Filtered
<1>3. BurstCapped'
  <2>1. \A j \in Numbers : /\ events'[j].kind = events[j].kind /\ events'[j].at = events[j].at
                           /\ events'[j].stage \in Filtered <=> events[j].stage \in Filtered
    BY <1>1, <1>2
  <2>2. QED
    BY <1>1, <2>1, SameBursts DEF GatesInv
<1>4. GatesType' /\ Past'
  BY <1>1 DEF GatesInv, GatesType, Past
<1>5. Counted'
  BY <1>1, <1>2 DEF GatesInv, Counted
<1>6. QED
  BY <1>3, <1>4, <1>5 DEF GatesInv

LEMMA Routes ==
  ASSUME NEW v \in {"pass", "hold", "block", "escalate"}
  PROVE  Route(v) \in Stages \ (Filtered \cup {"final"})
BY DEF Route, Stages, InGate, Filtered

LEMMA Gate1Step ==
  ASSUME GatesInv, NEW i \in Numbers, Gate1Decides(i)
  PROVE  GatesInv'
<1> DEFINE k == events[i].kind
           checked == k.isUser /\ k.device # None
<1>1. PICK hash \in Fingerprint(k.device), risky \in GeoRisk(k) :
        LET sure == checked => devices[k.entity] \in {None, hash}
            o == Gate1(k.event, sure, risky)
        IN  events' = [events EXCEPT ![i].stage = Route(o.verdict), ![i].outcome = o, ![i].trusted = sure]
  BY DEF Gate1Decides
<1> DEFINE sure == checked => devices[k.entity] \in {None, hash}
           o == Gate1(k.event, sure, risky)
           r == [events[i] EXCEPT !.stage = Route(o.verdict), !.outcome = o, !.trusted = sure]
<1>2. events[i] \in Entry /\ k \in Kinds /\ k.event \in Events
  BY EntryAt, KindsTyped DEF GatesInv
<1>3. risky \in Nat
  BY DEF GeoRisk
<1>4. o \in [verdict: {"pass", "hold", "block", "escalate"}, severity: Low..Critical]
  BY <1>2, <1>3, FirstTyped
<1>5. sure \in BOOLEAN
  OBVIOUS
<1>6. events' = [events EXCEPT ![i] = r]
  <2>1. events \in Seq(Entry) /\ i \in DOMAIN events
    BY DEF GatesInv, GatesType, Numbers
  <2> HIDE DEF o, sure
  <2>2. QED
    BY <1>1, <1>2, <2>1 DEF o, sure
<1> HIDE DEF o, sure
<1>7. Route(o.verdict) \in Stages \ (Filtered \cup {"final"})
  BY <1>4, Routes
<1>8. r \in Entry /\ r.kind = events[i].kind /\ r.at = events[i].at /\ r.stage = Route(o.verdict)
  BY <1>2, <1>4, <1>5, <1>7 DEF Entry, Verdicts
<1> HIDE DEF r
<1>9. events[i].stage \in InGate /\ UNCHANGED <<clock, hits>>
  BY DEF Gate1Decides, InGate
<1>10. QED
  BY <1>6, <1>7, <1>8, <1>9, RoutingKeeps

LEMMA Gate2Step ==
  ASSUME GatesInv, NEW i \in Numbers, Gate2Decides(i)
  PROVE  GatesInv'
<1> DEFINE k == events[i].kind
           next(v) == CASE v = "pass" -> "cleared" [] v = "error" -> "error" [] OTHER -> Route(v)
<1>1. PICK late \in BOOLEAN :
        LET o == Gate2(k.event, events[i].outcome.severity, Cardinality(Session(i)), meta[k.entity], late)
        IN  events' = [events EXCEPT
              ![i].stage = CASE o.verdict = "pass" -> "cleared"
                             [] o.verdict = "error" -> "error"
                             [] OTHER -> Route(o.verdict),
              ![i].outcome = o, ![i].session = TRUE]
  BY DEF Gate2Decides
<1> DEFINE o == Gate2(k.event, events[i].outcome.severity, Cardinality(Session(i)), meta[k.entity], late)
           r == [events[i] EXCEPT !.stage = next(o.verdict), !.outcome = o, !.session = TRUE]
<1>2. events[i] \in Entry /\ k \in Kinds /\ k.event \in Events /\ events[i].outcome.severity \in Low..Critical
  BY EntryAt, KindsTyped DEF GatesInv, Entry
<1>3. o \in [verdict: {"pass", "block", "escalate", "error"}, severity: Low..Critical]
  BY <1>2, SecondTyped
<1>4. events' = [events EXCEPT ![i] = r]
  <2>1. events \in Seq(Entry) /\ i \in DOMAIN events
    BY DEF GatesInv, GatesType, Numbers
  <2> HIDE DEF o
  <2>2. QED
    BY <1>1, <1>2, <2>1 DEF o
<1> HIDE DEF o
<1>5. next(o.verdict) \in Stages \ (Filtered \cup {"final"})
  BY <1>3, Routes DEF Stages, InGate, Filtered
<1> HIDE DEF next
<1>6. r \in Entry /\ r.kind = events[i].kind /\ r.at = events[i].at /\ r.stage = next(o.verdict)
  BY <1>2, <1>3, <1>5 DEF Entry, Verdicts
<1> HIDE DEF r
<1>7. events[i].stage \in InGate /\ UNCHANGED <<clock, hits>>
  BY DEF Gate2Decides, InGate, gateVars
<1>8. QED
  BY <1>4, <1>5, <1>6, <1>7, RoutingKeeps


\* Gate 3 ends an event with the next number of its entity.
LEMMA Gate3Step ==
  ASSUME GatesInv, NEW i \in Numbers, Gate3Decides(i)
  PROVE  GatesInv'
<1> DEFINE k == events[i].kind
           e == k.entity
           repeat == hits[e] + 1
           severity == IF repeat >= 3 THEN Critical ELSE events[i].outcome.severity
           r == [events[i] EXCEPT !.stage = "final", !.repeat = repeat, !.outcome = Outcome("block", severity)]
<1>1. /\ events[i].stage = "gate3" /\ UNCHANGED clock /\ hits' = [hits EXCEPT ![e] = repeat]
      /\ events' = [events EXCEPT ![i].stage = "final", ![i].repeat = repeat,
                                  ![i].outcome = Outcome("block", severity)]
  BY DEF Gate3Decides
<1>2. events[i] \in Entry /\ e \in Entities /\ hits[e] \in Nat /\ events[i].outcome.severity \in Low..Critical
  BY EntryAt DEF GatesInv, Entry
<1>3. repeat \in Nat \ {0} /\ severity \in Low..Critical /\ (repeat >= 3 => severity = Critical)
  BY <1>2 DEF Low, Critical
<1>4. events' = [events EXCEPT ![i] = r]
  <2>1. events \in Seq(Entry) /\ i \in DOMAIN events
    BY DEF GatesInv, GatesType, Numbers
  <2> HIDE DEF repeat, severity
  <2>2. QED
    BY <1>1, <1>2, <2>1
<1> HIDE DEF repeat, severity
<1>5. /\ r \in Entry /\ r.kind = events[i].kind /\ r.at = events[i].at /\ r.stage = "final"
      /\ r.repeat = repeat /\ r.outcome.severity = severity
  BY <1>2, <1>3 DEF Entry, Verdicts, Outcome, Stages
<1> HIDE DEF r
<1>6. /\ events' \in Seq(Entry) /\ Numbers' = Numbers /\ events'[i] = r
      /\ \A j \in Numbers : j # i => events'[j] = events[j]
  BY <1>4, <1>5, Deciding DEF GatesInv
<1>7. BurstCapped'
  <2>1. \A j \in Numbers : /\ events'[j].kind = events[j].kind /\ events'[j].at = events[j].at
                           /\ events'[j].stage \in Filtered <=> events[j].stage \in Filtered
    BY <1>1, <1>5, <1>6 DEF Filtered
  <2>2. QED
    BY <1>6, <2>1, SameBursts DEF GatesInv
<1>8. hits' \in [Entities -> Nat] /\ hits'[e] = hits[e] + 1
      /\ \A f \in Entities : f # e => hits'[f] = hits[f]
  BY <1>1, <1>2, <1>3 DEF GatesInv, GatesType, repeat
<1>9. GatesType' /\ Past'
  <2>1. GatesType'
    BY <1>1, <1>6, <1>8 DEF GatesInv, GatesType
  <2>2. \A j \in Numbers : events'[j].at = events[j].at
    BY <1>5, <1>6
  <2>3. QED
    BY <1>1, <1>6, <2>1, <2>2 DEF GatesInv, Past
<1>10. Counted'
  <2>1. ASSUME NEW j \in Numbers, j # i, events[j].stage = "final"
        PROVE  /\ events[j].repeat \in Int /\ events[j].repeat \in 1..hits'[events[j].kind.entity]
               /\ events[j].kind.entity = e => events[j].repeat < repeat
    <3>1. events[j].kind.entity \in Entities /\ hits[events[j].kind.entity] \in Nat
      BY EntryAt DEF GatesInv
    <3>2. events[j].repeat \in 1..hits[events[j].kind.entity]
      BY <2>1 DEF GatesInv, Counted
    <3>3. QED
      BY <1>2, <1>8, <3>1, <3>2 DEF repeat
  <2>2. repeat \in 1..hits'[e]
    BY <1>2, <1>8 DEF repeat
  <2>3. SUFFICES ASSUME NEW m \in Numbers, events'[m].stage = "final"
                 PROVE  /\ events'[m].repeat \in 1..hits'[events'[m].kind.entity]
                        /\ events'[m].repeat >= 3 => events'[m].outcome.severity = Critical
                        /\ \A j \in Numbers :
                             j # m /\ events'[j].stage = "final" /\ events'[j].kind.entity = events'[m].kind.entity =>
                               events'[j].repeat # events'[m].repeat
    BY <1>6 DEF Counted
  <2>4. CASE m = i
    BY <1>2, <1>3, <1>5, <1>6, <2>1, <2>2, <2>4
  <2>5. CASE m # i
    <3>1. events'[m] = events[m] /\ events[m].stage = "final"
      BY <1>6, <2>3, <2>5
    <3>2. /\ events[m].repeat >= 3 => events[m].outcome.severity = Critical
          /\ \A j \in Numbers :
               j # m /\ events[j].stage = "final" /\ events[j].kind.entity = events[m].kind.entity =>
                 events[j].repeat # events[m].repeat
      BY <3>1 DEF GatesInv, Counted
    <3>3. events[m].repeat \in 1..hits'[events[m].kind.entity]
      BY <2>1, <2>5, <3>1
    <3>4. ASSUME NEW j \in Numbers, j # m, events'[j].stage = "final",
                 events'[j].kind.entity = events[m].kind.entity
          PROVE  events'[j].repeat # events[m].repeat
      <4>1. CASE j = i
        BY <1>3, <1>5, <1>6, <2>1, <2>5, <3>1, <3>4, <4>1
      <4>2. CASE j # i
        BY <1>6, <3>2, <3>4, <4>2
      <4>3. QED
        BY <4>1, <4>2
    <3>5. QED
      BY <3>1, <3>2, <3>3, <3>4
  <2>6. QED
    BY <2>4, <2>5
<1>11. QED
  BY <1>7, <1>9, <1>10 DEF GatesInv

LEMMA GatesStart == Init => GatesInv
<1> SUFFICES ASSUME Init PROVE GatesInv
  OBVIOUS
<1>1. GatesType
  BY DEF Init, GatesType
<1>2. Numbers = {}
  BY DEF Init, Numbers
<1>3. Past /\ BurstCapped /\ Counted
  BY <1>2 DEF Past, BurstCapped, Counted, Through
<1>4. QED
  BY <1>1, <1>3 DEF GatesInv

LEMMA GatesStep == GatesInv /\ [Next]_vars => GatesInv'
<1> SUFFICES ASSUME GatesInv, [Next]_vars
             PROVE  GatesInv'
  OBVIOUS
<1>1. CASE Tick
  <2>1. events' = events /\ hits' = hits /\ clock' = clock + 1 /\ clock \in Nat
    BY <1>1 DEF Tick, gateVars, GatesInv, GatesType
  <2>2. GatesType'
    BY <2>1 DEF GatesInv, GatesType
  <2>3. Past'
    <3>1. \A i \in Numbers : events[i].at \in Nat /\ events[i].at <= clock
      BY EntryAt DEF GatesInv, Past
    <3>2. QED
      BY <2>1, <3>1 DEF Past, Numbers
  <2>4. BurstCapped' /\ Counted'
    BY <2>1 DEF GatesInv, BurstCapped, Counted, Through, Numbers
  <2>5. QED
    BY <2>2, <2>3, <2>4 DEF GatesInv
<1>2. ASSUME NEW k \in Kinds, Publish(k)
      PROVE  GatesInv'
  BY <1>2, PublishStep
<1>3. ASSUME NEW i \in Numbers, Gate1Decides(i) \/ Gate2Decides(i) \/ Gate3Decides(i)
      PROVE  GatesInv'
  BY <1>3, Gate1Step, Gate2Step, Gate3Step
<1>4. CASE \/ \E e \in Entities : RiskForgotten(e) \/ \E r \in Risks : RiskReported(e, r)
           \/ \E t \in Types, e \in Entities : EntryForgotten(t, e)
           \/ UNCHANGED vars
  <2>1. events' = events /\ hits' = hits /\ clock' = clock
    BY <1>4 DEF RiskForgotten, RiskReported, EntryForgotten, vars, gateVars
  <2>2. QED
    BY <2>1 DEF GatesInv, GatesType, Past, BurstCapped, Counted, Through, Numbers
<1>5. QED
  BY <1>1, <1>2, <1>3, <1>4 DEF Next

LEMMA UpTo ==
  ASSUME NEW n \in Nat
  PROVE  IsFiniteSet(1..n) /\ Cardinality(1..n) = n
<1>1. 1 \in Int /\ n \in Int
  OBVIOUS
<1>2. IsFiniteSet(1..n) /\ Cardinality(1..n) = IF 1 > n THEN 0 ELSE n - 1 + 1
  BY <1>1, FS_Interval, Zenon
<1>3. QED
  BY <1>2

\* Two numbers below three: at most two decisions below CRITICAL.
LEMMA FewLenient == GatesType /\ Counted => RepeatersAreCritical
<1> SUFFICES ASSUME GatesType, Counted, NEW e \in Entities
             PROVE  Cardinality({i \in Numbers :
                      /\ events[i].stage = "final" /\ events[i].kind.entity = e
                      /\ events[i].outcome.severity < Critical}) <= 2
  BY DEF RepeatersAreCritical
<1> DEFINE Lenient == {i \in Numbers :
                         /\ events[i].stage = "final" /\ events[i].kind.entity = e
                         /\ events[i].outcome.severity < Critical}
           number == [i \in Lenient |-> events[i].repeat]
<1>1. ASSUME NEW i \in Lenient
      PROVE  events[i].repeat \in 1..2
  <2>1. hits[e] \in Nat
    BY DEF GatesType
  <2>2. /\ events[i].repeat \in 1..hits[e]
        /\ events[i].repeat >= 3 => events[i].outcome.severity = Critical
    BY DEF Counted
  <2>3. ~(events[i].repeat >= 3)
    BY <2>2 DEF Critical
  <2>4. QED
    BY <2>1, <2>2, <2>3
<1>2. \A i, j \in Lenient : events[i].repeat = events[j].repeat => i = j
  BY DEF Counted
<1> HIDE DEF Lenient
<1>3. number \in Injection(Lenient, 1..2)
  BY <1>1, <1>2 DEF Injection, IsInjective
<1>4. IsFiniteSet(1..2) /\ Cardinality(1..2) = 2
  BY UpTo
<1>5. Cardinality(Lenient) <= 2
  BY <1>3, <1>4, FS_Injection
<1>6. QED
  BY <1>5 DEF Lenient

\* No key gets more than MaxBurst events through the filters of Gate 1 within
\* the burst window, whatever the windows and however the events overtake each
\* other in the gates.
THEOREM Capped == Spec => []BurstCapped
<1>1. GatesInv => BurstCapped
  BY DEF GatesInv
<1>2. QED
  BY <1>1, GatesStart, GatesStep, PTL DEF Spec

\* Of all final decisions about an entity at most two are below CRITICAL.
THEOREM Escalates == Spec => []RepeatersAreCritical
<1>1. GatesInv => RepeatersAreCritical
  BY FewLenient DEF GatesInv
<1>2. QED
  BY <1>1, GatesStart, GatesStep, PTL DEF Spec
=============================================================================
