---------------------------- MODULE Engines_proofs ----------------------------
(***************************************************************************)
(* Proofs about the engines on the event bus, for every story, every        *)
(* threshold and every number of events and hours.                          *)
(***************************************************************************)
EXTENDS Engines, FiniteSetTheorems, WellFoundedInduction, TLAPS

-----------------------------------------------------------------------------
(* The quarantine. *)

\* Where the set of quarantined devices and the record of a device agree.
Agree(d) == devices[d].is_quarantined <=> d \in quarantined

\* A record has its fields; what scores they hold plays no part.
Fields == {"health_score", "trust_score", "anomaly_count", "is_trusted", "is_quarantined"}

DeviceType == \A d \in DOMAIN devices : DOMAIN devices[d] = Fields

\* A recalculation leaves the quarantine alone.
LEMMA Recalculation ==
  ASSUME NEW r, DOMAIN r = Fields
  PROVE  /\ DOMAIN Device!Recalculated(r) = Fields
         /\ Device!Recalculated(r).is_quarantined = r.is_quarantined
BY DEF Device!Recalculated, Fields

LEMMA Locking ==
  ASSUME NEW r, DOMAIN r = Fields
  PROVE  DOMAIN Device!Locked(r) = Fields /\ Device!Locked(r).is_quarantined
BY DEF Device!Locked, Fields

\* An event changes the scores of a record and nothing else of it.
LEMMA Scoring ==
  ASSUME NEW r, DOMAIN r = Fields, NEW e
  PROVE  /\ DOMAIN Device!AfterEvent(r, e) = Fields
         /\ Device!AfterEvent(r, e).is_quarantined = r.is_quarantined
<1> DEFINE sick == [r EXCEPT !.health_score = Device!Clamp(@ - 100)]
           blamed == [r EXCEPT !.anomaly_count = @ + 1]
<1>1. DOMAIN sick = Fields /\ sick.is_quarantined = r.is_quarantined
  BY DEF Fields
<1>2. DOMAIN blamed = Fields /\ blamed.is_quarantined = r.is_quarantined
  BY DEF Fields
<1> HIDE DEF sick, blamed
<1>3. Device!AfterEvent(r, e) \in {r, Device!Recalculated(sick), blamed}
  BY DEF Device!AfterEvent, sick, blamed
<1>4. QED
  BY <1>1, <1>2, <1>3, Recalculation

\* What a step of the device engine has to keep.
Kept(d) ==
  /\ DOMAIN devices'[d] = Fields
  /\ d \in DOMAIN devices /\ Agree(d) => (devices'[d].is_quarantined <=> d \in quarantined')

LEMMA OnEvent ==
  ASSUME DeviceType, NEW e, Device!On(e)
  PROVE  \A d \in DOMAIN devices' : Kept(d)
<1> DEFINE named == Device!DeviceOf(e)
           seen == Device!AfterEvent(devices[named], e)
           struck == IF Device!Quarantines(e) THEN Device!Locked(seen) ELSE seen
           left == Device!Settled(struck, e)
<1>1. /\ quarantined' = IF Device!Quarantines(e) THEN quarantined \union {named} ELSE quarantined
      /\ \/ devices' = devices
         \/ named \in DOMAIN devices /\ devices' = [devices EXCEPT ![named] = left]
      /\ Device!Quarantines(e) => named \notin quarantined
  BY DEF Device!On, Device!Registered, Device!Quarantines
<1>2. Device!Quarantines(e) => named \notin DOMAIN devices \/ devices' = [devices EXCEPT ![named] = left]
  BY DEF Device!On, Device!Registered, Device!Quarantines, Device!Intruding, Device!Compromising
<1>3. ASSUME named \in DOMAIN devices
      PROVE  /\ DOMAIN left = Fields
             /\ left.is_quarantined <=> Device!Quarantines(e) \/ devices[named].is_quarantined
  <2>1. DOMAIN seen = Fields /\ seen.is_quarantined = devices[named].is_quarantined
    BY <1>3, Scoring DEF DeviceType
  <2> HIDE DEF seen
  <2>2. DOMAIN struck = Fields /\ (struck.is_quarantined <=> Device!Quarantines(e) \/ devices[named].is_quarantined)
    BY <2>1, Locking
  <2> HIDE DEF struck
  <2>3. QED
    BY <2>2, Recalculation DEF Device!Settled
<1> HIDE DEF named, left
<1>4. ASSUME NEW d \in DOMAIN devices'
      PROVE  Kept(d)
  <2>1. CASE d = named /\ devices' = [devices EXCEPT ![named] = left]
    BY <1>1, <1>3, <2>1 DEF Kept, Agree
  <2>2. CASE ~(d = named /\ devices' = [devices EXCEPT ![named] = left])
    <3>1. d \in DOMAIN devices /\ devices'[d] = devices[d]
      BY <1>1, <1>4, <2>2
    <3>2. d \in quarantined' <=> d \in quarantined
      BY <1>1, <1>2, <2>2, <3>1
    <3>3. QED
      BY <3>1, <3>2 DEF Kept, Agree, DeviceType
  <2>3. QED
    BY <2>1, <2>2
<1>5. QED
  BY <1>4

LEMMA OnRegister ==
  ASSUME DeviceType, NEW k, NEW health, Device!RegisterDevice(k, health)
  PROVE  \A d \in DOMAIN devices' : Kept(d)
<1> DEFINE fresh == [health_score |-> health, trust_score |-> 0, anomaly_count |-> 0,
                     is_trusted |-> FALSE, is_quarantined |-> FALSE]
<1>1. DOMAIN fresh = Fields
  BY DEF Fields
<1>2. DOMAIN Device!NewRecord(health) = Fields
  BY <1>1, Recalculation DEF Device!NewRecord
<1>3. \/ devices' = devices
      \/ k \notin DOMAIN devices /\ devices' = Device!With(devices, k, Device!NewRecord(health))
  BY DEF Device!RegisterDevice, Device!Registered
<1>4. quarantined' = quarantined
  BY DEF Device!RegisterDevice
<1>5. QED
  BY <1>2, <1>3, <1>4 DEF Device!With, Kept, Agree, DeviceType

LEMMA OnApprove ==
  ASSUME DeviceType, NEW k, Device!ApproveDevice(k)
  PROVE  \A d \in DOMAIN devices' : Kept(d)
<1>1. quarantined' = quarantined
  BY DEF Device!ApproveDevice
<1>2. \/ devices' = devices
      \/ k \in DOMAIN devices /\ devices' = [devices EXCEPT ![k] = Device!Recalculated(devices[k])]
  BY DEF Device!ApproveDevice, Device!Registered
<1>3. QED
  BY <1>1, <1>2, Recalculation DEF Kept, Agree, DeviceType

LEMMA OnReject ==
  ASSUME DeviceType, NEW k, Device!RejectDevice(k)
  PROVE  \A d \in DOMAIN devices' : Kept(d)
BY DEF Device!RejectDevice, Kept, Agree, DeviceType

LEMMA OnHealth ==
  ASSUME DeviceType, NEW k, NEW health, Device!UpdateDeviceHealth(k, health)
  PROVE  \A d \in DOMAIN devices' : Kept(d)
<1> DEFINE scored == Device!Recalculated([devices[k] EXCEPT !.health_score = health])
           left == IF Device!Sick(k, health) THEN Device!Locked(scored) ELSE scored
<1>1. /\ devices' = IF k \notin DOMAIN devices THEN devices ELSE [devices EXCEPT ![k] = left]
      /\ quarantined' = IF Device!Sick(k, health) THEN quarantined \union {k} ELSE quarantined
      /\ Device!Sick(k, health) => k \in DOMAIN devices
  BY DEF Device!UpdateDeviceHealth, Device!Registered, Device!Sick
<1>2. ASSUME k \in DOMAIN devices
      PROVE  /\ DOMAIN left = Fields
             /\ left.is_quarantined <=> Device!Sick(k, health) \/ devices[k].is_quarantined
  <2> DEFINE told == [devices[k] EXCEPT !.health_score = health]
  <2>1. DOMAIN told = Fields /\ told.is_quarantined = devices[k].is_quarantined
    BY <1>2 DEF DeviceType, Fields
  <2> HIDE DEF told
  <2>2. DOMAIN scored = Fields /\ scored.is_quarantined = devices[k].is_quarantined
    BY <2>1, Recalculation DEF told
  <2> HIDE DEF scored
  <2>3. QED
    BY <2>2, Locking
<1> HIDE DEF left
<1>3. QED
  BY <1>1, <1>2 DEF Kept, Agree, DeviceType

LEMMA OnRelease ==
  ASSUME DeviceType, NEW k, Device!UnquarantineDevice(k)
  PROVE  \A d \in DOMAIN devices' : Kept(d)
<1> DEFINE freed == Device!Recalculated([devices[k] EXCEPT !.is_quarantined = FALSE, !.anomaly_count = 0])
<1>1. /\ devices' = IF k \in quarantined /\ k \in DOMAIN devices THEN [devices EXCEPT ![k] = freed] ELSE devices
      /\ quarantined' = quarantined \ {k}
  BY DEF Device!UnquarantineDevice, Device!Registered
<1>2. ASSUME k \in DOMAIN devices
      PROVE  DOMAIN freed = Fields /\ ~freed.is_quarantined
  <2> DEFINE opened == [devices[k] EXCEPT !.is_quarantined = FALSE, !.anomaly_count = 0]
  <2>1. DOMAIN opened = Fields /\ opened.is_quarantined = FALSE
    BY <1>2 DEF DeviceType, Fields
  <2> HIDE DEF opened
  <2>2. QED
    BY <2>1, Recalculation DEF opened
<1> HIDE DEF freed
<1>3. QED
  BY <1>1, <1>2 DEF Kept, Agree, DeviceType

LEMMA DevicesKept ==
  ASSUME DeviceType, [Next]_vars
  PROVE  \A d \in DOMAIN devices' : Kept(d)
<1>1. ASSUME UNCHANGED deviceVars
      PROVE  \A d \in DOMAIN devices' : Kept(d)
  BY <1>1 DEF deviceVars, Kept, Agree, DeviceType
<1>2. CASE External \/ MemoryScan \/ NextChapter
  BY <1>1, <1>2 DEF External, MemoryScan, NextChapter, engineVars
<1>3. CASE Handle
  BY <1>3, OnEvent DEF Handle
<1>4. CASE DecoyOpens \/ AlertStored \/ Evaluate \/ HourPasses
  BY <1>1, <1>4 DEF DecoyOpens, AlertStored, Evaluate, HourPasses
<1>5. CASE DeviceCall
  BY <1>5, OnRegister, OnApprove, OnReject, OnHealth, OnRelease DEF DeviceCall
<1>6. CASE AnalystCall \/ IntelCall \/ PeerCall
  BY <1>1, <1>6 DEF AnalystCall, IntelCall, PeerCall
<1>7. CASE Over \/ UNCHANGED vars
  BY <1>1, <1>7 DEF Over, vars, engineVars
<1>8. QED
  BY <1>2, <1>3, <1>4, <1>5, <1>6, <1>7 DEF Next

THEOREM RecordsTyped == Spec => []DeviceType
<1>1. Init => DeviceType
  BY DEF Init, Device!Init, DeviceType
<1>2. DeviceType /\ [Next]_vars => DeviceType'
  BY DevicesKept DEF DeviceType, Kept
<1>3. QED
  BY <1>1, <1>2, PTL DEF Spec

\* Where the set and the record of a device agree on its quarantine, they agree
\* after every step that keeps the record.
THEOREM Holds == Spec => QuarantineHolds
<1>1. DeviceType /\ [Next]_vars =>
        [\A d \in DOMAIN devices \intersect DOMAIN devices' :
           (devices[d].is_quarantined <=> d \in quarantined) => (devices'[d].is_quarantined <=> d \in quarantined')]_vars
  BY DevicesKept DEF Kept, Agree
<1>2. QED
  BY <1>1, RecordsTyped, PTL DEF Spec, QuarantineHolds

-----------------------------------------------------------------------------
(* Sequences of events. *)

\* A sequence, whatever it holds.
IsSeq(s) == s \in Seq({s[i] : i \in DOMAIN s})

LEMMA Sequences ==
  ASSUME NEW S, NEW s \in Seq(S)
  PROVE  IsSeq(s)
<1> DEFINE R == {s[i] : i \in 1..Len(s)}
<1>1. Len(s) \in Nat /\ DOMAIN s = 1..Len(s) /\ s \in [1..Len(s) -> S]
  OBVIOUS
<1>2. \A i \in 1..Len(s) : s[i] \in R
  OBVIOUS
<1> HIDE DEF R
<1>3. s \in [1..Len(s) -> R]
  BY <1>1, <1>2
<1>4. s \in Seq(R)
  BY <1>1, <1>3
<1>5. QED
  BY <1>1, <1>4 DEF IsSeq, R

LEMMA SetsOfSeqs ==
  ASSUME NEW s, IsSeq(s), NEW T, \A i \in DOMAIN s : s[i] \in T
  PROVE  s \in Seq(T) /\ Len(s) \in Nat /\ DOMAIN s = 1..Len(s)
<1> DEFINE S == {s[i] : i \in DOMAIN s}
<1>1. s \in Seq(S) /\ S \subseteq T
  BY DEF IsSeq
<1> HIDE DEF S
<1>2. QED
  BY <1>1

LEMMA Appended ==
  ASSUME NEW s, IsSeq(s), NEW t
  PROVE  /\ IsSeq(Append(s, t)) /\ Len(s) \in Nat
         /\ Len(Append(s, t)) = Len(s) + 1
         /\ DOMAIN s = 1..Len(s) /\ DOMAIN Append(s, t) = 1..(Len(s) + 1)
         /\ Append(s, t)[Len(s) + 1] = t
         /\ \A i \in 1..Len(s) : Append(s, t)[i] = s[i]
<1> DEFINE S == {s[i] : i \in DOMAIN s} \cup {t}
<1>1. s \in Seq(S) /\ t \in S
  <2>1. t \in S /\ \A i \in DOMAIN s : s[i] \in S
    OBVIOUS
  <2> HIDE DEF S
  <2>2. QED
    BY <2>1, SetsOfSeqs
<1> HIDE DEF S
<1>2. Append(s, t) \in Seq(S) /\ Len(Append(s, t)) = Len(s) + 1 /\ Len(s) \in Nat /\ DOMAIN s = 1..Len(s)
  BY <1>1
<1>3. Append(s, t)[Len(s) + 1] = t /\ \A i \in 1..Len(s) : Append(s, t)[i] = s[i]
  BY <1>1, <1>2
<1>4. IsSeq(Append(s, t))
  BY <1>2, Sequences
<1>5. DOMAIN Append(s, t) = 1..(Len(s) + 1)
  BY <1>2
<1>6. QED
  BY <1>2, <1>3, <1>4, <1>5

LEMMA Joined ==
  ASSUME NEW s, IsSeq(s), NEW t, IsSeq(t)
  PROVE  IsSeq(s \o t)
<1> DEFINE S == {s[i] : i \in DOMAIN s} \cup {t[i] : i \in DOMAIN t}
<1>1. (\A i \in DOMAIN s : s[i] \in S) /\ (\A i \in DOMAIN t : t[i] \in S)
  OBVIOUS
<1> HIDE DEF S
<1>2. s \in Seq(S) /\ t \in Seq(S)
  BY <1>1, SetsOfSeqs
<1>3. s \o t \in Seq(S)
  BY <1>2
<1>4. QED
  BY <1>3, Sequences

LEMMA Singles ==
  /\ IsSeq(<<>>)
  /\ \A x : IsSeq(<<x>>)
<1>1. <<>> \in Seq({})
  OBVIOUS
<1>2. ASSUME NEW x PROVE <<x>> \in Seq({x})
  OBVIOUS
<1>3. QED
  BY <1>1, <1>2, Sequences

\* One element for every index.
LEMMA Indexed ==
  ASSUME NEW s, NEW n \in Nat, s = [i \in 1..n |-> s[i]]
  PROVE  IsSeq(s)
<1> DEFINE S == {s[i] : i \in 1..n}
<1>1. \A i \in 1..n : s[i] \in S
  OBVIOUS
<1> HIDE DEF S
<1>2. s \in [1..n -> S]
  BY <1>1
<1>3. s \in Seq(S)
  BY <1>2
<1>4. QED
  BY <1>3, Sequences

\* The elements of a finite set in some order.
LEMMA Enumerated ==
  ASSUME NEW S, IsFiniteSet(S)
  PROVE  /\ \E n \in Nat : DNA!SetToSeq(S) \in [1..n -> S]
         /\ \E n \in Nat : UEBA!SetToSeq(S) \in [1..n -> S]
         /\ \E n \in Nat : Comply!SetToSeq(S) \in [1..n -> S]
<1> DEFINE n == Cardinality(S)
           Orders(f) == \A a, b \in DOMAIN f : f[a] = f[b] => a = b
<1>1. n \in Nat /\ ExistsBijection(1..n, S)
  BY FS_CardinalityType
<1>2. PICK f \in [1..n -> S] : Orders(f)
  BY <1>1 DEF ExistsBijection, Bijection, Injection, IsInjective
<1>3. DNA!Cardinality(S) = n /\ UEBA!Cardinality(S) = n /\ Comply!Cardinality(S) = n
  BY DEF DNA!Cardinality, UEBA!Cardinality, Comply!Cardinality, Cardinality
<1> HIDE DEF n
<1>4. (CHOOSE g \in [1..n -> S] : Orders(g)) \in [1..n -> S]
  <2> HIDE DEF Orders
  <2>1. QED
    BY <1>2
<1>5. /\ DNA!SetToSeq(S) = CHOOSE g \in [1..n -> S] : Orders(g)
      /\ UEBA!SetToSeq(S) = CHOOSE g \in [1..n -> S] : Orders(g)
      /\ Comply!SetToSeq(S) = CHOOSE g \in [1..n -> S] : Orders(g)
  BY <1>3 DEF DNA!SetToSeq, UEBA!SetToSeq, Comply!SetToSeq, DNA!IsInjective, UEBA!IsInjective, Comply!IsInjective
<1>6. QED
  BY <1>1, <1>4, <1>5

-----------------------------------------------------------------------------
(* What engines and agents publish are sequences. *)

LEMMA FewValues ==
  ASSUME NEW a, NEW b, NEW c, NEW S, S \subseteq {a, b, c}
  PROVE  IsFiniteSet(S)
<1>1. IsFiniteSet({a} \cup {b}) /\ IsFiniteSet(({a} \cup {b}) \cup {c})
  BY FS_Singleton, FS_AddElement
<1>2. S \in SUBSET (({a} \cup {b}) \cup {c})
  OBVIOUS
<1>3. QED
  BY <1>1, <1>2, FS_Subset

LEMMA FewLearners ==
  ASSUME NEW e
  PROVE  \E a, b, c : DNA!Learners(e) \subseteq {a, b, c}
<1> DEFINE a == DNA!Get(e.payload, "user_id", None)
           b == DNA!Get(e.payload, "src_ip", None)
           c == DNA!Get(e.payload, "device_id", None)
<1>1. DNA!Entities(e) \subseteq {a, b, c} \/ DNA!Entities(e) = {e.source}
  BY DEF DNA!Entities
<1> HIDE DEF a, b, c
<1>2. DNA!Learners(e) \in {{}, {e.payload.user_id}, DNA!Entities(e)}
  BY DEF DNA!Learners
<1>3. QED
  BY <1>1, <1>2

LEMMA DNAAlerts ==
  ASSUME NEW e, NEW hour
  PROVE  IsSeq(DNA!Alerts(e, hour))
<1>1. IsFiniteSet(DNA!Deviants(e, hour))
  <2>1. \E a, b, c : DNA!Learners(e) \subseteq {a, b, c}
    BY FewLearners
  <2>2. QED
    BY <2>1, FewValues DEF DNA!Deviants
<1> DEFINE ids == DNA!SetToSeq(DNA!Deviants(e, hour))
<1>2. PICK n \in Nat : DOMAIN ids = 1..n
  BY <1>1, Enumerated
<1>3. DNA!Alerts(e, hour) = [i \in DOMAIN ids |-> DNA!Alert(ids[i], e, hour)]
  BY DEF DNA!Alerts
<1> HIDE DEF ids
<1>4. QED
  BY <1>2, <1>3, Indexed

LEMMA UEBAAlerts ==
  ASSUME NEW e, NEW hour
  PROVE  IsSeq(UEBA!Alerts(e, hour))
<1>1. \E a, b, c : UEBA!Entities(e) \subseteq {a, b, c}
  <2> DEFINE a == UEBA!Get(e.payload, "user_id", None)
             b == UEBA!Get(e.payload, "src_ip", None)
             c == UEBA!Get(e.payload, "device_id", None)
  <2>1. UEBA!Entities(e) \subseteq {a, b, c} \/ UEBA!Entities(e) = {e.source}
    BY DEF UEBA!Entities
  <2> HIDE DEF a, b, c
  <2>2. QED
    BY <2>1
<1>2. IsFiniteSet(UEBA!Judged(e, hour))
  BY <1>1, FewValues DEF UEBA!Judged
<1> DEFINE ids == IF e.kind = "finding" THEN <<>> ELSE UEBA!SetToSeq(UEBA!Judged(e, hour))
           alert(id) == UEBA!ThreatEvent("UEBAEngine", "anomalous_behavior", "high",
                                         [entity_id |-> id, overall_anomaly_score |-> 600], e.depth + 1)
<1>3. PICK n \in Nat : DOMAIN ids = 1..n
  <2>1. DOMAIN <<>> = 1..0
    OBVIOUS
  <2>2. QED
    BY <1>2, <2>1, Enumerated
<1>4. UEBA!Alerts(e, hour) = [i \in DOMAIN ids |-> alert(ids[i])]
  BY DEF UEBA!Alerts
<1> HIDE DEF ids, alert
<1>5. QED
  BY <1>3, <1>4, Indexed

LEMMA ComplyFindings ==
  ASSUME NEW e
  PROVE  IsSeq(Comply!Findings(e))
<1> DEFINE outliers == {metric \in Comply!Measured(e) : Comply!Outlier(e, metric)}
           odd == Comply!SetToSeq(outliers)
<1>1. outliers \subseteq {"packet_rate", "data_volume_gb", "unusual_data_volume_gb"}
  BY DEF Comply!Measured, Comply!Metrics
<1> HIDE DEF outliers
<1>2. PICK n \in Nat : DOMAIN odd = 1..n
  BY <1>1, FewValues, Enumerated
<1> HIDE DEF odd
<1>3. Comply!Findings(e) = [i \in 1..n |-> Comply!Findings(e)[i]]
  BY <1>2 DEF Comply!Findings, odd, outliers
<1>4. QED
  BY <1>3, Indexed

LEMMA DeviceAlerts ==
  /\ \A e : IsSeq(Device!Alerts(e))
  /\ \A d, health : IsSeq(Device!HealthAlerts(d, health))
<1>1. \A d, depth : IsSeq(Device!Announcement(d, depth))
  BY Singles DEF Device!Announcement
<1>2. QED
  BY <1>1, Singles DEF Device!Alerts, Device!HealthAlerts

LEMMA IntelAlerts ==
  /\ \A e : IsSeq(Intel!Alerts(e))
  /\ \A type, confidence : IsSeq(Intel!Mention(type, confidence))
BY Singles DEF Intel!Alerts, Intel!Mention

LEMMA PhysicalAlerts ==
  ASSUME NEW e
  PROVE  IsSeq(Physical!Alerts(e))
<1>1. \A condition, event : IsSeq(Physical!If(condition, event))
  BY Singles DEF Physical!If
<1>2. \A s, depth : IsSeq(Physical!Anomalies(s, depth))
  BY <1>1, Joined DEF Physical!Anomalies
<1>3. \A user, kind, severity, depth : IsSeq(Physical!Mismatch(user, kind, severity, depth))
  BY Singles DEF Physical!Mismatch
<1>4. IsSeq(Physical!Mismatches(e))
  BY <1>3, Singles DEF Physical!Mismatches
<1>5. QED
  BY <1>2, <1>4, Singles DEF Physical!Alerts

LEMMA InsiderAlerts ==
  ASSUME NEW e
  PROVE  IsSeq(Insider!Alerts(e))
BY Singles DEF Insider!Alerts

LEMMA AgentSequences ==
  ASSUME NEW e, NEW hour
  PROVE  /\ IsSeq(Agents!ZeroTrust(e, hour)) /\ IsSeq(Agents!Cyber(e, hour)) /\ IsSeq(Agents!Phishing(e))
         /\ IsSeq(Agents!Malware(e)) /\ IsSeq(Agents!Identity(e)) /\ IsSeq(Agents!Surveillance(e))
<1>1. IsSeq(Agents!ZeroTrust(e, hour))
  BY Singles DEF Agents!ZeroTrust
<1>2. IsSeq(Agents!Cyber(e, hour))
  BY Singles DEF Agents!Cyber
<1>3. IsSeq(Agents!Phishing(e))
  BY Singles DEF Agents!Phishing, Agents!PhishingAs
<1>4. IsSeq(Agents!Malware(e)) /\ IsSeq(Agents!Identity(e)) /\ IsSeq(Agents!Surveillance(e))
  BY Singles DEF Agents!Malware, Agents!Identity, Agents!Surveillance
<1>5. QED
  BY <1>1, <1>2, <1>3, <1>4

LEMMA AgentFindings ==
  ASSUME NEW e, NEW hour
  PROVE  IsSeq(Agents!Findings(e, hour))
BY AgentSequences, Joined, Singles DEF Agents!Findings

LEMMA ConvergedFindings ==
  ASSUME IsSeq(order)
  PROVE  IsSeq(CSDE!Findings)
<1> DEFINE n == Cardinality(CSDE!Published)
<1>1. CSDE!Published \in SUBSET (1..Len(order)) /\ Len(order) \in Nat
  <2>1. DOMAIN order = 1..Len(order) /\ Len(order) \in Nat
    BY DEF IsSeq
  <2>2. QED
    BY <2>1 DEF CSDE!Published, CSDE!Reached
<1>2. IsFiniteSet(1..Len(order))
  BY <1>1, FS_Interval
<1>3. IsFiniteSet(CSDE!Published)
  BY <1>1, <1>2, FS_Subset
<1>4. n \in Nat
  BY <1>3, FS_CardinalityType
<1>5. CSDE!Cardinality(CSDE!Published) = n
  BY DEF CSDE!Cardinality, Cardinality
<1> HIDE DEF n
<1>6. CSDE!Findings = [k \in 1..n |-> CSDE!Findings[k]]
  BY <1>5 DEF CSDE!Findings
<1>7. QED
  BY <1>4, <1>6, Indexed

-----------------------------------------------------------------------------
(* Publication numbers the events in a row. *)

\* A set of natural numbers that is not empty has a least one.
LEMMA Least ==
  ASSUME NEW K \in SUBSET Nat, K # {}
  PROVE  \E k \in K : \A m \in K : k <= m
<1> DEFINE R == OpToRel(<, Nat)
<1>1. IsWellFoundedOn(R, Nat)
  BY NatLessThanWellFounded
<1>2. \A x, y \in Nat : y < x => <<y, x>> \in R
  BY DEF OpToRel
<1> HIDE DEF R
<1>3. PICK k \in K : \A m \in K : ~(<<m, k>> \in R)
  BY <1>1, WFMin
<1>4. ASSUME NEW m \in K
      PROVE  k <= m
  <2>1. k \in Nat /\ m \in Nat
    OBVIOUS
  <2>2. ~(m < k)
    BY <1>2, <1>3, <2>1
  <2>3. QED
    BY <2>1, <2>2
<1>5. QED
  BY <1>4

\* The states of the bus that AllPublished goes through exist.
Publishing(state, events, n, after) ==
  after = [k \in 0..n |-> IF k = 0 THEN state ELSE Published(after[k - 1], events[k])]

LEMMA PublishingEnds ==
  ASSUME NEW state, NEW events, NEW n \in Nat
  PROVE  \E after : Publishing(state, events, n, after)
<1> DEFINE B == {k \in Nat : ~\E after : Publishing(state, events, k, after)}
<1>1. SUFFICES ASSUME B # {} PROVE FALSE
  OBVIOUS
<1>2. PICK k \in B : \A m \in B : k <= m
  <2>1. B \in SUBSET Nat
    OBVIOUS
  <2> HIDE DEF B
  <2>2. QED
    BY <1>1, <2>1, Least
<1>3. k \in Nat /\ ~\E after : Publishing(state, events, k, after)
  OBVIOUS
<1>4. k # 0
  <2>1. Publishing(state, events, 0, [i \in 0..0 |-> state])
    BY DEF Publishing
  <2>2. QED
    BY <1>3, <2>1
<1>5. k - 1 \in Nat /\ k - 1 \notin B
  <2>1. k - 1 \in Nat /\ ~(k <= k - 1)
    BY <1>3, <1>4
  <2>2. QED
    BY <1>2, <2>1
<1>6. PICK after : Publishing(state, events, k - 1, after)
  BY <1>5
<1> DEFINE more == [i \in 0..k |-> IF i = k THEN Published(after[k - 1], events[k]) ELSE after[i]]
<1>7. ASSUME NEW i \in 0..k
      PROVE  more[i] = IF i = 0 THEN state ELSE Published(more[i - 1], events[i])
  <2>1. CASE i = k
    <3>1. more[i] = Published(after[k - 1], events[k]) /\ more[k - 1] = after[k - 1] /\ i # 0
      BY <1>3, <1>4, <2>1
    <3>2. QED
      BY <2>1, <3>1
  <2>2. CASE i # k
    <3>1. i \in 0..(k - 1) /\ more[i] = after[i]
      BY <1>3, <2>2
    <3>2. after[i] = IF i = 0 THEN state ELSE Published(after[i - 1], events[i])
      BY <1>6, <3>1 DEF Publishing
    <3>3. i # 0 => more[i - 1] = after[i - 1]
      BY <1>3, <3>1
    <3> HIDE DEF more
    <3>4. QED
      BY <3>1, <3>2, <3>3
  <2>3. QED
    BY <2>1, <2>2
<1>8. more = [i \in 0..k |-> more[i]]
  OBVIOUS
<1>9. Publishing(state, events, k, more)
  <2> HIDE DEF more
  <2>1. QED
    BY <1>7, <1>8 DEF Publishing
<1>10. QED
  BY <1>3, <1>9

\* The events on the bus are numbered in a row, up to the last that was published.
Numbered(queue, n) ==
  /\ IsSeq(queue) /\ n \in Nat /\ Len(queue) <= n
  /\ \A i \in 1..Len(queue) : queue[i].id = n - Len(queue) + i

LEMMA OnePublished ==
  ASSUME NEW state, Numbered(state.queue, state.n), NEW e
  PROVE  /\ Numbered(Published(state, e).queue, Published(state, e).n)
         /\ Published(state, e).n - Len(Published(state, e).queue) = state.n - Len(state.queue)
<1> DEFINE sent == With(e, "id", state.n + 1)
           queue == Append(state.queue, sent)
<1>1. CASE Duplicate(e, state.recent)
  BY <1>1 DEF Published
<1>2. CASE ~Duplicate(e, state.recent)
  <2>1. Published(state, e).queue = queue /\ Published(state, e).n = state.n + 1
    BY <1>2 DEF Published
  <2>2. sent.id = state.n + 1
    BY DEF With
  <2> HIDE DEF sent
  <2>3. /\ IsSeq(queue) /\ Len(state.queue) \in Nat /\ Len(queue) = Len(state.queue) + 1
        /\ queue[Len(state.queue) + 1] = sent
        /\ \A i \in 1..Len(state.queue) : queue[i] = state.queue[i]
    BY Appended DEF Numbered
  <2> HIDE DEF queue
  <2>4. state.n \in Nat /\ Len(state.queue) <= state.n
    BY DEF Numbered
  <2> DEFINE m == state.n + 1
  <2>5. m \in Nat /\ Len(queue) <= m /\ m - Len(queue) = state.n - Len(state.queue) /\ sent.id = m
    BY <2>2, <2>3, <2>4
  <2>6. \A i \in 1..Len(state.queue) : state.queue[i].id = state.n - Len(state.queue) + i
    BY DEF Numbered
  <2>7. m = Published(state, e).n
    BY <2>1
  <2> HIDE DEF m
  <2>8. ASSUME NEW i \in 1..Len(queue)
        PROVE  queue[i].id = m - Len(queue) + i
    <3>1. CASE i = Len(state.queue) + 1
      BY <2>3, <2>4, <2>5, <3>1
    <3>2. CASE i # Len(state.queue) + 1
      <4>1. i \in 1..Len(state.queue)
        BY <2>3, <3>2
      <4>2. queue[i].id = state.n - Len(state.queue) + i
        BY <2>3, <2>6, <4>1
      <4>3. QED
        BY <2>5, <4>2
    <3>3. QED
      BY <3>1, <3>2
  <2>9. Numbered(queue, m)
    BY <2>3, <2>5, <2>8 DEF Numbered
  <2>10. QED
    BY <2>1, <2>5, <2>7, <2>9
<1>3. QED
  BY <1>1, <1>2

\* Publication goes on with the numbers, and what was handled before stays
\* handled.
LEMMA Publication ==
  ASSUME NEW queue, Numbered(queue, published), NEW events, IsSeq(events), Publish(queue, events)
  PROVE  Numbered(bus', published') /\ published' - Len(bus') = published - Len(queue)
<1> DEFINE state == [queue |-> queue, n |-> published, recent |-> recent]
           n == Len(events)
           after == CHOOSE after : Publishing(state, events, n, after)
           left(s) == s.n - Len(s.queue)
           Right(s) == Numbered(s.queue, s.n) /\ left(s) = left(state)
           B == {k \in 0..n : ~Right(after[k])}
<1>1. n \in Nat
  BY DEF IsSeq
<1>2. bus' = after[n].queue /\ published' = after[n].n
  BY DEF Publish, AllPublished, Publishing
<1>3. Publishing(state, events, n, after)
  <2> HIDE DEF state, n
  <2>1. QED
    BY <1>1, PublishingEnds
<1>4. Right(state) /\ left(state) = published - Len(queue)
  OBVIOUS
<1> HIDE DEF after, n, state
<1>5. \A k \in 0..n : after[k] = IF k = 0 THEN state ELSE Published(after[k - 1], events[k])
  BY <1>3 DEF Publishing
<1>6. B = {}
  <2> SUFFICES ASSUME B # {} PROVE FALSE
    OBVIOUS
  <2>1. PICK k \in B : \A m \in B : k <= m
    <3>1. B \in SUBSET Nat
      OBVIOUS
    <3> HIDE DEF B
    <3>2. QED
      BY <3>1, Least
  <2>2. k \in 0..n /\ ~Right(after[k])
    OBVIOUS
  <2> HIDE DEF Right
  <2>3. k # 0
    BY <1>4, <1>5, <2>2
  <2>4. k - 1 \in 0..n /\ k - 1 \notin B
    BY <1>1, <2>1, <2>2, <2>3
  <2>5. Right(after[k - 1]) /\ after[k] = Published(after[k - 1], events[k])
    BY <1>5, <2>2, <2>3, <2>4
  <2>6. Right(Published(after[k - 1], events[k]))
    BY <2>5, OnePublished DEF Right
  <2>7. QED
    BY <2>2, <2>5, <2>6
<1>7. n \in 0..n
  BY <1>1
<1>8. Right(after[n])
  BY <1>6, <1>7
<1>9. QED
  BY <1>2, <1>4, <1>8

-----------------------------------------------------------------------------
(* Findings that are correlated. *)

\* The findings that are kept and those of the alerts were published as one of
\* the first n events each.  One that an alert has linked keeps its type, the
\* pattern of an alert that is being stored has the types of all its findings,
\* and none of a stored alert is kept.
Tidy(known, alerts, waiting, gone, n) ==
  /\ IsSeq(alerts)
  /\ \A f \in known : f.n \in Nat /\ f.n <= n
  /\ \A f, g \in known : f.n = g.n => f = g
  /\ \A i \in DOMAIN alerts : \A f \in alerts[i].linked :
        f.n \in Nat /\ f.n <= n /\ \A g \in known : f.n = g.n => f.type = g.type
  /\ \A i \in gone : i \in DOMAIN alerts /\ \A f \in alerts[i].linked : \A g \in known : f.n # g.n
  /\ \A x \in waiting : /\ x.alert \in DOMAIN alerts /\ x.pattern \in DOMAIN Correlator!Patterns
                        /\ \A f \in alerts[x.alert].linked : f.type \in Correlator!Patterns[x.pattern].types

\* The alert of a pattern about the findings that are kept
Alert(p, known) == Correlator!Emitted(Correlator!Patterns[p], Correlator!Matched(Correlator!Patterns[p], known))

\* An evaluation comes to nothing or adds the alert of one pattern.
LEMMA EvaluatingOne ==
  ASSUME NEW active, NEW known, NEW k \in Nat \ {0}, NEW waiting, Correlator!EvaluateFrom(active, known, k, waiting)
  PROVE  \/ correlated' = correlated /\ evaluations' = waiting
         \/ \E p \in DOMAIN Correlator!Patterns :
               /\ correlated' = Append(correlated, Alert(p, known))
               /\ evaluations' = waiting \union {[active |-> active, pattern |-> p, alert |-> Len(correlated) + 1]}
<1> DEFINE due == Correlator!Firing(active, known, k)
           p == Correlator!Min(due)
<1>1. CASE due = {}
  BY <1>1 DEF Correlator!EvaluateFrom
<1>2. CASE due # {}
  <2>1. DOMAIN Correlator!Patterns = 1..Len(Correlator!Patterns) /\ Len(Correlator!Patterns) \in Nat
    BY DEF Correlator!Patterns
  <2>2. due \subseteq k..Len(Correlator!Patterns)
    BY DEF Correlator!Firing
  <2>3. /\ correlated' = Append(correlated, Alert(p, known))
        /\ evaluations' = waiting \union {[active |-> active, pattern |-> p, alert |-> Len(correlated) + 1]}
    BY <1>2 DEF Correlator!EvaluateFrom, Alert
  <2> HIDE DEF due
  <2>4. due \in SUBSET Nat
    BY <2>1, <2>2
  <2>5. \E j \in due : \A m \in due : j <= m
    BY <1>2, <2>4, Least
  <2>6. p \in due
    BY <2>5 DEF Correlator!Min
  <2> HIDE DEF p
  <2>7. p \in DOMAIN Correlator!Patterns
    BY <2>1, <2>2, <2>6
  <2>8. QED
    BY <2>3, <2>7
<1>3. QED
  BY <1>1, <1>2\* The new alert links findings that are kept, and the others stay.
LEMMA Evaluated ==
  ASSUME NEW known, NEW waiting, NEW gone, NEW n, Tidy(known, correlated, waiting, gone, n),
         NEW active, NEW k \in Nat \ {0}, Correlator!EvaluateFrom(active, known, k, waiting)
  PROVE  /\ Tidy(known, correlated', evaluations', gone, n)
         /\ \A j \in DOMAIN correlated' \ DOMAIN correlated : correlated'[j].linked \subseteq known
<1>1. CASE correlated' = correlated /\ evaluations' = waiting
  BY <1>1
<1>2. ASSUME NEW p \in DOMAIN Correlator!Patterns, correlated' = Append(correlated, Alert(p, known)),
             evaluations' = waiting \union {[active |-> active, pattern |-> p, alert |-> Len(correlated) + 1]}
      PROVE  /\ Tidy(known, correlated', evaluations', gone, n)
             /\ \A j \in DOMAIN correlated' \ DOMAIN correlated : correlated'[j].linked \subseteq known
  <2> DEFINE types == Correlator!Patterns[p].types
             alert == Alert(p, known)
             alerts == Append(correlated, alert)
             last == Len(correlated) + 1
             x == [active |-> active, pattern |-> p, alert |-> last]
  <2>1. alert.linked \subseteq known /\ \A f \in alert.linked : f.type \in types
    BY DEF Alert, Correlator!Emitted, Correlator!Matched
  <2>2. x.pattern = p /\ x.alert = last
    OBVIOUS
  <2> HIDE DEF alert, x, types
  <2>3. /\ IsSeq(alerts) /\ DOMAIN correlated = 1..Len(correlated) /\ Len(correlated) \in Nat
        /\ DOMAIN alerts = 1..(Len(correlated) + 1)
        /\ alerts[Len(correlated) + 1] = alert
        /\ \A i \in 1..Len(correlated) : alerts[i] = correlated[i]
    BY Appended DEF Tidy
  <2> HIDE DEF alerts
  <2>4. /\ \A i \in DOMAIN alerts : i \in DOMAIN correlated \/ i = last
        /\ last \in DOMAIN alerts /\ last \notin DOMAIN correlated /\ alerts[last] = alert
        /\ \A i \in DOMAIN correlated : i \in DOMAIN alerts /\ alerts[i] = correlated[i]
    BY <2>3
  <2> HIDE DEF last
  <2>5. ASSUME NEW i \in DOMAIN alerts, NEW f \in alerts[i].linked
        PROVE  f.n \in Nat /\ f.n <= n /\ \A g \in known : f.n = g.n => f.type = g.type
    BY <2>1, <2>4 DEF Tidy
  <2>6. ASSUME NEW i \in gone
        PROVE  i \in DOMAIN alerts /\ \A f \in alerts[i].linked : \A g \in known : f.n # g.n
    BY <2>4 DEF Tidy
  <2>7. ASSUME NEW y \in waiting \union {x}
        PROVE  /\ y.alert \in DOMAIN alerts /\ y.pattern \in DOMAIN Correlator!Patterns
               /\ \A f \in alerts[y.alert].linked : f.type \in Correlator!Patterns[y.pattern].types
    <3>1. CASE y = x
      BY <2>1, <2>2, <2>4, <3>1 DEF types
    <3>2. CASE y \in waiting
      BY <2>4, <3>2 DEF Tidy
    <3>3. QED
      BY <3>1, <3>2
  <2>8. correlated' = alerts /\ evaluations' = waiting \union {x}
    BY <1>2 DEF alerts, alert, x, last
  <2>9. Tidy(known, alerts, waiting \union {x}, gone, n)
    BY <2>3, <2>5, <2>6, <2>7 DEF Tidy
  <2>10. QED
    BY <2>1, <2>4, <2>8, <2>9
<1>3. QED
  BY <1>1, <1>2, EvaluatingOne

\* What NoFindingCountsTwice says of a step
Afresh ==
  \A j \in DOMAIN correlated' \ DOMAIN correlated : \A i \in cleared' :
     \A f \in correlated'[i].linked, g \in correlated'[j].linked : f.n # g.n

LEMMA EvaluatedAfresh ==
  ASSUME NEW known, NEW waiting, NEW n, Tidy(known, correlated, waiting, cleared', n),
         NEW active, NEW k \in Nat \ {0}, Correlator!EvaluateFrom(active, known, k, waiting)
  PROVE  Tidy(known, correlated', evaluations', cleared', n) /\ Afresh
<1>1. /\ Tidy(known, correlated', evaluations', cleared', n)
      /\ \A j \in DOMAIN correlated' \ DOMAIN correlated : correlated'[j].linked \subseteq known
  BY Evaluated
<1>2. Afresh
  BY <1>1 DEF Tidy, Afresh
<1>3. QED
  BY <1>1, <1>2

\* One event more is handled.
LEMMA OneHandled ==
  ASSUME Numbered(bus, published), bus # <<>>
  PROVE  /\ Numbered(Tail(bus), published)
         /\ published - Len(Tail(bus)) = published - Len(bus) + 1
         /\ published - Len(bus) \in Nat
         /\ Head(bus).id = published - Len(bus) + 1
<1> DEFINE S == {bus[i] : i \in DOMAIN bus}
<1>1. bus \in Seq(S) /\ published \in Nat /\ Len(bus) <= published
  BY DEF Numbered, IsSeq
<1>2. \A i \in 1..Len(bus) : bus[i].id = published - Len(bus) + i
  BY DEF Numbered
<1> HIDE DEF S
<1>3. /\ Tail(bus) \in Seq(S) /\ Len(bus) \in Nat \ {0} /\ Len(Tail(bus)) = Len(bus) - 1 /\ Head(bus) = bus[1]
      /\ \A i \in 1..(Len(bus) - 1) : Tail(bus)[i] = bus[i + 1]
  BY <1>1
<1>4. IsSeq(Tail(bus))
  BY <1>3, Sequences
<1>5. \A i \in 1..Len(Tail(bus)) : Tail(bus)[i].id = published - Len(Tail(bus)) + i
  BY <1>1, <1>2, <1>3
<1>6. Numbered(Tail(bus), published)
  BY <1>1, <1>3, <1>4, <1>5 DEF Numbered
<1>7. QED
  BY <1>1, <1>2, <1>3, <1>6

\* The event that is handled comes into the buffer, if it is a finding.
LEMMA Ingesting ==
  ASSUME NEW n \in Nat, Tidy(buffer, correlated, evaluations, cleared, n), NEW e, e.id = n + 1, Correlator!On(e)
  PROVE  Tidy(buffer', correlated', evaluations', cleared', n + 1) /\ Afresh
<1> DEFINE start == Correlator!Ingested(e)
<1>1. Tidy(buffer, correlated, evaluations, cleared, n + 1) /\ cleared' = cleared
  BY DEF Tidy, Correlator!On
<1>2. CASE e.kind # "finding"
  BY <1>1, <1>2 DEF Correlator!On, Afresh
<1>3. CASE e.kind = "finding"
  <2> DEFINE active == {f.type : f \in start}
  <2>1. buffer' = start /\ Correlator!EvaluateFrom(active, start, 1, evaluations)
    BY <1>3 DEF Correlator!On
  <2>2. PICK new : new.n = n + 1 /\ \A f \in start : f \in buffer \/ f = new
    BY DEF Correlator!Ingested
  <2> HIDE DEF start, active
  <2>3. Tidy(start, correlated, evaluations, cleared, n + 1)
    <3>1. \A f \in buffer : f.n # new.n
      BY <2>2 DEF Tidy
    <3>2. ASSUME NEW i \in DOMAIN correlated, NEW f \in correlated[i].linked PROVE f.n # new.n
      BY <2>2 DEF Tidy
    <3>3. IsSeq(correlated) /\ (\A f \in start : f.n \in Nat /\ f.n <= n + 1)
      BY <1>1, <2>2 DEF Tidy
    <3>4. \A f, g \in start : f.n = g.n => f = g
      BY <2>2, <3>1 DEF Tidy
    <3>5. \A i \in DOMAIN correlated : \A f \in correlated[i].linked :
            f.n \in Nat /\ f.n <= n + 1 /\ \A g \in start : f.n = g.n => f.type = g.type
      BY <1>1, <2>2, <3>2 DEF Tidy
    <3>6. \A i \in cleared : i \in DOMAIN correlated /\ \A f \in correlated[i].linked : \A g \in start : f.n # g.n
      BY <2>2, <3>2 DEF Tidy
    <3>7. QED
      BY <1>1, <3>3, <3>4, <3>5, <3>6 DEF Tidy
  <2>4. QED
    BY <1>1, <2>1, <2>3, EvaluatedAfresh
<1>4. QED
  BY <1>2, <1>3

\* The findings of an alert that is stored go.
LEMMA Storing ==
  ASSUME NEW n, Tidy(buffer, correlated, evaluations, cleared, n), NEW x \in evaluations,
         Correlator!Stored(x) \/ Correlator!StoreFails(x)
  PROVE  Tidy(buffer', correlated', evaluations', cleared', n) /\ Afresh
<1>1. CASE Correlator!StoreFails(x)
  <2>1. Tidy(buffer, correlated, evaluations \ {x}, cleared, n)
    BY DEF Tidy
  <2>2. QED
    BY <1>1, <2>1 DEF Correlator!StoreFails, Afresh
<1>2. CASE Correlator!Stored(x)
  <2> DEFINE types == Correlator!Patterns[x.pattern].types
             known == Correlator!Cleared(buffer, types)
             k == x.pattern + 1
             waiting == evaluations \ {x}
  <2>1. /\ buffer' = known /\ cleared' = cleared \union {x.alert}
        /\ Correlator!EvaluateFrom(x.active, known, k, waiting)
    BY <1>2 DEF Correlator!Stored
  <2>2. known \subseteq buffer /\ \A g \in known : g.type \notin types
    BY DEF Correlator!Cleared
  <2>3. x.pattern \in DOMAIN Correlator!Patterns /\ x.alert \in DOMAIN correlated
        /\ \A f \in correlated[x.alert].linked : f.type \in types /\ \A g \in buffer : f.n = g.n => f.type = g.type
    BY DEF Tidy
  <2>4. k \in Nat \ {0}
    <3>1. DOMAIN Correlator!Patterns \subseteq Nat
      BY DEF Correlator!Patterns
    <3>2. QED
      BY <2>3, <3>1
  <2> HIDE DEF types, known, k
  <2>5. \A f \in correlated[x.alert].linked : \A g \in known : f.n # g.n
    BY <2>2, <2>3
  <2>6. Tidy(known, correlated, waiting, cleared', n)
    BY <2>1, <2>2, <2>3, <2>5 DEF Tidy
  <2>7. QED
    BY <2>1, <2>4, <2>6, EvaluatedAfresh
<1>3. QED
  BY <1>1, <1>2

\* Events and findings in the order of their numbers.
CountInv ==
  /\ Numbered(bus, published)
  /\ IsSeq(order)
  /\ Tidy(buffer, correlated, evaluations, cleared, published - Len(bus))

LEMMA CountInit == Init => CountInv
<1> SUFFICES ASSUME Init PROVE CountInv
  OBVIOUS
<1>1. Numbered(<<>>, 0)
  BY Singles DEF Numbered
<1>2. Tidy({}, <<>>, {}, {}, 0)
  <2>1. DOMAIN <<>> = {}
    OBVIOUS
  <2>2. QED
    BY <2>1, Singles DEF Tidy
<1>3. bus = <<>> /\ published = 0 /\ order = <<>> /\ buffer = {} /\ correlated = <<>> /\ evaluations = {} /\ cleared = {}
  BY DEF Init, CSDE!Init, Correlator!Init
<1>4. published - Len(bus) = 0
  <2>1. Len(<<>>) = 0
    OBVIOUS
  <2>2. Len(bus) = 0
    BY <1>3, <2>1
  <2>3. published = 0
    BY <1>3
  <2>4. QED
    BY <2>2, <2>3
<1>5. QED
  BY <1>1, <1>2, <1>3, <1>4, Singles DEF CountInv

\* Publication alone.
LEMMA Sending ==
  ASSUME CountInv, NEW events, IsSeq(events), Publish(bus, events), UNCHANGED <<order, correlationVars>>
  PROVE  CountInv'
<1>1. Numbered(bus', published') /\ published' - Len(bus') = published - Len(bus)
  BY Publication DEF CountInv
<1>2. QED
  BY <1>1 DEF CountInv, correlationVars

LEMMA Handling ==
  ASSUME CountInv, Handle
  PROVE  CountInv' /\ Afresh
<1> DEFINE e == Head(bus)
           n == published - Len(bus)
           events == DNA!Alerts(e, Hour) \o Device!Alerts(e) \o UEBA!Alerts(e, Hour) \o Intel!Alerts(e)
                     \o Physical!Alerts(e) \o Insider!Alerts(e) \o Comply!Findings(e) \o Agents!Findings(e, Hour)
<1>1. /\ Numbered(Tail(bus), published) /\ published - Len(Tail(bus)) = n + 1
      /\ n \in Nat /\ e.id = n + 1
  BY OneHandled DEF CountInv, Handle
<1>2. Correlator!On(e) /\ CSDE!On(e, Hour) /\ Publish(Tail(bus), events)
  BY DEF Handle
<1>3. IsSeq(events)
  BY DNAAlerts, DeviceAlerts, UEBAAlerts, IntelAlerts, PhysicalAlerts, InsiderAlerts, ComplyFindings, AgentFindings, Joined
<1>4. Tidy(buffer, correlated, evaluations, cleared, n) /\ IsSeq(order)
  BY DEF CountInv
<1> HIDE DEF e, n, events
<1>5. Numbered(bus', published') /\ published' - Len(bus') = n + 1
  BY <1>1, <1>2, <1>3, Publication
<1>6. Tidy(buffer', correlated', evaluations', cleared', n + 1) /\ Afresh
  BY <1>1, <1>2, <1>4, Ingesting
<1>7. IsSeq(order')
  BY <1>2, <1>4, Appended DEF CSDE!On
<1>8. QED
  BY <1>5, <1>6, <1>7 DEF CountInv

LEMMA CountStep == CountInv /\ [Next]_vars => CountInv' /\ Afresh
<1> SUFFICES ASSUME CountInv, [Next]_vars PROVE CountInv' /\ Afresh
  OBVIOUS
<1>1. ASSUME UNCHANGED <<bus, published, order, correlationVars>>
      PROVE  CountInv' /\ Afresh
  BY <1>1 DEF CountInv, correlationVars, Afresh
<1>2. ASSUME NEW events, IsSeq(events), Publish(bus, events), UNCHANGED <<order, correlationVars>>
      PROVE  CountInv' /\ Afresh
  BY <1>2, Sending DEF correlationVars, Afresh
<1>3. CASE External
  BY <1>2, <1>3, Singles DEF External, engineVars, csdeVars, findingVars
<1>4. CASE MemoryScan
  BY <1>2, <1>4, Singles DEF MemoryScan, engineVars, csdeVars, findingVars
<1>5. CASE NextChapter
  BY <1>1, <1>5 DEF NextChapter, engineVars, csdeVars, findingVars
<1>6. CASE Handle
  BY <1>6, Handling
<1>7. CASE DecoyOpens
  <2>1. PICK events : IsSeq(events) /\ Publish(bus, events)
    BY <1>7, Singles DEF DecoyOpens
  <2>2. QED
    BY <1>2, <1>7, <2>1 DEF DecoyOpens, csdeVars, findingVars
<1>8. CASE AlertStored
  <2>1. PICK x \in evaluations : Correlator!Stored(x) \/ Correlator!StoreFails(x)
    BY <1>8 DEF AlertStored
  <2>2. bus' = bus /\ published' = published /\ order' = order
    BY <1>8 DEF AlertStored, csdeVars
  <2>3. Tidy(buffer', correlated', evaluations', cleared', published - Len(bus)) /\ Afresh
    BY <2>1, Storing DEF CountInv
  <2>4. QED
    BY <2>2, <2>3 DEF CountInv
<1>9. CASE Evaluate
  <2>1. IsSeq(CSDE!Findings)
    BY ConvergedFindings DEF CountInv
  <2>2. QED
    BY <1>2, <1>9, <2>1 DEF Evaluate, CSDE!Evaluate, findingVars
<1>10. CASE HourPasses
  BY <1>1, <1>10 DEF HourPasses, csdeVars, findingVars
<1>11. CASE DeviceCall
  <2>1. PICK events : IsSeq(events) /\ Publish(bus, events)
    BY <1>11, Singles, DeviceAlerts DEF DeviceCall
  <2>2. QED
    BY <1>2, <1>11, <2>1 DEF DeviceCall, csdeVars, findingVars
<1>12. CASE AnalystCall
  BY <1>1, <1>12 DEF AnalystCall, csdeVars, findingVars
<1>13. CASE IntelCall
  <2>1. PICK events : IsSeq(events) /\ Publish(bus, events)
    BY <1>13, Singles, IntelAlerts DEF IntelCall
  <2>2. QED
    BY <1>2, <1>13, <2>1 DEF IntelCall, csdeVars, findingVars
<1>14. CASE PeerCall
  BY <1>1, <1>14 DEF PeerCall, csdeVars, findingVars
<1>15. CASE Over \/ UNCHANGED vars
  BY <1>1, <1>15 DEF Over, vars, engineVars, csdeVars, findingVars
<1>16. QED
  BY <1>3, <1>4, <1>5, <1>6, <1>7, <1>8, <1>9, <1>10, <1>11, <1>12, <1>13, <1>14, <1>15 DEF Next

\* A new alert shares no finding with one whose findings have been forgotten,
\* whatever is being stored meanwhile and whichever storing fails.
THEOREM CountedOnce == Spec => NoFindingCountsTwice
<1>1. CountInv /\ [Next]_vars =>
        [\A j \in DOMAIN correlated' \ DOMAIN correlated : \A i \in cleared' :
           {f.n : f \in correlated'[i].linked} \intersect {f.n : f \in correlated'[j].linked} = {}]_vars
  <2> SUFFICES ASSUME CountInv, [Next]_vars, NEW j \in DOMAIN correlated' \ DOMAIN correlated, NEW i \in cleared'
               PROVE  {f.n : f \in correlated'[i].linked} \intersect {f.n : f \in correlated'[j].linked} = {}
    OBVIOUS
  <2>1. \A f \in correlated'[i].linked, g \in correlated'[j].linked : f.n # g.n
    BY CountStep DEF Afresh
  <2>2. QED
    BY <2>1
<1>2. CountInv /\ [Next]_vars => CountInv'
  BY CountStep
<1>3. QED
  BY <1>1, <1>2, CountInit, PTL DEF Spec, NoFindingCountsTwice

-----------------------------------------------------------------------------
(* What is on the bus after a publication. *)

\* The elements of a sequence
Elems(s) == {s[i] : i \in DOMAIN s}

LEMMA ElemsOfSome ==
  /\ Elems(<<>>) = {}
  /\ \A x : Elems(<<x>>) = {x}
<1>1. DOMAIN <<>> = {} /\ \A x : DOMAIN <<x>> = {1}
  OBVIOUS
<1>2. QED
  BY <1>1 DEF Elems

LEMMA ElemsOfAll ==
  ASSUME NEW s, IsSeq(s), NEW t, IsSeq(t)
  PROVE  Elems(s \o t) = Elems(s) \union Elems(t)
<1> DEFINE S == Elems(s) \union Elems(t)
<1>1. s \in Seq(S) /\ t \in Seq(S)
  <2>1. (\A i \in DOMAIN s : s[i] \in S) /\ (\A i \in DOMAIN t : t[i] \in S)
    BY DEF Elems
  <2> HIDE DEF S
  <2>2. QED
    BY <2>1, SetsOfSeqs
<1> HIDE DEF S
<1>2. /\ Len(s) \in Nat /\ Len(t) \in Nat /\ DOMAIN s = 1..Len(s) /\ DOMAIN t = 1..Len(t)
      /\ DOMAIN (s \o t) = 1..(Len(s) + Len(t))
      /\ \A i \in 1..(Len(s) + Len(t)) : (s \o t)[i] = IF i <= Len(s) THEN s[i] ELSE t[i - Len(s)]
  BY <1>1
<1>3. ASSUME NEW i \in DOMAIN (s \o t)
      PROVE  (s \o t)[i] \in Elems(s) \union Elems(t)
  <2>1. CASE i <= Len(s)
    <3>1. i \in DOMAIN s
      BY <1>2, <2>1
    <3>2. QED
      BY <1>2, <2>1, <3>1 DEF Elems
  <2>2. CASE ~(i <= Len(s))
    <3>1. i - Len(s) \in DOMAIN t
      BY <1>2, <2>2
    <3>2. QED
      BY <1>2, <2>2, <3>1 DEF Elems
  <2>3. QED
    BY <2>1, <2>2
<1>4. ASSUME NEW i \in DOMAIN s
      PROVE  s[i] \in Elems(s \o t)
  <2>1. i \in DOMAIN (s \o t) /\ (s \o t)[i] = s[i]
    BY <1>2
  <2>2. QED
    BY <2>1 DEF Elems
<1>5. ASSUME NEW i \in DOMAIN t
      PROVE  t[i] \in Elems(s \o t)
  <2>1. Len(s) + i \in DOMAIN (s \o t) /\ ~(Len(s) + i <= Len(s)) /\ (Len(s) + i) - Len(s) = i
    BY <1>2
  <2>2. (s \o t)[Len(s) + i] = t[i]
    BY <1>2, <2>1
  <2>3. QED
    BY <2>1, <2>2 DEF Elems
<1>6. QED
  BY <1>3, <1>4, <1>5 DEF Elems

\* What the bus state holds after some of the events, the first n having been published
\* before
Grown(s, queue, known, events, n, k) ==
  /\ IsSeq(s.queue) /\ s.n \in Nat /\ n <= s.n
  /\ known \subseteq s.recent
  /\ \A y \in Elems(s.queue) :
        y \in Elems(queue) \/ \E i \in 1..k : ~Duplicate(events[i], known) /\ \E m \in Nat : n < m /\ y = With(events[i], "id", m)
  /\ \A i \in 1..k : events[i].kind = "threat" => Fingerprint(events[i]) \in s.recent

LEMMA OneGrown ==
  ASSUME NEW s, NEW queue, NEW known, NEW events, NEW n \in Nat, NEW k \in Nat, k # 0, Grown(s, queue, known, events, n, k - 1)
  PROVE  Grown(Published(s, events[k]), queue, known, events, n, k)
<1> DEFINE x == events[k]
           t == Published(s, x)
<1>1. 1..k = 1..(k - 1) \cup {k}
  OBVIOUS
<1>2. CASE Duplicate(x, s.recent)
  <2>1. t = s /\ Fingerprint(x) \in s.recent
    BY <1>2 DEF Published, Duplicate
  <2> HIDE DEF t
  <2>2. QED
    BY <1>1, <2>1 DEF Grown, t
<1>3. CASE ~Duplicate(x, s.recent)
  <2> DEFINE sent == With(x, "id", s.n + 1)
             after == Append(s.queue, sent)
  <2>1. t.queue = after /\ t.n = s.n + 1 /\ t.recent = IF x.kind = "threat" THEN s.recent \union {Fingerprint(x)} ELSE s.recent
    BY <1>3 DEF Published
  <2> HIDE DEF t
  <2>2. ~Duplicate(x, known)
    BY <1>3 DEF Duplicate, Grown
  <2>3. IsSeq(after) /\ \A y \in Elems(after) : y \in Elems(s.queue) \/ y = sent
    <3> HIDE DEF sent
    <3>1. /\ IsSeq(after) /\ Len(s.queue) \in Nat /\ DOMAIN s.queue = 1..Len(s.queue)
          /\ DOMAIN after = 1..(Len(s.queue) + 1) /\ after[Len(s.queue) + 1] = sent
          /\ \A i \in 1..Len(s.queue) : after[i] = s.queue[i]
      BY Appended DEF Grown
    <3> HIDE DEF after
    <3>2. \A i \in DOMAIN after : i \in 1..Len(s.queue) \/ i = Len(s.queue) + 1
      BY <3>1
    <3>3. QED
      BY <3>1, <3>2 DEF Elems
  <2> HIDE DEF after
  <2>4. ASSUME NEW y \in Elems(after)
        PROVE  y \in Elems(queue) \/ \E i \in 1..k : ~Duplicate(events[i], known) /\ \E m \in Nat : n < m /\ y = With(events[i], "id", m)
    <3>1. CASE y = sent
      <4>1. k \in 1..k /\ s.n + 1 \in Nat /\ n < s.n + 1
        BY DEF Grown
      <4>2. QED
        BY <2>2, <3>1, <4>1
    <3>2. CASE y \in Elems(s.queue)
      BY <1>1, <3>2 DEF Grown
    <3>3. QED
      BY <2>3, <3>1, <3>2
  <2>5. \A i \in 1..k : events[i].kind = "threat" => Fingerprint(events[i]) \in t.recent
    BY <1>1, <2>1 DEF Grown
  <2>6. known \subseteq t.recent /\ t.n \in Nat /\ n <= t.n
    BY <2>1 DEF Grown
  <2>7. QED
    BY <2>1, <2>3, <2>4, <2>5, <2>6 DEF Grown, t
<1>4. QED
  BY <1>2, <1>3

\* What is on the bus was there or is published now, for the first time, and
\* the bus knows every threat that was.
LEMMA Announced ==
  ASSUME published \in Nat, NEW queue, IsSeq(queue), NEW events, IsSeq(events), Publish(queue, events)
  PROVE  /\ \A y \in Elems(bus') :
               \/ y \in Elems(queue)
               \/ \E x \in Elems(events) : ~Duplicate(x, recent) /\ \E m \in Nat : published < m /\ y = With(x, "id", m)
         /\ recent \subseteq recent' /\ published' \in Nat /\ published <= published'
         /\ \A x \in Elems(events) : x.kind = "threat" => Fingerprint(x) \in recent'
<1> DEFINE state == [queue |-> queue, n |-> published, recent |-> recent]
           n == Len(events)
           after == CHOOSE after : Publishing(state, events, n, after)
           Right(k) == Grown(after[k], queue, recent, events, published, k)
           B == {k \in 0..n : ~Right(k)}
<1>1. n \in Nat /\ DOMAIN events = 1..n
  BY DEF IsSeq
<1>2. bus' = after[n].queue /\ recent' = after[n].recent /\ published' = after[n].n
  BY DEF Publish, AllPublished, Publishing
<1>3. Publishing(state, events, n, after)
  <2> HIDE DEF state, n
  <2>1. QED
    BY <1>1, PublishingEnds
<1>4. Grown(state, queue, recent, events, published, 0)
  BY DEF Grown
<1> HIDE DEF after, n, state
<1>5. \A k \in 0..n : after[k] = IF k = 0 THEN state ELSE Published(after[k - 1], events[k])
  BY <1>3 DEF Publishing
<1>6. B = {}
  <2> SUFFICES ASSUME B # {} PROVE FALSE
    OBVIOUS
  <2>1. PICK k \in B : \A m \in B : k <= m
    <3>1. B \in SUBSET Nat
      OBVIOUS
    <3> HIDE DEF B
    <3>2. QED
      BY <3>1, Least
  <2>2. k \in 0..n /\ ~Right(k)
    OBVIOUS
  <2> HIDE DEF Right
  <2>3. k # 0
    BY <1>1, <1>4, <1>5, <2>2 DEF Right
  <2>4. k - 1 \in 0..n /\ k - 1 \notin B
    BY <1>1, <2>1, <2>2, <2>3
  <2>5. Right(k - 1) /\ after[k] = Published(after[k - 1], events[k]) /\ k \in Nat
    BY <1>5, <2>2, <2>3, <2>4
  <2>6. QED
    BY <2>2, <2>3, <2>5, OneGrown DEF Right
<1>7. n \in 0..n
  BY <1>1
<1>8. Right(n)
  BY <1>6, <1>7
<1> HIDE DEF Right, B
<1>9. \A i \in 1..n : events[i] \in Elems(events)
  BY <1>1 DEF Elems
<1>10. \A x \in Elems(events) : \E i \in 1..n : x = events[i]
  BY <1>1 DEF Elems
<1>11. Grown(after[n], queue, recent, events, published, n)
  BY <1>8 DEF Right
<1>12. QED
  BY <1>2, <1>9, <1>10, <1>11 DEF Grown

-----------------------------------------------------------------------------
(* What a behavioural profile knows. *)

LEMMA FirstOfTwo ==
  ASSUME NEW p, NEW a, NEW b
  PROVE  DNA!Either(p, <<a, b>>) = IF a \in DOMAIN p THEN p[a] ELSE IF b \in DOMAIN p THEN p[b] ELSE None
<1> DEFINE keys == <<a, b>>
           there == {i \in 1..2 : keys[i] \in DOMAIN p}
           least == CHOOSE i \in there : \A j \in there : i <= j
<1>1. Len(keys) = 2 /\ keys[1] = a /\ keys[2] = b
  OBVIOUS
<1> HIDE DEF keys
<1>2. DNA!Either(p, keys) = IF there = {} THEN None ELSE p[keys[least]]
  BY <1>1 DEF DNA!Either
<1>3. there = {i \in {1, 2} : keys[i] \in DOMAIN p}
  OBVIOUS
<1>4. CASE a \in DOMAIN p
  <2>1. 1 \in there /\ \A j \in there : 1 <= j
    BY <1>1, <1>3, <1>4
  <2>2. \A i \in there : (\A j \in there : i <= j) => i = 1
    BY <1>3, <2>1
  <2> HIDE DEF there
  <2>3. least = 1
    BY <2>1, <2>2
  <2>4. QED
    BY <1>1, <1>2, <1>4, <2>1, <2>3 DEF keys
<1>5. CASE a \notin DOMAIN p /\ b \in DOMAIN p
  <2>1. there = {2}
    BY <1>1, <1>3, <1>5
  <2> HIDE DEF there
  <2>2. least = 2
    BY <2>1
  <2>3. QED
    BY <1>1, <1>2, <1>5, <2>1, <2>2 DEF keys
<1>6. CASE a \notin DOMAIN p /\ b \notin DOMAIN p
  <2>1. there = {}
    BY <1>1, <1>3, <1>6
  <2>2. QED
    BY <1>2, <1>6, <2>1 DEF keys
<1>7. QED
  BY <1>4, <1>5, <1>6

\* A third key is of no account where one of the first two is there.
LEMMA FirstOfThree ==
  ASSUME NEW p, NEW a, NEW b, NEW c, a \in DOMAIN p \/ b \in DOMAIN p
  PROVE  DNA!Either(p, <<a, b, c>>) = DNA!Either(p, <<a, b>>)
<1> DEFINE keys == <<a, b, c>>
           there == {i \in 1..3 : keys[i] \in DOMAIN p}
           least == CHOOSE i \in there : \A j \in there : i <= j
<1>1. Len(keys) = 3 /\ keys[1] = a /\ keys[2] = b /\ keys[3] = c
  OBVIOUS
<1> HIDE DEF keys
<1>2. DNA!Either(p, keys) = IF there = {} THEN None ELSE p[keys[least]]
  BY <1>1 DEF DNA!Either
<1>3. there = {i \in {1, 2, 3} : keys[i] \in DOMAIN p}
  OBVIOUS
<1>4. CASE a \in DOMAIN p
  <2>1. 1 \in there /\ \A j \in there : 1 <= j
    BY <1>1, <1>3, <1>4
  <2>2. \A i \in there : (\A j \in there : i <= j) => i = 1
    BY <1>3, <2>1
  <2> HIDE DEF there
  <2>3. least = 1
    BY <2>1, <2>2
  <2>4. DNA!Either(p, keys) = p[a]
    BY <1>1, <1>2, <2>1, <2>3
  <2>5. DNA!Either(p, <<a, b>>) = p[a]
    BY <1>4, FirstOfTwo
  <2>6. QED
    BY <2>4, <2>5 DEF keys
<1>5. CASE a \notin DOMAIN p
  <2>1. 2 \in there /\ \A j \in there : 2 <= j
    BY <1>1, <1>3, <1>5
  <2>2. \A i \in there : (\A j \in there : i <= j) => i = 2
    BY <1>3, <2>1
  <2> HIDE DEF there
  <2>3. least = 2
    BY <2>1, <2>2
  <2>4. DNA!Either(p, keys) = p[b]
    BY <1>1, <1>2, <2>1, <2>3
  <2>5. DNA!Either(p, <<a, b>>) = p[b]
    BY <1>5, FirstOfTwo
  <2>6. QED
    BY <2>4, <2>5 DEF keys
<1>6. QED
  BY <1>4, <1>5

LEMMA LastOfList ==
  ASSUME NEW list, IsSeq(list), NEW n \in Nat \ {0}
  PROVE  /\ IsSeq(DNA!LastOf(list, n)) /\ Elems(DNA!LastOf(list, n)) \subseteq Elems(list)
         /\ Len(DNA!LastOf(list, n)) = IF Len(list) > n THEN n ELSE Len(list)
         /\ Len(list) > 0 => /\ Len(DNA!LastOf(list, n)) > 0
                             /\ DNA!LastOf(list, n)[Len(DNA!LastOf(list, n))] = list[Len(list)]
<1> DEFINE S == Elems(list)
           part == SubSeq(list, Len(list) - n + 1, Len(list))
<1>1. list \in Seq(S) /\ Len(list) \in Nat /\ DOMAIN list = 1..Len(list)
  <2>1. \A i \in DOMAIN list : list[i] \in S
    BY DEF Elems
  <2> HIDE DEF S
  <2>2. QED
    BY <2>1, SetsOfSeqs
<1> HIDE DEF S
<1>2. CASE ~(Len(list) > n)
  <2>1. DNA!LastOf(list, n) = list
    BY <1>2 DEF DNA!LastOf
  <2>2. QED
    BY <1>1, <1>2, <2>1
<1>3. CASE Len(list) > n
  <2>1. DNA!LastOf(list, n) = part
    BY <1>3 DEF DNA!LastOf
  <2>2. /\ part \in Seq(S) /\ Len(part) = n /\ DOMAIN part = 1..n
        /\ \A i \in 1..n : part[i] = list[Len(list) - n + i]
    BY <1>1, <1>3
  <2> HIDE DEF part
  <2>3. IsSeq(part)
    BY <2>2, Sequences
  <2>4. \A i \in 1..n : part[i] \in S
    BY <2>2
  <2>5. Elems(part) \subseteq S
    BY <2>2, <2>4 DEF Elems
  <2>6. part[n] = list[Len(list)]
    <3>1. n \in 1..n /\ Len(list) - n + n = Len(list)
      BY <1>1
    <3>2. QED
      BY <2>2, <3>1
  <2>7. QED
    BY <1>3, <2>1, <2>2, <2>3, <2>5, <2>6 DEF S
<1>4. QED
  BY <1>2, <1>3

\* The list after the last value: it is there, at the end
LEMMA LastAppended ==
  ASSUME NEW list, IsSeq(list), NEW n \in Nat \ {0}, NEW x
  PROVE  LET after == DNA!LastOf(Append(list, x), n)
         IN  /\ IsSeq(after) /\ Len(after) > 0 /\ after[Len(after)] = x
             /\ Len(after) \in Nat /\ DOMAIN after = 1..Len(after)
<1> DEFINE more == Append(list, x)
<1>1. /\ IsSeq(more) /\ Len(list) \in Nat /\ Len(more) = Len(list) + 1 /\ more[Len(list) + 1] = x
      /\ DOMAIN list = 1..Len(list) /\ DOMAIN more = 1..(Len(list) + 1)
      /\ \A i \in 1..Len(list) : more[i] = list[i]
  BY Appended
<1> HIDE DEF more
<1> DEFINE after == DNA!LastOf(more, n)
<1>2. /\ IsSeq(after)
      /\ Len(after) = (IF Len(more) > n THEN n ELSE Len(more))
      /\ Len(after) > 0 /\ after[Len(after)] = more[Len(more)]
  BY <1>1, LastOfList
<1>3. Len(after) \in Nat /\ DOMAIN after = 1..Len(after)
  <2> HIDE DEF after
  <2>1. QED
    BY <1>2 DEF IsSeq
<1> HIDE DEF after
<1>4. QED
  BY <1>1, <1>2, <1>3 DEF after, more

LEMMA ListLearns ==
  ASSUME NEW list, IsSeq(list), NEW n \in Nat \ {0}, NEW x
  PROVE  /\ IsSeq(DNA!Learnt(list, x, n))
         /\ ~DNA!New(DNA!Learnt(list, x, n), x)
<1>1. CASE x = None \/ DNA!InList(list, x)
  BY <1>1 DEF DNA!Learnt, DNA!New
<1>2. CASE ~(x = None \/ DNA!InList(list, x))
  <2> DEFINE after == DNA!LastOf(Append(list, x), n)
  <2>1. DNA!Learnt(list, x, n) = after
    BY <1>2 DEF DNA!Learnt
  <2>2. IsSeq(after) /\ Len(after) \in DOMAIN after /\ after[Len(after)] = x
    <3>1. /\ IsSeq(after) /\ Len(after) > 0 /\ after[Len(after)] = x
          /\ Len(after) \in Nat /\ DOMAIN after = 1..Len(after)
      BY LastAppended
    <3> HIDE DEF after
    <3>2. QED
      BY <3>1
  <2> HIDE DEF after
  <2>3. QED
    BY <2>1, <2>2 DEF DNA!New, DNA!InList
<1>3. QED
  BY <1>1, <1>2

LEMMA HoursLearnt ==
  ASSUME NEW hours, IsSeq(hours), NEW hour
  PROVE  IsSeq(DNA!LearntHour(hours, hour))
BY Appended DEF DNA!LearntHour

\* A profile has its fields, and what it learns comes in lists.
ProfileType(p) ==
  /\ DOMAIN p = {"hours", "locations", "networks", "resources", "apps", "accesses", "volumes", "events", "sessions",
                 "risk", "group", "created"}
  /\ IsSeq(p.hours) /\ IsSeq(p.locations) /\ IsSeq(p.networks) /\ IsSeq(p.resources) /\ IsSeq(p.accesses)

LEMMA NewTyped == ProfileType(DNA!NewProfile)
BY Singles DEF ProfileType, DNA!NewProfile

LEMMA EventLearnt ==
  ASSUME NEW profile, ProfileType(profile), NEW e, NEW hour
  PROVE  ProfileType(DNA!Updated(profile, e, hour))
<1> DEFINE known == DNA!Updated(profile, e, hour)
           resource == DNA!Either(e.payload, <<"resource", "signature", "dst_port">>)
           hours == DNA!LearntHour(profile.hours, hour)
           locations == DNA!Learnt(profile.locations, DNA!Location(e), 10)
           resources == DNA!Learnt(profile.resources, resource, 20)
           accesses == IF resource = None THEN profile.accesses ELSE DNA!LastOf(Append(profile.accesses, resource), 50)
<1>1. /\ DOMAIN known = DOMAIN profile
      /\ known.hours = hours /\ known.locations = locations /\ known.networks = profile.networks
      /\ known.resources = resources /\ known.accesses = accesses
  <2> HIDE DEF resource, hours, locations, resources, accesses
  <2>1. QED
    BY DEF DNA!Updated, ProfileType, resource, hours, locations, resources, accesses
<1> HIDE DEF known
<1>2. IsSeq(hours) /\ IsSeq(locations) /\ IsSeq(resources)
  <2>1. IsSeq(profile.hours) /\ IsSeq(profile.locations) /\ IsSeq(profile.resources)
    BY DEF ProfileType
  <2>2. IsSeq(hours)
    BY <2>1, HoursLearnt
  <2>3. IsSeq(locations)
    BY <2>1, ListLearns
  <2>4. IsSeq(resources)
    BY <2>1, ListLearns
  <2>5. QED
    BY <2>2, <2>3, <2>4
<1>3. IsSeq(accesses)
  BY LastAppended DEF ProfileType
<1> HIDE DEF hours, locations, resources, accesses, resource
<1>4. QED
  BY <1>1, <1>2, <1>3 DEF ProfileType, known

LEMMA RequestLearnt ==
  ASSUME NEW profile, ProfileType(profile), NEW p, NEW hour
  PROVE  ProfileType(DNA!Requested(profile, p, hour))
<1> DEFINE known == DNA!Requested(profile, p, hour)
           hours == DNA!LearntHour(profile.hours, hour)
           locations == DNA!Learnt(profile.locations, DNA!Get(p, "location", None), 10)
           networks == DNA!Learnt(profile.networks, DNA!Get(p, "network", None), 5)
           resources == DNA!Learnt(profile.resources, p.resource, 20)
           accesses == DNA!LastOf(Append(profile.accesses, p.resource), 50)
<1>1. /\ DOMAIN known = DOMAIN profile
      /\ known.hours = hours /\ known.locations = locations /\ known.networks = networks
      /\ known.resources = resources /\ known.accesses = accesses
  <2> HIDE DEF hours, locations, networks, resources, accesses
  <2>1. QED
    BY DEF DNA!Requested, ProfileType, hours, locations, networks, resources, accesses
<1> HIDE DEF known
<1>2. IsSeq(hours) /\ IsSeq(locations) /\ IsSeq(networks) /\ IsSeq(resources)
  BY HoursLearnt, ListLearns DEF ProfileType
<1>3. IsSeq(accesses)
  BY LastAppended DEF ProfileType
<1> HIDE DEF hours, locations, networks, resources, accesses
<1>4. ProfileType(known)
  BY <1>1, <1>2, <1>3 DEF ProfileType
<1>5. QED
  BY <1>4 DEF known

\* The last value is one of the last n.
LEMMA LastInList ==
  ASSUME NEW list, IsSeq(list), Len(list) > 0, NEW n \in Nat \ {0}
  PROVE  DNA!InList(DNA!LastOf(list, n), list[Len(list)])
<1> DEFINE part == DNA!LastOf(list, n)
<1>1. IsSeq(part) /\ Len(part) > 0 /\ part[Len(part)] = list[Len(list)]
  BY LastOfList
<1> HIDE DEF part
<1>2. Len(part) \in DOMAIN part
  BY <1>1 DEF IsSeq
<1>3. QED
  BY <1>1, <1>2 DEF DNA!InList, part

\* A profile knows the event it is compared with: without a spike of its volume
\* an event is no anomaly, whatever the hour and the network.
LEMMA NothingNew ==
  ASSUME NEW profile, ProfileType(profile), NEW e, NEW hour, ~DNA!Spike(DNA!Updated(profile, e, hour), e)
  PROVE  ~(DNA!AnomalyScore(DNA!Updated(profile, e, hour), e, hour) >= 65)
<1> DEFINE known == DNA!Updated(profile, e, hour)
           named == DNA!Either(e.payload, <<"resource", "signature">>)
           taught == DNA!Either(e.payload, <<"resource", "signature", "dst_port">>)
           place == DNA!Location(e)
           seen == DNA!LastOf(known.accesses, 5)
<1>1. /\ known.locations = DNA!Learnt(profile.locations, place, 10)
      /\ known.resources = DNA!Learnt(profile.resources, taught, 20)
      /\ taught # None => known.accesses = DNA!LastOf(Append(profile.accesses, taught), 50)
  <2> HIDE DEF taught, place
  <2>1. QED
    BY DEF DNA!Updated, ProfileType, taught, place
<1> HIDE DEF known
<1>2. named # None => taught = named
  BY FirstOfTwo, FirstOfThree
<1> HIDE DEF named, taught, place
<1>3. IsSeq(profile.locations) /\ IsSeq(profile.resources) /\ IsSeq(profile.accesses) /\ 5 \in Nat \ {0} /\ 10 \in Nat \ {0}
      /\ 20 \in Nat \ {0} /\ 50 \in Nat \ {0}
  BY DEF ProfileType
<1>4. ~DNA!New(known.locations, place)
  BY <1>1, <1>3, ListLearns
<1>5. ~DNA!New(known.resources, named)
  <2>1. CASE named = None
    BY <2>1 DEF DNA!New
  <2>2. CASE named # None
    BY <1>1, <1>2, <1>3, <2>2, ListLearns
  <2>3. QED
    BY <2>1, <2>2
<1>6. ASSUME named # None
      PROVE  DNA!InList(seen, named)
  <2>1. IsSeq(known.accesses) /\ Len(known.accesses) > 0 /\ known.accesses[Len(known.accesses)] = named
    <3> DEFINE after == DNA!LastOf(Append(profile.accesses, named), 50)
    <3>1. known.accesses = after
      BY <1>1, <1>2, <1>6
    <3>2. IsSeq(after) /\ Len(after) > 0 /\ after[Len(after)] = named
      BY <1>3, LastAppended
    <3> HIDE DEF after
    <3>3. QED
      BY <3>1, <3>2
  <2>2. QED
    BY <1>3, <2>1, LastInList
<1> DEFINE score == DNA!AnomalyScore(known, e, hour)
           nets == DNA!New(known.networks, DNA!Either(e.payload, <<"network", "network_info">>))
           hours == DNA!New(known.hours, hour)
<1>7. score = DNA!Points(hours, 40) + DNA!Points(FALSE, 30) + DNA!Points(FALSE, 50) + DNA!Points(FALSE, 20)
              + DNA!Points(FALSE, 10) + DNA!Points(nets, 20)
  <2>1. DNA!New(known.locations, place) = FALSE
    BY <1>4
  <2>2. DNA!New(known.resources, named) = FALSE
    BY <1>5
  <2>3. DNA!Spike(known, e) = FALSE
    BY DEF known
  <2>4. (named # None /\ Len(known.accesses) > 5 /\ ~DNA!InList(seen, named)) = FALSE
    BY <1>6
  <2> HIDE DEF hours, nets, seen
  <2>5. QED
    BY <2>1, <2>2, <2>3, <2>4 DEF DNA!AnomalyScore, named, place, seen, hours, nets
<1>8. DNA!Points(FALSE, 30) = 0 /\ DNA!Points(FALSE, 50) = 0 /\ DNA!Points(FALSE, 20) = 0 /\ DNA!Points(FALSE, 10) = 0
      /\ DNA!Points(hours, 40) \in {0, 40} /\ DNA!Points(nets, 20) \in {0, 20}
  BY DEF DNA!Points
<1> HIDE DEF score
<1>9. score \in {0, 20, 40, 60}
  <2> DEFINE a == DNA!Points(hours, 40)
             b == DNA!Points(nets, 20)
  <2>1. score = a + 0 + 0 + 0 + 0 + b
    BY <1>7, <1>8
  <2>2. a \in {0, 40} /\ b \in {0, 20}
    BY <1>8
  <2> HIDE DEF a, b
  <2>3. QED
    BY <2>1, <2>2
<1>10. ~(score >= 65)
  BY <1>9
<1>11. QED
  BY <1>10 DEF score, known

\* A request teaches the profile whatever it is compared by, the hour excepted.
LEMMA RequestsAreNormal ==
  ASSUME NEW profile, ProfileType(profile), NEW p, NEW hour
  PROVE  ~(DNA!RequestScore(DNA!Requested(profile, p, hour), p, hour) >= 65)
<1> DEFINE known == DNA!Requested(profile, p, hour)
           place == DNA!Get(p, "location", None)
           network == DNA!Get(p, "network", None)
           hours == DNA!New(known.hours, hour)
           score == DNA!RequestScore(known, p, hour)
<1>1. /\ known.locations = DNA!Learnt(profile.locations, place, 10)
      /\ known.networks = DNA!Learnt(profile.networks, network, 5)
      /\ known.resources = DNA!Learnt(profile.resources, p.resource, 20)
  <2> HIDE DEF place, network
  <2>1. QED
    BY DEF DNA!Requested, ProfileType, place, network
<1> HIDE DEF known, place, network
<1>2. IsSeq(profile.locations) /\ IsSeq(profile.resources) /\ IsSeq(profile.networks) /\ 5 \in Nat \ {0} /\ 10 \in Nat \ {0}
      /\ 20 \in Nat \ {0}
  BY DEF ProfileType
<1>3. ~DNA!New(known.locations, place) /\ ~DNA!New(known.networks, network) /\ ~DNA!New(known.resources, p.resource)
  BY <1>1, <1>2, ListLearns
<1>4. score = DNA!Points(hours, 40) + DNA!Points(FALSE, 30) + DNA!Points(FALSE, 20) + DNA!Points(FALSE, 20)
  <2>1. DNA!New(known.locations, place) = FALSE /\ DNA!New(known.networks, network) = FALSE
        /\ DNA!New(known.resources, p.resource) = FALSE
    BY <1>3
  <2> HIDE DEF hours
  <2>2. QED
    BY <2>1 DEF DNA!RequestScore, place, network, hours
<1>5. DNA!Points(FALSE, 30) = 0 /\ DNA!Points(FALSE, 20) = 0 /\ DNA!Points(hours, 40) \in {0, 40}
  BY DEF DNA!Points
<1> HIDE DEF score
<1>6. score \in {0, 40}
  <2> DEFINE a == DNA!Points(hours, 40)
  <2>1. score = a + 0 + 0 + 0
    BY <1>4, <1>5
  <2>2. a \in {0, 40}
    BY <1>5
  <2> HIDE DEF a
  <2>3. QED
    BY <2>1, <2>2
<1>7. ~(score >= 65)
  BY <1>6
<1>8. QED
  BY <1>7 DEF score, known

\* Only what brings a volume of traffic is an anomaly.
LEMMA Deviating ==
  ASSUME NEW profile, ProfileType(profile), NEW e, NEW hour, DNA!Anomalous(profile, e, hour)
  PROVE  e.kind # "request" /\ DNA!Volume(e) > 0
<1>1. e.kind # "request"
  BY RequestsAreNormal DEF DNA!Anomalous, DNA!Compared
<1>2. DNA!AnomalyScore(DNA!Updated(profile, e, hour), e, hour) >= 65
  BY <1>1 DEF DNA!Anomalous, DNA!Compared
<1>3. DNA!Spike(DNA!Updated(profile, e, hour), e)
  BY <1>2, NothingNew
<1>4. QED
  BY <1>1, <1>3 DEF DNA!Spike

-----------------------------------------------------------------------------
(* Two engines that ask for attributes under names nobody gives them. *)

\* A profile without a list under a name that _update_stats asks for is never
\* stable.
Unstable(p) ==
  /\ DOMAIN p \intersect {"data_volume", "lateral", "after_hours", "sensitive"} = {}
  /\ "is_stable" \in DOMAIN p /\ ~p.is_stable

LEMMA StatsUnstable ==
  ASSUME NEW p, Unstable(p), NEW attr \in {"data_volume", "lateral", "after_hours", "sensitive"}
  PROVE  Unstable(UEBA!UpdateStats(p, attr))
<1>1. UEBA!StatsOf(p, attr) = <<>>
  BY DEF UEBA!StatsOf, UEBA!Get, Unstable
<1>2. MinEvents \in Nat \ {0}
  BY EnginesAssumption DEF UEBA!UserBehaviorAssumption
<1>3. ~(Len(UEBA!StatsOf(p, attr)) >= MinEvents)
  <2>1. Len(<<>>) = 0 /\ ~(0 >= MinEvents)
    BY <1>2
  <2>2. QED
    BY <1>1, <2>1
<1>4. QED
  BY <1>3 DEF UEBA!UpdateStats, Unstable

LEMMA ListsUnstable ==
  ASSUME NEW p, Unstable(p), NEW field, field # "is_stable", NEW value
  PROVE  Unstable([p EXCEPT ![field] = value])
BY DEF Unstable

LEMMA UpdatedUnstable ==
  ASSUME NEW p, Unstable(p), NEW e, NEW hour
  PROVE  Unstable(UEBA!Updated(p, e, hour))
<1> DEFINE Volume(q) == UEBA!AddDataVolume(q, e.payload)
           Lateral(q) == UEBA!AddLateral(q, e.payload)
           Hours(q) == UEBA!AddAfterHours(q, hour)
<1>1. ASSUME NEW q, Unstable(q) PROVE Unstable(UEBA!AddDataVolume(q, e.payload))
  BY <1>1, ListsUnstable, StatsUnstable DEF UEBA!AddDataVolume
<1>2. ASSUME NEW q, Unstable(q) PROVE Unstable(UEBA!AddLateral(q, e.payload))
  BY <1>2, ListsUnstable, StatsUnstable DEF UEBA!AddLateral
<1>3. ASSUME NEW q, Unstable(q), NEW app PROVE Unstable(UEBA!AddApp(q, app))
  BY <1>3, ListsUnstable DEF UEBA!AddApp
<1>4. ASSUME NEW q, Unstable(q) PROVE Unstable(UEBA!AddAfterHours(q, hour))
  BY <1>4, ListsUnstable, StatsUnstable DEF UEBA!AddAfterHours
<1>5. ASSUME NEW q, Unstable(q), NEW place PROVE Unstable(UEBA!AddSensitive(q, place))
  BY <1>5, ListsUnstable, StatsUnstable DEF UEBA!AddSensitive
<1>6. Unstable(UEBA!Seen(p, hour))
  <2> DEFINE first == [p EXCEPT !.hours = p.hours \union {hour}]
  <2>1. Unstable(first)
    BY ListsUnstable
  <2>2. UEBA!Seen(p, hour) = [first EXCEPT !.total_events = p.total_events + 1]
    BY DEF UEBA!Seen
  <2> HIDE DEF first
  <2>3. QED
    BY <2>1, <2>2, ListsUnstable
<1>7. QED
  BY <1>1, <1>2, <1>3, <1>4, <1>5, <1>6 DEF UEBA!Updated

\* No profile is
UEBAQuiet == \A id \in DOMAIN uebaProfiles : Unstable(uebaProfiles[id])

LEMMA UEBAProfile ==
  ASSUME UEBAQuiet, NEW id
  PROVE  Unstable(UEBA!Profile(id))
<1>1. Unstable(UEBA!NewProfile)
  BY DEF Unstable, UEBA!NewProfile
<1>2. QED
  BY <1>1 DEF UEBA!Profile, UEBA!Get, UEBAQuiet

LEMMA UEBASilent ==
  ASSUME UEBAQuiet, NEW e, NEW hour
  PROVE  Elems(UEBA!Alerts(e, hour)) = {}
<1>1. UEBA!Judged(e, hour) = {}
  BY UEBAProfile, UpdatedUnstable DEF UEBA!Judged, UEBA!Anomalous, Unstable
<1> DEFINE ids == IF e.kind = "finding" THEN <<>> ELSE UEBA!SetToSeq(UEBA!Judged(e, hour))
           alert(id) == UEBA!ThreatEvent("UEBAEngine", "anomalous_behavior", "high",
                                         [entity_id |-> id, overall_anomaly_score |-> 600], e.depth + 1)
<1>2. DOMAIN ids = {}
  <2>1. DOMAIN <<>> = {}
    OBVIOUS
  <2>2. PICK n \in Nat : UEBA!SetToSeq({}) \in [1..n -> {}]
    BY FS_EmptySet, Enumerated
  <2>3. DOMAIN UEBA!SetToSeq({}) = {}
    BY <2>2
  <2>4. QED
    BY <1>1, <2>1, <2>3
<1>3. UEBA!Alerts(e, hour) = [i \in DOMAIN ids |-> alert(ids[i])]
  BY DEF UEBA!Alerts
<1> HIDE DEF ids, alert
<1>4. QED
  BY <1>2, <1>3 DEF Elems

LEMMA UEBAStep ==
  ASSUME UEBAQuiet, NEW e, NEW hour, UEBA!On(e, hour)
  PROVE  UEBAQuiet'
BY UEBAProfile, UpdatedUnstable DEF UEBA!On, UEBAQuiet

\* The overall score is a sum of attributes under the names of the weights, and
\* the record has none of them.
Scoreless(r) == DOMAIN r \intersect {"behavioral", "data_exfil", "hr_signal", "physical", "peer_compare"} = {}

InsiderQuiet == \A user \in DOMAIN records : Scoreless(records[user])

LEMMA AfterScoreless ==
  ASSUME InsiderQuiet, NEW e, e.kind \in {"threat", "request", "finding"}
  PROVE  Scoreless(Insider!After(e))
<1>1. Scoreless(Insider!NewRecord)
  BY DEF Scoreless, Insider!NewRecord
<1>2. Scoreless(Insider!Record(Insider!UserOf(e)))
  BY <1>1 DEF Insider!Record, Insider!Get, InsiderQuiet
<1> DEFINE r == Insider!Record(Insider!UserOf(e))
<1>3. DOMAIN Insider!AfterThreat(r, e) = DOMAIN r
  <2> HIDE DEF r
  <2>1. QED
    BY DEF Insider!AfterThreat
<1>4. CASE e.kind = "threat"
  <2>1. Insider!After(e) = Insider!AfterThreat(r, e)
    BY <1>4 DEF Insider!After
  <2> HIDE DEF r
  <2>2. QED
    BY <1>2, <1>3, <2>1 DEF Scoreless, r
<1>5. CASE e.kind = "request"
  <2>1. Insider!After(e) = r \/ Insider!After(e) = [r EXCEPT !.data_exfil_score = Insider!Clamp(@ + 50)]
    BY <1>5 DEF Insider!After
  <2> HIDE DEF r
  <2>2. QED
    BY <1>2, <2>1 DEF Scoreless, r
<1>6. CASE e.kind = "finding"
  <2>1. Insider!After(e) = r \/ Insider!After(e) = [r EXCEPT !.behavioral_score = Insider!Clamp(@ + 300)]
    BY <1>6 DEF Insider!After
  <2> HIDE DEF r
  <2>2. QED
    BY <1>2, <2>1 DEF Scoreless, r
<1>7. QED
  BY <1>4, <1>5, <1>6

LEMMA InsiderSilent ==
  ASSUME InsiderQuiet, NEW e, e.kind \in {"threat", "request", "finding"}
  PROVE  Insider!Alerts(e) = <<>>
<1> DEFINE r == Insider!After(e)
<1>1. Scoreless(r)
  BY AfterScoreless
<1> HIDE DEF r
<1>2. Insider!Overall(r) = 0
  <2>1. /\ Insider!Attr(r, "behavioral") = 0 /\ Insider!Attr(r, "data_exfil") = 0 /\ Insider!Attr(r, "hr_signal") = 0
        /\ Insider!Attr(r, "physical") = 0 /\ Insider!Attr(r, "peer_compare") = 0
    BY <1>1 DEF Insider!Attr, Insider!Get, Scoreless
  <2>2. /\ Insider!Weight["behavioral"] = 30 /\ Insider!Weight["data_exfil"] = 25 /\ Insider!Weight["hr_signal"] = 15
        /\ Insider!Weight["physical"] = 15 /\ Insider!Weight["peer_compare"] = 15
    BY DEF Insider!Weight
  <2>3. Insider!Overall(r) = (30 * 0 + 25 * 0 + 15 * 0 + 15 * 0 + 15 * 0) \div 100
    BY <2>1, <2>2 DEF Insider!Overall
  <2>4. QED
    BY <2>3
<1>3. Insider!RiskLevel(0) = "low"
  BY DEF Insider!RiskLevel
<1>4. ~Insider!Alerting(e)
  BY <1>2, <1>3 DEF Insider!Alerting, r
<1>5. QED
  BY <1>4 DEF Insider!Alerts

LEMMA InsiderStep ==
  ASSUME InsiderQuiet, NEW e, e.kind \in {"threat", "request", "finding"}, Insider!On(e)
  PROVE  InsiderQuiet'
<1> DEFINE user == Insider!UserOf(e)
           after == Insider!Recalculated(Insider!After(e))
<1>1. Scoreless(after)
  BY AfterScoreless DEF Insider!Recalculated, Scoreless
<1>2. \/ records' = records
      \/ \E watched : records' = Insider!With(records, user, [after EXCEPT !.is_monitoring = watched])
  BY DEF Insider!On
<1> HIDE DEF after, user
<1>3. \A watched : Scoreless([after EXCEPT !.is_monitoring = watched])
  BY <1>1 DEF Scoreless
<1>4. QED
  BY <1>2, <1>3 DEF InsiderQuiet, Insider!With

LEMMA InsiderDecay ==
  ASSUME InsiderQuiet, Insider!Decay
  PROVE  InsiderQuiet'
<1> DEFINE less(r) == [r EXCEPT !.behavioral_score = (@ * 97) \div 100, !.data_exfil_score = (@ * 97) \div 100,
                                !.hr_signal_score = (@ * 97) \div 100, !.physical_score = (@ * 97) \div 100,
                                !.peer_compare_score = (@ * 97) \div 100]
           decayed(r) == Insider!Recalculated(less(r))
<1>1. \A r : DOMAIN less(r) = DOMAIN r
  OBVIOUS
<1>2. \A r : DOMAIN decayed(r) = DOMAIN r
  <2> HIDE DEF less
  <2>1. QED
    BY <1>1 DEF Insider!Recalculated
<1>3. records' = [u \in DOMAIN records |->
                     [decayed(records[u]) EXCEPT !.is_monitoring = @ /\ decayed(records[u]).overall_score >= 450]]
  BY DEF Insider!Decay
<1> HIDE DEF decayed, less
<1>4. DOMAIN records' = DOMAIN records /\ \A u \in DOMAIN records : DOMAIN records'[u] = DOMAIN records[u]
  BY <1>2, <1>3
<1>5. QED
  BY <1>4 DEF InsiderQuiet, Scoreless

-----------------------------------------------------------------------------
(* What an event leads to. *)

\* Keys that make an engine or an agent measure or look up something
Loud == {"unusual_data_volume_gb", "data_volume_gb", "packet_rate", "src_ip", "dst_ip", "domain", "dst_domain", "url_host",
         "file_hash", "hash", "email", "sender"}

\* The payload of an alert about a sighting: it makes the same sighting again
Described(p) ==
  /\ {"user_id", "zone", "badge_scan", "face_match", "tailgate_detected"} \subseteq DOMAIN p
  /\ DOMAIN p \intersect {"motion_anomaly_score", "confidence"} = {}

\* An alert of an engine has one of these types and none of those keys
Secondary(e) ==
  /\ e.type \in {"anomalous_behavior", "device_health_fail", "threat_intel_alert", "physical_intrusion", "physical_cyber_mismatch"}
  /\ DOMAIN e.payload \intersect Loud = {}
  /\ e.type = "physical_intrusion" => Described(e.payload)

\* The bus knows what the physical engine says about the event
Echoes(e, known) == \A x \in Elems(Physical!Anomalies(Physical!Sighting(e), 3)) : Fingerprint(x) \in known

\* An event that comes from outside or goes back to one that does
Traced(e, known) ==
  /\ {"kind", "source", "payload", "depth"} \subseteq DOMAIN e
  /\ e.kind \in {"threat", "finding", "request"} /\ e.depth \in 0..2
  /\ e.kind = "threat" => "type" \in DOMAIN e
  /\ e.kind = "request" => e.depth = 0
  /\ e.kind # "finding" => DNA!Volume(e) \in Nat
  /\ e.kind = "finding" /\ e.depth > 0 => "device_id" \notin DOMAIN e.payload
  /\ e.kind = "threat" /\ e.depth > 0 => Secondary(e)
  /\ e.kind = "threat" /\ e.depth = 2 => Echoes(e, known)

LEMMA QuietVolume ==
  ASSUME NEW e, DOMAIN e.payload \intersect Loud = {}
  PROVE  DNA!Volume(e) = 0
<1>1. DNA!Either(e.payload, <<"unusual_data_volume_gb", "data_volume_gb">>) = None
  BY FirstOfTwo DEF Loud
<1>2. QED
  BY <1>1 DEF DNA!Volume

\* An event of its own that an engine publishes at some depth
Raised(x, depth) ==
  /\ {"kind", "source", "payload", "depth", "type"} \subseteq DOMAIN x
  /\ x.kind = "threat" /\ x.depth = depth /\ Secondary(x)

\* A finding that somebody publishes at some depth
Found(x, depth) ==
  {"kind", "source", "payload", "depth", "type"} \subseteq DOMAIN x /\ x.kind = "finding" /\ x.depth = depth

\* The profiles of the behavioural engine
DNAType == \A id \in DOMAIN dnaProfiles : ProfileType(dnaProfiles[id])

LEMMA DNAProfile ==
  ASSUME DNAType, NEW id
  PROVE  ProfileType(DNA!Profile(id))
BY NewTyped DEF DNA!Profile, DNA!Get, DNAType

LEMMA DNARaises ==
  ASSUME DNAType, NEW e, NEW hour, NEW x \in Elems(DNA!Alerts(e, hour))
  PROVE  Raised(x, e.depth + 1) /\ e.kind # "finding" /\ e.kind # "request" /\ DNA!Volume(e) > 0
<1> DEFINE ids == DNA!SetToSeq(DNA!Deviants(e, hour))
<1>1. IsFiniteSet(DNA!Deviants(e, hour))
  <2>1. \E a, b, c : DNA!Learners(e) \subseteq {a, b, c}
    BY FewLearners
  <2>2. QED
    BY <2>1, FewValues DEF DNA!Deviants
<1>2. PICK n \in Nat : ids \in [1..n -> DNA!Deviants(e, hour)]
  BY <1>1, Enumerated
<1>3. DNA!Alerts(e, hour) = [i \in DOMAIN ids |-> DNA!Alert(ids[i], e, hour)]
  BY DEF DNA!Alerts
<1> HIDE DEF ids
<1>4. PICK id \in DNA!Deviants(e, hour) : x = DNA!Alert(id, e, hour)
  BY <1>2, <1>3 DEF Elems
<1>5. id \in DNA!Learners(e) /\ DNA!Anomalous(DNA!Profile(id), e, hour)
  BY DEF DNA!Deviants
<1>6. e.kind # "finding"
  BY <1>5 DEF DNA!Learners
<1>7. e.kind # "request" /\ DNA!Volume(e) > 0
  BY <1>5, <1>6, DNAProfile, Deviating
<1>8. Raised(x, e.depth + 1)
  BY <1>4 DEF DNA!Alert, DNA!ThreatEvent, Raised, Secondary, Loud
<1>9. QED
  BY <1>6, <1>7, <1>8

LEMMA AnnouncementRaises ==
  ASSUME NEW d, NEW depth, NEW x \in Elems(Device!Announcement(d, depth))
  PROVE  Raised(x, depth)
<1>1. x = Device!ThreatEvent("DeviceTrustEngine", "device_health_fail", "critical", [device_id |-> d, action |-> "quarantine"], depth)
  BY ElemsOfSome DEF Device!Announcement
<1>2. QED
  BY <1>1 DEF Device!ThreatEvent, Raised, Secondary, Loud

\* The device engine hears an intrusion or a finding that names a device.
LEMMA DeviceRaises ==
  ASSUME NEW e, NEW x \in Elems(Device!Alerts(e))
  PROVE  /\ Raised(x, e.depth + 1)
         /\ (e.kind = "threat" /\ e.type = "network_intrusion") \/ (e.kind = "finding" /\ "device_id" \in DOMAIN e.payload)
<1>1. Device!Quarantines(e) /\ x \in Elems(Device!Announcement(Device!DeviceOf(e), e.depth + 1))
  BY ElemsOfSome DEF Device!Alerts
<1>2. e.kind = "finding" => "device_id" \in DOMAIN e.payload
  BY <1>1 DEF Device!Quarantines, Device!DeviceOf, Device!Get
<1>3. (e.kind = "threat" /\ e.type = "network_intrusion") \/ e.kind = "finding"
  BY <1>1 DEF Device!Quarantines, Device!Intruding, Device!Compromising
<1>4. QED
  BY <1>1, <1>2, <1>3, AnnouncementRaises

\* What is not an indicator is none.
Named == None \notin DOMAIN iocs

\* The threat intelligence looks up indicators, and an event without one has
\* none that it knows.
LEMMA IntelRaises ==
  ASSUME Named, NEW e, NEW x \in Elems(Intel!Alerts(e))
  PROVE  /\ Raised(x, e.depth + 1)
         /\ e.kind = "threat" /\ DOMAIN e.payload \intersect Loud # {}
<1>1. e.kind = "threat" /\ Intel!Matches(e) # {}
  BY ElemsOfSome DEF Intel!Alerts
<1>2. ASSUME DOMAIN e.payload \intersect Loud = {} PROVE FALSE
  <2> DEFINE p == e.payload
             list == Intel!Indicators(p)
  <2>1. \A a, b : Intel!Either(p, <<a, b>>) = DNA!Either(p, <<a, b>>)
    BY DEF Intel!Either, DNA!Either
  <2>2. Intel!Either(p, <<"domain", "dst_domain">>) = None /\ Intel!Either(p, <<"file_hash", "hash">>) = None
        /\ Intel!Either(p, <<"email", "sender">>) = None
    BY <1>2, <2>1, FirstOfTwo DEF Loud
  <2>3. Intel!Get(p, "src_ip", None) = None /\ Intel!Get(p, "dst_ip", None) = None /\ Intel!Get(p, "url_host", None) = None
    BY <1>2 DEF Intel!Get, Loud
  <2>4. list = <<None, None, None, None, None, None>>
    BY <2>2, <2>3 DEF Intel!Indicators
  <2>5. \A i \in DOMAIN list : list[i] = None
    BY <2>4
  <2>6. QED
    BY <1>1, <2>5 DEF Intel!Matches, Named
<1>3. PICK severity, payload :
        /\ x = Intel!ThreatEvent("ThreatIntelligenceEngine", "threat_intel_alert", severity, payload, e.depth + 1)
        /\ DOMAIN payload = {"original_event", "matched_iocs"}
  <2> DEFINE severity == Intel!Matched(e, Intel!HighestSeverity(e)).severity
             payload == [original_event |-> e.id, matched_iocs |-> {Intel!Indicators(e.payload)[i] : i \in Intel!Matches(e)}]
  <2>1. x = Intel!ThreatEvent("ThreatIntelligenceEngine", "threat_intel_alert", severity, payload, e.depth + 1)
    BY <1>1, ElemsOfSome DEF Intel!Alerts
  <2>2. DOMAIN payload = {"original_event", "matched_iocs"}
    OBVIOUS
  <2> HIDE DEF severity, payload
  <2>3. QED
    BY <2>1, <2>2
<1>4. Raised(x, e.depth + 1)
  BY <1>3 DEF Intel!ThreatEvent, Raised, Secondary, Loud
<1>5. QED
  BY <1>1, <1>2, <1>4

LEMMA MentionRaises ==
  ASSUME NEW type, NEW confidence, NEW x \in Elems(Intel!Mention(type, confidence))
  PROVE  Raised(x, 0)
<1>1. x = Intel!ThreatEvent("ThreatIntelligenceEngine:DarkWeb", "threat_intel_alert", Intel!MentionSeverity(type, confidence),
                            [mention_type |-> type, confidence |-> confidence], 0)
  BY ElemsOfSome DEF Intel!Mention
<1>2. QED
  BY <1>1 DEF Intel!ThreatEvent, Raised, Secondary, Loud

LEMMA IndicatorsNamed ==
  ASSUME Named
  PROVE  /\ \A e : Intel!On(e) => Named'
         /\ \A value, ioc : value # None /\ Intel!AddIoc(value, ioc) => Named'
         /\ \A value : Intel!RemoveIoc(value) => Named'
<1>1. ASSUME NEW known, None \notin DOMAIN known, NEW value, value # None, NEW ioc
      PROVE  None \notin DOMAIN Intel!Added(known, value, ioc)
  <2>1. CASE value \notin DOMAIN known
    BY <1>1, <2>1 DEF Intel!Added, Intel!With
  <2>2. CASE value \in DOMAIN known
    <3>1. \E item : Intel!Added(known, value, ioc) = [known EXCEPT ![value] = item]
      BY <2>2 DEF Intel!Added
    <3>2. QED
      BY <1>1, <3>1
  <2>3. QED
    BY <2>1, <2>2
<1>2. ASSUME NEW e, Intel!On(e) PROVE Named'
  <2>1. None \notin DOMAIN Intel!Learned(e)
    BY <1>1 DEF Intel!Learned, Named
  <2>2. QED
    BY <1>2, <2>1 DEF Intel!On, Named
<1>3. QED
  BY <1>1, <1>2 DEF Intel!AddIoc, Intel!RemoveIoc, Named

\* What the physical engine says about a sighting
LEMMA ElemsOfAnomalies ==
  ASSUME NEW s, NEW depth
  PROVE  Elems(Physical!Anomalies(s, depth)) =
           (IF s.zone \in Physical!RestrictedZones /\ ~(s.badge /\ s.face) THEN {Physical!Anomaly(s, "unauthorized", depth)} ELSE {})
           \union (IF s.motion > 850 /\ ~s.badge /\ ~s.face THEN {Physical!Anomaly(s, "motion", depth)} ELSE {})
           \union (IF s.tailgate THEN {Physical!Anomaly(s, "tailgating", depth)} ELSE {})
<1>1. \A condition, event : /\ IsSeq(Physical!If(condition, event))
                            /\ Elems(Physical!If(condition, event)) = IF condition THEN {event} ELSE {}
  BY Singles, ElemsOfSome DEF Physical!If
<1> DEFINE one == Physical!If(s.zone \in Physical!RestrictedZones /\ ~(s.badge /\ s.face), Physical!Anomaly(s, "unauthorized", depth))
           two == Physical!If(s.motion > 850 /\ ~s.badge /\ ~s.face, Physical!Anomaly(s, "motion", depth))
           three == Physical!If(s.tailgate, Physical!Anomaly(s, "tailgating", depth))
<1>2. Physical!Anomalies(s, depth) = one \o two \o three
  BY DEF Physical!Anomalies
<1>3. IsSeq(one) /\ IsSeq(two) /\ IsSeq(three)
  BY <1>1
<1>4. /\ Elems(one) = (IF s.zone \in Physical!RestrictedZones /\ ~(s.badge /\ s.face)
                       THEN {Physical!Anomaly(s, "unauthorized", depth)} ELSE {})
      /\ Elems(two) = (IF s.motion > 850 /\ ~s.badge /\ ~s.face THEN {Physical!Anomaly(s, "motion", depth)} ELSE {})
      /\ Elems(three) = (IF s.tailgate THEN {Physical!Anomaly(s, "tailgating", depth)} ELSE {})
  BY <1>1
<1> HIDE DEF one, two, three
<1>5. Elems(one \o two \o three) = (Elems(one) \union Elems(two)) \union Elems(three)
  <2>1. IsSeq(one \o two) /\ Elems(one \o two) = Elems(one) \union Elems(two)
    BY <1>3, Joined, ElemsOfAll
  <2> DEFINE both == one \o two
  <2>2. IsSeq(both)
    BY <2>1
  <2> HIDE DEF both
  <2>3. Elems(both \o three) = Elems(both) \union Elems(three)
    BY <1>3, <2>2, ElemsOfAll
  <2>4. QED
    BY <2>1, <2>3 DEF both
<1>6. QED
  BY <1>2, <1>4, <1>5

\* An alert about a sighting is a sighting of the same, whose motion is lost.
LEMMA SightingRaises ==
  ASSUME NEW s, NEW depth, NEW x \in Elems(Physical!Anomalies(s, depth))
  PROVE  /\ Raised(x, depth)
         /\ Physical!Sighting(x) = [user |-> s.user, zone |-> s.zone, at |-> clock, badge |-> s.badge, face |-> s.face,
                                    motion |-> 0, tailgate |-> s.tailgate, confidence |-> 700]
<1>1. PICK reason : x = Physical!Anomaly(s, reason, depth)
  BY ElemsOfAnomalies
<1>2. PICK p : /\ p = [user_id |-> s.user, zone |-> s.zone, badge_scan |-> s.badge, face_match |-> s.face,
                       motion_score |-> s.motion, tailgate_detected |-> s.tailgate, reason |-> reason]
               /\ x = Physical!ThreatEvent("PhysicalSecurityEngine", "physical_intrusion", Physical!Severity(s), p, depth)
  BY <1>1 DEF Physical!Anomaly
<1>3. /\ DOMAIN p = {"user_id", "zone", "badge_scan", "face_match", "motion_score", "tailgate_detected", "reason"}
      /\ p.user_id = s.user /\ p.zone = s.zone /\ p.badge_scan = s.badge /\ p.face_match = s.face
      /\ p.tailgate_detected = s.tailgate
  BY <1>2
<1>4. /\ x.payload = p /\ x.kind = "threat" /\ x.type = "physical_intrusion" /\ x.depth = depth
      /\ x.source = "PhysicalSecurityEngine" /\ DOMAIN x = {"kind", "source", "type", "severity", "payload", "depth"}
  BY <1>2 DEF Physical!ThreatEvent
<1>5. Raised(x, depth)
  BY <1>3, <1>4 DEF Raised, Secondary, Loud, Described
<1>6. Physical!Either(p, <<"user_id", "entity_id">>) = s.user
  <2>1. Physical!Either(p, <<"user_id", "entity_id">>) = DNA!Either(p, <<"user_id", "entity_id">>)
    BY DEF Physical!Either, DNA!Either
  <2>2. QED
    BY <1>3, <2>1, FirstOfTwo
<1>7. Physical!Sighting(x) = [user |-> s.user, zone |-> s.zone, at |-> clock, badge |-> s.badge, face |-> s.face,
                              motion |-> 0, tailgate |-> s.tailgate, confidence |-> 700]
  BY <1>3, <1>4, <1>6 DEF Physical!Sighting, Physical!Get
<1>8. QED
  BY <1>4, <1>5, <1>7

LEMMA DescribedAgain ==
  ASSUME NEW e, Described(e.payload), NEW depth, NEW x \in Elems(Physical!Anomalies(Physical!Sighting(e), depth))
  PROVE  Physical!Sighting(x) = Physical!Sighting(e)
<1> DEFINE s == Physical!Sighting(e)
<1>1. s = [user |-> s.user, zone |-> s.zone, at |-> clock, badge |-> s.badge, face |-> s.face,
           motion |-> 0, tailgate |-> s.tailgate, confidence |-> 700]
  <2> DEFINE p == e.payload
             user == Physical!Either(p, <<"user_id", "entity_id">>)
  <2>1. /\ Physical!Get(p, "badge_scan", FALSE) = p.badge_scan /\ Physical!Get(p, "face_match", FALSE) = p.face_match
        /\ Physical!Get(p, "tailgate_detected", FALSE) = p.tailgate_detected
        /\ Physical!Get(p, "motion_anomaly_score", 0) = 0 /\ Physical!Get(p, "confidence", 700) = 700
    BY DEF Physical!Get, Described
  <2>2. s = [user |-> user, zone |-> p.zone, at |-> clock, badge |-> p.badge_scan, face |-> p.face_match,
             motion |-> 0, tailgate |-> p.tailgate_detected, confidence |-> 700]
    BY <2>1 DEF Physical!Sighting
  <2> HIDE DEF s, p, user
  <2>3. QED
    BY <2>2
<1> HIDE DEF s
<1>2. QED
  BY <1>1, SightingRaises DEF s

\* The bus does not see the depth.
LEMMA SameFingerprints ==
  ASSUME NEW s, NEW one, NEW two, NEW x \in Elems(Physical!Anomalies(s, one))
  PROVE  \E y \in Elems(Physical!Anomalies(s, two)) : y.kind = "threat" /\ Fingerprint(y) = Fingerprint(x)
<1>1. PICK reason : /\ x = Physical!Anomaly(s, reason, one)
                    /\ Physical!Anomaly(s, reason, two) \in Elems(Physical!Anomalies(s, two))
  <2>1. \A d : Elems(Physical!Anomalies(s, d)) =
           (IF s.zone \in Physical!RestrictedZones /\ ~(s.badge /\ s.face) THEN {Physical!Anomaly(s, "unauthorized", d)} ELSE {})
           \union (IF s.motion > 850 /\ ~s.badge /\ ~s.face THEN {Physical!Anomaly(s, "motion", d)} ELSE {})
           \union (IF s.tailgate THEN {Physical!Anomaly(s, "tailgating", d)} ELSE {})
    BY ElemsOfAnomalies
  <2>2. QED
    BY <2>1
<1>2. /\ Physical!Anomaly(s, reason, two).kind = "threat"
      /\ Fingerprint(Physical!Anomaly(s, reason, two)) = Fingerprint(Physical!Anomaly(s, reason, one))
  BY DEF Physical!Anomaly, Physical!ThreatEvent, Fingerprint
<1>3. QED
  BY <1>1, <1>2

LEMMA PhysicalRaises ==
  ASSUME NEW e, NEW x \in Elems(Physical!Alerts(e))
  PROVE  /\ Raised(x, e.depth + 1)
         /\ e.kind = "threat"
         /\ \/ /\ e.type = "physical_intrusion"
               /\ Physical!Alerts(e) = Physical!Anomalies(Physical!Sighting(e), e.depth + 1)
            \/ e.type \in {"network_intrusion", "identity_mismatch"}
<1>1. CASE Physical!Sighted(e)
  BY <1>1, SightingRaises DEF Physical!Alerts, Physical!Sighted
<1>2. CASE ~Physical!Sighted(e) /\ Physical!Cyber(e)
  <2>1. x \in Elems(Physical!Mismatches(e))
    BY <1>2 DEF Physical!Alerts
  <2>2. PICK user, kind, severity : x \in Elems(Physical!Mismatch(user, kind, severity, e.depth + 1))
    BY <2>1, ElemsOfSome DEF Physical!Mismatches
  <2>3. x = Physical!ThreatEvent("PhysicalSecurityEngine", "physical_cyber_mismatch", severity,
                                 [user_id |-> user, mismatch_type |-> kind], e.depth + 1)
    BY <2>2, ElemsOfSome DEF Physical!Mismatch
  <2>4. Raised(x, e.depth + 1)
    BY <2>3 DEF Physical!ThreatEvent, Raised, Secondary, Loud
  <2>5. QED
    BY <1>2, <2>4 DEF Physical!Cyber
<1>3. CASE ~Physical!Sighted(e) /\ ~Physical!Cyber(e)
  BY <1>3, ElemsOfSome DEF Physical!Alerts
<1>4. QED
  BY <1>1, <1>2, <1>3

\* What a finding about an event of some type may be called
Family(type) ==
  {type, "anomalous_behavior"}
  \union (IF type \in {"network_intrusion", "anomalous_behavior", "insider_threat", "memory_threat"} THEN {"network_intrusion"} ELSE {})

\* A finding about an event refers to it.
About(x, e) == {"event_id", "type"} \subseteq DOMAIN x /\ x.event_id = e.id /\ x.type \in Family(e.type)

\* The anomaly detection measures what a threat event brings.
LEMMA ComplyFinds ==
  ASSUME NEW e, NEW x \in Elems(Comply!Findings(e))
  PROVE  /\ Found(x, e.depth + 1) /\ "device_id" \notin DOMAIN x.payload
         /\ e.kind = "threat" /\ DOMAIN e.payload \intersect Loud # {}
         /\ About(x, e)
<1> DEFINE outliers == {metric \in Comply!Measured(e) : Comply!Outlier(e, metric)}
           odd == Comply!SetToSeq(outliers)
           severity(metric) == Comply!AnomalySeverity(e, metric)
           sure(metric) == IF Comply!ZScoreAbove(e, metric, 12) THEN 300 ELSE 250
           finding(metric) == Comply!AgentFinding("AnomalyDetectionEngine", "anomalous_behavior", severity(metric), sure(metric),
                                                  [metric |-> metric], e.depth + 1)
<1>1. outliers \subseteq {"packet_rate", "data_volume_gb", "unusual_data_volume_gb"}
  BY DEF Comply!Measured, Comply!Metrics
<1>2. PICK n \in Nat : odd \in [1..n -> outliers]
  <2> HIDE DEF outliers
  <2>1. QED
    BY <1>1, FewValues, Enumerated
<1>3. Comply!Findings(e) = [i \in DOMAIN odd |-> Comply!With(finding(odd[i]), "event_id", e.id)]
  BY DEF Comply!Findings
<1> HIDE DEF odd, finding
<1>4. PICK metric \in outliers : x = Comply!With(finding(metric), "event_id", e.id)
  BY <1>2, <1>3 DEF Elems
<1>5. e.kind = "threat" /\ DOMAIN e.payload \intersect Loud # {}
  BY DEF Comply!Measured, Comply!Metrics, Loud
<1> HIDE DEF outliers, severity, sure
<1>6. /\ DOMAIN finding(metric) = {"kind", "source", "type", "severity", "confidence", "payload", "depth"}
      /\ finding(metric).kind = "finding" /\ finding(metric).source = "AnomalyDetectionEngine"
      /\ finding(metric).payload = [metric |-> metric] /\ finding(metric).depth = e.depth + 1
      /\ finding(metric).type = "anomalous_behavior"
  BY DEF finding, Comply!AgentFinding
<1>7. /\ DOMAIN x = DOMAIN finding(metric) \union {"event_id"}
      /\ \A k \in DOMAIN finding(metric) : k # "event_id" => x[k] = finding(metric)[k]
      /\ x.event_id = e.id
  BY <1>4 DEF Comply!With
<1>8. /\ x.kind = "finding" /\ x.source = "AnomalyDetectionEngine" /\ x.payload = [metric |-> metric]
      /\ x.depth = e.depth + 1 /\ x.type = "anomalous_behavior"
  BY <1>6, <1>7
<1>9. Found(x, e.depth + 1) /\ About(x, e)
  BY <1>6, <1>7, <1>8 DEF Found, About, Family
<1>10. QED
  BY <1>5, <1>8, <1>9

\* A finding that asks for a decoy is the finding it was.
LEMMA DecoyedFinds ==
  ASSUME NEW x, NEW asks, NEW depth, Found(x, depth)
  PROVE  LET y == Decoyed(x, asks)
         IN  /\ Found(y, depth) /\ y.payload = x.payload /\ y.type = x.type
             /\ "event_id" \in DOMAIN y <=> "event_id" \in DOMAIN x
             /\ "event_id" \in DOMAIN x => y.event_id = x.event_id
             /\ Agents!Decoyed(x, asks) = y /\ CSDE!Decoyed(x, asks) = y
<1> DEFINE y == Decoyed(x, asks)
<1>1. y = x \/ y = With(x, "pseudo_lock", TRUE)
  BY DEF Decoyed
<1>2. Agents!Decoyed(x, asks) = y /\ CSDE!Decoyed(x, asks) = y
  BY DEF Agents!Decoyed, CSDE!Decoyed, Agents!With, CSDE!With, Decoyed, With
<1> HIDE DEF y
<1>3. y = x \/ (DOMAIN y = DOMAIN x \union {"pseudo_lock"} /\ \A k \in DOMAIN x : k # "pseudo_lock" => y[k] = x[k])
  BY <1>1 DEF With
<1>4. QED
  BY <1>2, <1>3 DEF Found, y

LEMMA ConvergedFinds ==
  ASSUME NEW x \in Elems(CSDE!Findings)
  PROVE  Found(x, 0) /\ "event_id" \notin DOMAIN x
<1>1. PICK id : x = CSDE!Finding(id)
  BY DEF CSDE!Findings, Elems
<1> DEFINE score == CSDE!Max({r[2] : r \in CSDE!Fired(id)})
           asks == \E r \in CSDE!Fired(id) : r[1] \in {"ghost_login", "ransomware"}
           finding == CSDE!AgentFinding("ConvergedSecurityEngine", "correlated_attack", CSDE!ScoreSeverity(score), score,
                                        [entity_id |-> id], 0)
<1>2. x = CSDE!Decoyed(finding, asks)
  BY <1>1 DEF CSDE!Finding
<1> HIDE DEF score, asks
<1>3. Found(finding, 0) /\ "event_id" \notin DOMAIN finding
  BY DEF CSDE!AgentFinding, Found
<1> HIDE DEF finding
<1>4. QED
  BY <1>2, <1>3, DecoyedFinds

\* A finding about an event
LEMMA AboutFinds ==
  ASSUME NEW e, NEW agent, NEW type, NEW severity, NEW confidence, NEW metadata
  PROVE  LET x == Agents!About(e, agent, type, severity, confidence, metadata)
         IN  /\ Found(x, e.depth) /\ x.payload = metadata
             /\ {"event_id", "type"} \subseteq DOMAIN x /\ x.event_id = e.id /\ x.type = type
<1> DEFINE finding == Agents!AgentFinding(agent, type, severity, Agents!Clamp(confidence), metadata, e.depth)
           x == Agents!About(e, agent, type, severity, confidence, metadata)
<1>1. /\ DOMAIN finding = {"kind", "source", "type", "severity", "confidence", "payload", "depth"}
      /\ finding.kind = "finding" /\ finding.source = agent /\ finding.payload = metadata /\ finding.depth = e.depth
      /\ finding.type = type
  BY DEF Agents!AgentFinding
<1>2. x = Agents!With(finding, "event_id", e.id)
  BY DEF Agents!About
<1> HIDE DEF finding, x
<1>3. /\ DOMAIN x = DOMAIN finding \union {"event_id"}
      /\ \A k \in DOMAIN finding : k # "event_id" => x[k] = finding[k]
      /\ x.event_id = e.id
  BY <1>2 DEF Agents!With
<1>4. x.kind = "finding" /\ x.source = agent /\ x.payload = metadata /\ x.depth = e.depth /\ x.type = type
  BY <1>1, <1>3
<1>5. Found(x, e.depth)
  BY <1>1, <1>3, <1>4 DEF Found
<1>6. QED
  BY <1>1, <1>3, <1>4, <1>5 DEF x

\* An agent's finding is about the event, and about an alert of an engine it
\* names no device.
Reported(x, e) == Found(x, e.depth) /\ About(x, e) /\ (Secondary(e) => "device_id" \notin DOMAIN x.payload)

LEMMA DecoyedReported ==
  ASSUME NEW e, NEW x, Reported(x, e), NEW asks
  PROVE  Reported(Agents!Decoyed(x, asks), e)
<1> DEFINE y == Agents!Decoyed(x, asks)
<1>1. Found(x, e.depth) /\ {"event_id", "type"} \subseteq DOMAIN x
  BY DEF Reported, About
<1>2. /\ Found(y, e.depth) /\ y.payload = x.payload /\ y.type = x.type
      /\ "event_id" \in DOMAIN y /\ y.event_id = x.event_id
  BY <1>1, DecoyedFinds
<1> HIDE DEF y
<1>3. QED
  BY <1>2 DEF Reported, About, Found, y

LEMMA CyberFinds ==
  ASSUME NEW e, NEW hour, NEW x \in Elems(Agents!Cyber(e, hour))
  PROVE  Reported(x, e)
<1> DEFINE Plain(s, c) == Agents!About(e, "CyberThreatAgent", e.type, s, c, << >>)
<1>1. \E s, c, asks : Agents!CyberMemory(e) = Agents!Decoyed(Plain(s, c), asks)
  <2> DEFINE s == Agents!Get(Agents!MemorySigns, e.payload.memory_threat_type, <<550, e.severity>>)[2]
             c == Agents!Get(Agents!MemorySigns, e.payload.memory_threat_type, <<550, e.severity>>)[1]
             asks == e.payload.memory_threat_type = "RANSOMWARE"
  <2>1. Agents!CyberMemory(e) = Agents!Decoyed(Plain(s, c), asks)
    BY DEF Agents!CyberMemory
  <2> HIDE DEF s, c, asks, Plain
  <2>2. QED
    BY <2>1
<1>2. \E s, c, asks : Agents!CyberNetwork(e, hour) = Agents!Decoyed(Plain(s, c), asks)
  <2> DEFINE p == e.payload
             risk == Agents!TrafficRisk(p, hour)
             honeypot == Agents!Get(p, "dst_ip", None) \in Honeypots
             rate == Agents!Get(p, "packet_rate", 0)
             signed == Agents!Get(p, "signature", "") \in Agents!CriticalSignatures
             s == Agents!FirstOf(<< <<rate >= 10000, "critical">>, <<rate >= 5000, "high">>, <<rate >= 1000, "medium">>,
                                    <<honeypot, "critical">>, <<risk > 500, "high">>, <<TRUE, e.severity>> >>)
             c == Agents!Clamp(Agents!Clamp(550 + risk \div 2 + Agents!Points(honeypot, 400)) + Agents!Points(signed, 300))
                  + Agents!Points(rate >= 1000, 100)
             asks == honeypot \/ signed
  <2>1. Agents!CyberNetwork(e, hour) = Agents!Decoyed(Plain(s, c), asks)
    BY DEF Agents!CyberNetwork
  <2> HIDE DEF s, c, asks
  <2>2. QED
    BY <2>1
<1>3. \E s, c : Agents!CyberInsider(e) = Plain(s, c)
  BY DEF Agents!CyberInsider
<1>4. Agents!Cyber(e, hour) \in {<<>>, <<Agents!CyberMemory(e)>>, <<Agents!CyberNetwork(e, hour)>>, <<Agents!CyberInsider(e)>>,
                                 <<Plain(e.severity, 550)>>}
  BY DEF Agents!Cyber
<1>5. \A s, c : Reported(Plain(s, c), e)
  <2>1. "device_id" \notin DOMAIN << >>
    OBVIOUS
  <2>2. QED
    BY <2>1, AboutFinds DEF Reported, About, Family
<1> HIDE DEF Plain
<1>6. (\E s, c : x = Plain(s, c)) \/ (\E s, c, asks : x = Agents!Decoyed(Plain(s, c), asks))
  <2>1. x \in {Agents!CyberMemory(e), Agents!CyberNetwork(e, hour), Agents!CyberInsider(e), Plain(e.severity, 550)}
    BY <1>4, ElemsOfSome
  <2>2. QED
    BY <1>1, <1>2, <1>3, <2>1
<1>7. QED
  BY <1>5, <1>6, DecoyedReported

LEMMA PhishingFinds ==
  ASSUME NEW e, NEW x \in Elems(Agents!Phishing(e))
  PROVE  Reported(x, e)
<1>1. \E s, c : x = Agents!About(e, "PhishingDetectionAgent", "network_intrusion", s, c, [user_id |-> Agents!User(e)])
  BY ElemsOfSome DEF Agents!Phishing, Agents!PhishingAs
<1>2. e.type \in {"network_intrusion", "anomalous_behavior", "insider_threat"}
  BY ElemsOfSome DEF Agents!Phishing, Agents!PhishingAs
<1>3. QED
  BY <1>1, <1>2, AboutFinds DEF Reported, About, Family

LEMMA MalwareFinds ==
  ASSUME NEW e, NEW x \in Elems(Agents!Malware(e))
  PROVE  Reported(x, e)
<1>1. \E s, c : x = Agents!About(e, "MalwareAnalysisAgent", "network_intrusion", s, c, [user_id |-> Agents!User(e)])
  BY ElemsOfSome DEF Agents!Malware
<1>2. e.type \in {"network_intrusion", "anomalous_behavior", "memory_threat"}
  BY ElemsOfSome DEF Agents!Malware
<1>3. QED
  BY <1>1, <1>2, AboutFinds DEF Reported, About, Family

\* The identity agent does, and looks at no alert that an engine publishes.
LEMMA IdentityFinds ==
  ASSUME NEW e, NEW x \in Elems(Agents!Identity(e))
  PROVE  Reported(x, e)
<1>1. PICK s, c, m, asks : x = Agents!Decoyed(Agents!About(e, "IdentityAgent", e.type, s, c, m), asks)
  BY ElemsOfSome DEF Agents!Identity
<1>2. e.type \in {"identity_mismatch", "insider_threat"}
  BY ElemsOfSome DEF Agents!Identity
<1>3. Reported(Agents!About(e, "IdentityAgent", e.type, s, c, m), e)
  BY <1>2, AboutFinds DEF Reported, About, Family, Secondary
<1>4. QED
  BY <1>1, <1>3, DecoyedReported

LEMMA SurveillanceFinds ==
  ASSUME NEW e, NEW x \in Elems(Agents!Surveillance(e))
  PROVE  Reported(x, e)
<1>1. PICK s, c, zone, person :
         x = Agents!About(e, "SurveillanceAgent", e.type, s, c,
                          IF person = None THEN [zone |-> zone] ELSE [zone |-> zone, user_id |-> person, entity_id |-> person])
  <2> DEFINE zone == Agents!Get(e.payload, "zone", "unknown")
             person == Agents!Either(e.payload, <<"user_id", "person_id", "entity_id">>)
             m == IF person = None THEN [zone |-> zone] ELSE [zone |-> zone, user_id |-> person, entity_id |-> person]
             level == Agents!Get(Agents!ZoneLevel, zone, 0)
             c == 450 + Agents!Points(~Agents!Get(e.payload, "face_match", TRUE), 200)
                  + Agents!Points(~Agents!Get(e.payload, "badge_scan", TRUE), 200)
                  + Agents!Points(Agents!Get(e.payload, "motion_anomaly_score", 0) >= 800, 150) + Agents!Points(level >= 3, 100)
             s == Agents!FirstOf(<< <<level >= 3, "critical">>, <<level >= 2, "high">>, <<TRUE, e.severity>> >>)
  <2>1. Agents!Surveillance(e) = IF e.type = "physical_intrusion"
                                 THEN << Agents!About(e, "SurveillanceAgent", e.type, s, c, m) >> ELSE <<>>
    BY DEF Agents!Surveillance
  <2> HIDE DEF s, c, m
  <2>2. x = Agents!About(e, "SurveillanceAgent", e.type, s, c, m)
    BY <2>1, ElemsOfSome
  <2>3. QED
    BY <2>2 DEF m
<1>2. "device_id" \notin DOMAIN (IF person = None THEN [zone |-> zone] ELSE [zone |-> zone, user_id |-> person, entity_id |-> person])
  OBVIOUS
<1>3. QED
  BY <1>1, <1>2, AboutFinds DEF Reported, About, Family

LEMMA ZeroTrustFinds ==
  ASSUME NEW e, NEW hour, NEW x \in Elems(Agents!ZeroTrust(e, hour))
  PROVE  Reported(x, e)
<1>1. PICK s, c, m : /\ x = Agents!About(e, "ZeroTrustAgent", e.type, s, c, m)
                     /\ e.type # "network_intrusion" =>
                          m = IF e.type = "physical_intrusion"
                              THEN [user_id |-> Agents!User(e), zone |-> Agents!Get(e.payload, "zone", "unknown")]
                              ELSE [user_id |-> Agents!User(e)]
  <2>1. QED
    BY ElemsOfSome DEF Agents!ZeroTrust
<1>2. Secondary(e) => "device_id" \notin DOMAIN m
  BY <1>1 DEF Secondary
<1>3. QED
  BY <1>1, <1>2, AboutFinds DEF Reported, About, Family

\* What is confirmed is about the same event and called the same.
LEMMA ConfirmationFinds ==
  ASSUME NEW f
  PROVE  LET x == Agents!Confirmation(f)
         IN  /\ Found(x, f.depth) /\ x.source = "PseudoLockAgent" /\ x.type = f.type /\ "device_id" \notin DOMAIN x.payload
             /\ "event_id" \in DOMAIN x /\ x.event_id = Event(f)
<1> DEFINE finding == Agents!AgentFinding("PseudoLockAgent", f.type, f.severity, 1000, [lock_id |-> Agents!Event(f)], f.depth)
           x == Agents!Confirmation(f)
<1>1. /\ DOMAIN finding = {"kind", "source", "type", "severity", "confidence", "payload", "depth"}
      /\ finding.kind = "finding" /\ finding.source = "PseudoLockAgent" /\ finding.depth = f.depth /\ finding.type = f.type
      /\ finding.payload = [lock_id |-> Agents!Event(f)]
  BY DEF Agents!AgentFinding
<1>2. x = Agents!With(finding, "event_id", Agents!Event(f)) /\ Agents!Event(f) = Event(f)
  BY DEF Agents!Confirmation, Agents!Event, Event, Agents!Get, Get
<1>3. "device_id" \notin DOMAIN [lock_id |-> Agents!Event(f)]
  OBVIOUS
<1> HIDE DEF finding, x
<1>4. /\ DOMAIN x = DOMAIN finding \union {"event_id"}
      /\ \A k \in DOMAIN finding : k # "event_id" => x[k] = finding[k]
      /\ x.event_id = Event(f)
  BY <1>2 DEF Agents!With
<1>5. QED
  BY <1>1, <1>3, <1>4 DEF Found, x

LEMMA AgentsFind ==
  ASSUME NEW e, NEW hour, NEW x \in Elems(Agents!Findings(e, hour))
  PROVE  e.kind = "threat" /\ Reported(x, e)
<1>1. e.kind = "threat"
  BY ElemsOfSome DEF Agents!Findings
<1> DEFINE a == Agents!ZeroTrust(e, hour)
           b == Agents!Cyber(e, hour)
           c == Agents!Phishing(e)
           d == Agents!Malware(e)
           f == Agents!Identity(e)
           g == Agents!Surveillance(e)
<1>2. Agents!Findings(e, hour) = a \o b \o c \o d \o f \o g
  BY <1>1 DEF Agents!Findings
<1>3. IsSeq(a) /\ IsSeq(b) /\ IsSeq(c) /\ IsSeq(d) /\ IsSeq(f) /\ IsSeq(g)
  BY AgentSequences
<1> HIDE DEF a, b, c, d, f, g
<1>4. x \in Elems(a) \/ x \in Elems(b) \/ x \in Elems(c) \/ x \in Elems(d) \/ x \in Elems(f) \/ x \in Elems(g)
  <2>1. IsSeq(a \o b) /\ Elems(a \o b) = Elems(a) \union Elems(b)
    BY <1>3, Joined, ElemsOfAll
  <2>2. IsSeq(a \o b \o c) /\ Elems(a \o b \o c) = Elems(a \o b) \union Elems(c)
    BY <1>3, <2>1, Joined, ElemsOfAll
  <2>3. IsSeq(a \o b \o c \o d) /\ Elems(a \o b \o c \o d) = Elems(a \o b \o c) \union Elems(d)
    BY <1>3, <2>2, Joined, ElemsOfAll
  <2>4. IsSeq(a \o b \o c \o d \o f) /\ Elems(a \o b \o c \o d \o f) = Elems(a \o b \o c \o d) \union Elems(f)
    BY <1>3, <2>3, Joined, ElemsOfAll
  <2>5. Elems(a \o b \o c \o d \o f \o g) = Elems(a \o b \o c \o d \o f) \union Elems(g)
    BY <1>3, <2>4, Joined, ElemsOfAll
  <2>6. QED
    BY <1>2, <2>1, <2>2, <2>3, <2>4, <2>5
<1>5. QED
  BY <1>1, <1>4, ZeroTrustFinds, CyberFinds, PhishingFinds, MalwareFinds, IdentityFinds, SurveillanceFinds DEF a, b, c, d, f, g

-----------------------------------------------------------------------------
(* Where the chains end. *)

LEMMA RaisedTraced ==
  ASSUME NEW x, NEW depth \in 0..2, Raised(x, depth), NEW known, depth = 2 => Echoes(x, known)
  PROVE  Traced(x, known)
<1>1. DNA!Volume(x) = 0
  BY QuietVolume DEF Raised, Secondary
<1>2. QED
  BY <1>1 DEF Raised, Traced

LEMMA FoundTraced ==
  ASSUME NEW x, NEW depth \in 0..2, Found(x, depth), NEW known, depth > 0 => "device_id" \notin DOMAIN x.payload
  PROVE  Traced(x, known)
BY DEF Found, Traced

\* What handling an event publishes
Led(e, hour) ==
  DNA!Alerts(e, hour) \o Device!Alerts(e) \o UEBA!Alerts(e, hour) \o Intel!Alerts(e)
  \o Physical!Alerts(e) \o Insider!Alerts(e) \o Comply!Findings(e) \o Agents!Findings(e, hour)

LEMMA LedParts ==
  ASSUME NEW e, NEW hour
  PROVE  /\ IsSeq(Led(e, hour))
         /\ Elems(Led(e, hour)) =
              Elems(DNA!Alerts(e, hour)) \union Elems(Device!Alerts(e)) \union Elems(UEBA!Alerts(e, hour))
              \union Elems(Intel!Alerts(e)) \union Elems(Physical!Alerts(e)) \union Elems(Insider!Alerts(e))
              \union Elems(Comply!Findings(e)) \union Elems(Agents!Findings(e, hour))
<1> DEFINE a == DNA!Alerts(e, hour)
           b == Device!Alerts(e)
           c == UEBA!Alerts(e, hour)
           d == Intel!Alerts(e)
           f == Physical!Alerts(e)
           g == Insider!Alerts(e)
           h == Comply!Findings(e)
           i == Agents!Findings(e, hour)
<1>1. /\ IsSeq(a) /\ IsSeq(b) /\ IsSeq(c) /\ IsSeq(d) /\ IsSeq(f) /\ IsSeq(g) /\ IsSeq(h) /\ IsSeq(i)
  BY DNAAlerts, DeviceAlerts, UEBAAlerts, IntelAlerts, PhysicalAlerts, InsiderAlerts, ComplyFindings, AgentFindings
<1>2. Led(e, hour) = a \o b \o c \o d \o f \o g \o h \o i
  BY DEF Led
<1> HIDE DEF a, b, c, d, f, g, h, i
<1>3. IsSeq(a \o b) /\ Elems(a \o b) = Elems(a) \union Elems(b)
  BY <1>1, Joined, ElemsOfAll
<1>4. IsSeq(a \o b \o c) /\ Elems(a \o b \o c) = Elems(a \o b) \union Elems(c)
  BY <1>1, <1>3, Joined, ElemsOfAll
<1>5. IsSeq(a \o b \o c \o d) /\ Elems(a \o b \o c \o d) = Elems(a \o b \o c) \union Elems(d)
  BY <1>1, <1>4, Joined, ElemsOfAll
<1>6. IsSeq(a \o b \o c \o d \o f) /\ Elems(a \o b \o c \o d \o f) = Elems(a \o b \o c \o d) \union Elems(f)
  BY <1>1, <1>5, Joined, ElemsOfAll
<1>7. IsSeq(a \o b \o c \o d \o f \o g) /\ Elems(a \o b \o c \o d \o f \o g) = Elems(a \o b \o c \o d \o f) \union Elems(g)
  BY <1>1, <1>6, Joined, ElemsOfAll
<1>8. /\ IsSeq(a \o b \o c \o d \o f \o g \o h)
      /\ Elems(a \o b \o c \o d \o f \o g \o h) = Elems(a \o b \o c \o d \o f \o g) \union Elems(h)
  BY <1>1, <1>7, Joined, ElemsOfAll
<1>9. /\ IsSeq(a \o b \o c \o d \o f \o g \o h \o i)
      /\ Elems(a \o b \o c \o d \o f \o g \o h \o i) = Elems(a \o b \o c \o d \o f \o g \o h) \union Elems(i)
  BY <1>1, <1>8, Joined, ElemsOfAll
<1>10. QED
  BY <1>2, <1>3, <1>4, <1>5, <1>6, <1>7, <1>8, <1>9 DEF a, b, c, d, f, g, h, i

\* What the engines have learnt: nothing that lets an alert set them off.
EnginesQuiet == Named /\ UEBAQuiet /\ InsiderQuiet /\ DNAType

LEMMA Echoing ==
  ASSUME EnginesQuiet, NEW e, Traced(e, recent), NEW hour, NEW known, recent \subseteq known,
         \A y \in Elems(Led(e, hour)) : y.kind = "threat" => Fingerprint(y) \in known,
         NEW x \in Elems(Led(e, hour)), ~Duplicate(x, recent)
  PROVE  Traced(x, known)
<1>1. /\ e.kind \in {"threat", "finding", "request"} /\ e.depth \in 0..2
      /\ e.kind = "threat" /\ e.depth > 0 => Secondary(e)
      /\ e.kind # "finding" => DNA!Volume(e) \in Nat
  BY DEF Traced
<1>2. ASSUME e.depth = 0, Raised(x, e.depth + 1) \/ (Found(x, e.depth + 1) /\ "device_id" \notin DOMAIN x.payload)
      PROVE  Traced(x, known)
  BY <1>2, RaisedTraced, FoundTraced
<1>3. CASE x \in Elems(DNA!Alerts(e, hour))
  <2>1. Raised(x, e.depth + 1) /\ e.kind = "threat" /\ DNA!Volume(e) > 0
    BY <1>1, <1>3, DNARaises DEF EnginesQuiet
  <2>2. e.depth = 0
    BY <1>1, <2>1, QuietVolume DEF Secondary
  <2>3. QED
    BY <1>2, <2>1, <2>2
<1>4. CASE x \in Elems(Device!Alerts(e))
  <2>1. /\ Raised(x, e.depth + 1)
        /\ (e.kind = "threat" /\ e.type = "network_intrusion") \/ (e.kind = "finding" /\ "device_id" \in DOMAIN e.payload)
    BY <1>4, DeviceRaises
  <2>2. e.depth = 0
    BY <1>1, <2>1 DEF Secondary, Traced
  <2>3. QED
    BY <1>2, <2>1, <2>2
<1>5. CASE x \in Elems(UEBA!Alerts(e, hour))
  BY <1>5, UEBASilent DEF EnginesQuiet
<1>6. CASE x \in Elems(Intel!Alerts(e))
  <2>1. Raised(x, e.depth + 1) /\ e.kind = "threat" /\ DOMAIN e.payload \intersect Loud # {}
    BY <1>6, IntelRaises DEF EnginesQuiet
  <2>2. e.depth = 0
    BY <1>1, <2>1 DEF Secondary
  <2>3. QED
    BY <1>2, <2>1, <2>2
<1>7. CASE x \in Elems(Physical!Alerts(e))
  <2>1. /\ Raised(x, e.depth + 1) /\ e.kind = "threat"
        /\ \/ e.type = "physical_intrusion" /\ Physical!Alerts(e) = Physical!Anomalies(Physical!Sighting(e), e.depth + 1)
           \/ e.type \in {"network_intrusion", "identity_mismatch"}
    BY <1>7, PhysicalRaises
  <2>2. CASE e.depth = 0
    BY <1>2, <2>1, <2>2
  <2>3. CASE e.depth # 0
    <3>1. /\ Secondary(e) /\ Described(e.payload)
          /\ Physical!Alerts(e) = Physical!Anomalies(Physical!Sighting(e), e.depth + 1)
      BY <1>1, <2>1, <2>3 DEF Secondary
    <3>2. CASE e.depth = 1
      <4>1. Physical!Alerts(e) = Physical!Anomalies(Physical!Sighting(e), 2) /\ Raised(x, 2)
        BY <2>1, <3>1, <3>2
      <4>2. Physical!Sighting(x) = Physical!Sighting(e)
        BY <1>7, <3>1, <4>1, DescribedAgain
      <4>3. ASSUME NEW y \in Elems(Physical!Anomalies(Physical!Sighting(e), 3))
            PROVE  Fingerprint(y) \in known
        <5>1. PICK z \in Elems(Physical!Alerts(e)) : z.kind = "threat" /\ Fingerprint(z) = Fingerprint(y)
          BY <4>1, SameFingerprints
        <5>2. z \in Elems(Led(e, hour))
          BY LedParts
        <5>3. QED
          BY <5>1, <5>2
      <4>4. Echoes(x, known)
        BY <4>2, <4>3 DEF Echoes
      <4>5. QED
        BY <4>1, <4>4, RaisedTraced
    <3>3. CASE e.depth = 2
      <4>1. Fingerprint(x) \in recent /\ x.kind = "threat"
        BY <1>7, <2>1, <3>1, <3>3 DEF Traced, Echoes, Raised
      <4>2. QED
        BY <4>1 DEF Duplicate
    <3>4. QED
      BY <1>1, <2>3, <3>2, <3>3
  <2>4. QED
    BY <2>2, <2>3
<1>8. CASE x \in Elems(Insider!Alerts(e))
  BY <1>1, <1>8, InsiderSilent, ElemsOfSome DEF EnginesQuiet
<1>9. CASE x \in Elems(Comply!Findings(e))
  <2>1. /\ Found(x, e.depth + 1) /\ "device_id" \notin DOMAIN x.payload
        /\ e.kind = "threat" /\ DOMAIN e.payload \intersect Loud # {}
    BY <1>9, ComplyFinds
  <2>2. e.depth = 0
    BY <1>1, <2>1 DEF Secondary
  <2>3. QED
    BY <1>2, <2>1, <2>2
<1>10. CASE x \in Elems(Agents!Findings(e, hour))
  BY <1>1, <1>10, AgentsFind, FoundTraced DEF Reported
<1>11. QED
  BY <1>3, <1>4, <1>5, <1>6, <1>7, <1>8, <1>9, <1>10, LedParts

-----------------------------------------------------------------------------
(* The invariant of the bus. *)

\* A profile remains one, whatever it learns.
LEMMA DNAStep ==
  ASSUME DNAType, NEW e, NEW hour, DNA!On(e, hour)
  PROVE  DNAType'
<1>1. CASE e.kind = "finding"
  <2> DEFINE blamed == DNA!Either(e.payload, <<"user_id", "src_ip">>)
             after == DNA!Blamed(dnaProfiles[blamed], e)
  <2>1. dnaProfiles' = IF blamed \in DOMAIN dnaProfiles THEN [dnaProfiles EXCEPT ![blamed] = after] ELSE dnaProfiles
    BY <1>1 DEF DNA!On
  <2>2. blamed \in DOMAIN dnaProfiles => ProfileType(after)
    BY DEF DNA!Blamed, DNAType, ProfileType
  <2> HIDE DEF blamed, after
  <2>3. QED
    BY <2>1, <2>2 DEF DNAType
<1>2. CASE e.kind # "finding"
  <2> DEFINE after(id) == IF e.kind = "request" THEN DNA!Requested(DNA!Profile(id), e.payload, hour)
                          ELSE DNA!Updated(DNA!Profile(id), e, hour)
             L == DNA!Learners(e)
  <2>1. dnaProfiles' = [id \in DOMAIN dnaProfiles \union L |-> IF id \in L THEN after(id) ELSE dnaProfiles[id]]
    BY <1>2 DEF DNA!On
  <2>2. \A id : ProfileType(after(id))
    BY DNAProfile, RequestLearnt, EventLearnt
  <2> HIDE DEF after, L
  <2>3. QED
    BY <2>1, <2>2 DEF DNAType
<1>3. QED
  BY <1>1, <1>2

Safe(e) == Traced(e, recent)

\* The bus learns, and an event goes out with a number.
LEMMA StillSafe ==
  ASSUME clock' = clock, NEW x, Traced(x, recent')
  PROVE  Safe(x)'
<1>1. Physical!Sighting(x)' = Physical!Sighting(x)
  BY DEF Physical!Sighting
<1>2. Elems(Physical!Anomalies(Physical!Sighting(x), 3))' = Elems(Physical!Anomalies(Physical!Sighting(x), 3))
  BY <1>1 DEF Elems, Physical!Anomalies, Physical!If, Physical!Anomaly, Physical!Severity
<1>3. Echoes(x, recent') => Echoes(x, recent)'
  BY <1>2 DEF Echoes
<1>4. Traced(x, recent)'
  BY <1>3 DEF Traced
<1>5. QED
  BY <1>4 DEF Safe

LEMMA Lasting ==
  ASSUME NEW e, NEW known, Traced(e, known), NEW more, known \subseteq more
  PROVE  Traced(e, more)
BY DEF Traced, Echoes

LEMMA Renamed ==
  ASSUME NEW x, NEW m, NEW known, Traced(x, known)
  PROVE  Traced(With(x, "id", m), known)
<1> DEFINE y == With(x, "id", m)
<1>1. DOMAIN y = DOMAIN x \union {"id"} /\ \A k \in DOMAIN x : k # "id" => y[k] = x[k]
  BY DEF With
<1> HIDE DEF y
<1>2. /\ y.kind = x.kind /\ y.source = x.source /\ y.payload = x.payload /\ y.depth = x.depth
      /\ x.kind = "threat" => "type" \in DOMAIN x /\ y.type = x.type
  BY <1>1 DEF Traced
<1>3. DNA!Volume(y) = DNA!Volume(x)
  BY <1>2 DEF DNA!Volume
<1>4. Physical!Sighting(y) = Physical!Sighting(x)
  BY <1>2 DEF Physical!Sighting
<1>5. Echoes(x, known) => Echoes(y, known)
  BY <1>4 DEF Echoes
<1>6. x.kind = "threat" /\ Secondary(x) => Secondary(y)
  BY <1>2 DEF Secondary
<1>7. Traced(y, known)
  BY <1>1, <1>2, <1>3, <1>5, <1>6 DEF Traced
<1>8. QED
  BY <1>7 DEF y

\* What is published next is safe if what is published is.
LEMMA Chaining ==
  ASSUME published \in Nat, NEW queue, IsSeq(queue), \A e \in Elems(queue) : Safe(e), clock' = clock,
         NEW events, IsSeq(events), Publish(queue, events),
         \A x \in Elems(events) : ~Duplicate(x, recent) => Traced(x, recent')
  PROVE  \A e \in Elems(bus') : Safe(e)'
<1> SUFFICES ASSUME NEW y \in Elems(bus') PROVE Safe(y)'
  OBVIOUS
<1>1. recent \subseteq recent'
  BY Announced
<1>2. CASE y \in Elems(queue)
  <2>1. Traced(y, recent')
    BY <1>1, <1>2, Lasting DEF Safe
  <2>2. QED
    BY <2>1, StillSafe
<1>3. CASE \E x \in Elems(events) : ~Duplicate(x, recent) /\ \E m : y = With(x, "id", m)
  <2>1. PICK x \in Elems(events) : ~Duplicate(x, recent) /\ \E m : y = With(x, "id", m)
    BY <1>3
  <2>2. Traced(y, recent')
    BY <2>1, Renamed
  <2>3. QED
    BY <2>2, StillSafe
<1>4. QED
  BY <1>2, <1>3, Announced

\* What is still to come is proper.
StoryOK == IsSeq(story) /\ \A i \in DOMAIN story : \A call \in story[i] : Proper(call)

\* Besides: a finding whose decoy is being opened was on the bus.
ChainInv ==
  /\ StoryOK
  /\ EnginesQuiet
  /\ \A e \in Elems(bus) : Safe(e)
  /\ \A f \in locking : f.depth \in 0..2

LEMMA ChainInit == Init => ChainInv
<1> SUFFICES ASSUME Init PROVE ChainInv
  OBVIOUS
<1>1. StoryOK
  BY StoriesAssumption DEF StoryOK, IsSeq, Init
<1>2. DOMAIN << >> = {}
  OBVIOUS
<1>3. Named
  BY StoriesAssumption DEF Init, Intel!Init, Named
<1>4. UEBAQuiet /\ InsiderQuiet /\ DNAType
  BY <1>2 DEF Init, UEBA!Init, Insider!Init, DNA!Init, UEBAQuiet, InsiderQuiet, DNAType
<1>5. Elems(bus) = {} /\ locking = {}
  BY ElemsOfSome DEF Init
<1>6. QED
  BY <1>1, <1>3, <1>4, <1>5 DEF ChainInv, EnginesQuiet

LEMMA Taking ==
  ASSUME StoryOK, NEW name, NEW item \in Calls(name), Took(item)
  PROVE  Proper(item) /\ item.do = name /\ StoryOK'
<1> DEFINE S == {story[i] : i \in DOMAIN story}
<1>1. story # <<>> /\ item \in Head(story) /\ item.do = name
  BY DEF Calls, Coming
<1>2. story \in Seq(S)
  BY DEF StoryOK, IsSeq
<1>3. \A s \in S : s \in S
  OBVIOUS
<1> HIDE DEF S
<1>4. 1 \in DOMAIN story /\ Head(story) = story[1] /\ Len(story) \in Nat /\ DOMAIN story = 1..Len(story)
  BY <1>1, <1>2
<1>5. Proper(item)
  BY <1>1, <1>4 DEF StoryOK
<1> DEFINE next == [story EXCEPT ![1] = @ \ {item}]
<1>6. next = [i \in 1..Len(story) |-> next[i]]
  BY <1>4
<1>7. \A i \in DOMAIN next : i \in DOMAIN story /\ next[i] \subseteq story[i]
  BY <1>4
<1>8. story' = next
  BY DEF Took
<1> HIDE DEF next
<1>9. IsSeq(next)
  BY <1>4, <1>6, Indexed
<1>10. StoryOK'
  BY <1>7, <1>8, <1>9 DEF StoryOK
<1>11. QED
  BY <1>1, <1>5, <1>10

LEMMA Turning ==
  ASSUME StoryOK, story # <<>>, story' = Tail(story)
  PROVE  StoryOK'
<1> DEFINE S == {story[i] : i \in DOMAIN story}
           next == Tail(story)
<1>1. story \in Seq(S)
  BY DEF StoryOK, IsSeq
<1> HIDE DEF S
<1>2. next \in Seq(S) /\ DOMAIN next = 1..Len(next) /\ \A i \in DOMAIN next : i + 1 \in DOMAIN story /\ next[i] = story[i + 1]
  BY <1>1
<1>3. IsSeq(next)
  BY <1>2, Sequences
<1> HIDE DEF next
<1>4. story' = next
  BY DEF next
<1>5. QED
  BY <1>2, <1>3, <1>4 DEF StoryOK

\* What engines know when none of them hears anything
LEMMA StillQuiet ==
  ASSUME EnginesQuiet, UNCHANGED <<iocs, uebaProfiles, records, dnaProfiles>>
  PROVE  EnginesQuiet'
BY DEF EnginesQuiet, Named, UEBAQuiet, InsiderQuiet, DNAType

\* A publication of something that nothing on the bus led to
LEMMA FromElsewhere ==
  ASSUME ChainInv, CountInv, clock' = clock, NEW events, IsSeq(events), Publish(bus, events),
         \A x \in Elems(events) : FromOutside(x) \/ Raised(x, 0) \/ Found(x, 0)
  PROVE  \A e \in Elems(bus') : Safe(e)'
<1>1. ASSUME NEW x \in Elems(events) PROVE Traced(x, recent')
  <2>1. FromOutside(x) => Traced(x, recent')
    BY DEF FromOutside, Traced
  <2>2. 0 \in 0..2 /\ 0 # 2 /\ ~(0 > 0)
    OBVIOUS
  <2>3. Raised(x, 0) => Traced(x, recent')
    BY <2>2, RaisedTraced
  <2>4. Found(x, 0) => Traced(x, recent')
    BY <2>2, FoundTraced
  <2>5. QED
    BY <2>1, <2>3, <2>4
<1>2. IsSeq(bus) /\ published \in Nat
  BY DEF CountInv, Numbered
<1>3. QED
  BY <1>1, <1>2, Chaining DEF ChainInv

\* The event at the head of the bus goes.
LEMMA HeadTaken ==
  ASSUME CountInv, bus # <<>>
  PROVE  Head(bus) \in Elems(bus) /\ Elems(Tail(bus)) \subseteq Elems(bus) /\ IsSeq(Tail(bus))
<1> DEFINE S == {bus[i] : i \in DOMAIN bus}
<1>1. bus \in Seq(S)
  BY DEF CountInv, Numbered, IsSeq
<1> HIDE DEF S
<1>2. /\ Tail(bus) \in Seq(S) /\ DOMAIN Tail(bus) = 1..Len(Tail(bus)) /\ 1 \in DOMAIN bus /\ Head(bus) = bus[1]
      /\ \A i \in DOMAIN Tail(bus) : i + 1 \in DOMAIN bus /\ Tail(bus)[i] = bus[i + 1]
  BY <1>1
<1>3. IsSeq(Tail(bus))
  BY <1>2, Sequences
<1>4. QED
  BY <1>2, <1>3 DEF Elems

LEMMA ChainHandle ==
  ASSUME ChainInv, CountInv, Handle
  PROVE  ChainInv'
<1>1. PICK e : e = Head(bus)
  OBVIOUS
<1>2. PICK hour : hour = Hour
  OBVIOUS
<1>3. /\ bus # <<>> /\ story' = story /\ clock' = clock
      /\ DNA!On(e, hour) /\ UEBA!On(e, hour) /\ Intel!On(e) /\ Insider!On(e)
      /\ Publish(Tail(bus), Led(e, hour))
  BY <1>1, <1>2 DEF Handle, Led
<1>4. e \in Elems(bus) /\ Elems(Tail(bus)) \subseteq Elems(bus) /\ IsSeq(Tail(bus)) /\ published \in Nat
  BY <1>1, <1>3, HeadTaken DEF CountInv, Numbered
<1>5. Traced(e, recent) /\ EnginesQuiet
  BY <1>4 DEF ChainInv, Safe
<1>6. e.kind \in {"threat", "finding", "request"} /\ e.depth \in 0..2
  BY <1>5 DEF Traced
<1>7. DNAType'
  BY <1>3, <1>5, DNAStep DEF EnginesQuiet
<1>8. EnginesQuiet'
  <2>1. Named'
    BY <1>3, <1>5, IndicatorsNamed DEF EnginesQuiet
  <2>2. UEBAQuiet'
    BY <1>3, <1>5, UEBAStep DEF EnginesQuiet
  <2>3. InsiderQuiet'
    BY <1>3, <1>5, <1>6, InsiderStep DEF EnginesQuiet
  <2>4. QED
    BY <1>7, <2>1, <2>2, <2>3 DEF EnginesQuiet
<1>9. IsSeq(Led(e, hour))
  BY LedParts
<1>10. recent \subseteq recent' /\ \A y \in Elems(Led(e, hour)) : y.kind = "threat" => Fingerprint(y) \in recent'
  BY <1>3, <1>4, <1>9, Announced
<1>11. ASSUME NEW x \in Elems(Led(e, hour)), ~Duplicate(x, recent)
       PROVE  Traced(x, recent')
  BY <1>5, <1>10, <1>11, Echoing
<1>12. \A y \in Elems(Tail(bus)) : Safe(y)
  BY <1>4 DEF ChainInv
<1>13. \A y \in Elems(bus') : Safe(y)'
  BY <1>3, <1>4, <1>9, <1>11, <1>12, Chaining
<1>14. StoryOK'
  BY <1>3 DEF ChainInv, StoryOK
<1>15. \A f \in locking' : f.depth \in 0..2
  BY <1>1, <1>6 DEF Handle, ChainInv
<1>16. QED
  BY <1>8, <1>13, <1>14, <1>15 DEF ChainInv

LEMMA ScanFound ==
  ASSUME NEW sign, NEW id
  PROVE  LET x == Agents!ScanFinding(sign, id)
         IN  Found(x, 0) /\ "event_id" \in DOMAIN x /\ x.event_id = id
<1>1. PICK e : e.depth = 0 /\ e.id = id /\ Agents!ScanFinding(sign, id) = Agents!CyberMemory(e)
  <2> DEFINE e == [id |-> id, depth |-> 0, type |-> "network_intrusion", payload |-> [memory_threat_type |-> sign],
                   severity |-> IF sign = "RANSOMWARE" THEN "critical" ELSE "high"]
  <2>1. e.depth = 0 /\ e.id = id
    OBVIOUS
  <2>2. Agents!ScanFinding(sign, id) = Agents!CyberMemory(e)
    BY DEF Agents!ScanFinding
  <2> HIDE DEF e
  <2>3. QED
    BY <2>1, <2>2
<1>2. \E severity, confidence, asks :
        Agents!CyberMemory(e) = Agents!Decoyed(Agents!About(e, "CyberThreatAgent", e.type, severity, confidence, << >>), asks)
  <2> DEFINE severity == Agents!Get(Agents!MemorySigns, e.payload.memory_threat_type, <<550, e.severity>>)[2]
             confidence == Agents!Get(Agents!MemorySigns, e.payload.memory_threat_type, <<550, e.severity>>)[1]
             asks == e.payload.memory_threat_type = "RANSOMWARE"
             Plain(s, c) == Agents!About(e, "CyberThreatAgent", e.type, s, c, << >>)
  <2>1. Agents!CyberMemory(e) = Agents!Decoyed(Plain(severity, confidence), asks)
    BY DEF Agents!CyberMemory
  <2>2. \E s, c, a : Agents!CyberMemory(e) = Agents!Decoyed(Plain(s, c), a)
    <3> HIDE DEF severity, confidence, asks, Plain
    <3> QED BY <2>1
  <2>3. QED
    BY <2>2 DEF Plain
<1>3. PICK found, asks : /\ Agents!CyberMemory(e) = Agents!Decoyed(found, asks)
                         /\ Found(found, 0) /\ "event_id" \in DOMAIN found /\ found.event_id = id
  BY <1>1, <1>2, AboutFinds
<1>4. /\ Found(Agents!CyberMemory(e), 0) /\ "event_id" \in DOMAIN Agents!CyberMemory(e)
      /\ Agents!CyberMemory(e).event_id = id
  BY <1>3, DecoyedFinds
<1>5. QED
  BY <1>1, <1>4

\* A step that publishes something of its own
LEMMA ChainCall ==
  ASSUME ChainInv, CountInv, StoryOK', EnginesQuiet', UNCHANGED <<clock, locking>>,
         NEW events, IsSeq(events), Publish(bus, events),
         \A x \in Elems(events) : FromOutside(x) \/ Raised(x, 0) \/ Found(x, 0)
  PROVE  ChainInv'
BY FromElsewhere DEF ChainInv

\* A step without a publication
LEMMA ChainQuiet ==
  ASSUME ChainInv, StoryOK', EnginesQuiet', UNCHANGED <<clock, bus, recent, locking>>
  PROVE  ChainInv'
<1>1. ASSUME NEW e \in Elems(bus') PROVE Safe(e)'
  <2>1. Traced(e, recent')
    BY DEF ChainInv, Safe
  <2>2. QED
    BY <2>1, StillSafe
<1>2. QED
  BY <1>1 DEF ChainInv

\* A step that finds the bus empty
LEMMA ChainEmpty ==
  ASSUME ChainInv, StoryOK', EnginesQuiet', bus = <<>>, UNCHANGED <<bus, locking>>
  PROVE  ChainInv'
<1>1. Elems(bus') = {}
  BY ElemsOfSome
<1>2. QED
  BY <1>1 DEF ChainInv

LEMMA ChainHour ==
  ASSUME ChainInv, HourPasses
  PROVE  ChainInv'
<1>1. bus = <<>> /\ bus' = bus /\ story' = story /\ iocs' = iocs /\ locking' = locking
  BY DEF HourPasses, Quiet
<1>2. UEBAQuiet' /\ DNAType'
  BY DEF HourPasses, UEBA!Expire, DNA!Expire, ChainInv, EnginesQuiet, UEBAQuiet, DNAType
<1>3. InsiderQuiet'
  BY InsiderDecay DEF HourPasses, ChainInv, EnginesQuiet
<1>4. Named'
  BY <1>1 DEF ChainInv, EnginesQuiet, Named
<1>5. StoryOK'
  BY <1>1 DEF ChainInv, StoryOK
<1>6. QED
  BY <1>1, <1>2, <1>3, <1>4, <1>5, ChainEmpty DEF EnginesQuiet

\* A decoy is confirmed, or is not.
LEMMA ChainDecoy ==
  ASSUME ChainInv, CountInv, StoryOK', EnginesQuiet', DecoyOpens
  PROVE  ChainInv'
<1>1. PICK f \in locking : /\ locking' = locking \ {f}
                           /\ Publish(bus, <<Agents!Confirmation(f)>>) \/ Publish(bus, <<>>)
  BY DEF DecoyOpens
<1>2. clock' = clock /\ IsSeq(bus) /\ published \in Nat
  BY DEF DecoyOpens, CountInv, Numbered
<1>3. f.depth \in 0..2 /\ \A e \in Elems(bus) : Safe(e)
  BY DEF ChainInv
<1>4. Traced(Agents!Confirmation(f), recent')
  BY <1>3, ConfirmationFinds, FoundTraced
<1>5. PICK events : IsSeq(events) /\ Publish(bus, events) /\ \A x \in Elems(events) : Traced(x, recent')
  BY <1>1, <1>4, Singles, ElemsOfSome
<1>6. \A e \in Elems(bus') : Safe(e)'
  BY <1>2, <1>3, <1>5, Chaining
<1>7. QED
  BY <1>1, <1>6 DEF ChainInv

LEMMA ChainStep == ChainInv /\ CountInv /\ [Next]_vars => ChainInv'
<1> SUFFICES ASSUME ChainInv, CountInv, [Next]_vars PROVE ChainInv'
  OBVIOUS
<1>1. StoryOK /\ EnginesQuiet
  BY DEF ChainInv
<1>2. UNCHANGED <<iocs, uebaProfiles, records, dnaProfiles>> => EnginesQuiet'
  BY <1>1, StillQuiet
<1>3. story' = story => StoryOK'
  BY <1>1 DEF StoryOK
<1>4. CASE External
  <2>1. PICK item \in Calls("publish") : Took(item) /\ Publish(bus, <<item.event>>)
    BY <1>4 DEF External
  <2>2. StoryOK' /\ FromOutside(item.event)
    BY <1>1, <2>1, Taking DEF Proper
  <2>3. UNCHANGED <<clock, locking, iocs, uebaProfiles, records, dnaProfiles>>
    BY <1>4 DEF External, engineVars, insiderVars, dnaVars, agentVars
  <2>4. IsSeq(<<item.event>>) /\ Elems(<<item.event>>) = {item.event}
    BY Singles, ElemsOfSome
  <2>5. QED
    BY <1>2, <2>1, <2>2, <2>3, <2>4, ChainCall
<1>5. CASE MemoryScan
  <2>1. PICK item, found :
           /\ item \in Calls("scan") /\ Took(item) /\ Publish(bus, <<found>>)
           /\ Found(found, 0)
    BY <1>5, ScanFound DEF MemoryScan
  <2>2. StoryOK'
    BY <1>1, <2>1, Taking
  <2>3. UNCHANGED <<clock, locking, iocs, uebaProfiles, records, dnaProfiles>>
    BY <1>5 DEF MemoryScan, engineVars, insiderVars, dnaVars, agentVars
  <2>4. IsSeq(<<found>>) /\ Elems(<<found>>) = {found}
    BY Singles, ElemsOfSome
  <2>5. QED
    BY <1>2, <2>1, <2>2, <2>3, <2>4, ChainCall
<1>6. CASE NextChapter
  <2>1. StoryOK'
    BY <1>1, <1>6, Turning DEF NextChapter
  <2>2. bus = <<>> /\ UNCHANGED <<bus, locking, iocs, uebaProfiles, records, dnaProfiles>>
    BY <1>6 DEF NextChapter, Quiet, engineVars, insiderVars, dnaVars, agentVars
  <2>3. QED
    BY <1>2, <2>1, <2>2, ChainEmpty
<1>7. CASE Handle
  BY <1>7, ChainHandle
<1>8. CASE Evaluate
  <2>1. IsSeq(CSDE!Findings) /\ Publish(bus, CSDE!Findings)
    BY <1>8, ConvergedFindings DEF CountInv, Evaluate
  <2>2. \A x \in Elems(CSDE!Findings) : Found(x, 0)
    BY ConvergedFinds DEF Found
  <2>3. UNCHANGED <<clock, locking, story, iocs, uebaProfiles, records, dnaProfiles>>
    BY <1>8 DEF Evaluate, insiderVars, dnaVars, agentVars
  <2>4. QED
    BY <1>2, <1>3, <2>1, <2>2, <2>3, ChainCall
<1>9. CASE HourPasses
  BY <1>9, ChainHour
<1>10. CASE DeviceCall
  <2>1. PICK name, c, events :
           /\ c \in Calls(name) /\ Took(c) /\ Publish(bus, events) /\ IsSeq(events)
           /\ \A x \in Elems(events) : Raised(x, 0)
    <3>1. \A d, health : \A x \in Elems(Device!HealthAlerts(d, health)) : Raised(x, 0)
      BY AnnouncementRaises, ElemsOfSome DEF Device!HealthAlerts
    <3>2. IsSeq(<<>>) /\ \A x \in Elems(<<>>) : Raised(x, 0)
      BY Singles, ElemsOfSome
    <3>3. QED
      BY <1>10, <3>1, <3>2, DeviceAlerts DEF DeviceCall
  <2>2. StoryOK'
    BY <1>1, <2>1, Taking
  <2>3. UNCHANGED <<clock, locking, iocs, uebaProfiles, records, dnaProfiles>>
    BY <1>10 DEF DeviceCall, insiderVars, dnaVars, agentVars
  <2>4. QED
    BY <1>2, <2>1, <2>2, <2>3, ChainCall
<1>11. CASE AnalystCall
  <2>1. PICK name, c : c \in Calls(name) /\ Took(c)
    BY <1>11 DEF AnalystCall
  <2>2. StoryOK'
    BY <1>1, <2>1, Taking
  <2>3. UNCHANGED <<bus, recent, clock, locking, iocs, uebaProfiles, records, dnaProfiles>>
    BY <1>11 DEF AnalystCall, insiderVars, dnaVars, agentVars
  <2>4. QED
    BY <1>2, <2>2, <2>3, ChainQuiet
<1>12. CASE IntelCall
  <2>1. PICK name, c, events :
           /\ c \in Calls(name) /\ Took(c) /\ Publish(bus, events) /\ IsSeq(events)
           /\ \A x \in Elems(events) : Raised(x, 0)
           /\ Named'
    <3>1. IsSeq(<<>>) /\ \A x \in Elems(<<>>) : Raised(x, 0)
      BY Singles, ElemsOfSome
    <3>2. ASSUME NEW c \in Calls("add_ioc"), Took(c), Intel!AddIoc(c.value, c.ioc)
          PROVE  Named'
      <4>1. c.value # None
        BY <1>1, <3>2, Taking DEF Proper
      <4>2. QED
        BY <1>1, <3>2, <4>1, IndicatorsNamed DEF EnginesQuiet
    <3>3. ASSUME NEW c \in Calls("remove_ioc"), Intel!RemoveIoc(c.value)
          PROVE  Named'
      BY <1>1, <3>3, IndicatorsNamed DEF EnginesQuiet
    <3>4. iocs' = iocs => Named'
      BY <1>1 DEF EnginesQuiet, Named
    <3>5. CASE \E c \in Calls("add_ioc") : Took(c) /\ Intel!AddIoc(c.value, c.ioc) /\ Publish(bus, <<>>)
      BY <3>1, <3>2, <3>5
    <3>6. CASE \E c \in Calls("remove_ioc") : Took(c) /\ Intel!RemoveIoc(c.value) /\ Publish(bus, <<>>)
      BY <3>1, <3>3, <3>6
    <3>7. CASE \E c \in Calls("mention") : Took(c) /\ Publish(bus, Intel!Mention(c.type, c.confidence)) /\ UNCHANGED iocs
      BY <3>4, <3>7, IntelAlerts, MentionRaises
    <3>8. QED
      BY <1>12, <3>5, <3>6, <3>7 DEF IntelCall
  <2>2. StoryOK'
    BY <1>1, <2>1, Taking
  <2>3. UNCHANGED <<clock, locking, uebaProfiles, records, dnaProfiles>>
    BY <1>12 DEF IntelCall, insiderVars, dnaVars, agentVars
  <2>4. EnginesQuiet'
    BY <1>1, <2>1, <2>3 DEF EnginesQuiet, UEBAQuiet, InsiderQuiet, DNAType
  <2>5. QED
    BY <2>1, <2>2, <2>3, <2>4, ChainCall
<1>13. CASE PeerCall
  <2>1. PICK c \in Calls("peer") : Took(c) /\ DNA!SetPeerGroup(c.id, c.group)
    BY <1>13 DEF PeerCall
  <2>2. StoryOK'
    BY <1>1, <2>1, Taking
  <2>3. UNCHANGED <<bus, recent, clock, locking, iocs, uebaProfiles, records>>
    BY <1>13 DEF PeerCall, insiderVars, agentVars
  <2>4. DNAType'
    <3>1. PICK id, group : dnaProfiles' = IF id \in DOMAIN dnaProfiles THEN [dnaProfiles EXCEPT ![id].group = group] ELSE dnaProfiles
      BY <2>1 DEF DNA!SetPeerGroup
    <3>2. \A other \in DOMAIN dnaProfiles : \/ dnaProfiles'[other] = dnaProfiles[other]
                                            \/ dnaProfiles'[other] = [dnaProfiles[other] EXCEPT !.group = group]
      BY <3>1
    <3>3. DOMAIN dnaProfiles' = DOMAIN dnaProfiles
      BY <3>1
    <3>4. \A p : ProfileType(p) => ProfileType([p EXCEPT !.group = group])
      BY DEF ProfileType
    <3>5. ASSUME NEW other \in DOMAIN dnaProfiles
          PROVE  ProfileType(dnaProfiles'[other])
      <4>1. ProfileType(dnaProfiles[other])
        BY <1>1 DEF EnginesQuiet, DNAType
      <4>2. QED
        BY <3>2, <3>4, <4>1
    <3>6. QED
      BY <3>3, <3>5 DEF DNAType
  <2>5. EnginesQuiet'
    BY <1>1, <2>3, <2>4 DEF EnginesQuiet, Named, UEBAQuiet, InsiderQuiet
  <2>6. QED
    BY <2>2, <2>3, <2>4, <2>5, ChainQuiet
<1>14. CASE Over \/ UNCHANGED vars
  BY <1>2, <1>3, <1>14, ChainQuiet DEF Over, vars, engineVars, insiderVars, dnaVars, agentVars
<1>15. CASE DecoyOpens
  BY <1>2, <1>3, <1>15, ChainDecoy DEF DecoyOpens, insiderVars, dnaVars
<1>16. CASE AlertStored
  BY <1>2, <1>3, <1>16, ChainQuiet DEF AlertStored, agentVars, insiderVars, dnaVars
<1>17. QED
  BY <1>4, <1>5, <1>6, <1>7, <1>8, <1>9, <1>10, <1>11, <1>12, <1>13, <1>14, <1>15, <1>16 DEF Next

\* An event from outside leads to alerts about alerts at most.
THEOREM ChainsEndAtTwo == Spec => []ChainsEnd
<1>1. ChainInv => ChainsEnd
  <2> SUFFICES ASSUME ChainInv, NEW i \in DOMAIN bus PROVE bus[i].depth <= 2
    BY DEF ChainsEnd
  <2>1. Safe(bus[i])
    BY DEF ChainInv, Elems
  <2>2. bus[i].depth \in 0..2
    BY <2>1 DEF Safe, Traced
  <2>3. QED
    BY <2>2
<1>2. QED
  BY <1>1, CountInit, CountStep, ChainInit, ChainStep, PTL DEF Spec

\* The UEBA engine and the insider engine raise no alert, whatever is on the
\* bus: one is never stable, the other's overall score is always zero.
Silent == \A i \in DOMAIN bus : Elems(UEBA!Alerts(bus[i], Hour)) = {} /\ Insider!Alerts(bus[i]) = <<>>

THEOREM TwoEnginesAreSilent == Spec => []Silent
<1>1. ChainInv => Silent
  <2> SUFFICES ASSUME ChainInv, NEW i \in DOMAIN bus
               PROVE  Elems(UEBA!Alerts(bus[i], Hour)) = {} /\ Insider!Alerts(bus[i]) = <<>>
    BY DEF Silent
  <2>1. EnginesQuiet /\ Safe(bus[i])
    BY DEF ChainInv, Elems
  <2>2. PICK e, hour : e = bus[i] /\ hour = Hour
    OBVIOUS
  <2>3. e.kind \in {"threat", "request", "finding"}
    BY <2>1, <2>2 DEF Safe, Traced
  <2>4. Elems(UEBA!Alerts(e, hour)) = {} /\ Insider!Alerts(e) = <<>>
    BY <2>1, <2>3, UEBASilent, InsiderSilent DEF EnginesQuiet
  <2>5. QED
    BY <2>2, <2>4
<1>2. QED
  BY <1>1, CountInit, CountStep, ChainInit, ChainStep, PTL DEF Spec

-----------------------------------------------------------------------------
(* What corroborates what. *)

\* Two types that findings about one event may have
Kin(a, b) == \E type : a \in Family(type) /\ b \in Family(type)

\* Every pattern has two types that no event leads to both of.
LEMMA Estranged ==
  ASSUME NEW k \in DOMAIN Correlator!Patterns
  PROVE  \E a, b \in Correlator!Patterns[k].types : a # b /\ ~Kin(a, b)
<1> DEFINE Apart(types) == \E a, b \in types :
              /\ a \notin {"network_intrusion", "anomalous_behavior", "insider_threat", "memory_threat"}
              /\ b \notin {a, "anomalous_behavior"}
           At(i) == Correlator!Patterns[i].types
<1>1. Apart(At(1)) /\ Apart(At(2)) /\ Apart(At(3)) /\ Apart(At(4)) /\ Apart(At(5))
  BY DEF Correlator!Patterns, Correlator!Pattern
<1>2. Apart(At(6)) /\ Apart(At(7)) /\ Apart(At(8)) /\ Apart(At(9)) /\ Apart(At(10))
  BY DEF Correlator!Patterns, Correlator!Pattern
<1>3. Apart(At(11)) /\ Apart(At(12)) /\ Apart(At(13)) /\ Apart(At(14)) /\ Apart(At(15))
  BY DEF Correlator!Patterns, Correlator!Pattern
<1>4. Apart(At(16)) /\ Apart(At(17)) /\ Apart(At(18)) /\ Apart(At(19))
  BY DEF Correlator!Patterns, Correlator!Pattern
<1>5. k \in 1..19
  BY DEF Correlator!Patterns
<1> HIDE DEF Apart, At
<1>6. Apart(At(k))
  BY <1>1, <1>2, <1>3, <1>4, <1>5
<1>7. ASSUME NEW a, NEW b,
             a \notin {"network_intrusion", "anomalous_behavior", "insider_threat", "memory_threat"},
             b \notin {a, "anomalous_behavior"}
      PROVE  ~Kin(a, b)
  BY <1>7 DEF Kin, Family
<1>8. QED
  BY <1>6, <1>7 DEF Apart, At

\* A finding with the event it is about.  The arbiter's are filed under the
\* event that made it look, and so are the confirmations of their decoys.
Own(f) == ~(f.agent \in {"MetaRiskArbiter", "PseudoLockAgent"} /\ f.type = "correlated_attack")

\* Findings are about nothing but themselves, numbered down to -floor, or
\* about one of the events handled, and two about the same are kin.
Related(S, floor, handled) ==
  /\ \A f \in S : Own(f) => f.event \in (-floor)..handled
  /\ \A f, g \in S : Own(f) /\ Own(g) /\ f.event = g.event => Kin(f.type, g.type)

Like(f, g) == f.event = g.event /\ f.type = g.type /\ (Own(f) => Own(g))

\* Findings about the event that is handled are kin, and no other is about it,
\* nor about one that is new.
LEMMA RelatedGrow ==
  ASSUME NEW S, NEW floor \in Nat, NEW handled \in Nat, Related(S, floor, handled),
         NEW deeper \in Nat, floor <= deeper, NEW more \in Nat, handled <= more, NEW T, NEW type,
         \A f \in T : \/ ~Own(f)
                      \/ \E g \in S : Like(f, g)
                      \/ f.event \in (-deeper)..(-floor - 1)
                      \/ handled < more /\ f.event = more /\ f.type \in Family(type),
         \A f, g \in T : Own(f) /\ Own(g) /\ f.event = g.event /\ f.event \in (-deeper)..(-floor - 1) => f.type = g.type
  PROVE  Related(T, deeper, more)
<1> DEFINE Old(f) == \E g \in S : Like(f, g)
           Fresh(f) == f.event \in (-deeper)..(-floor - 1)
           New(f) == handled < more /\ f.event = more /\ f.type \in Family(type)
<1>1. ASSUME NEW f \in T, Own(f), Old(f)
      PROVE  f.event \in (-floor)..handled
  BY <1>1 DEF Related, Like
<1>2. ASSUME NEW f \in T, Own(f)
      PROVE  f.event \in (-deeper)..more /\ (Old(f) \/ Fresh(f) \/ New(f))
  BY <1>1, <1>2
<1>3. ASSUME NEW f \in T, NEW g \in T, Own(f), Own(g), f.event = g.event
      PROVE  Kin(f.type, g.type)
  <2>1. CASE Old(f) /\ Old(g)
    <3>1. PICK x \in S, y \in S : Like(f, x) /\ Like(g, y)
      BY <2>1
    <3>2. Kin(x.type, y.type)
      BY <1>3, <3>1 DEF Related, Like
    <3>3. QED
      BY <3>1, <3>2 DEF Like
  <2>2. CASE Fresh(f)
    <3>1. f.type = g.type
      BY <1>3, <2>2
    <3>2. QED
      BY <3>1 DEF Kin, Family
  <2>3. CASE New(f) /\ New(g)
    BY <2>3 DEF Kin
  <2>4. (New(f) => ~Old(g)) /\ (Old(f) => ~New(g))
    BY <1>1, <1>3
  <2>5. Fresh(f) \/ ~Fresh(g)
    BY <1>3
  <2>6. QED
    BY <1>2, <1>3, <2>1, <2>2, <2>3, <2>4, <2>5
<1>4. QED
  BY <1>2, <1>3 DEF Related

\* EventsCorroborate, of one alert
Corroborated(alert) ==
  {f.type : f \in alert.linked} = alert.types =>
     \/ Cardinality({f.event : f \in alert.linked}) > 1
     \/ \E f \in alert.linked : ~Own(f)

LEMMA TwoElements ==
  ASSUME NEW S, IsFiniteSet(S), NEW a \in S, NEW b \in S, a # b
  PROVE  Cardinality(S) > 1
<1>1. Cardinality(S) \in Nat
  BY FS_CardinalityType
<1>2. Cardinality(S) # 0
  BY FS_EmptySet
<1>3. Cardinality(S) # 1
  BY FS_Singleton
<1>4. QED
  BY <1>1, <1>2, <1>3

LEMMA AlertCorroborated ==
  ASSUME NEW known, IsFiniteSet(known), NEW floor, NEW handled, Related(known, floor, handled),
         NEW k \in DOMAIN Correlator!Patterns
  PROVE  Corroborated(Alert(k, known))
<1> DEFINE pattern == Correlator!Patterns[k]
           M == Correlator!Matched(pattern, known)
           alert == Correlator!Emitted(pattern, M)
           events == {f.event : f \in M}
<1>1. M \subseteq known
  BY DEF Correlator!Matched
<1>2. alert.linked = M /\ alert.types = pattern.types /\ Alert(k, known) = alert
  BY DEF Correlator!Emitted, Alert
<1>3. IsFiniteSet(events)
  <2> HIDE DEF M
  <2>1. IsFiniteSet(M)
    BY <1>1, FS_Subset
  <2>2. [f \in M |-> f.event] \in Surjection(M, events)
    BY DEF Surjection
  <2>3. QED
    BY <2>1, <2>2, FS_Surjection
<1>4. PICK a, b \in pattern.types : a # b /\ ~Kin(a, b)
  BY Estranged
<1> HIDE DEF M, alert, pattern
<1>5. ASSUME {f.type : f \in M} = pattern.types, \A f \in M : Own(f)
      PROVE  Cardinality(events) > 1
  <2>1. PICK f \in M, g \in M : f.type = a /\ g.type = b
    BY <1>4, <1>5
  <2>2. f.event # g.event
    BY <1>1, <1>4, <1>5, <2>1 DEF Related
  <2>3. f.event \in events /\ g.event \in events
    OBVIOUS
  <2>4. QED
    BY <1>3, <2>2, <2>3, TwoElements
<1>6. QED
  BY <1>2, <1>5 DEF Corroborated

\* An evaluation adds an alert that is corroborated, if any.
LEMMA EvaluationCorroborated ==
  ASSUME EventsCorroborate, IsSeq(correlated),
         NEW known, IsFiniteSet(known), NEW floor, NEW handled, Related(known, floor, handled),
         NEW active, NEW k \in Nat \ {0}, NEW waiting, Correlator!EvaluateFrom(active, known, k, waiting)
  PROVE  EventsCorroborate'
<1>1. CASE correlated' = correlated
  BY <1>1 DEF EventsCorroborate
<1>2. ASSUME NEW p \in DOMAIN Correlator!Patterns, correlated' = Append(correlated, Alert(p, known))
      PROVE  EventsCorroborate'
  <2> DEFINE alert == Alert(p, known)
  <2>1. Corroborated(alert)
    BY AlertCorroborated
  <2> HIDE DEF alert
  <2>2. /\ DOMAIN correlated' = 1..(Len(correlated) + 1) /\ Len(correlated) \in Nat
        /\ DOMAIN correlated = 1..Len(correlated)
        /\ correlated'[Len(correlated) + 1] = alert
        /\ \A i \in 1..Len(correlated) : correlated'[i] = correlated[i]
    BY <1>2, Appended DEF alert
  <2>3. \A i \in DOMAIN correlated' : i \in DOMAIN correlated \/ i = Len(correlated) + 1
    BY <2>2
  <2>4. \A i \in DOMAIN correlated : Corroborated(correlated[i])
    BY DEF EventsCorroborate, Corroborated, Own
  <2>5. \A i \in DOMAIN correlated' : Corroborated(correlated'[i])
    BY <2>1, <2>2, <2>3, <2>4
  <2>6. QED
    BY <2>5 DEF EventsCorroborate, Corroborated, Own
<1>3. QED
  BY <1>1, <1>2, EvaluatingOne

\* What a finding on the bus will be in the buffer
Report(e) == [n |-> e.id, event |-> Event(e), agent |-> e.source, type |-> e.type]

\* The findings that are waiting for others
Waiting == buffer \union {Report(e) : e \in {y \in Elems(bus) : y.kind = "finding"} \union locking}

CorroborationInv ==
  /\ Related(Waiting, published, published - Len(bus))
  /\ IsFiniteSet(buffer)
  /\ EventsCorroborate

LEMMA CorroborationInit == Init => CorroborationInv
<1> SUFFICES ASSUME Init PROVE CorroborationInv
  OBVIOUS
<1>1. buffer = {} /\ correlated = <<>> /\ Elems(bus) = {} /\ locking = {}
  BY ElemsOfSome DEF Init, Correlator!Init
<1>2. Waiting = {} /\ IsFiniteSet(buffer)
  BY <1>1, FS_EmptySet DEF Waiting
<1>3. DOMAIN correlated = {}
  <2>1. DOMAIN <<>> = {}
    OBVIOUS
  <2>2. QED
    BY <1>1, <2>1
<1>4. QED
  BY <1>2, <1>3 DEF CorroborationInv, Related, EventsCorroborate

\* Events on the bus have the numbers they were published with, and no two
\* the same.
LEMMA Counted ==
  ASSUME NEW queue, NEW n, Numbered(queue, n)
  PROVE  /\ \A y \in Elems(queue) : y.id \in Nat /\ y.id <= n
         /\ \A y, z \in Elems(queue) : y.id = z.id => y = z
<1>1. Len(queue) \in Nat /\ DOMAIN queue = 1..Len(queue) /\ n \in Nat /\ Len(queue) <= n
  BY DEF Numbered, IsSeq
<1>2. ASSUME NEW i \in DOMAIN queue
      PROVE  queue[i].id = n - Len(queue) + i /\ i \in 1..Len(queue)
  BY <1>1, <1>2 DEF Numbered
<1>3. \A i \in DOMAIN queue : queue[i].id \in Nat /\ queue[i].id <= n
  BY <1>1, <1>2
<1>4. \A i, j \in DOMAIN queue : queue[i].id = queue[j].id => i = j
  BY <1>1, <1>2
<1>5. QED
  BY <1>3, <1>4 DEF Elems

\* What a new finding on the bus is about
Placed(y, handled, type) ==
  \/ ~Own(Report(y))
  \/ \E g \in Waiting : Like(Report(y), g)
  \/ published < y.id /\ Report(y).event = -y.id
  \/ published - Len(bus) < handled /\ Report(y).event = handled /\ y.type \in Family(type)

\* Findings keep what they are about, wherever they wait.
LEMMA Moved ==
  ASSUME CountInv, CountInv', CorroborationInv, NEW type, NEW handled, handled = published' - Len(bus'),
         published - Len(bus) <= handled, published <= published',
         IsFiniteSet(buffer'), EventsCorroborate',
         \A f \in buffer' : \E g \in Waiting : Like(f, g),
         \A y \in locking' : y \in locking \/ (y \in Elems(bus) /\ y.kind = "finding"),
         \A y \in Elems(bus') : y.kind = "finding" => y \in Elems(bus) \/ Placed(y, handled, type)
  PROVE  CorroborationInv'
<1> DEFINE before == published - Len(bus)
           Old(f) == \E g \in Waiting : Like(f, g)
           New(f) == \E y \in Elems(bus') : f = Report(y) /\ published < y.id /\ f.event = -y.id
           Now(f) == before < handled /\ f.event = handled /\ f.type \in Family(type)
<1>1. /\ published \in Nat /\ before \in Nat /\ published' \in Nat /\ handled \in Nat
  BY DEF CountInv, Numbered, IsSeq
<1>2. Related(Waiting, published, before)
  BY DEF CorroborationInv
<1>3. /\ \A y \in Elems(bus') : y.id \in Nat /\ y.id <= published'
      /\ \A y, z \in Elems(bus') : y.id = z.id => y = z
  BY Counted DEF CountInv
<1>4. ASSUME NEW f \in Waiting'
      PROVE  ~Own(f) \/ Old(f) \/ New(f) \/ Now(f)
  <2>1. CASE f \in buffer'
    BY <2>1
  <2>2. CASE f \notin buffer'
    <3>1. PICK y \in {z \in Elems(bus') : z.kind = "finding"} \union locking' : f = Report(y)
      <4>1. Waiting' = buffer' \union {Report(e) : e \in {z \in Elems(bus') : z.kind = "finding"} \union locking'}
        BY DEF Waiting, Report, Elems, Event, Get
      <4>2. QED
        BY <2>2, <4>1
    <3>2. CASE y \in locking \/ (y \in Elems(bus) /\ y.kind = "finding")
      <4>1. Report(y) \in Waiting
        BY <3>2 DEF Waiting
      <4>2. QED
        BY <3>1, <4>1 DEF Like
    <3>3. CASE y \in Elems(bus') /\ y.kind = "finding" /\ Placed(y, handled, type)
      <4>1. f.type = y.type
        BY <3>1 DEF Report
      <4>2. QED
        BY <3>1, <3>3, <4>1 DEF Placed
    <3>4. QED
      BY <3>1, <3>2, <3>3
  <2>3. QED
    BY <2>1, <2>2
<1>5. ASSUME NEW f, New(f) PROVE f.event \in (-published')..(-published - 1)
  BY <1>1, <1>3, <1>5
<1>6. ASSUME NEW f, Own(f), Old(f) PROVE f.event \in (-published)..before
  BY <1>2, <1>6 DEF Related, Like
<1>7. ASSUME NEW f \in Waiting', NEW g \in Waiting', Own(f), Own(g), f.event = g.event, f.event \in (-published')..(-published - 1)
      PROVE  f.type = g.type
  <2>1. New(f) /\ New(g)
    <3>1. ASSUME NEW x \in Waiting', Own(x), x.event \in (-published')..(-published - 1) PROVE New(x)
      <4>1. ~Old(x)
        BY <1>1, <1>6, <3>1
      <4>2. ~Now(x)
        BY <1>1, <3>1
      <4>3. QED
        BY <1>4, <3>1, <4>1, <4>2
    <3>2. QED
      BY <1>7, <3>1
  <2>2. PICK y, z \in Elems(bus') : f = Report(y) /\ f.event = -y.id /\ g = Report(z) /\ g.event = -z.id
    BY <2>1
  <2>3. y.id = z.id
    BY <1>3, <1>7, <2>2
  <2>4. QED
    BY <1>3, <2>2, <2>3
<1> HIDE DEF before, New
<1>8. \A f \in Waiting' : ~Own(f) \/ Old(f) \/ f.event \in (-published')..(-published - 1) \/ Now(f)
  BY <1>4, <1>5
<1>9. before <= handled
  BY DEF before
<1>10. Related(Waiting', published', handled)
  BY <1>1, <1>2, <1>7, <1>8, <1>9, RelatedGrow
<1>11. Related(Waiting, published, published - Len(bus))'
  BY <1>10 DEF Related, Own, Kin
<1>12. QED
  BY <1>11 DEF CorroborationInv

\* What an event is about once it has a number
LEMMA Stamped ==
  ASSUME NEW x, NEW m, NEW y, y = With(x, "id", m), {"kind", "source", "type"} \subseteq DOMAIN x
  PROVE  /\ y.kind = x.kind /\ y.type = x.type /\ y.id = m
         /\ Report(y).type = x.type /\ Report(y).agent = x.source
         /\ "event_id" \in DOMAIN x => Report(y).event = x.event_id
         /\ "event_id" \notin DOMAIN x => Report(y).event = -m
<1>1. DOMAIN y = DOMAIN x \union {"id"} /\ y.id = m /\ \A k \in DOMAIN x : k # "id" => y[k] = x[k]
  BY DEF With
<1>2. y.kind = x.kind /\ y.type = x.type /\ y.source = x.source
  BY <1>1
<1>3. "event_id" \in DOMAIN x => Event(y) = x.event_id
  BY <1>1 DEF Event, Get
<1>4. "event_id" \notin DOMAIN x => Event(y) = -m
  BY <1>1 DEF Event, Get
<1> HIDE DEF With
<1>5. Report(y).type = y.type /\ Report(y).agent = y.source /\ Report(y).event = Event(y)
  BY DEF Report
<1>6. QED
  BY <1>1, <1>2, <1>3, <1>4, <1>5

\* Publication alone
LEMMA CorroborationSent ==
  ASSUME CountInv, CountInv', CorroborationInv, UNCHANGED <<buffer, correlated>>, locking' \subseteq locking,
         NEW events, IsSeq(events), Publish(bus, events),
         \A y \in Elems(bus') : y.kind = "finding" => y \in Elems(bus) \/ Placed(y, published - Len(bus), "none")
  PROVE  CorroborationInv'
<1>1. published' - Len(bus') = published - Len(bus) /\ IsSeq(bus) /\ published - Len(bus) \in Nat
  <2>1. published' - Len(bus') = published - Len(bus)
    BY Publication DEF CountInv
  <2>2. QED
    BY <2>1 DEF CountInv, Numbered, IsSeq
<1>2. published <= published'
  BY <1>1, Announced DEF CountInv, Numbered
<1>3. IsFiniteSet(buffer') /\ EventsCorroborate'
  BY DEF CorroborationInv, EventsCorroborate
<1>4. \A f \in buffer' : \E g \in Waiting : Like(f, g)
  BY DEF Waiting, Like
<1>5. PICK handled : handled = published' - Len(bus')
  OBVIOUS
<1>6. published - Len(bus) <= handled
  BY <1>1, <1>5
<1>7. \A y \in Elems(bus') : y.kind = "finding" => y \in Elems(bus) \/ Placed(y, handled, "none")
  BY <1>1, <1>5
<1>8. QED
  BY <1>2, <1>3, <1>4, <1>5, <1>6, <1>7, Moved

\* A single event that is no duplicate goes to the end of the queue.
LEMMA OneSent ==
  ASSUME NEW queue, IsSeq(queue), NEW x, x.kind # "threat", Publish(queue, <<x>>)
  PROVE  bus' = Append(queue, With(x, "id", published + 1))
<1> DEFINE state == [queue |-> queue, n |-> published, recent |-> recent]
           after == CHOOSE after : Publishing(state, <<x>>, 1, after)
           one == <<x>>
<1>1. Len(one) = 1 /\ one[1] = x
  OBVIOUS
<1>2. bus' = after[1].queue
  BY <1>1 DEF Publish, AllPublished, Publishing
<1>3. Publishing(state, one, 1, after)
  <2> HIDE DEF state, one
  <2>1. \E any : Publishing(state, one, 1, any)
    BY PublishingEnds
  <2>2. QED
    BY <2>1 DEF one
<1>4. after[1] = Published(state, x)
  <2> HIDE DEF after, one, state
  <2>1. after[0] = state /\ after[1] = Published(after[0], one[1])
    BY <1>3 DEF Publishing
  <2>2. QED
    BY <1>1, <2>1
<1>5. Published(state, x).queue = Append(queue, With(x, "id", published + 1))
  BY DEF Published, Duplicate
<1>6. QED
  BY <1>2, <1>4, <1>5

\* What handling an event publishes is an alert or a finding about the event.
LEMMA LedAbout ==
  ASSUME ChainInv, NEW e \in Elems(bus), NEW hour, NEW x \in Elems(Led(e, hour))
  PROVE  "kind" \in DOMAIN x /\ (x.kind = "finding" => {"kind", "source", "type"} \subseteq DOMAIN x /\ About(x, e))
<1> DEFINE Alarm == "kind" \in DOMAIN x /\ x.kind = "threat"
<1>1. EnginesQuiet /\ e.kind \in {"threat", "finding", "request"}
  BY DEF ChainInv, Safe, Traced
<1>2. x \in Elems(DNA!Alerts(e, hour)) => Alarm
  BY <1>1, DNARaises DEF EnginesQuiet, Raised
<1>3. x \in Elems(Device!Alerts(e)) \/ x \in Elems(Physical!Alerts(e)) => Alarm
  BY DeviceRaises, PhysicalRaises DEF Raised
<1>4. x \in Elems(Intel!Alerts(e)) => Alarm
  BY <1>1, IntelRaises DEF EnginesQuiet, Raised
<1>5. x \notin Elems(UEBA!Alerts(e, hour)) /\ x \notin Elems(Insider!Alerts(e))
  BY <1>1, UEBASilent, InsiderSilent, ElemsOfSome DEF EnginesQuiet
<1>6. x \in Elems(Comply!Findings(e)) \/ x \in Elems(Agents!Findings(e, hour))
      => {"kind", "source", "type"} \subseteq DOMAIN x /\ About(x, e)
  BY ComplyFinds, AgentsFind DEF Reported, Found
<1> HIDE DEF Alarm
<1>7. Alarm \/ ({"kind", "source", "type"} \subseteq DOMAIN x /\ About(x, e))
  BY <1>2, <1>3, <1>4, <1>5, <1>6, LedParts
<1>8. QED
  BY <1>7 DEF Alarm

\* What the correlation engine makes of the event that is handled
LEMMA CorroborationIngested ==
  ASSUME CountInv, CorroborationInv, NEW e \in Elems(bus), Correlator!On(e)
  PROVE  IsFiniteSet(buffer') /\ EventsCorroborate' /\ \A f \in buffer' : \E g \in Waiting : Like(f, g)
<1> DEFINE start == Correlator!Ingested(e)
           handled == published - Len(bus)
<1>1. /\ Related(Waiting, published, handled) /\ IsFiniteSet(buffer) /\ EventsCorroborate
      /\ IsSeq(correlated) /\ published \in Nat /\ handled \in Nat
  BY DEF CorroborationInv, CountInv, Tidy, Numbered, IsSeq
<1>2. CASE e.kind # "finding"
  <2>1. buffer' = buffer /\ correlated' = correlated
    BY <1>2 DEF Correlator!On
  <2>2. QED
    BY <1>1, <2>1 DEF EventsCorroborate, Waiting, Like
<1>3. CASE e.kind = "finding"
  <2> DEFINE new == [n |-> e.id, event |-> Correlator!Event(e), agent |-> e.source, type |-> e.type,
                     severity |-> e.severity, confidence |-> e.confidence, at |-> clock]
  <2>1. start \subseteq buffer \union {new}
    BY DEF Correlator!Ingested
  <2>2. buffer' = start /\ Correlator!EvaluateFrom({f.type : f \in start}, start, 1, evaluations)
    BY <1>3 DEF Correlator!On
  <2>3. Like(new, Report(e)) /\ Report(e) \in Waiting
    BY <1>3 DEF Like, Own, Report, Correlator!Event, Correlator!Get, Event, Get, Waiting
  <2>4. \A f \in start : \E g \in Waiting : Like(f, g)
    BY <2>1, <2>3 DEF Waiting, Like
  <2>5. IsFiniteSet(start)
    <3> HIDE DEF start, new
    <3>1. IsFiniteSet(buffer \union {new})
      BY <1>1, FS_AddElement
    <3>2. QED
      BY <2>1, <3>1, FS_Subset
  <2> HIDE DEF start, new, handled
  <2>6. ASSUME NEW f \in start, Own(f) PROVE f.event \notin (-published)..(-published - 1)
    BY <1>1
  <2>7. Related(start, published, handled)
    <3>1. published <= published /\ handled <= handled
      BY <1>1
    <3>2. QED
      BY <1>1, <2>4, <2>6, <3>1, RelatedGrow
  <2>8. 1 \in Nat \ {0}
    OBVIOUS
  <2>9. EventsCorroborate'
    BY <1>1, <2>2, <2>5, <2>7, <2>8, EvaluationCorroborated
  <2>10. QED
    BY <2>2, <2>4, <2>5, <2>9
<1>4. QED
  BY <1>2, <1>3

LEMMA CorroborationHandle ==
  ASSUME CountInv, CountInv', ChainInv, CorroborationInv, Handle
  PROVE  CorroborationInv'
<1>1. PICK e : e = Head(bus)
  OBVIOUS
<1>2. PICK hour : hour = Hour
  OBVIOUS
<1>3. /\ bus # <<>> /\ Correlator!On(e) /\ Publish(Tail(bus), Led(e, hour))
      /\ locking' = IF AsksForDecoy(e) THEN locking \union {e} ELSE locking
  BY <1>1, <1>2 DEF Handle, Led
<1>4. e \in Elems(bus) /\ Elems(Tail(bus)) \subseteq Elems(bus) /\ IsSeq(Tail(bus)) /\ IsSeq(Led(e, hour))
  BY <1>1, <1>3, HeadTaken, LedParts
<1>5. PICK handled : handled = published' - Len(bus')
  OBVIOUS
<1>6. /\ handled = published - Len(bus) + 1 /\ published - Len(bus) \in Nat /\ e.id = handled
  <2>1. /\ Numbered(Tail(bus), published) /\ published - Len(Tail(bus)) = published - Len(bus) + 1
        /\ published - Len(bus) \in Nat /\ e.id = published - Len(bus) + 1
    BY <1>1, <1>3, OneHandled DEF CountInv
  <2>2. published' - Len(bus') = published - Len(Tail(bus))
    BY <1>3, <1>4, <2>1, Publication
  <2>3. QED
    BY <1>5, <2>1, <2>2
<1>7. published - Len(bus) <= handled /\ published - Len(bus) < handled
  BY <1>6
<1>8. IsFiniteSet(buffer') /\ EventsCorroborate' /\ \A f \in buffer' : \E g \in Waiting : Like(f, g)
  BY <1>3, <1>4, CorroborationIngested
<1>9. \A y \in locking' : y \in locking \/ (y \in Elems(bus) /\ y.kind = "finding")
  BY <1>3, <1>4 DEF AsksForDecoy
<1>10. published \in Nat
  BY DEF CountInv, Numbered
<1>11. /\ published <= published'
       /\ \A y \in Elems(bus') : \/ y \in Elems(Tail(bus))
                                 \/ \E x \in Elems(Led(e, hour)) : \E m \in Nat : y = With(x, "id", m)
  BY <1>3, <1>4, <1>10, Announced
<1>12. ASSUME NEW y \in Elems(bus'), y.kind = "finding", y \notin Elems(bus)
       PROVE  Placed(y, handled, e.type)
  <2>1. PICK x \in Elems(Led(e, hour)), m \in Nat : y = With(x, "id", m)
    BY <1>4, <1>11, <1>12
  <2>2. "kind" \in DOMAIN x /\ (x.kind = "finding" => {"kind", "source", "type"} \subseteq DOMAIN x /\ About(x, e))
    BY <1>4, LedAbout
  <2>3. x.kind = "finding"
    <3>1. y.kind = x.kind
      BY <2>1, <2>2 DEF With
    <3>2. QED
      BY <1>12, <3>1
  <2>4. Report(y).event = x.event_id /\ y.type = x.type
    BY <2>1, <2>2, <2>3, Stamped DEF About
  <2>5. QED
    BY <1>6, <1>7, <2>2, <2>3, <2>4 DEF Placed, About
<1>13. QED
  BY <1>5, <1>7, <1>8, <1>9, <1>11, <1>12, Moved

\* An alert is stored, and the evaluation goes on with findings that are left.
LEMMA CorroborationStored ==
  ASSUME CountInv, CountInv', CorroborationInv, AlertStored
  PROVE  CorroborationInv'
<1>1. PICK x \in evaluations : Correlator!Stored(x) \/ Correlator!StoreFails(x)
  BY DEF AlertStored
<1>2. bus' = bus /\ published' = published /\ locking' = locking
  BY DEF AlertStored, agentVars
<1>3. /\ Related(Waiting, published, published - Len(bus)) /\ IsFiniteSet(buffer) /\ EventsCorroborate
      /\ IsSeq(correlated)
  BY DEF CorroborationInv, CountInv, Tidy
<1>4. buffer' \subseteq buffer /\ EventsCorroborate'
  <2>1. CASE Correlator!StoreFails(x)
    BY <1>3, <2>1 DEF Correlator!StoreFails, EventsCorroborate
  <2>2. CASE Correlator!Stored(x)
    <3> DEFINE known == Correlator!Cleared(buffer, Correlator!Patterns[x.pattern].types)
    <3>1. known \subseteq buffer
      BY DEF Correlator!Cleared
    <3>2. buffer' = known /\ Correlator!EvaluateFrom(x.active, known, x.pattern + 1, evaluations \ {x})
      BY <2>2 DEF Correlator!Stored
    <3> HIDE DEF known
    <3>3. IsFiniteSet(known)
      BY <1>3, <3>1, FS_Subset
    <3>4. Related(known, published, published - Len(bus))
      BY <1>3, <3>1 DEF Related, Waiting
    <3>5. x.pattern + 1 \in Nat \ {0}
      <4>1. x.pattern \in DOMAIN Correlator!Patterns
        BY DEF CountInv, Tidy
      <4>2. DOMAIN Correlator!Patterns = 1..19
        BY DEF Correlator!Patterns
      <4>3. QED
        BY <4>1, <4>2
    <3>6. EventsCorroborate'
      BY <1>3, <3>2, <3>3, <3>4, <3>5, EvaluationCorroborated
    <3>7. QED
      BY <3>1, <3>2, <3>6
  <2>3. QED
    BY <1>1, <2>1, <2>2
<1>5. IsFiniteSet(buffer')
  BY <1>3, <1>4, FS_Subset
<1>6. Waiting' \subseteq Waiting
  <2>1. Waiting' = buffer' \union {Report(e) : e \in {y \in Elems(bus) : y.kind = "finding"} \union locking}
    BY <1>2 DEF Waiting, Report, Elems, Event, Get
  <2>2. QED
    BY <1>4, <2>1 DEF Waiting
<1>7. Related(Waiting, published, published - Len(bus))'
  <2>1. Related(Waiting', published, published - Len(bus))
    BY <1>3, <1>6 DEF Related
  <2>2. QED
    BY <1>2, <2>1 DEF Related, Own, Kin
<1>8. QED
  BY <1>4, <1>5, <1>7 DEF CorroborationInv

\* A decoy's confirmation is about what its finding is about.
LEMMA CorroborationDecoy ==
  ASSUME CountInv, CountInv', CorroborationInv, DecoyOpens
  PROVE  CorroborationInv'
<1>1. PICK f \in locking : /\ locking' = locking \ {f}
                           /\ Publish(bus, <<Agents!Confirmation(f)>>) \/ Publish(bus, <<>>)
  BY DEF DecoyOpens
<1>2. UNCHANGED <<buffer, correlated>> /\ IsSeq(bus) /\ published \in Nat
  BY DEF DecoyOpens, findingVars, correlationVars, CountInv, Numbered
<1>3. PICK events : IsSeq(events) /\ Publish(bus, events) /\ Elems(events) \subseteq {Agents!Confirmation(f)}
  BY <1>1, Singles, ElemsOfSome
<1>4. ASSUME NEW y \in Elems(bus'), y \notin Elems(bus)
      PROVE  Placed(y, published - Len(bus), "none")
  <2>1. PICK m \in Nat : y = With(Agents!Confirmation(f), "id", m)
    BY <1>2, <1>3, <1>4, Announced
  <2>2. Report(y).event = Event(f) /\ Report(y).type = f.type /\ Report(y).agent = "PseudoLockAgent"
    <3> DEFINE x == Agents!Confirmation(f)
    <3>1. /\ Found(x, f.depth) /\ x.source = "PseudoLockAgent" /\ x.type = f.type
          /\ "event_id" \in DOMAIN x /\ x.event_id = Event(f)
      BY ConfirmationFinds
    <3> HIDE DEF x
    <3>2. {"kind", "source", "type"} \subseteq DOMAIN x /\ y = With(x, "id", m)
      BY <2>1, <3>1 DEF Found, x
    <3>3. QED
      BY <3>1, <3>2, Stamped
  <2>3. Like(Report(y), Report(f))
    <3>1. Report(f).event = Event(f) /\ Report(f).type = f.type
      BY DEF Report
    <3>2. QED
      BY <2>2, <3>1 DEF Like, Own
  <2>4. Report(f) \in Waiting
    BY DEF Waiting
  <2>5. QED
    BY <2>3, <2>4 DEF Placed
<1>5. QED
  BY <1>1, <1>2, <1>3, <1>4, CorroborationSent

LEMMA CorroborationStep ==
  CountInv /\ CountInv' /\ ChainInv /\ CorroborationInv /\ [Next]_vars => CorroborationInv'
<1> SUFFICES ASSUME CountInv, CountInv', ChainInv, CorroborationInv, [Next]_vars PROVE CorroborationInv'
  OBVIOUS
<1>1. ASSUME UNCHANGED <<bus, published, buffer, correlated, locking>>
      PROVE  CorroborationInv'
  BY <1>1 DEF CorroborationInv, Related, Own, Kin, Waiting, Report, Event, Elems, Get, EventsCorroborate
<1>2. IsSeq(bus) /\ published \in Nat
  BY DEF CountInv, Numbered
\* What is published once, and is no finding or one about nothing else
<1>3. ASSUME NEW events, IsSeq(events), Publish(bus, events), UNCHANGED <<buffer, correlated, locking>>,
             \A x \in Elems(events) : /\ "kind" \in DOMAIN x
                                      /\ x.kind = "finding" =>
                                            /\ {"source", "type"} \subseteq DOMAIN x
                                            /\ \/ x.source = "MetaRiskArbiter" /\ x.type = "correlated_attack"
                                               \/ "event_id" \notin DOMAIN x
      PROVE  CorroborationInv'
  <2>1. ASSUME NEW y \in Elems(bus'), y.kind = "finding", y \notin Elems(bus)
        PROVE  Placed(y, published - Len(bus), "none")
    <3>1. PICK x \in Elems(events), m \in Nat : published < m /\ y = With(x, "id", m)
      BY <1>2, <1>3, <2>1, Announced
    <3>2. x.kind = "finding"
      <4>1. y.kind = x.kind
        BY <1>3, <3>1 DEF With
      <4>2. QED
        BY <2>1, <4>1
    <3>3. /\ y.id = m /\ Report(y).type = x.type /\ Report(y).agent = x.source
          /\ "event_id" \notin DOMAIN x => Report(y).event = -m
      BY <1>3, <3>1, <3>2, Stamped
    <3>4. QED
      BY <1>3, <3>1, <3>2, <3>3 DEF Placed, Own
  <2>2. QED
    BY <1>3, <2>1, CorroborationSent
<1>4. ASSUME NEW events, IsSeq(events), Publish(bus, events), UNCHANGED <<buffer, correlated, locking>>,
             \A x \in Elems(events) : Raised(x, 0)
      PROVE  CorroborationInv'
  BY <1>3, <1>4 DEF Raised
<1>5. CASE External
  <2>1. PICK item \in Calls("publish") : Took(item) /\ Publish(bus, <<item.event>>)
    BY <1>5 DEF External
  <2>2. FromOutside(item.event)
    BY <2>1, Taking DEF Proper, ChainInv
  <2>3. IsSeq(<<item.event>>) /\ Elems(<<item.event>>) = {item.event}
    BY Singles, ElemsOfSome
  <2>4. UNCHANGED <<buffer, correlated, locking>>
    BY <1>5 DEF External, engineVars, findingVars, correlationVars, agentVars
  <2>5. QED
    BY <1>3, <2>1, <2>2, <2>3, <2>4 DEF FromOutside
<1>6. CASE MemoryScan
  <2>1. PICK item \in Calls("scan") : Publish(bus, <<Agents!ScanFinding(item.sign, -(published + 1))>>)
    BY <1>6 DEF MemoryScan
  <2> DEFINE x == Agents!ScanFinding(item.sign, -(published + 1))
             y == With(x, "id", published + 1)
  <2>2. /\ {"kind", "source", "type", "event_id"} \subseteq DOMAIN x /\ x.kind = "finding" /\ x.event_id = -(published + 1)
    BY ScanFound DEF Found
  <2> HIDE DEF x
  <2>3. y.id = published + 1 /\ Report(y).event = -(published + 1)
    BY <2>2, Stamped
  <2>4. bus' = Append(bus, y)
    BY <1>2, <2>1, <2>2, OneSent DEF x
  <2> HIDE DEF y
  <2>5. Placed(y, published - Len(bus), "none")
    <3>1. published < published + 1
      BY <1>2
    <3>2. QED
      BY <2>3, <3>1 DEF Placed
  <2>6. \A z \in Elems(bus') : z \in Elems(bus) \/ z = y
    <3>1. /\ DOMAIN bus = 1..Len(bus) /\ Len(bus) \in Nat /\ DOMAIN bus' = 1..(Len(bus) + 1)
          /\ bus'[Len(bus) + 1] = y /\ \A i \in 1..Len(bus) : bus'[i] = bus[i]
      BY <1>2, <2>4, Appended
    <3>2. \A i \in DOMAIN bus' : i \in 1..Len(bus) \/ i = Len(bus) + 1
      BY <3>1
    <3>3. QED
      BY <3>1, <3>2 DEF Elems
  <2>7. UNCHANGED <<buffer, correlated, locking>>
    BY <1>6 DEF MemoryScan, engineVars, findingVars, correlationVars, agentVars
  <2>8. IsSeq(<<x>>)
    BY Singles
  <2>9. QED
    BY <2>1, <2>5, <2>6, <2>7, <2>8, CorroborationSent DEF x
<1>7. CASE NextChapter
  BY <1>1, <1>7 DEF NextChapter, engineVars, findingVars, correlationVars, agentVars
<1>8. CASE Handle
  BY <1>8, CorroborationHandle
<1>9. CASE DecoyOpens
  BY <1>9, CorroborationDecoy
<1>10. CASE AlertStored
  BY <1>10, CorroborationStored
<1>11. CASE Evaluate
  <2>1. IsSeq(CSDE!Findings) /\ Publish(bus, CSDE!Findings) /\ UNCHANGED <<buffer, correlated, locking>>
    BY <1>11, ConvergedFindings DEF CountInv, Evaluate, findingVars, correlationVars, agentVars
  <2>2. QED
    BY <1>3, <2>1, ConvergedFinds DEF Found
<1>12. CASE HourPasses
  BY <1>1, <1>12 DEF HourPasses, findingVars, correlationVars
<1>13. CASE DeviceCall
  <2>1. \A d, health : \A x \in Elems(Device!HealthAlerts(d, health)) : Raised(x, 0)
    BY AnnouncementRaises, ElemsOfSome DEF Device!HealthAlerts
  <2>2. IsSeq(<<>>) /\ \A x \in Elems(<<>>) : Raised(x, 0)
    BY Singles, ElemsOfSome
  <2>3. PICK events : IsSeq(events) /\ Publish(bus, events) /\ \A x \in Elems(events) : Raised(x, 0)
    BY <1>13, <2>1, <2>2, DeviceAlerts DEF DeviceCall
  <2>4. QED
    BY <1>4, <1>13, <2>3 DEF DeviceCall, findingVars, correlationVars, agentVars
<1>14. CASE AnalystCall
  BY <1>1, <1>14 DEF AnalystCall, findingVars, correlationVars, agentVars
<1>15. CASE IntelCall
  <2>1. \A type, confidence : \A x \in Elems(Intel!Mention(type, confidence)) : Raised(x, 0)
    BY MentionRaises
  <2>2. IsSeq(<<>>) /\ \A x \in Elems(<<>>) : Raised(x, 0)
    BY Singles, ElemsOfSome
  <2>3. PICK events : IsSeq(events) /\ Publish(bus, events) /\ \A x \in Elems(events) : Raised(x, 0)
    BY <1>15, <2>1, <2>2, IntelAlerts DEF IntelCall
  <2>4. QED
    BY <1>4, <1>15, <2>3 DEF IntelCall, findingVars, correlationVars, agentVars
<1>16. CASE PeerCall
  BY <1>1, <1>16 DEF PeerCall, findingVars, correlationVars, agentVars
<1>17. CASE Over \/ UNCHANGED vars
  BY <1>1, <1>17 DEF Over, vars, engineVars, findingVars, correlationVars, agentVars
<1>18. QED
  BY <1>5, <1>6, <1>7, <1>8, <1>9, <1>10, <1>11, <1>12, <1>13, <1>14, <1>15, <1>16, <1>17 DEF Next

\* No event corroborates itself.
THEOREM TwoEvents == Spec => []EventsCorroborate
<1>1. CorroborationInv => EventsCorroborate
  BY DEF CorroborationInv
<1>2. QED
  BY <1>1, CountInit, CountStep, ChainInit, ChainStep, CorroborationInit, CorroborationStep, PTL DEF Spec
=============================================================================
