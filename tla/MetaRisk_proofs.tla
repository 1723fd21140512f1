----------------------------- MODULE MetaRisk_proofs -----------------------------
(***************************************************************************)
(* Proofs about MetaRisk for every set of entities, events and findings,   *)
(* and all periods that satisfy the assumption of the model.               *)
(***************************************************************************)
EXTENDS MetaRisk, FiniteSetTheorems, WellFoundedInduction, TLAPS

\* A sequence, whatever it holds.
IsSeq(s) == s \in Seq({s[i] : i \in DOMAIN s})

TypeOK ==
  /\ known \subseteq Entities
  /\ lastUpdated \in [Entities -> Nat]
  /\ lastAlert \in [Entities -> Nat \cup {None}]
  /\ publishing \in [Entities -> [0..MaxTime -> Nat]]
  /\ disturbed \in [Entities -> BOOLEAN]
  /\ alerts = [e \in Entities |-> alerts[e]]
  /\ \A e \in Entities : IsSeq(alerts[e]) /\ \A i \in DOMAIN alerts[e] : alerts[e][i].at \in 0..MaxTime
  /\ now \in 0..MaxTime /\ nextDecay \in Nat

LastAt(e) == alerts[e][Len(alerts[e])].at

\* Of an entity whose alerts have not overlapped at most the last one is being
\* published, and the time of the last one that is not is written down.
Timed(e) ==
  /\ ~InFlight(e) /\ alerts[e] # <<>> => lastAlert[e] = LastAt(e)
  /\ InFlight(e) => /\ alerts[e] # <<>>
                    /\ \A t \in 0..MaxTime : publishing[e][t] = IF t = LastAt(e) THEN 1 ELSE 0

IInv == TypeOK /\ \A e \in Entities : disturbed[e] \/ (Timed(e) /\ Spaced(e))

\* What the steps preserve between an entity's variables.
EntityUnchanged(e) == UNCHANGED <<lastAlert[e], publishing[e], alerts[e], disturbed[e]>>

\* What is a sequence of something is a sequence.
LEMMA Sequences ==
  ASSUME NEW S, NEW s \in Seq(S)
  PROVE  IsSeq(s)
<1> DEFINE R == {s[i] : i \in 1..Len(s)}
<1>1. Len(s) \in Nat /\ DOMAIN s = 1..Len(s) /\ s \in [1..Len(s) -> S]
  OBVIOUS
<1>2. \A i \in 1..Len(s) : s[i] \in R
  OBVIOUS
<1> HIDE DEF R
<1>3. s \in [1..Len(s) -> R]
  BY <1>1, <1>2
<1>4. s \in Seq(R)
  BY <1>1, <1>3
<1>5. QED
  BY <1>1, <1>4 DEF IsSeq, R

\* One more element.
LEMMA Appended ==
  ASSUME NEW s, IsSeq(s), NEW t
  PROVE  /\ IsSeq(Append(s, t)) /\ Len(s) \in Nat
         /\ Len(Append(s, t)) = Len(s) + 1 /\ Append(s, t) # <<>>
         /\ DOMAIN s = 1..Len(s) /\ DOMAIN Append(s, t) = 1..(Len(s) + 1)
         /\ Append(s, t)[Len(s) + 1] = t
         /\ \A i \in 1..Len(s) : Append(s, t)[i] = s[i]
<1> DEFINE S == {s[i] : i \in DOMAIN s} \cup {t}
<1>1. s \in Seq(S)
  <2>1. (\A i \in DOMAIN s : s[i] \in S) /\ s \in Seq({s[i] : i \in DOMAIN s})
    BY DEF IsSeq
  <2> HIDE DEF S
  <2>2. QED
    BY <2>1
<1>2. t \in S
  OBVIOUS
<1> HIDE DEF S
<1>3. Append(s, t) \in Seq(S) /\ Len(Append(s, t)) = Len(s) + 1 /\ Len(s) \in Nat /\ DOMAIN s = 1..Len(s)
  BY <1>1, <1>2
<1>4. IsSeq(Append(s, t))
  BY <1>3, Sequences
<1>5. QED
  BY <1>1, <1>2, <1>3, <1>4

LEMMA Assumed ==
  /\ MaxTime \in Nat /\ DecayPeriod \in Nat \ {0} /\ StaleAfter \in Nat /\ Cooldown \in Nat
  /\ None \notin Int
BY MetaRiskAssumption

LEMMA InvInit == Init => IInv
<1> SUFFICES ASSUME Init PROVE IInv
  OBVIOUS
<1>1. \A e \in Entities : alerts[e] = <<>> /\ alerts[e] \in Seq({})
  BY DEF Init
<1>2. \A e \in Entities : IsSeq(alerts[e]) /\ DOMAIN alerts[e] = {}
  BY <1>1, Sequences
<1>3. TypeOK
  BY <1>2, Assumed DEF Init, TypeOK
<1>4. \A e \in Entities : Timed(e) /\ Spaced(e)
  BY <1>1, Assumed DEF Init, Timed, Spaced, InFlight
<1>5. QED
  BY <1>3, <1>4 DEF IInv

\* What is not touched stays timed and spaced.
LEMMA Untouched ==
  ASSUME NEW e \in Entities, disturbed[e] \/ (Timed(e) /\ Spaced(e)), EntityUnchanged(e)
  PROVE  (disturbed[e] \/ (Timed(e) /\ Spaced(e)))'
BY DEF EntityUnchanged, Timed, Spaced, InFlight, LastAt

\* A signal, whether or not an alert is due.
LEMMA Signalling ==
  ASSUME IInv, NEW e \in Entities, NEW s, NEW base, NEW signal, Signal(e, s, base, signal)
  PROVE  IInv'
<1>a. TypeOK /\ \A x \in Entities : disturbed[x] \/ (Timed(x) /\ Spaced(x))
  BY DEF IInv
<1>b. /\ publishing[e] \in [0..MaxTime -> Nat] /\ now \in 0..MaxTime /\ now \in Nat
      /\ lastAlert[e] \in Nat \cup {None} /\ MaxTime \in Nat
  <2>1. TypeOK
    BY <1>a
  <2>2. QED
    BY <2>1, Assumed DEF TypeOK
<1>1. /\ known' = known \cup {e} /\ lastUpdated' = [lastUpdated EXCEPT ![e] = now]
      /\ UNCHANGED <<lastAlert, clockVars>>
  BY DEF Signal
<1>2. known' \subseteq Entities /\ lastUpdated' \in [Entities -> Nat]
  BY <1>a, <1>1, Assumed DEF TypeOK, clockVars
<1>3. CASE UNCHANGED <<publishing, alerts, disturbed>>
  <2>1. TypeOK'
    BY <1>a, <1>1, <1>2, <1>3 DEF TypeOK, clockVars
  <2>2. \A x \in Entities : (disturbed[x] \/ (Timed(x) /\ Spaced(x)))'
    BY <1>a, <1>1, <1>3, Untouched DEF EntityUnchanged
  <2>3. QED
    BY <1>2, <2>1, <2>2 DEF IInv
<1>4. CASE ~(UNCHANGED <<publishing, alerts, disturbed>>)
  <2>1. PICK new :
          /\ new.at = now
          /\ lastAlert[e] = None \/ now - lastAlert[e] >= Cooldown
          /\ publishing' = [publishing EXCEPT ![e][now] = @ + 1]
          /\ alerts' = [alerts EXCEPT ![e] = Append(@, new)]
          /\ disturbed' = [disturbed EXCEPT ![e] = @ \/ InFlight(e)]
    BY <1>4 DEF Signal
  <2>2. /\ publishing'[e] = [publishing[e] EXCEPT ![now] = @ + 1]
        /\ alerts'[e] = Append(alerts[e], new)
        /\ disturbed'[e] = (disturbed[e] \/ InFlight(e))
        /\ \A x \in Entities \ {e} : EntityUnchanged(x)
    BY <1>a, <1>1, <2>1 DEF TypeOK, EntityUnchanged
  <2>3. IsSeq(alerts[e]) /\ \A i \in DOMAIN alerts[e] : alerts[e][i].at \in 0..MaxTime
    BY <1>a DEF TypeOK
  <2>4. /\ IsSeq(alerts'[e]) /\ Len(alerts[e]) \in Nat
        /\ Len(alerts'[e]) = Len(alerts[e]) + 1 /\ alerts'[e] # <<>>
        /\ DOMAIN alerts[e] = 1..Len(alerts[e]) /\ DOMAIN alerts'[e] = 1..(Len(alerts[e]) + 1)
        /\ alerts'[e][Len(alerts[e]) + 1] = new
        /\ \A i \in 1..Len(alerts[e]) : alerts'[e][i] = alerts[e][i]
    <3> DEFINE old == alerts[e]
    <3>1. /\ IsSeq(Append(old, new)) /\ Len(old) \in Nat
          /\ Len(Append(old, new)) = Len(old) + 1 /\ Append(old, new) # <<>>
          /\ DOMAIN old = 1..Len(old) /\ DOMAIN Append(old, new) = 1..(Len(old) + 1)
          /\ Append(old, new)[Len(old) + 1] = new
          /\ \A i \in 1..Len(old) : Append(old, new)[i] = old[i]
      <4>1. IsSeq(old)
        BY <2>3
      <4> HIDE DEF old
      <4>2. QED
        BY <4>1, Appended
    <3>2. alerts'[e] = Append(old, new)
      BY <2>2
    <3>3. QED
      BY <3>1, <3>2
  <2>5. TypeOK'
    <3>1. publishing' \in [Entities -> [0..MaxTime -> Nat]]
      <4>1. publishing[e][now] + 1 \in Nat
        BY <1>b
      <4>2. [publishing[e] EXCEPT ![now] = @ + 1] \in [0..MaxTime -> Nat]
        BY <1>b, <4>1
      <4>3. publishing' = [publishing EXCEPT ![e] = [publishing[e] EXCEPT ![now] = @ + 1]]
        BY <2>1
      <4> QED
        BY <1>a, <4>2, <4>3 DEF TypeOK
    <3>2. disturbed' \in [Entities -> BOOLEAN]
      BY <1>a, <2>1, <2>2 DEF TypeOK
    <3>3. alerts' = [x \in Entities |-> alerts'[x]]
      BY <1>a, <2>1 DEF TypeOK
    <3>4. \A i \in DOMAIN alerts'[e] : alerts'[e][i].at \in 0..MaxTime
      BY <1>a, <2>1, <2>3, <2>4 DEF TypeOK
    <3>5. \A x \in Entities : IsSeq(alerts'[x]) /\ \A i \in DOMAIN alerts'[x] : alerts'[x][i].at \in 0..MaxTime
      BY <1>a, <2>2, <2>4, <3>4 DEF TypeOK, EntityUnchanged
    <3>6. QED
      BY <1>a, <1>1, <1>2, <3>1, <3>2, <3>3, <3>5 DEF TypeOK, clockVars
  <2>6. ASSUME ~disturbed'[e]
        PROVE  Timed(e)' /\ Spaced(e)'
    <3>1. ~disturbed[e] /\ ~InFlight(e) /\ Timed(e) /\ Spaced(e)
      BY <1>a, <2>2, <2>6
    <3>2. \A t \in 0..MaxTime : publishing[e][t] = 0
      BY <1>b, <3>1 DEF InFlight
    <3>3. \A t \in 0..MaxTime : publishing'[e][t] = IF t = now THEN 1 ELSE 0
      <4>1. publishing'[e] = [publishing[e] EXCEPT ![now] = @ + 1]
        BY <2>2
      <4>2. QED
        BY <1>b, <3>2, <4>1
    <3>4. LastAt(e)' = now
      BY <2>1, <2>4 DEF LastAt
    <3>5. Timed(e)'
      <4>1. publishing'[e][now] > 0
        BY <1>b, <3>3
      <4>2. InFlight(e)'
        BY <1>b, <4>1 DEF InFlight
      <4>3. QED
        BY <2>4, <3>3, <3>4, <4>2 DEF Timed
    <3>6. alerts[e] # <<>> => now - LastAt(e) >= Cooldown
      <4>1. alerts[e] # <<>> => LastAt(e) \in Nat /\ lastAlert[e] = LastAt(e)
        <5>1. alerts[e] # <<>> => Len(alerts[e]) \in DOMAIN alerts[e]
          BY <2>3, <2>4 DEF IsSeq
        <5>2. QED
          BY <1>b, <2>3, <3>1, <5>1 DEF Timed, LastAt
      <4>2. QED
        BY <2>1, <4>1, Assumed
    <3>7. ASSUME NEW i \in 2..(Len(alerts[e]) + 1)
          PROVE  alerts'[e][i].at - alerts'[e][i - 1].at >= Cooldown
      <4>1. CASE i = Len(alerts[e]) + 1
        <5>1. alerts[e] # <<>> /\ i - 1 = Len(alerts[e]) /\ Len(alerts[e]) \in 1..Len(alerts[e])
          BY <2>4, <4>1
        <5>2. QED
          BY <2>1, <2>4, <3>6, <4>1, <5>1 DEF LastAt
      <4>2. CASE i # Len(alerts[e]) + 1
        <5>1. i \in 2..Len(alerts[e]) /\ i \in 1..Len(alerts[e]) /\ i - 1 \in 1..Len(alerts[e])
          BY <2>4, <4>2
        <5>2. QED
          BY <2>4, <3>1, <5>1 DEF Spaced
      <4>3. QED
        BY <4>1, <4>2
    <3>8. Spaced(e)'
      BY <2>4, <3>7 DEF Spaced
    <3>9. QED
      BY <3>5, <3>8
  <2>7. \A x \in Entities : (disturbed[x] \/ (Timed(x) /\ Spaced(x)))'
    BY <1>a, <2>2, <2>6, Untouched
  <2>8. QED
    BY <1>2, <2>5, <2>7 DEF IInv
<1>5. QED
  BY <1>3, <1>4

\* One step keeps the invariant.
LEMMA Step == IInv /\ [Next]_vars => IInv'
<1> SUFFICES ASSUME IInv, [Next]_vars
             PROVE  IInv'
  OBVIOUS
<1>a. TypeOK /\ \A x \in Entities : disturbed[x] \/ (Timed(x) /\ Spaced(x))
  BY DEF IInv
<1>1. ASSUME NEW e \in Entities,
             (\E v \in Events : OnThreatEvent(e, v)) \/ (\E f \in Findings : OnAgentFinding(e, f)) \/ (\E risk \in Requests : OnAccessRequest(e, risk))
      PROVE  IInv'
  <2>1. \E s, base, signal : Signal(e, s, base, signal)
    BY <1>1 DEF OnThreatEvent, OnAgentFinding, OnAccessRequest
  <2>2. QED
    BY <2>1, Signalling
<1>2. ASSUME NEW e \in Entities, NEW t \in 0..MaxTime, Published(e, t) \/ PublishRaises(e, t)
      PROVE  IInv'
  <2>1. /\ publishing[e][t] > 0 /\ publishing' = [publishing EXCEPT ![e][t] = @ - 1]
        /\ UNCHANGED <<recordVars, alerts, clockVars>>
        /\ \/ lastAlert' = [lastAlert EXCEPT ![e] = t] /\ UNCHANGED disturbed
           \/ UNCHANGED lastAlert /\ disturbed' = [disturbed EXCEPT ![e] = TRUE]
    BY <1>2 DEF Published, PublishRaises
  <2>2. publishing'[e] = [publishing[e] EXCEPT ![t] = @ - 1] /\ publishing[e] \in [0..MaxTime -> Nat]
    BY <1>a, <2>1 DEF TypeOK
  <2>3. \A x \in Entities \ {e} : EntityUnchanged(x)
    BY <1>a, <2>1 DEF TypeOK, EntityUnchanged
  <2>4. TypeOK'
    <3>1. publishing' \in [Entities -> [0..MaxTime -> Nat]]
      <4>1. publishing[e][t] - 1 \in Nat
        <5>1. publishing[e][t] \in Nat /\ publishing[e][t] > 0
          BY <2>1, <2>2
        <5>2. QED
          BY <5>1
      <4>2. [publishing[e] EXCEPT ![t] = @ - 1] \in [0..MaxTime -> Nat]
        BY <2>2, <4>1
      <4>3. publishing' = [publishing EXCEPT ![e] = [publishing[e] EXCEPT ![t] = @ - 1]]
        BY <2>1
      <4> QED
        BY <1>a, <4>2, <4>3 DEF TypeOK
    <3>2. lastAlert' \in [Entities -> Nat \cup {None}] /\ disturbed' \in [Entities -> BOOLEAN]
      <4>1. t \in Nat
        BY Assumed
      <4>2. QED
        BY <1>a, <2>1, <4>1 DEF TypeOK
    <3>3. QED
      BY <1>a, <2>1, <3>1, <3>2 DEF TypeOK, recordVars, clockVars
  <2>5. ASSUME ~disturbed'[e]
        PROVE  Timed(e)' /\ Spaced(e)'
    <3>1. ~disturbed[e] /\ lastAlert'[e] = t
      BY <1>a, <2>1, <2>5 DEF TypeOK
    <3>2. InFlight(e) /\ Timed(e) /\ Spaced(e)
      BY <1>a, <2>1, <3>1 DEF InFlight
    <3>3. t = LastAt(e) /\ publishing[e][t] = 1 /\ \A x \in 0..MaxTime : x # t => publishing[e][x] = 0
      BY <2>1, <3>2 DEF Timed
    <3>4. \A x \in 0..MaxTime : publishing'[e][x] = 0
      <4>1. publishing'[e] = [publishing[e] EXCEPT ![t] = @ - 1]
        BY <2>2
      <4>2. publishing'[e][t] = publishing[e][t] - 1 /\ \A x \in 0..MaxTime : x # t => publishing'[e][x] = publishing[e][x]
        BY <2>2, <4>1
      <4>3. QED
        BY <3>3, <4>2
    <3>5. QED
      BY <2>1, <3>1, <3>2, <3>3, <3>4 DEF Timed, Spaced, InFlight, LastAt
  <2>6. \A x \in Entities : (disturbed[x] \/ (Timed(x) /\ Spaced(x)))'
    BY <1>a, <2>3, <2>5, Untouched
  <2>7. QED
    BY <2>4, <2>6 DEF IInv
<1>3. CASE Decay
  <2>1. /\ now >= nextDecay /\ nextDecay' = now + DecayPeriod
        /\ lastUpdated' = [e \in Entities |-> IF e \in known THEN now ELSE lastUpdated[e]]
        /\ UNCHANGED <<known, alertVars, now>>
    BY <1>3 DEF Decay, DecayDue
  <2>2. TypeOK'
    BY <1>a, <2>1, Assumed DEF TypeOK, alertVars
  <2>3. \A x \in Entities : (disturbed[x] \/ (Timed(x) /\ Spaced(x)))'
    BY <1>a, <2>1, Untouched DEF EntityUnchanged, alertVars
  <2>4. QED
    BY <2>1, <2>2, <2>3 DEF IInv
<1>4. CASE Cleanup
  <2>1. /\ known' = known \ {e \in known : lastUpdated[e] < now - StaleAfter /\ composite[e] < LowRisk}
        /\ UNCHANGED <<lastUpdated, alertVars, nextDecay, now>>
    BY <1>4 DEF Cleanup
  <2>2. TypeOK'
    BY <1>a, <2>1 DEF TypeOK, alertVars
  <2>3. \A x \in Entities : (disturbed[x] \/ (Timed(x) /\ Spaced(x)))'
    BY <1>a, <2>1, Untouched DEF EntityUnchanged, alertVars
  <2>4. QED
    BY <2>2, <2>3 DEF IInv
<1>5. CASE Tick \/ UNCHANGED vars
  <2>1. /\ UNCHANGED <<recordVars, alertVars, nextDecay>>
        /\ now' = now \/ (now < MaxTime /\ now < nextDecay /\ now' = now + 1)
    BY <1>5 DEF Tick, vars, clockVars
  <2>2. TypeOK'
    BY <1>a, <2>1, Assumed DEF TypeOK, recordVars, alertVars
  <2>3. \A x \in Entities : (disturbed[x] \/ (Timed(x) /\ Spaced(x)))'
    BY <1>a, <2>1, Untouched DEF EntityUnchanged, alertVars
  <2>4. QED
    BY <2>1, <2>2, <2>3 DEF IInv, recordVars
<1>6. QED
  BY <1>1, <1>2, <1>3, <1>4, <1>5 DEF Next

\* Two alerts of an entity are closer than the cooldown only if one was being
\* published while the other was decided on, or its publication raised.
THEOREM Cools == Spec => []CooldownHeld
<1>1. IInv => CooldownHeld
  BY DEF IInv, CooldownHeld
<1>2. QED
  BY <1>1, InvInit, Step, PTL DEF Spec

-------------------------------------------------------------------------------
(* The arithmetic of the reductions.                                       *)

\* A share of a score is a score and no higher.
LEMMA Share ==
  ASSUME NEW score \in Nat, NEW part \in Nat, NEW whole \in Nat \ {0}, part <= whole
  PROVE  (score * part) \div whole \in 0..score
<1> DEFINE p == score * part
           q == p \div whole
<1>1. p \in Nat
  OBVIOUS
<1>2. p <= score * whole
  OBVIOUS
<1> HIDE DEF p
<1>3. q \in Nat /\ q * whole <= p
  BY <1>1
<1> HIDE DEF q
<1>4. q * whole <= score * whole
  <2>1. q * whole \in Nat /\ score * whole \in Nat
    BY <1>3
  <2>2. QED
    BY <1>1, <1>2, <1>3, <2>1
<1>5. ~(q >= score + 1)
  <2> SUFFICES ASSUME q >= score + 1 PROVE FALSE
    OBVIOUS
  <2>1. q * whole >= (score + 1) * whole
    BY <1>3
  <2>2. (score + 1) * whole = score * whole + whole
    OBVIOUS
  <2>3. q * whole \in Nat /\ score * whole \in Nat
    BY <1>3
  <2>4. QED
    BY <1>4, <2>1, <2>2, <2>3
<1>6. QED
  BY <1>3, <1>5 DEF q, p

\* A set of natural numbers that is not empty has a least one.
LEMMA Least ==
  ASSUME NEW K \in SUBSET Nat, K # {}
  PROVE  \E k \in K : \A m \in K : k <= m
<1> DEFINE R == OpToRel(<, Nat)
<1>1. IsWellFoundedOn(R, Nat)
  BY NatLessThanWellFounded
<1>2. \A x, y \in Nat : y < x => <<y, x>> \in R
  BY DEF OpToRel
<1> HIDE DEF R
<1>3. PICK k \in K : \A m \in K : ~(<<m, k>> \in R)
  BY <1>1, WFMin
<1>4. ASSUME NEW m \in K
      PROVE  k <= m
  <2>1. k \in Nat /\ m \in Nat
    OBVIOUS
  <2>2. ~(m < k)
    BY <1>2, <1>3, <2>1
  <2>3. QED
    BY <2>1, <2>2
<1>5. QED
  BY <1>4

\* The partial sums that Total chooses exist.
Sums(f, n, sum) == sum = [i \in 0..n |-> IF i = 0 THEN 0 ELSE sum[i - 1] + f[i]]

LEMMA SumsExist ==
  ASSUME NEW n \in Nat, NEW f \in [1..n -> Nat]
  PROVE  \E sum : Sums(f, n, sum)
<1> DEFINE B == {k \in 0..n : ~\E sum : Sums(f, k, sum)}
<1>1. SUFFICES ASSUME ~\E sum : Sums(f, n, sum) PROVE FALSE
  OBVIOUS
<1>2. PICK k \in B : \A m \in B : k <= m
  <2>1. B \in SUBSET Nat
    OBVIOUS
  <2>2. n \in B
    BY <1>1
  <2> HIDE DEF B
  <2>3. QED
    BY <2>1, <2>2, Least
<1>3. k \in 0..n /\ k \in Nat /\ ~\E sum : Sums(f, k, sum)
  OBVIOUS
<1>4. k # 0
  <2>1. Sums(f, 0, [i \in 0..0 |-> 0])
    BY DEF Sums
  <2>2. QED
    BY <1>3, <2>1
<1>5. k - 1 \in 0..n /\ ~(k <= k - 1)
  BY <1>3, <1>4
<1>6. k - 1 \notin B
  BY <1>2, <1>5
<1>7. PICK sum : Sums(f, k - 1, sum)
  BY <1>5, <1>6
<1> DEFINE more == [i \in 0..k |-> IF i = k THEN sum[k - 1] + f[k] ELSE sum[i]]
<1>8. ASSUME NEW i \in 0..k
      PROVE  more[i] = IF i = 0 THEN 0 ELSE more[i - 1] + f[i]
  <2>1. CASE i = k
    <3>1. more[i] = sum[k - 1] + f[k] /\ more[k - 1] = sum[k - 1] /\ i # 0
      BY <1>3, <1>4, <2>1
    <3>2. QED
      BY <2>1, <3>1
  <2>2. CASE i # k
    <3>1. i \in 0..(k - 1) /\ more[i] = sum[i]
      BY <1>3, <2>2
    <3>2. sum[i] = IF i = 0 THEN 0 ELSE sum[i - 1] + f[i]
      BY <1>7, <3>1 DEF Sums
    <3>3. i # 0 => more[i - 1] = sum[i - 1]
      BY <1>3, <3>1
    <3> HIDE DEF more
    <3>4. QED
      BY <3>1, <3>2, <3>3
  <2>3. QED
    BY <2>1, <2>2
<1>9. more = [i \in 0..k |-> more[i]]
  OBVIOUS
<1>10. Sums(f, k, more)
  <2> HIDE DEF more
  <2>1. QED
    BY <1>8, <1>9 DEF Sums
<1>11. QED
  BY <1>3, <1>10

\* A total of natural numbers is one.
LEMMA TotalNat ==
  ASSUME NEW n \in Nat, NEW f \in [1..n -> Nat]
  PROVE  Total(f, n) \in Nat
<1> DEFINE sum == CHOOSE sum : Sums(f, n, sum)
           B == {i \in 0..n : sum[i] \notin Nat}
<1>1. Total(f, n) = sum[n]
  BY DEF Total, Sums
<1>2. Sums(f, n, sum)
  BY SumsExist
<1> HIDE DEF sum
<1>3. \A i \in 0..n : sum[i] = IF i = 0 THEN 0 ELSE sum[i - 1] + f[i]
  BY <1>2 DEF Sums
<1>4. B = {}
  <2> SUFFICES ASSUME B # {} PROVE FALSE
    OBVIOUS
  <2>1. PICK k \in B : \A m \in B : k <= m
    <3>1. B \in SUBSET Nat
      OBVIOUS
    <3> HIDE DEF B
    <3>2. QED
      BY <3>1, Least
  <2>2. k \in 0..n /\ sum[k] \notin Nat
    OBVIOUS
  <2>3. k # 0
    BY <1>3, <2>2
  <2>4. k - 1 \in 0..n /\ k - 1 \notin B
    BY <2>1, <2>2, <2>3
  <2>5. sum[k - 1] \in Nat /\ f[k] \in Nat
    BY <2>2, <2>3, <2>4
  <2>6. QED
    BY <1>3, <2>2, <2>3, <2>5
<1>5. QED
  BY <1>1, <1>4

-------------------------------------------------------------------------------
(* The scores.                                                             *)

Score == 0..1000
Scores == [Dimensions -> Score]
Recorded == [at : Nat, dimension : Dimensions \cup {"unknown", None}, confidence : (0..100) \cup {None}]

LEMMA SixDimensions ==
  Dimensions = {"behavioral", "threat_intel", "physical", "insider", "device", "network"}
BY DEF Dimensions, Weight

LEMMA WeightedByName ==
  ASSUME NEW s \in Scores
  PROVE  /\ s["behavioral"] \in Score /\ s["threat_intel"] \in Score /\ s["physical"] \in Score
         /\ s["insider"] \in Score /\ s["device"] \in Score /\ s["network"] \in Score
         /\ Weighted(s) = (200 * s["behavioral"] + 200 * s["threat_intel"] + 150 * s["physical"]
                             + 150 * s["insider"] + 150 * s["device"] + 150 * s["network"]) \div 1000
<1>1. \A d \in Dimensions : s[d] \in Score
  BY DEF Scores
<1>2. QED
  BY <1>1, SixDimensions DEF Weighted, Weight

LEMMA WeightedIsNat ==
  ASSUME NEW s \in Scores
  PROVE  Weighted(s) \in Nat
<1> DEFINE x1 == s["behavioral"]
           x2 == s["threat_intel"]
           x3 == s["physical"]
           x4 == s["insider"]
           x5 == s["device"]
           x6 == s["network"]
<1>1. /\ x1 \in Score /\ x2 \in Score /\ x3 \in Score /\ x4 \in Score /\ x5 \in Score /\ x6 \in Score
      /\ Weighted(s) = (200 * x1 + 200 * x2 + 150 * x3 + 150 * x4 + 150 * x5 + 150 * x6) \div 1000
  BY WeightedByName
<1> HIDE DEF x1, x2, x3, x4, x5, x6
<1> DEFINE sum == 200 * x1 + 200 * x2 + 150 * x3 + 150 * x4 + 150 * x5 + 150 * x6
<1>2. sum \in Nat
  BY <1>1, SMT DEF Score
<1>3. Weighted(s) = sum \div 1000
  BY <1>1
<1> HIDE DEF sum
<1>4. QED
  BY <1>2, <1>3

LEMMA FiniteDimensions == IsFiniteSet(Dimensions)
<1>1. IsFiniteSet({"behavioral"} \cup {"threat_intel"})
  BY FS_Singleton, FS_AddElement
<1>2. IsFiniteSet({"behavioral"} \cup {"threat_intel"} \cup {"physical"})
  BY <1>1, FS_AddElement
<1>3. IsFiniteSet({"behavioral"} \cup {"threat_intel"} \cup {"physical"} \cup {"insider"})
  BY <1>2, FS_AddElement
<1>4. IsFiniteSet({"behavioral"} \cup {"threat_intel"} \cup {"physical"} \cup {"insider"} \cup {"device"})
  BY <1>3, FS_AddElement
<1>5. IsFiniteSet({"behavioral"} \cup {"threat_intel"} \cup {"physical"} \cup {"insider"} \cup {"device"} \cup {"network"})
  BY <1>4, FS_AddElement
<1>6. Dimensions = {"behavioral"} \cup {"threat_intel"} \cup {"physical"} \cup {"insider"} \cup {"device"} \cup {"network"}
  BY SixDimensions
<1>7. QED
  BY <1>5, <1>6

\* Two dimensions do not carry an alert through the reduction for a third one:
\* whichever two they are, the others are at 0.15 or below.
LEMMA TwoAreNotEnough ==
  ASSUME NEW s \in Scores,
         Cardinality({d \in Dimensions : s[d] > 150}) <= 2
  PROVE  Weighted(s) <= 490
<1> DEFINE High == {d \in Dimensions : s[d] > 150}
<1>1. ASSUME NEW a \in Dimensions, NEW b \in Dimensions, NEW c \in Dimensions,
             a # b, a # c, b # c, s[a] > 150, s[b] > 150, s[c] > 150
      PROVE  FALSE
  <2>1. {a, b, c} \subseteq High
    BY <1>1
  <2>3. IsFiniteSet(High)
    BY FiniteDimensions, FS_Subset
  <2>4. Cardinality({a, b, c}) = 3
    <3>1. Cardinality({a}) = 1 /\ IsFiniteSet({a})
      BY FS_Singleton
    <3>2. Cardinality({a} \cup {b}) = 2 /\ IsFiniteSet({a} \cup {b})
      <4>1. b \notin {a}
        BY <1>1
      <4>2. Cardinality({a} \cup {b}) = Cardinality({a}) + 1 /\ IsFiniteSet({a} \cup {b})
        BY <3>1, <4>1, FS_AddElement
      <4>3. QED
        BY <3>1, <4>2
    <3>3. Cardinality(({a} \cup {b}) \cup {c}) = 3
      <4>1. c \notin {a} \cup {b}
        BY <1>1
      <4>2. Cardinality(({a} \cup {b}) \cup {c}) = Cardinality({a} \cup {b}) + 1
        BY <3>2, <4>1, FS_AddElement
      <4>3. QED
        BY <3>2, <4>2
    <3>4. ({a} \cup {b}) \cup {c} = {a, b, c}
      OBVIOUS
    <3>5. QED
      BY <3>3, <3>4
  <2>5. Cardinality({a, b, c}) <= Cardinality(High)
    BY <2>1, <2>3, FS_Subset
  <2>6. Cardinality(High) \in Nat
    BY <2>3, FS_CardinalityType
  <2>7. QED
    BY <2>4, <2>5, <2>6
<1> HIDE DEF High
<1>2. QED
  <2> DEFINE x1 == s["behavioral"]
             x2 == s["threat_intel"]
             x3 == s["physical"]
             x4 == s["insider"]
             x5 == s["device"]
             x6 == s["network"]
  <2>1. /\ x1 \in Score /\ x2 \in Score /\ x3 \in Score /\ x4 \in Score /\ x5 \in Score /\ x6 \in Score
        /\ Weighted(s) = (200 * x1 + 200 * x2 + 150 * x3 + 150 * x4 + 150 * x5 + 150 * x6) \div 1000
    BY WeightedByName
  <2>2. \A a, b, c \in Dimensions : a # b /\ a # c /\ b # c => s[a] <= 150 \/ s[b] <= 150 \/ s[c] <= 150
    <3>1. \A d \in Dimensions : s[d] \in 0..1000
      BY DEF Scores, Score
    <3> TAKE a, b, c \in Dimensions
    <3> HAVE a # b /\ a # c /\ b # c
    <3> DEFINE x == s[a]
               y == s[b]
               z == s[c]
    <3>2. x \in 0..1000 /\ y \in 0..1000 /\ z \in 0..1000
      BY <3>1
    <3>3. ~(x > 150 /\ y > 150 /\ z > 150)
      BY <1>1
    <3> HIDE DEF x, y, z
    <3>4. x <= 150 \/ y <= 150 \/ z <= 150
      BY <3>2, <3>3
    <3>5. QED
      BY <3>4 DEF x, y, z
  <2>3. x1 \in 0..1000 /\ x2 \in 0..1000 /\ x3 \in 0..1000 /\ x4 \in 0..1000 /\ x5 \in 0..1000 /\ x6 \in 0..1000
    BY <2>1, SMT DEF Score
  <2>4. 200 * x1 + 200 * x2 + 150 * x3 + 150 * x4 + 150 * x5 + 150 * x6 <= 490000
    <3>1. /\ "behavioral" \in Dimensions /\ "threat_intel" \in Dimensions /\ "physical" \in Dimensions
          /\ "insider" \in Dimensions /\ "device" \in Dimensions /\ "network" \in Dimensions
      BY SixDimensions
    <3>2. /\ x1 <= 150 \/ x2 <= 150 \/ x3 <= 150
          /\ x1 <= 150 \/ x2 <= 150 \/ x4 <= 150
          /\ x1 <= 150 \/ x2 <= 150 \/ x5 <= 150
          /\ x1 <= 150 \/ x2 <= 150 \/ x6 <= 150
      BY <2>2, <3>1
    <3>3. /\ x1 <= 150 \/ x3 <= 150 \/ x4 <= 150
          /\ x1 <= 150 \/ x3 <= 150 \/ x5 <= 150
          /\ x1 <= 150 \/ x3 <= 150 \/ x6 <= 150
          /\ x1 <= 150 \/ x4 <= 150 \/ x5 <= 150
          /\ x1 <= 150 \/ x4 <= 150 \/ x6 <= 150
          /\ x1 <= 150 \/ x5 <= 150 \/ x6 <= 150
      BY <2>2, <3>1
    <3>4. /\ x2 <= 150 \/ x3 <= 150 \/ x4 <= 150
          /\ x2 <= 150 \/ x3 <= 150 \/ x5 <= 150
          /\ x2 <= 150 \/ x3 <= 150 \/ x6 <= 150
          /\ x2 <= 150 \/ x4 <= 150 \/ x5 <= 150
          /\ x2 <= 150 \/ x4 <= 150 \/ x6 <= 150
          /\ x2 <= 150 \/ x5 <= 150 \/ x6 <= 150
      BY <2>2, <3>1
    <3>5. /\ x3 <= 150 \/ x4 <= 150 \/ x5 <= 150
          /\ x3 <= 150 \/ x4 <= 150 \/ x6 <= 150
          /\ x3 <= 150 \/ x5 <= 150 \/ x6 <= 150
          /\ x4 <= 150 \/ x5 <= 150 \/ x6 <= 150
      BY <2>2, <3>1
    <3> HIDE DEF x1, x2, x3, x4, x5, x6
    <3>6. QED
      BY <2>3, <3>2, <3>3, <3>4, <3>5, SMTT(30)
  <2> HIDE DEF x1, x2, x3, x4, x5, x6
  <2>5. QED
    BY <2>1, <2>3, <2>4, SMT

-------------------------------------------------------------------------------
(* The composite score.                                                    *)

\* A list of signals: what an agent thought of its finding is a percentage.
Voting(h) == IsSeq(h) /\ \A i \in DOMAIN h : h[i].confidence \in (0..100) \cup {None}

\* The end of a list of signals, one longer.
LEMMA Kept ==
  ASSUME NEW h, Voting(h), NEW signal, signal.confidence \in (0..100) \cup {None}
  PROVE  LET extended == Append(h, signal) IN
         Voting(SubSeq(extended, AtLeast(1, Len(extended) - MaxHistory + 1), Len(extended)))
<1> DEFINE t == Append(h, signal)
           first == AtLeast(1, Len(t) - MaxHistory + 1)
           end == SubSeq(t, first, Len(t))
<1>1. /\ IsSeq(t) /\ Len(h) \in Nat /\ Len(t) = Len(h) + 1 /\ DOMAIN t = 1..Len(t)
      /\ \A i \in DOMAIN t : t[i].confidence \in (0..100) \cup {None}
  <2>1. IsSeq(h) /\ \A i \in DOMAIN h : h[i].confidence \in (0..100) \cup {None}
    BY DEF Voting
  <2>2. /\ IsSeq(t) /\ Len(h) \in Nat /\ Len(t) = Len(h) + 1
        /\ DOMAIN h = 1..Len(h) /\ DOMAIN t = 1..(Len(h) + 1)
        /\ t[Len(h) + 1] = signal /\ \A i \in 1..Len(h) : t[i] = h[i]
    BY <2>1, Appended
  <2> HIDE DEF t
  <2>3. ASSUME NEW i \in DOMAIN t
        PROVE  t[i].confidence \in (0..100) \cup {None}
    <3>1. CASE i = Len(h) + 1
      BY <2>2, <3>1
    <3>2. CASE i # Len(h) + 1
      <4>1. i \in DOMAIN h /\ t[i] = h[i]
        BY <2>2, <3>2
      <4>2. QED
        BY <2>1, <4>1
    <3>3. QED
      BY <3>1, <3>2
  <2>4. QED
    BY <2>2, <2>3
<1>2. MaxHistory \in Nat \ {0}
  BY MetaRiskAssumption
<1> HIDE DEF t
<1>3. first \in 1..Len(t) /\ Len(t) \in Nat
  BY <1>1, <1>2 DEF AtLeast
<1> HIDE DEF first
<1>4. PICK S : t \in Seq(S) /\ S = {t[i] : i \in DOMAIN t}
  BY <1>1 DEF IsSeq
<1>5. /\ end \in Seq(S) /\ Len(end) = Len(t) - first + 1
      /\ \A i \in 1..Len(end) : end[i] = t[first + i - 1]
  BY <1>3, <1>4
<1>6. DOMAIN end = 1..Len(end) /\ Len(end) \in Nat
  BY <1>5
<1>7. IsSeq(end)
  BY <1>5, Sequences
<1>8. \A i \in DOMAIN end : first + i - 1 \in DOMAIN t
  BY <1>1, <1>3, <1>5, <1>6
<1>9. Voting(end)
  BY <1>1, <1>5, <1>6, <1>7, <1>8 DEF Voting
<1>10. QED
  BY <1>9 DEF end, first, t

\* The skeptic only lowers a score.
LEMMA Doubted ==
  ASSUME NEW score \in Nat, NEW h, Voting(h)
  PROVE  Skeptical(score, h) \in 0..score
<1> DEFINE n == Len(h)
           sure == {i \in DOMAIN h : i > n - Recent /\ h[i].confidence # None}
           votes == Cardinality(sure)
           f == [i \in DOMAIN h |-> IF i \in sure THEN h[i].confidence ELSE 0]
           doubt == 50 * votes - Total(f, n)
<1>1. n \in Nat /\ DOMAIN h = 1..n /\ \A i \in DOMAIN h : h[i].confidence \in (0..100) \cup {None}
  BY DEF Voting, IsSeq
<1>2. votes \in Nat
  <2>1. IsFiniteSet(1..n) /\ sure \subseteq 1..n
    BY <1>1, FS_Interval
  <2>2. QED
    BY <2>1, FS_Subset, FS_CardinalityType
<1>3. f \in [1..n -> Nat]
  <2>1. ASSUME NEW i \in DOMAIN h
        PROVE  f[i] \in Nat
    <3>1. h[i].confidence \in (0..100) \cup {None}
      BY <1>1
    <3>2. i \in sure => h[i].confidence \in Nat
      <4>1. i \in sure => h[i].confidence # None
        OBVIOUS
      <4> HIDE DEF sure
      <4>2. QED
        BY <3>1, <4>1
    <3>3. f[i] = IF i \in sure THEN h[i].confidence ELSE 0
      OBVIOUS
    <3> HIDE DEF sure, f
    <3>4. QED
      BY <3>2, <3>3
  <2>2. f = [i \in 1..n |-> f[i]]
    BY <1>1
  <2> HIDE DEF f, n
  <2>3. QED
    BY <1>1, <2>1, <2>2
<1>4. Total(f, n) \in Nat
  <2> HIDE DEF f, n
  <2>1. QED
    BY <1>1, <1>3, TotalNat
<1>5. Skeptical(score, h)
        = IF doubt <= 0 THEN score ELSE (score * (1000 * votes - 3 * doubt)) \div (1000 * votes)
  BY DEF Skeptical
<1> DEFINE total == Total(f, n)
<1>6. total \in Nat /\ doubt = 50 * votes - total
  BY <1>4
<1> HIDE DEF votes, total, doubt, n, f, sure
<1>7. CASE doubt <= 0
  BY <1>5, <1>7
<1>8. CASE ~(doubt <= 0)
  <2>1. doubt \in Int /\ votes \in Nat \ {0} /\ doubt > 0 /\ doubt <= 50 * votes
    BY <1>2, <1>6, <1>8
  <2> DEFINE part == 1000 * votes - 3 * doubt
             whole == 1000 * votes
  <2>2. part \in Nat /\ whole \in Nat \ {0} /\ part <= whole
    BY <2>1
  <2>3. Skeptical(score, h) = (score * part) \div whole
    BY <1>5, <1>8
  <2> HIDE DEF part, whole
  <2>4. QED
    BY <2>2, <2>3, Share
<1>9. QED
  BY <1>7, <1>8

\* The corroboration only lowers a score, and by a quarter at least if a
\* dimension is missing.
LEMMA Reduced ==
  ASSUME NEW score \in Nat, NEW active, IsFiniteSet(active)
  PROVE  /\ Corroborated(score, active) \in 0..score
         /\ Cardinality(active) < MinCorroborating /\ score <= 490
              => Corroborated(score, active) < MediumRisk
<1> DEFINE missing == AtLeast(0, MinCorroborating - Cardinality(active))
           part == AtLeast(200, 1000 - 250 * missing)
<1>1. Cardinality(active) \in Nat /\ MinCorroborating \in 0..3
  BY FS_CardinalityType, MetaRiskAssumption
<1>2. missing \in 0..3 /\ (Cardinality(active) < MinCorroborating => missing >= 1)
  BY <1>1 DEF AtLeast
<1>3. Corroborated(score, active) = (score * part) \div 1000
  BY DEF Corroborated
<1> HIDE DEF missing
<1>4. part \in 200..1000 /\ (missing >= 1 => part <= 750)
  BY <1>2 DEF AtLeast
<1> HIDE DEF part
<1>5. Corroborated(score, active) \in 0..score
  BY <1>3, <1>4, Share
<1>6. ASSUME Cardinality(active) < MinCorroborating, score <= 490
      PROVE  Corroborated(score, active) < MediumRisk
  <2>1. part <= 750 /\ part \in Nat
    BY <1>2, <1>4, <1>6
  <2>2. score * part <= 490 * part
    BY <1>6, <2>1
  <2> DEFINE p == score * part
  <2>3. p \in Nat /\ p <= 367500
    BY <2>1, <2>2
  <2> HIDE DEF p
  <2>4. p \div 1000 < 450
    BY <2>3
  <2>5. QED
    BY <1>3, <2>4 DEF p, MediumRisk
<1>7. QED
  BY <1>5, <1>6

\* The active dimensions are finitely many, and those of a score above 0.15
\* are among them.
LEMMA Active ==
  ASSUME NEW s \in Scores, NEW h, Voting(h)
  PROVE  /\ IsFiniteSet(ActiveDimensions(s, h))
         /\ {d \in Dimensions : s[d] > 150} \subseteq ActiveDimensions(s, h)
<1> DEFINE fresh == {i \in DOMAIN h : h[i].dimension # None /\ h[i].at >= now - Window}
           spoken == {h[i].dimension : i \in fresh}
           high == {d \in Dimensions : s[d] > 150}
<1>1. DOMAIN h = 1..Len(h) /\ Len(h) \in Nat
  BY DEF Voting, IsSeq
<1>2. IsFiniteSet(fresh)
  <2>1. IsFiniteSet(1..Len(h)) /\ fresh \subseteq 1..Len(h)
    BY <1>1, FS_Interval
  <2>2. QED
    BY <2>1, FS_Subset
<1>3. IsFiniteSet(spoken)
  <2> DEFINE g == [i \in fresh |-> h[i].dimension]
  <2>1. g \in Surjection(fresh, spoken)
    BY DEF Surjection
  <2> HIDE DEF fresh, spoken, g
  <2>2. QED
    BY <1>2, <2>1, FS_Surjection
<1>4. IsFiniteSet(high)
  BY FiniteDimensions, FS_Subset
<1>5. ActiveDimensions(s, h) = spoken \cup high
  BY DEF ActiveDimensions, ToSet
<1> HIDE DEF spoken, high
<1>6. QED
  <2>1. IsFiniteSet(spoken \cup high)
    BY <1>3, <1>4, FS_Union
  <2>2. QED
    BY <1>5, <2>1 DEF high

\* The records of the entities: scores, the composite score they justify, and
\* the signals.
ScoreType ==
  /\ scores \in [Entities -> Scores]
  /\ composite \in [Entities -> Nat]
  /\ signals = [e \in Entities |-> signals[e]]
  /\ \A e \in Entities : Voting(signals[e])

ScoreInv == ScoreType /\ ScoreWithinEvidence /\ AlertsCorroborated

LEMMA NoScoresAreScores == NoScores \in Scores
BY DEF NoScores, Scores, Score

LEMMA EmptyVotes == Voting(<<>>)
<1>1. <<>> \in Seq({})
  OBVIOUS
<1>2. IsSeq(<<>>)
  BY <1>1, Sequences
<1>3. QED
  BY <1>2 DEF Voting

\* Whatever an event says of its dimensions is a score of known dimensions.
LEMMA EventScores ==
  ASSUME NEW v \in Events
  PROVE  \A d \in DOMAIN DimensionScores(v) : d \in Dimensions /\ DimensionScores(v)[d] \in Score
<1> DEFINE typed == Typed(v)
<1>1. v.level \in Score /\ DOMAIN v.explicit \subseteq Dimensions
      /\ \A d \in DOMAIN v.explicit : v.explicit[d] \in Score
  BY MetaRiskAssumption DEF Score
<1>2. \A d \in DOMAIN typed : d \in Dimensions /\ typed[d] \in Score
  <2>1. CASE v.type = "anomalous_behavior"
    BY <1>1, <2>1, SixDimensions DEF Typed
  <2>2. CASE v.type = "threat_intel_alert"
    BY <1>1, <2>2, SixDimensions DEF Typed
  <2>3. CASE v.type = "physical_intrusion"
    BY <1>1, <2>3, SixDimensions DEF Typed, Score
  <2>4. CASE v.type = "insider_threat"
    <3>1. typed = [insider |-> IF v.level = 0 THEN 300 ELSE v.level]
      BY <2>4 DEF Typed
    <3>2. (IF v.level = 0 THEN 300 ELSE v.level) \in Score
      BY <1>1 DEF Score
    <3> HIDE DEF typed
    <3>3. QED
      BY <3>1, <3>2, SixDimensions
  <2>5. CASE v.type = "network_intrusion"
    BY <1>1, <2>5, SixDimensions DEF Typed
  <2>6. CASE v.type = "identity_mismatch"
    BY <1>1, <2>6, SixDimensions DEF Typed, Score
  <2>7. CASE v.type = "device_health_fail"
    BY <1>1, <2>7, SixDimensions DEF Typed, Score
  <2>8. CASE v.type \notin {"anomalous_behavior", "threat_intel_alert", "physical_intrusion", "insider_threat",
                            "network_intrusion", "identity_mismatch", "device_health_fail"}
    <3>1. typed = <<>>
      BY <2>8 DEF Typed
    <3> HIDE DEF typed
    <3>2. QED
      BY <3>1
  <2>9. QED
    BY <2>1, <2>2, <2>3, <2>4, <2>5, <2>6, <2>7, <2>8
<1> HIDE DEF typed
<1>3. DimensionScores(v)
        = [d \in DOMAIN typed \cup DOMAIN v.explicit |->
             IF d \notin DOMAIN v.explicit THEN typed[d]
             ELSE IF d \notin DOMAIN typed THEN v.explicit[d]
             ELSE AtLeast(typed[d], v.explicit[d])]
  BY DEF DimensionScores, typed
<1>4. QED
  BY <1>1, <1>2, <1>3 DEF AtLeast

\* A boost is one of a known dimension by a natural number.
LEMMA FindingBoosts ==
  ASSUME NEW f \in Findings
  PROVE  \A d \in DOMAIN Boosts(f) : d \in Dimensions /\ Boosts(f)[d] \in Nat
<1> DEFINE b == Boosts(f)
<1>1. \/ b = <<>> \/ b = [network |-> 400] \/ b = [behavioral |-> 300]
      \/ b = [insider |-> 400] \/ b = [threat_intel |-> 300]
  BY DEF Boosts
<1> HIDE DEF b
<1>2. CASE b = <<>>
  BY <1>2 DEF b
<1>3. CASE b = [network |-> 400]
  BY <1>3, SixDimensions DEF b
<1>4. CASE b = [behavioral |-> 300]
  BY <1>4, SixDimensions DEF b
<1>5. CASE b = [insider |-> 400]
  BY <1>5, SixDimensions DEF b
<1>6. CASE b = [threat_intel |-> 300]
  BY <1>6, SixDimensions DEF b
<1>7. QED
  BY <1>1, <1>2, <1>3, <1>4, <1>5, <1>6

\* A signal: the reductions keep the score within the evidence, and an alert
\* that is due in spite of them has the dimensions it needs.
LEMMA Scoring ==
  ASSUME TypeOK, ScoreInv, NEW e \in Entities, NEW s \in Scores, NEW base \in Nat,
         base <= Weighted(s), NEW signal, signal.confidence \in (0..100) \cup {None},
         Signal(e, s, base, signal)
  PROVE  ScoreInv'
<1> DEFINE extended == Append(signals[e], signal)
           h == SubSeq(extended, AtLeast(1, Len(extended) - MaxHistory + 1), Len(extended))
           active == ActiveDimensions(s, h)
           reduced == Corroborated(base, active)
           final == Skeptical(reduced, h)
           new == [at |-> now, active |-> Cardinality(active)]
<1>1. ScoreType /\ ScoreWithinEvidence /\ AlertsCorroborated
  BY DEF ScoreInv
<1>2. /\ scores' = [scores EXCEPT ![e] = s] /\ signals' = [signals EXCEPT ![e] = h]
      /\ composite' = [composite EXCEPT ![e] = final]
      /\ \/ alerts' = alerts
         \/ final >= MediumRisk /\ alerts' = [alerts EXCEPT ![e] = Append(@, new)]
  BY DEF Signal
<1>3. Voting(signals[e])
  BY <1>1 DEF ScoreType
<1>4. Voting(h)
  <2> DEFINE old == signals[e]
  <2>1. Voting(old)
    BY <1>3
  <2> HIDE DEF old
  <2>2. Voting(SubSeq(Append(old, signal), AtLeast(1, Len(Append(old, signal)) - MaxHistory + 1), Len(Append(old, signal))))
    BY <2>1, Kept
  <2>3. QED
    BY <2>2 DEF old
<1> HIDE DEF h
<1>5. IsFiniteSet(active) /\ {d \in Dimensions : s[d] > 150} \subseteq active
  BY <1>4, Active
<1> HIDE DEF active
<1>6. reduced \in 0..base
  BY <1>5, Reduced
<1>7. /\ reduced \in Nat
      /\ Cardinality(active) < MinCorroborating /\ base <= 490 => reduced < MediumRisk
  BY <1>5, <1>6, Reduced
<1> HIDE DEF reduced
<1>8. final \in 0..reduced
  BY <1>4, <1>7, Doubted
<1> HIDE DEF final
<1>9. final \in Nat /\ final <= base /\ final <= Weighted(s) /\ Weighted(s) \in Nat
  BY <1>6, <1>7, <1>8, WeightedIsNat
<1>10. ScoreType'
  <2>1. signals' = [x \in Entities |-> signals'[x]] /\ \A x \in Entities : Voting(signals'[x])
    BY <1>1, <1>2, <1>4 DEF ScoreType
  <2>2. QED
    BY <1>1, <1>2, <1>9, <2>1 DEF ScoreType
<1>11. ScoreWithinEvidence'
  <2> SUFFICES ASSUME NEW x \in Entities
               PROVE  composite'[x] <= Weighted(scores'[x])
    BY DEF ScoreWithinEvidence
  <2>1. CASE x = e
    BY <1>1, <1>2, <1>9, <2>1 DEF ScoreType
  <2>2. CASE x # e
    <3>1. composite'[x] = composite[x] /\ scores'[x] = scores[x]
      BY <1>1, <1>2, <2>2 DEF ScoreType
    <3>2. QED
      BY <1>1, <3>1 DEF ScoreWithinEvidence
  <2>3. QED
    BY <2>1, <2>2
<1>12. final >= MediumRisk => Cardinality(active) >= MinCorroborating
  <2> SUFFICES ASSUME final >= MediumRisk, Cardinality(active) < MinCorroborating PROVE FALSE
    <3>1. Cardinality(active) \in Nat /\ MinCorroborating \in Nat
      BY <1>5, FS_CardinalityType, MetaRiskAssumption
    <3>2. QED
      BY <3>1
  <2> DEFINE high == {d \in Dimensions : s[d] > 150}
  <2>1. Cardinality(high) <= Cardinality(active) /\ IsFiniteSet(high)
    BY <1>5, FS_Subset
  <2>2. Cardinality(high) \in Nat /\ Cardinality(active) \in Nat /\ MinCorroborating \in 0..3
    BY <1>5, <2>1, FS_CardinalityType, MetaRiskAssumption
  <2>3. Cardinality(high) <= 2
    BY <2>1, <2>2
  <2>4. Weighted(s) <= 490
    BY <2>3, TwoAreNotEnough
  <2>5. base <= 490
    BY <1>9, <2>4
  <2>6. reduced < MediumRisk
    BY <1>7, <2>5
  <2>7. QED
    BY <1>7, <1>8, <2>6 DEF MediumRisk
<1>13. AlertsCorroborated'
  <2>1. CASE alerts' = alerts
    BY <1>1, <2>1 DEF AlertsCorroborated
  <2>2. CASE final >= MediumRisk /\ alerts' = [alerts EXCEPT ![e] = Append(@, new)]
    <3> DEFINE old == alerts[e]
    <3>1. IsSeq(old)
      BY DEF TypeOK
    <3> HIDE DEF new, old
    <3>2. /\ Len(old) \in Nat /\ Len(Append(old, new)) = Len(old) + 1
          /\ Append(old, new)[Len(old) + 1] = new
          /\ \A i \in 1..Len(old) : Append(old, new)[i] = old[i]
      BY <3>1, Appended
    <3>3. /\ alerts'[e] = Append(old, new)
          /\ \A x \in Entities : x # e => alerts'[x] = alerts[x]
      BY <2>2 DEF TypeOK, old
    <3>4. new.active >= MinCorroborating
      BY <1>12, <2>2 DEF new
    <3>5. \A i \in 1..Len(old) : old[i].active >= MinCorroborating
      BY <1>1 DEF AlertsCorroborated, old
    <3>6. ASSUME NEW i \in 1..(Len(old) + 1)
          PROVE  Append(old, new)[i].active >= MinCorroborating
      <4>1. CASE i = Len(old) + 1
        BY <3>2, <3>4, <4>1
      <4>2. CASE i # Len(old) + 1
        <5>1. i \in 1..Len(old)
          BY <3>2, <4>2
        <5>2. QED
          BY <3>2, <3>5, <5>1
      <4>3. QED
        BY <4>1, <4>2
    <3>7. QED
      BY <1>1, <3>2, <3>3, <3>6 DEF AlertsCorroborated
  <2>3. QED
    BY <1>2, <2>1, <2>2
<1>14. QED
  BY <1>10, <1>11, <1>13 DEF ScoreInv

\* 1% off every score leaves scores.
LEMMA DecayedScores ==
  ASSUME ScoreType
  PROVE  Decayed \in [Entities -> Scores]
<1>1. \A n \in Score : (n * 99) \div 100 \in Score
  BY DEF Score
<1>2. \A e \in Entities : \A d \in Dimensions : scores[e][d] \in Score
  BY DEF ScoreType, Scores
<1>3. \A e \in Entities : [d \in Dimensions |-> (scores[e][d] * 99) \div 100] \in Scores
  BY <1>1, <1>2 DEF Scores
<1>4. QED
  BY <1>3 DEF Decayed

LEMMA ScoreInit == Init => ScoreInv
<1> SUFFICES ASSUME Init PROVE ScoreInv
  OBVIOUS
<1>1. ScoreType
  BY NoScoresAreScores, EmptyVotes DEF Init, ScoreType
<1>2. \A e \in Entities : composite[e] = 0 /\ alerts[e] = <<>>
  BY DEF Init
<1>3. ScoreWithinEvidence
  BY <1>1, <1>2, WeightedIsNat DEF ScoreWithinEvidence, ScoreType
<1>4. AlertsCorroborated
  BY <1>2 DEF AlertsCorroborated
<1>5. QED
  BY <1>1, <1>3, <1>4 DEF ScoreInv

LEMMA ScoreStep == TypeOK /\ ScoreInv /\ [Next]_vars => ScoreInv'
<1> SUFFICES ASSUME TypeOK, ScoreInv, [Next]_vars
             PROVE  ScoreInv'
  OBVIOUS
<1>a. ScoreType /\ ScoreWithinEvidence /\ AlertsCorroborated
  BY DEF ScoreInv
<1>b. ASSUME NEW e \in Entities
      PROVE  /\ scores[e] \in Scores /\ composite[e] \in Nat /\ composite[e] <= Weighted(scores[e])
             /\ \A d \in Dimensions : scores[e][d] \in Score
  BY <1>a DEF ScoreType, ScoreWithinEvidence, Scores
<1>1. ASSUME NEW e \in Entities, NEW v \in Events, OnThreatEvent(e, v)
      PROVE  ScoreInv'
  <2> DEFINE new == {d \in DOMAIN DimensionScores(v) : DimensionScores(v)[d] > 0}
             s == [d \in Dimensions |-> IF d \in new THEN DimensionScores(v)[d] ELSE scores[e][d]]
             base == IF new = {} THEN composite[e] ELSE Weighted(s)
             signal == [at |-> now, dimension |-> FiledUnder(v), confidence |-> None]
  <2>1. Signal(e, s, base, signal)
    BY <1>1 DEF OnThreatEvent
  <2>2. s \in Scores
    <3>1. \A d \in new : DimensionScores(v)[d] \in Score
      BY EventScores
    <3> HIDE DEF new
    <3>2. QED
      BY <1>b, <3>1 DEF Scores
  <2>3. new = {} => s = scores[e]
    BY <1>b DEF Scores
  <2>4. base \in Nat /\ base <= Weighted(s)
    <3>1. Weighted(s) \in Nat
      BY <2>2, WeightedIsNat
    <3> HIDE DEF new, s
    <3>2. QED
      BY <1>b, <2>3, <3>1
  <2>5. signal.confidence \in (0..100) \cup {None}
    OBVIOUS
  <2> HIDE DEF s, base, signal
  <2>6. QED
    BY <2>1, <2>2, <2>4, <2>5, Scoring
<1>2. ASSUME NEW e \in Entities, NEW f \in Findings, OnAgentFinding(e, f)
      PROVE  ScoreInv'
  <2> DEFINE boost == Boosts(f)
             s == [d \in Dimensions |->
                     IF d \in DOMAIN boost THEN AtMost(1000, scores[e][d] + boost[d]) ELSE scores[e][d]]
             base == IF boost = <<>> THEN composite[e] ELSE Weighted(s)
             signal == [at |-> now, dimension |-> None, confidence |-> f.confidence]
  <2>1. Signal(e, s, base, signal)
    BY <1>2 DEF OnAgentFinding
  <2>2. \A d \in DOMAIN boost : boost[d] \in Nat
    BY FindingBoosts
  <2>3. boost = <<>> => DOMAIN boost = {}
    OBVIOUS
  <2> HIDE DEF boost
  <2>4. s \in Scores
    <3>1. ASSUME NEW d \in Dimensions
          PROVE  (IF d \in DOMAIN boost THEN AtMost(1000, scores[e][d] + boost[d]) ELSE scores[e][d]) \in Score
      <4> DEFINE old == scores[e][d]
                 by == boost[d]
      <4>1. old \in 0..1000 /\ (d \in DOMAIN boost => by \in Nat)
        BY <1>b, <2>2 DEF Score
      <4> HIDE DEF old, by
      <4>2. d \in DOMAIN boost => AtMost(1000, old + by) \in 0..1000
        <5> SUFFICES ASSUME by \in Nat PROVE AtMost(1000, old + by) \in 0..1000
          BY <4>1
        <5>1. QED
          BY <4>1 DEF AtMost
      <4>3. QED
        BY <4>1, <4>2 DEF Score, old, by
    <3>2. QED
      BY <3>1 DEF Scores
  <2>5. boost = <<>> => s = scores[e]
    BY <1>b, <2>3 DEF Scores
  <2>6. base \in Nat /\ base <= Weighted(s)
    <3>1. Weighted(s) \in Nat
      BY <2>4, WeightedIsNat
    <3> HIDE DEF s
    <3>2. QED
      BY <1>b, <2>5, <3>1
  <2>7. signal.confidence \in (0..100) \cup {None}
    BY MetaRiskAssumption
  <2> HIDE DEF s, base, signal
  <2>8. QED
    BY <2>1, <2>4, <2>6, <2>7, Scoring
<1>3. ASSUME NEW e \in Entities, NEW risk \in Requests, OnAccessRequest(e, risk)
      PROVE  ScoreInv'
  <2> DEFINE s == IF risk > 300 THEN [scores[e] EXCEPT !.behavioral = (risk * 3) \div 10] ELSE scores[e]
             base == IF risk > 300 THEN Weighted(s) ELSE composite[e]
             signal == [at |-> now, dimension |-> None, confidence |-> None]
  <2>1. Signal(e, s, base, signal) /\ signal.confidence \in (0..100) \cup {None}
    BY <1>3 DEF OnAccessRequest
  <2>2. s \in Scores
    <3>1. (risk * 3) \div 10 \in Score
      <4>1. risk \in 0..1000
        BY MetaRiskAssumption
      <4>2. QED
        BY <4>1 DEF Score
    <3>2. QED
      BY <1>b, <3>1 DEF Scores
  <2>3. ~(risk > 300) => s = scores[e]
    OBVIOUS
  <2>4. base \in Nat /\ base <= Weighted(s)
    <3>1. Weighted(s) \in Nat
      BY <2>2, WeightedIsNat
    <3> HIDE DEF s
    <3>2. QED
      BY <1>b, <2>3, <3>1
  <2> HIDE DEF s, base, signal
  <2>5. QED
    BY <2>1, <2>2, <2>4, Scoring
<1>4. CASE Decay
  <2>1. /\ scores' = Decayed /\ composite' = [e \in Entities |-> Weighted(Decayed[e])]
        /\ UNCHANGED <<signals, alerts>>
    BY <1>4 DEF Decay, alertVars
  <2>2. Decayed \in [Entities -> Scores]
    BY <1>a, DecayedScores
  <2>3. \A e \in Entities : Weighted(Decayed[e]) \in Nat
    BY <2>2, WeightedIsNat
  <2>4. ScoreType'
    BY <1>a, <2>1, <2>2, <2>3 DEF ScoreType
  <2>5. ScoreWithinEvidence' /\ AlertsCorroborated'
    BY <1>a, <2>1, <2>3 DEF ScoreWithinEvidence, AlertsCorroborated
  <2>6. QED
    BY <2>4, <2>5 DEF ScoreInv
<1>5. CASE Cleanup
  <2>1. PICK old :
          /\ scores' = [e \in Entities |-> IF e \in old THEN NoScores ELSE scores[e]]
          /\ composite' = [e \in Entities |-> IF e \in old THEN 0 ELSE composite[e]]
          /\ signals' = [e \in Entities |-> IF e \in old THEN <<>> ELSE signals[e]]
          /\ alerts' = alerts
    BY <1>5 DEF Cleanup, alertVars
  <2>2. ScoreType'
    BY <1>a, <2>1, NoScoresAreScores, EmptyVotes DEF ScoreType
  <2>3. ScoreWithinEvidence'
    <3>1. Weighted(NoScores) \in Nat
      BY NoScoresAreScores, WeightedIsNat
    <3>2. QED
      BY <1>a, <2>1, <3>1 DEF ScoreWithinEvidence
  <2>4. AlertsCorroborated'
    BY <1>a, <2>1 DEF AlertsCorroborated
  <2>5. QED
    BY <2>2, <2>3, <2>4 DEF ScoreInv
<1>6. CASE \/ \E e \in Entities : \E t \in 0..MaxTime : Published(e, t) \/ PublishRaises(e, t)
           \/ Tick \/ UNCHANGED vars
  <2>1. UNCHANGED <<scores, composite, signals, alerts>>
    BY <1>6 DEF Published, PublishRaises, Tick, vars, recordVars, alertVars
  <2>2. QED
    BY <1>a, <2>1 DEF ScoreInv, ScoreType, ScoreWithinEvidence, AlertsCorroborated
<1>7. QED
  BY <1>1, <1>2, <1>3, <1>4, <1>5, <1>6 DEF Next

\* The composite score of an entity is never above what its dimension scores
\* justify at that moment, though events without a score, findings and the
\* decay recalculate it in different ways.
THEOREM WithinEvidence == Spec => []ScoreWithinEvidence
<1>1. IInv => TypeOK
  BY DEF IInv
<1>2. ScoreInv => ScoreWithinEvidence
  BY DEF ScoreInv
<1>3. QED
  BY <1>1, <1>2, InvInit, Step, ScoreInit, ScoreStep, PTL DEF Spec

\* No alert has fewer than MIN_CORROBORATING_SIGNALS dimensions behind it,
\* though all the code does is lower the score of an entity that has fewer.
THEOREM Corroboration == Spec => []AlertsCorroborated
<1>1. IInv => TypeOK
  BY DEF IInv
<1>2. ScoreInv => AlertsCorroborated
  BY DEF ScoreInv
<1>3. QED
  BY <1>1, <1>2, InvInit, Step, ScoreInit, ScoreStep, PTL DEF Spec
=============================================================================
