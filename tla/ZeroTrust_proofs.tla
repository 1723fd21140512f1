---------------------------- MODULE ZeroTrust_proofs ----------------------------
(***************************************************************************)
(* Proofs about ZeroTrust for every set of requests, users and devices,    *)
(* and for all windows that satisfy the assumption of the model.           *)
(***************************************************************************)
EXTENDS ZeroTrust, FiniteSetTheorems, TLAPS

Todo == {<<"mfa", "step_up">>, <<"step_up">>}
Handling == [user : Users, todo : Todo, awaiting : BOOLEAN]

TypeOK ==
  /\ handling \in Seq(Handling)
  /\ recent \in [Users -> [Challenges -> Nat \cup {None}]]
  /\ published \in [Users -> [Challenges -> Nat \cup {None}]]
  /\ settled \subseteq [user : Users, kind : Challenges, at : Nat, sent : Nat]
  /\ now \in Nat

\* What counts as carried out has been delivered, and not long before it was
\* counted: the bus may have dropped it for having delivered it just before.
Counted ==
  \A u \in Users : \A k \in Challenges :
    /\ published[u][k] # None => published[u][k] <= now
    /\ recent[u][k] # None =>
         /\ recent[u][k] <= now
         /\ published[u][k] # None
         /\ recent[u][k] - published[u][k] < BusTTL

\* A challenge whose subscribers are awaited has been delivered this instant.
Awaited == \A i \in DOMAIN handling : handling[i].awaiting => published[handling[i].user][Head(handling[i].todo)] = now

\* ChallengeStands by the windows that decide it.
Standing == \A c \in settled : c.at - c.sent < BusTTL + DedupWindow

IInv == TypeOK /\ Counted /\ Awaited /\ Standing /\ ChallengeStands

LEMMA InvInit == Init => IInv
<1> SUFFICES ASSUME Init PROVE IInv
  OBVIOUS
<1>1. TypeOK
  BY DEF Init, TypeOK
<1>2. Counted /\ Awaited /\ Standing /\ ChallengeStands
  BY ZeroTrustAssumption DEF Init, Counted, Awaited, Standing, ChallengeStands, Challenges
<1>3. QED
  BY <1>1, <1>2 DEF IInv

\* The head of what is left to do is a challenge.
LEMMA Heads ==
  ASSUME NEW h \in Handling
  PROVE  /\ Head(h.todo) \in Challenges /\ h.user \in Users
         /\ Len(h.todo) # 1 =>
              /\ [h EXCEPT !.todo = Tail(@), !.awaiting = FALSE] \in Handling
              /\ [h EXCEPT !.todo = Tail(@), !.awaiting = FALSE].awaiting = FALSE
<1>1. h.todo \in Todo /\ h.user \in Users
  BY DEF Handling
<1>2. CASE h.todo = <<"step_up">>
  BY <1>1, <1>2 DEF Challenges
<1>3. CASE h.todo = <<"mfa", "step_up">>
  <2>1. Tail(h.todo) = <<"step_up">> /\ Head(h.todo) = "mfa"
    BY <1>3
  <2>2. QED
    BY <1>1, <2>1 DEF Handling, Todo, Challenges
<1>4. QED
  BY <1>1, <1>2, <1>3 DEF Todo

\* A challenge that ends leaves the other handlings as they are.
LEMMA Finishing ==
  ASSUME TypeOK, NEW i \in DOMAIN handling, NEW sent, Finish(i, sent)
  PROVE  /\ handling' \in Seq(Handling)
         /\ \A j \in DOMAIN handling' : handling'[j].awaiting => \E k \in DOMAIN handling : handling'[j] = handling[k]
<1> DEFINE h == handling[i]
           rest == [h EXCEPT !.todo = Tail(@), !.awaiting = FALSE]
<1>1. h \in Handling /\ handling \in Seq(Handling) /\ i \in 1..Len(handling) /\ Len(handling) \in Nat
  BY DEF TypeOK
<1>2. CASE Len(h.todo) = 1
  <2> DEFINE before == SubSeq(handling, 1, i - 1)
             after == SubSeq(handling, i + 1, Len(handling))
  <2>1. handling' = before \o after
    BY <1>2 DEF Finish, RemoveAt
  <2>2. /\ before \in Seq(Handling) /\ Len(before) = i - 1
        /\ \A j \in 1..(i - 1) : before[j] = handling[j]
    BY <1>1
  <2>3. /\ after \in Seq(Handling) /\ Len(after) = Len(handling) - i
        /\ \A j \in 1..(Len(handling) - i) : after[j] = handling[i + j]
    BY <1>1
  <2> HIDE DEF before, after
  <2>4. handling' \in Seq(Handling) /\ Len(handling') = Len(handling) - 1
    BY <1>1, <2>1, <2>2, <2>3
  <2>5. ASSUME NEW j \in DOMAIN handling'
        PROVE  \E k \in DOMAIN handling : handling'[j] = handling[k]
    <3>1. j \in 1..(Len(handling) - 1)
      BY <2>4
    <3>2. CASE j <= Len(before)
      <4>1. handling'[j] = before[j]
        BY <2>1, <2>2, <2>3, <3>1, <3>2
      <4>2. QED
        BY <1>1, <2>2, <3>1, <3>2, <4>1
    <3>3. CASE j > Len(before)
      <4>1. handling'[j] = after[j - Len(before)] /\ j - Len(before) \in 1..Len(after)
        BY <1>1, <2>1, <2>2, <2>3, <3>1, <3>3
      <4>2. PICK m \in 1..(Len(handling) - i) : handling'[j] = after[m]
        BY <2>3, <4>1
      <4>3. after[m] = handling[i + m] /\ i + m \in DOMAIN handling
        BY <1>1, <2>3
      <4>4. QED
        BY <4>2, <4>3
    <3>4. QED
      BY <1>1, <2>2, <3>1, <3>2, <3>3
  <2>6. QED
    BY <2>4, <2>5
<1>3. CASE Len(h.todo) # 1
  <2>1. rest \in Handling /\ rest.awaiting = FALSE
    BY <1>1, <1>3, Heads
  <2>2. handling' = [handling EXCEPT ![i] = rest]
    BY <1>3 DEF Finish
  <2> HIDE DEF rest
  <2>3. QED
    BY <1>1, <2>1, <2>2
<1>4. QED
  BY <1>2, <1>3

LEMMA InvStep == IInv /\ [Next]_vars => IInv'
<1> SUFFICES ASSUME IInv, [Next]_vars
             PROVE  IInv'
  OBVIOUS
<1>a. TypeOK /\ Counted /\ Awaited /\ Standing
  BY DEF IInv
<1>b. /\ BusTTL \in Nat \ {0} /\ OtpLifetime \in Nat /\ DedupWindow \in Nat /\ BusTTL <= OtpLifetime /\ None \notin Int
      /\ \A r \in Requests : r.user \in Users
  BY ZeroTrustAssumption
<1>c. TypeOK' /\ Standing' => ChallengeStands'
  <2> SUFFICES ASSUME TypeOK', Standing', NEW c \in settled'
               PROVE  c.sent # None /\ c.at - c.sent < OtpLifetime + DedupWindow
    BY DEF ChallengeStands
  <2>1. c.at \in Nat /\ c.sent \in Nat /\ c.at - c.sent < BusTTL + DedupWindow
    BY DEF TypeOK, Standing
  <2>2. QED
    BY <1>b, <2>1
<1>1. ASSUME NEW r \in Requests, OnAccessRequest(r)
      PROVE  IInv'
  <2>1. /\ UNCHANGED <<recent, published, settled, now>>
        /\ \/ handling' = handling
           \/ handling' = Append(handling, [user |-> r.user, todo |-> <<"mfa", "step_up">>, awaiting |-> FALSE])
    BY <1>1 DEF OnAccessRequest
  <2>2. [user |-> r.user, todo |-> <<"mfa", "step_up">>, awaiting |-> FALSE] \in Handling
    BY <1>b DEF Handling, Todo
  <2>3. handling' \in Seq(Handling) /\ Awaited'
    <3>1. CASE handling' = handling
      BY <1>a, <2>1, <3>1 DEF TypeOK, Awaited
    <3>2. CASE handling' # handling
      <4> DEFINE new == [user |-> r.user, todo |-> <<"mfa", "step_up">>, awaiting |-> FALSE]
      <4>1. handling' = Append(handling, new) /\ new \in Handling /\ ~new.awaiting
        BY <2>1, <2>2, <3>2
      <4>2. handling \in Seq(Handling)
        BY <1>a DEF TypeOK
      <4> HIDE DEF new
      <4>3. /\ handling' \in Seq(Handling) /\ DOMAIN handling' = 1..(Len(handling) + 1) /\ Len(handling) \in Nat
            /\ \A j \in 1..Len(handling) : handling'[j] = handling[j]
            /\ handling'[Len(handling) + 1] = new
        BY <4>1, <4>2
      <4>4. ASSUME NEW j \in DOMAIN handling', handling'[j].awaiting
            PROVE  j \in DOMAIN handling /\ handling'[j] = handling[j]
        BY <4>1, <4>2, <4>3, <4>4
      <4>5. QED
        BY <1>a, <2>1, <4>3, <4>4 DEF Awaited
    <3>3. QED
      BY <3>1, <3>2
  <2>4. QED
    BY <1>a, <1>c, <2>1, <2>3 DEF IInv, TypeOK, Counted, Standing
<1>2. ASSUME NEW i \in 1..Len(handling), Enforce(i)
      PROVE  IInv'
  <2> DEFINE h == handling[i]
             kind == Head(h.todo)
             skip == Fresh(recent[h.user][kind], DedupWindow)
             drop == Fresh(published[h.user][kind], BusTTL)
  <2>1. i \in DOMAIN handling /\ h \in Handling /\ handling \in Seq(Handling)
    BY <1>a DEF TypeOK
  <2>2. kind \in Challenges /\ h.user \in Users
    BY <2>1, Heads
  <2>3. /\ published[h.user][kind] \in Nat \cup {None} /\ recent[h.user][kind] \in Nat \cup {None} /\ now \in Nat
        /\ published[h.user][kind] # None => published[h.user][kind] <= now
        /\ recent[h.user][kind] # None =>
             /\ recent[h.user][kind] <= now
             /\ published[h.user][kind] # None
             /\ recent[h.user][kind] - published[h.user][kind] < BusTTL
    BY <1>a, <2>2 DEF TypeOK, Counted
  <2>4. CASE skip \/ drop
    <3>1. /\ Finish(i, published[h.user][kind])
          /\ recent' = IF skip THEN recent ELSE [recent EXCEPT ![h.user][kind] = now]
          /\ UNCHANGED <<published, now>>
      BY <1>2, <2>4 DEF Enforce
    <3>2. published[h.user][kind] \in Nat /\ now - published[h.user][kind] < BusTTL + DedupWindow
      <4>1. CASE drop
        <5>1. published[h.user][kind] # None /\ now - published[h.user][kind] < BusTTL
          BY <4>1 DEF Fresh
        <5>2. QED
          BY <1>b, <2>3, <5>1
      <4>2. CASE skip
        <5>1. recent[h.user][kind] # None /\ now - recent[h.user][kind] < DedupWindow
          BY <4>2 DEF Fresh
        <5>2. /\ recent[h.user][kind] \in Nat /\ published[h.user][kind] \in Nat
              /\ recent[h.user][kind] - published[h.user][kind] < BusTTL
          BY <2>3, <5>1
        <5> HIDE DEF h, kind
        <5>3. QED
          BY <1>b, <2>3, <5>1, <5>2
      <4>3. QED
        BY <2>4, <4>1, <4>2
    <3>3. ~skip => now - published[h.user][kind] < BusTTL
      BY <2>4 DEF Fresh
    <3>4. settled' = settled \cup {[user |-> h.user, kind |-> kind, at |-> now, sent |-> published[h.user][kind]]}
      BY <3>1 DEF Finish
    <3>5. Standing' /\ settled' \subseteq [user : Users, kind : Challenges, at : Nat, sent : Nat]
      <4>1. settled \subseteq [user : Users, kind : Challenges, at : Nat, sent : Nat]
        BY <1>a DEF TypeOK
      <4>2. [user |-> h.user, kind |-> kind, at |-> now, sent |-> published[h.user][kind]]
              \in [user : Users, kind : Challenges, at : Nat, sent : Nat]
        BY <2>2, <2>3, <3>2
      <4>3. Standing'
        <5> HIDE DEF h, kind
        <5>1. QED
          BY <1>a, <3>2, <3>4 DEF Standing
      <4>4. QED
        BY <3>4, <4>1, <4>2, <4>3
    <3>6. /\ handling' \in Seq(Handling)
          /\ \A j \in DOMAIN handling' : handling'[j].awaiting => \E k \in DOMAIN handling : handling'[j] = handling[k]
      BY <1>a, <2>1, <3>1, Finishing
    <3>7. Awaited'
      BY <1>a, <3>1, <3>6 DEF Awaited
    <3>8. recent' \in [Users -> [Challenges -> Nat \cup {None}]]
      BY <1>a, <2>2, <2>3, <3>1 DEF TypeOK
    <3>9. Counted'
      <4>1. ASSUME NEW u \in Users, NEW k \in Challenges, ~skip
            PROVE  recent'[u][k] = IF u = h.user /\ k = kind THEN now ELSE recent[u][k]
        BY <1>a, <2>2, <3>1, <4>1 DEF TypeOK
      <4>2. CASE skip
        BY <1>a, <3>1, <4>2 DEF Counted
      <4>3. CASE ~skip
        <5> SUFFICES ASSUME NEW u \in Users, NEW k \in Challenges
                     PROVE  /\ published[u][k] # None => published[u][k] <= now
                            /\ recent'[u][k] # None =>
                                 /\ recent'[u][k] <= now
                                 /\ published[u][k] # None
                                 /\ recent'[u][k] - published[u][k] < BusTTL
          BY <3>1 DEF Counted
        <5>1. CASE u = h.user /\ k = kind
          <6>1. recent'[u][k] = now /\ now \in Nat /\ published[u][k] \in Nat
            BY <2>3, <3>2, <4>1, <4>3, <5>1
          <6>2. now - published[u][k] < BusTTL /\ published[u][k] <= now
            BY <1>b, <2>3, <3>2, <3>3, <4>3, <5>1
          <6>3. QED
            BY <1>b, <6>1, <6>2
        <5>2. CASE ~(u = h.user /\ k = kind)
          BY <1>a, <4>1, <4>3, <5>2 DEF Counted
        <5>3. QED
          BY <5>1, <5>2
      <4>4. QED
        BY <4>2, <4>3
    <3>10. QED
      BY <1>a, <1>c, <3>1, <3>5, <3>6, <3>7, <3>8, <3>9 DEF IInv, TypeOK
  <2>5. CASE ~(skip \/ drop)
    <3>1. /\ handling' = [handling EXCEPT ![i].awaiting = TRUE]
          /\ published' = [published EXCEPT ![h.user][kind] = now]
          /\ UNCHANGED <<recent, settled, now>>
      BY <1>2, <2>5 DEF Enforce
    <3>2. published' \in [Users -> [Challenges -> Nat \cup {None}]]
      BY <1>a, <2>2, <2>3, <3>1 DEF TypeOK
    <3>3. ASSUME NEW u \in Users, NEW k \in Challenges
          PROVE  published'[u][k] = IF u = h.user /\ k = kind THEN now ELSE published[u][k]
      BY <1>a, <2>2, <3>1 DEF TypeOK
    <3>4. [h EXCEPT !.awaiting = TRUE] \in Handling
      BY <2>1 DEF Handling
    <3>5. /\ handling' \in Seq(Handling) /\ DOMAIN handling' = DOMAIN handling
          /\ handling'[i] = [h EXCEPT !.awaiting = TRUE]
          /\ \A j \in DOMAIN handling : j # i => handling'[j] = handling[j]
      BY <2>1, <3>1, <3>4
    <3>6. Awaited'
      <4> SUFFICES ASSUME NEW j \in DOMAIN handling, handling'[j].awaiting
                   PROVE  published'[handling'[j].user][Head(handling'[j].todo)] = now
        BY <3>1, <3>5 DEF Awaited
      <4>1. CASE j = i
        <5>1. handling'[i].user = h.user /\ handling'[i].todo = h.todo
          BY <2>1, <3>5 DEF Handling
        <5>2. QED
          BY <2>2, <3>3, <4>1, <5>1
      <4>2. CASE j # i
        <5>1. handling[j] \in Handling /\ handling'[j] = handling[j]
          BY <2>1, <3>5, <4>2
        <5>2. Head(handling[j].todo) \in Challenges /\ handling[j].user \in Users
          BY <5>1, Heads
        <5>3. published[handling[j].user][Head(handling[j].todo)] = now
          BY <1>a, <5>1 DEF Awaited
        <5>4. QED
          BY <3>3, <5>1, <5>2, <5>3
      <4>3. QED
        BY <4>1, <4>2
    <3>7. Counted'
      <4> SUFFICES ASSUME NEW u \in Users, NEW k \in Challenges
                   PROVE  /\ published'[u][k] # None => published'[u][k] <= now
                          /\ recent[u][k] # None =>
                               /\ recent[u][k] <= now
                               /\ published'[u][k] # None
                               /\ recent[u][k] - published'[u][k] < BusTTL
        BY <3>1 DEF Counted
      <4>1. /\ recent[u][k] \in Nat \cup {None}
            /\ published[u][k] # None => published[u][k] <= now
            /\ recent[u][k] # None =>
                 recent[u][k] <= now /\ published[u][k] # None /\ recent[u][k] - published[u][k] < BusTTL
        BY <1>a DEF Counted, TypeOK
      <4>2. CASE u = h.user /\ k = kind
        BY <1>b, <2>3, <3>3, <4>1, <4>2
      <4>3. CASE ~(u = h.user /\ k = kind)
        BY <3>3, <4>1, <4>3
      <4>4. QED
        BY <4>2, <4>3
    <3>8. QED
      BY <1>a, <1>c, <3>1, <3>2, <3>5, <3>6, <3>7 DEF IInv, TypeOK, Standing
  <2>6. QED
    BY <2>4, <2>5
<1>3. ASSUME NEW i \in 1..Len(handling), Delivered(i)
      PROVE  IInv'
  <2> DEFINE h == handling[i]
             kind == Head(h.todo)
  <2>1. i \in DOMAIN handling /\ h \in Handling /\ handling \in Seq(Handling)
    BY <1>a DEF TypeOK
  <2>2. kind \in Challenges /\ h.user \in Users
    BY <2>1, Heads
  <2>3. /\ h.awaiting /\ Finish(i, published[h.user][kind])
        /\ recent' = [recent EXCEPT ![h.user][kind] = now]
        /\ UNCHANGED <<published, now>>
    BY <1>3 DEF Delivered
  <2>4. published[h.user][kind] = now /\ now \in Nat
    BY <1>a, <2>1, <2>3 DEF Awaited, TypeOK
  <2>5. settled' = settled \cup {[user |-> h.user, kind |-> kind, at |-> now, sent |-> published[h.user][kind]]}
    BY <2>3 DEF Finish
  <2>6. Standing' /\ settled' \subseteq [user : Users, kind : Challenges, at : Nat, sent : Nat]
    BY <1>a, <1>b, <2>2, <2>4, <2>5 DEF Standing, TypeOK
  <2>7. /\ handling' \in Seq(Handling)
        /\ \A j \in DOMAIN handling' : handling'[j].awaiting => \E k \in DOMAIN handling : handling'[j] = handling[k]
    BY <1>a, <2>1, <2>3, Finishing
  <2>8. Awaited'
    BY <1>a, <2>3, <2>7 DEF Awaited
  <2>9. recent' \in [Users -> [Challenges -> Nat \cup {None}]]
    BY <1>a, <2>2, <2>3 DEF TypeOK
  <2>10. Counted'
    <3>1. ASSUME NEW u \in Users, NEW k \in Challenges
          PROVE  recent'[u][k] = IF u = h.user /\ k = kind THEN now ELSE recent[u][k]
      BY <1>a, <2>2, <2>3 DEF TypeOK
    <3>2. QED
      BY <1>a, <1>b, <2>3, <2>4, <3>1 DEF Counted
  <2>11. QED
    BY <1>a, <1>c, <2>3, <2>6, <2>7, <2>8, <2>9, <2>10 DEF IInv, TypeOK
<1>4. CASE Tick
  <2>1. handling = <<>> /\ now' = now + 1 /\ UNCHANGED <<handling, recent, published, settled>>
    BY <1>4 DEF Tick, pepVars
  <2>2. Counted' /\ Awaited' /\ Standing'
    BY <1>a, <2>1 DEF TypeOK, Counted, Awaited, Standing
  <2>3. QED
    BY <1>a, <1>c, <2>1, <2>2 DEF IInv, TypeOK
<1>5. CASE \/ \E u \in Users : Report(u, 100) \/ Report(u, 150)
           \/ \E d \in Devices : HealthFails(d)
           \/ Forget \/ UNCHANGED vars
  <2>1. UNCHANGED <<handling, recent, published, settled, now>>
    BY <1>5 DEF Report, HealthFails, Forget, ForgetRisk, ForgetDevice, ForgetDenial, vars, pepVars
  <2>2. QED
    BY <1>a, <1>c, <2>1 DEF IInv, TypeOK, Counted, Awaited, Standing
<1>6. QED
  BY <1>1, <1>2, <1>3, <1>4, <1>5 DEF Next

\* Whoever has to do MFA has a challenge that was delivered and has not expired
\* for longer than the enforcement point skips repetitions.
THEOREM Stands == Spec => []ChallengeStands
<1>1. IInv => ChallengeStands
  BY DEF IInv
<1>2. QED
  BY <1>1, InvInit, InvStep, PTL DEF Spec

-------------------------------------------------------------------------------
(* The rate limit.                                                         *)

Request == [at : Nat, n : Nat]

RateType ==
  /\ now \in Nat /\ requests \in Nat
  /\ attempts \in [Users -> SUBSET Request]
  /\ evaluated \in [Users -> SUBSET Request]
  /\ \A u \in Users : IsFiniteSet(attempts[u])

\* The policy was asked about past requests, and of those still in the window
\* not one has been dropped from the list that is counted.
Remembered ==
  \A u \in Users : \A e \in evaluated[u] :
    e.at <= now /\ (e.at > now - RateWindow => e \in attempts[u])

RateInv == RateType /\ Remembered /\ RateCapped

LEMMA RateInit == Init => RateInv
<1> SUFFICES ASSUME Init PROVE RateInv
  OBVIOUS
<1>1. \A u \in Users : attempts[u] = {} /\ evaluated[u] = {}
  BY DEF Init
<1>2. RateType
  BY <1>1, FS_EmptySet DEF Init, RateType
<1>3. QED
  BY <1>1, <1>2 DEF RateInv, Remembered, RateCapped

LEMMA RateStep == RateInv /\ [Next]_vars => RateInv'
<1> SUFFICES ASSUME RateInv, [Next]_vars
             PROVE  RateInv'
  OBVIOUS
<1>a. RateType /\ Remembered /\ RateCapped
  BY DEF RateInv
<1>b. RateWindow \in Nat \ {0} /\ MaxAttempts \in Nat /\ \A r \in Requests : r.user \in Users
  BY ZeroTrustAssumption
<1>1. ASSUME NEW r \in Requests, OnAccessRequest(r)
      PROVE  RateInv'
  <2> DEFINE v == r.user
             limited == Cardinality(Attempts(v)) > MaxAttempts
  <2>1. /\ v \in Users /\ now' = now /\ requests' = requests + 1
        /\ attempts' = [attempts EXCEPT ![v] = Attempts(v)]
        /\ evaluated' = IF limited THEN evaluated ELSE [evaluated EXCEPT ![v] = @ \cup {ThisRequest}]
    BY <1>b, <1>1 DEF OnAccessRequest
  <2>2. /\ ThisRequest \in Request /\ ThisRequest.at = now
        /\ now \in Nat /\ attempts[v] \subseteq Request /\ IsFiniteSet(attempts[v])
    BY <1>a, <2>1 DEF RateType, Request, ThisRequest
  <2>3. Attempts(v) \subseteq Request /\ IsFiniteSet(Attempts(v))
    <3>1. IsFiniteSet({a \in attempts[v] : a.at > now - RateWindow})
      BY <2>2, FS_Subset
    <3>2. QED
      BY <2>2, <3>1, FS_AddElement DEF Attempts
  <2>4. RateType'
    BY <1>a, <2>1, <2>2, <2>3 DEF RateType
  <2>5. Remembered'
    <3> SUFFICES ASSUME NEW u \in Users, NEW e \in evaluated'[u]
                 PROVE  e.at <= now /\ (e.at > now - RateWindow => e \in attempts'[u])
      BY <2>1 DEF Remembered
    <3>1. e \in evaluated[u] \/ (u = v /\ e = ThisRequest)
      BY <1>a, <2>1 DEF RateType
    <3>2. attempts'[u] = IF u = v THEN Attempts(v) ELSE attempts[u]
      BY <1>a, <2>1 DEF RateType
    <3>3. CASE e \in evaluated[u]
      BY <1>a, <3>2, <3>3 DEF Remembered, Attempts
    <3>4. CASE u = v /\ e = ThisRequest
      BY <2>2, <3>2, <3>4 DEF Attempts
    <3>5. QED
      BY <3>1, <3>3, <3>4
  <2>6. RateCapped'
    <3>1. CASE limited
      BY <1>a, <2>1, <3>1 DEF RateCapped
    <3>2. CASE ~limited
      <4> SUFFICES ASSUME NEW u \in Users, NEW e \in evaluated'[u]
                   PROVE  Cardinality({a \in evaluated'[u] : a.at <= e.at /\ a.at > e.at - RateWindow})
                            <= MaxAttempts
        BY DEF RateCapped
      <4>1. evaluated'[u] = IF u = v THEN evaluated[v] \cup {ThisRequest} ELSE evaluated[u]
        BY <1>a, <2>1, <3>2 DEF RateType
      <4>2. /\ evaluated[u] \subseteq Request /\ RateWindow \in Nat /\ e.at \in Nat
            /\ \A a \in evaluated[u] : a.at \in Nat /\ a.at <= now
        BY <1>a, <1>b, <2>2, <4>1 DEF RateType, Remembered, Request
      <4>3. CASE u # v \/ (e \in evaluated[u] /\ e.at < now)
        <5>1. {a \in evaluated'[u] : a.at <= e.at /\ a.at > e.at - RateWindow}
                = {a \in evaluated[u] : a.at <= e.at /\ a.at > e.at - RateWindow}
          BY <2>2, <4>1, <4>2, <4>3
        <5>2. QED
          BY <1>a, <4>1, <4>3, <5>1 DEF RateCapped
      <4>4. CASE u = v /\ e.at = now
        <5>1. {a \in evaluated'[u] : a.at <= e.at /\ a.at > e.at - RateWindow} \subseteq Attempts(v)
          BY <1>a, <4>1, <4>4 DEF Remembered, Attempts
        <5>2. Cardinality({a \in evaluated'[u] : a.at <= e.at /\ a.at > e.at - RateWindow})
                <= Cardinality(Attempts(v))
          BY <2>3, <5>1, FS_Subset
        <5>3. /\ Cardinality(Attempts(v)) \in Nat
              /\ Cardinality({a \in evaluated'[u] : a.at <= e.at /\ a.at > e.at - RateWindow}) \in Nat
          BY <2>3, <5>1, FS_Subset, FS_CardinalityType
        <5>4. Cardinality(Attempts(v)) <= MaxAttempts
          BY <1>b, <3>2, <5>3
        <5>5. QED
          BY <1>b, <5>2, <5>3, <5>4
      <4>5. e.at = now \/ (e \in evaluated[u] /\ e.at < now)
        BY <2>2, <4>1, <4>2
      <4>6. QED
        BY <4>3, <4>4, <4>5
    <3>3. QED
      BY <3>1, <3>2
  <2>7. QED
    BY <2>4, <2>5, <2>6 DEF RateInv
<1>2. CASE Tick
  <2>1. now' = now + 1 /\ UNCHANGED <<attempts, evaluated, requests>>
    BY <1>2 DEF Tick, pdpVars
  <2>2. RateType' /\ RateCapped'
    BY <1>a, <2>1 DEF RateType, RateCapped
  <2>3. Remembered'
    <3> SUFFICES ASSUME NEW u \in Users, NEW e \in evaluated[u]
                 PROVE  e.at <= now' /\ (e.at > now' - RateWindow => e \in attempts[u])
      BY <2>1 DEF Remembered
    <3>1. e.at \in Nat /\ now \in Nat /\ e.at <= now /\ (e.at > now - RateWindow => e \in attempts[u])
      BY <1>a DEF RateType, Request, Remembered
    <3>2. QED
      BY <1>b, <2>1, <3>1
  <2>4. QED
    BY <2>2, <2>3 DEF RateInv
<1>3. CASE \/ \E i \in 1..Len(handling) : Enforce(i) \/ Delivered(i)
           \/ \E u \in Users : Report(u, 100) \/ Report(u, 150)
           \/ \E d \in Devices : HealthFails(d)
           \/ Forget \/ UNCHANGED vars
  <2>1. UNCHANGED <<attempts, evaluated, requests, now>>
    BY <1>3 DEF Enforce, Delivered, Report, HealthFails, Forget, ForgetRisk, ForgetDevice,
                ForgetDenial, vars, pdpVars
  <2>2. QED
    BY <1>a, <2>1 DEF RateInv, RateType, Remembered, RateCapped
<1>4. QED
  BY <1>1, <1>2, <1>3 DEF Next

\* No window of RateWindow holds more than MaxAttempts requests of one user that
\* the policy was asked about: forgetting old requests never forgets one that
\* still counts.
THEOREM Capped == Spec => []RateCapped
<1>1. RateInv => RateCapped
  BY DEF RateInv
<1>2. QED
  BY <1>1, RateInit, RateStep, PTL DEF Spec
=============================================================================
