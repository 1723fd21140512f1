------------------------------- MODULE ZeroTrust -------------------------------
(***************************************************************************)
(* agent/core/zero_trust_pdp.py and zero_trust_pep.py.  The decision point *)
(* limits the rate of requests, scores each with what threat events and    *)
(* findings have left in its caches, and publishes a decision; the         *)
(* enforcement point carries out the decision's actions, skipping one it   *)
(* has just done for the same request id, and publishes the challenges;    *)
(* the event bus drops a challenge like one of the last minute.            *)
(*                                                                         *)
(* A request is handled in one piece up to a challenge that the bus        *)
(* delivers: its subscribers are awaited, for far less than a tick.        *)
(* API requests carry no session id, so the request id is the user's.      *)
(* No entry of _enforced_sessions holds the user or the device of its      *)
(* request: GRANT_TEMP_PRIVILEGE, QUARANTINE_DEVICE, FORCE_LOGOUT and      *)
(* REVOKE_IDENTITY find nobody to act on and change no state.              *)
(***************************************************************************)
EXTENDS Integers, Sequences, FiniteSets, SequencesExt

CONSTANTS
  Requests,        \* [user, device, role, location, network]
  Users, Devices,
  RateWindow,      \* _rate_limit_window_seconds (60)
  MaxAttempts,     \* _max_attempts_per_window (10)
  DedupWindow,     \* _action_dedup_window_seconds (5)
  BusTTL,          \* _fingerprint_ttl of the event bus (60)
  OtpLifetime,     \* expires_in of an MFA challenge (60)
  MaxRequests,     \* bound: requests
  MaxReports,      \* bound: threat events and findings
  MaxForgets,      \* bound: cache entries that expire
  MaxTime,         \* bound: ticks
  None

ASSUME ZeroTrustAssumption ==
  /\ \A r \in Requests : r.user \in Users /\ r.device \in Devices
  /\ RateWindow \in Nat \ {0} /\ MaxAttempts \in Nat /\ DedupWindow \in Nat
  /\ BusTTL \in Nat \ {0} /\ OtpLifetime \in Nat /\ BusTTL <= OtpLifetime
  /\ None \notin Int
  /\ MaxRequests \in Nat /\ MaxReports \in Nat /\ MaxForgets \in Nat /\ MaxTime \in Nat

VARIABLES
  attempts,    \* _recent_attempts: a user's requests, allowed or not: [at, n], n to tell them apart
  userRisk,    \* _user_risk_cache in thousandths, or None
  failed,      \* devices whose _device_trust_cache entry is 0.0
  handling,    \* decisions the enforcement point is at: a sequence of [user, todo, awaiting]
  denied,      \* users whose _enforced_sessions entry is "denied"
  recent,      \* _recent_actions: when a challenge was last carried out, or None
  published,   \* when the bus last delivered a challenge, or None
  evaluated,   \* a user's requests that passed the rate limit: [at, n] (history)
  settled,     \* challenges carried out or skipped: [user, kind, at, sent] (history)
  now, requests, reports, forgets

pdpVars == <<attempts, userRisk, failed, evaluated, requests>>
pepVars == <<handling, denied, recent, published, settled>>
vars == <<pdpVars, pepVars, now, reports, forgets>>

Challenges == {"mfa", "step_up"}

Init ==
  /\ attempts = [u \in Users |-> {}]
  /\ userRisk = [u \in Users |-> None]
  /\ failed = {}
  /\ handling = <<>>
  /\ denied = {}
  /\ recent = [u \in Users |-> [k \in Challenges |-> None]]
  /\ published = [u \in Users |-> [k \in Challenges |-> None]]
  /\ evaluated = [u \in Users |-> {}]
  /\ settled = {}
  /\ now = 0 /\ requests = 0 /\ reports = 0 /\ forgets = 0

-------------------------------------------------------------------------------
(* The decision.                                                           *)

\* _score of each dimension times its weight, in hundred-thousandths.
DeviceScore(d) == IF d \in failed THEN 0 ELSE 500
NetworkScore(r) == CASE r.network = "" -> 0 [] r.network = "corporate" -> 100 [] OTHER -> 500
LocationScore(r) == CASE r.location = "" -> 0 [] r.location = "office" -> 100 [] OTHER -> 600
BehavioralScore(u) == IF userRisk[u] = None THEN 200 ELSE userRisk[u]

\* _calculate_risk_score: nothing sets the geo velocity, and requests of the
\* API have no risk score of their own.
RiskScore(r) ==
  (25 * 200 + 20 * DeviceScore(r.device) + 15 * NetworkScore(r) + 15 * LocationScore(r)
     + 15 * BehavioralScore(r.user)) \div 100
  + (IF r.role = "admin" THEN 50 ELSE 0)

\* RISK_THRESHOLDS
Level(score) == CASE score >= 900 -> "critical" [] score >= 700 -> "high"
                  [] score >= 500 -> "medium" [] OTHER -> "low"

\* _evaluate_policy.  The blacklist holds addresses, and is searched for the
\* user and the device: it blocks nobody.  A role that is not a string ends in
\* the exception handler, which denies.
Refused == [allowed |-> FALSE, actions |-> <<"block", "escalate">>]
Decision(r) ==
  LET level == Level(RiskScore(r))
      privileged == IF r.role = "admin" THEN <<"grant", "schedule_revocation">> ELSE <<>>
      unhealthy == IF DeviceScore(r.device) < 300 THEN <<"quarantine">> ELSE <<>>
  IN
  CASE r.role = "malformed" -> Refused
    [] level = "critical" ->
         [allowed |-> FALSE, actions |-> <<"log", "alert", "block", "force_logout",
                                           "revoke_identity", "escalate", "notify">>]
    [] OTHER ->
         [allowed |-> TRUE,
          actions |-> <<"log", "alert">>
            \o (IF level = "low" THEN <<>> ELSE <<"mfa", "step_up">>)
            \o (IF level = "high" THEN <<"notify">> ELSE <<>>)
            \o privileged \o unhealthy]

ThisRequest == [at |-> now, n |-> requests]

\* Fault: a fixed window, counted anew when a request in it is too old.
AttemptsFixed(u) ==
  IF \E a \in attempts[u] : a.at <= now - RateWindow
  THEN {ThisRequest} ELSE attempts[u] \cup {ThisRequest}

\* _is_rate_limited counts the request before it compares.
Attempts(u) == {a \in attempts[u] : a.at > now - RateWindow} \cup {ThisRequest}

\* _on_access_request.  A denial is enforced at once, whether "block" is skipped
\* or not.  The other actions log, or look for the user or the device of the
\* request in an entry that has neither; MFA and step-up always come together.
OnAccessRequest(r) ==
  LET u == r.user
      limited == Cardinality(Attempts(u)) > MaxAttempts
      decision == IF limited THEN Refused ELSE Decision(r)
      todo == IF "mfa" \in ToSet(decision.actions) THEN <<"mfa", "step_up">> ELSE <<>>
  IN
  /\ requests < MaxRequests
  /\ requests' = requests + 1
  /\ attempts' = [attempts EXCEPT ![u] = Attempts(u)]
  /\ evaluated' = IF limited THEN evaluated
                  ELSE [evaluated EXCEPT ![u] = @ \cup {ThisRequest}]
  /\ denied' = IF decision.allowed THEN denied ELSE denied \cup {u}
  /\ handling' = IF todo = <<>> THEN handling
                 ELSE Append(handling, [user |-> u, todo |-> todo, awaiting |-> FALSE])
  /\ UNCHANGED <<userRisk, failed, recent, published, settled, now, reports, forgets>>

AtMost(a, b) == IF a < b THEN a ELSE b
Raised(u, by) == AtMost(1000, (IF userRisk[u] = None THEN 0 ELSE userRisk[u]) + by)

\* _on_threat_event for IDENTITY_MISMATCH, _on_agent_finding for a sure finding
\* (confidence 1): the risk of a user nobody has reported counts from zero.
Report(u, by) ==
  /\ reports < MaxReports
  /\ reports' = reports + 1
  /\ userRisk' = [userRisk EXCEPT ![u] = Raised(u, by)]
  /\ UNCHANGED <<attempts, failed, evaluated, requests, pepVars, now, forgets>>

\* _on_threat_event for DEVICE_HEALTH_FAIL
HealthFails(d) ==
  /\ reports < MaxReports
  /\ reports' = reports + 1
  /\ failed' = failed \cup {d}
  /\ UNCHANGED <<attempts, userRisk, evaluated, requests, pepVars, now, forgets>>

-------------------------------------------------------------------------------
(* The enforcement.                                                        *)

Fresh(time, window) == time # None /\ now - time < window

Finish(i, sent) ==
  LET h == handling[i] IN
  /\ settled' = settled \cup {[user |-> h.user, kind |-> Head(h.todo), at |-> now, sent |-> sent]}
  /\ handling' = IF Len(h.todo) = 1 THEN RemoveAt(handling, i)
                 ELSE [handling EXCEPT ![i] = [h EXCEPT !.todo = Tail(@), !.awaiting = FALSE]]

\* Fault: the action counts as done for as long as the bus remembers it.
EnforceRemembers(i) ==
  LET h == handling[i]
      kind == Head(h.todo)
      skip == Fresh(recent[h.user][kind], 2 * BusTTL)
      drop == Fresh(published[h.user][kind], BusTTL)
  IN
  /\ ~h.awaiting
  /\ IF skip \/ drop
     THEN /\ Finish(i, published[h.user][kind])
          /\ recent' = IF skip THEN recent ELSE [recent EXCEPT ![h.user][kind] = now]
          /\ UNCHANGED published
     ELSE /\ handling' = [handling EXCEPT ![i].awaiting = TRUE]
          /\ published' = [published EXCEPT ![h.user][kind] = now]
          /\ UNCHANGED <<recent, settled>>
  /\ UNCHANGED <<pdpVars, denied, now, reports, forgets>>

\* _on_decision, the next challenge: skipped if it was carried out within the
\* window, else published; the bus delivers it unless it has done so recently.
Enforce(i) ==
  LET h == handling[i]
      kind == Head(h.todo)
      skip == Fresh(recent[h.user][kind], DedupWindow)
      drop == Fresh(published[h.user][kind], BusTTL)
  IN
  /\ ~h.awaiting
  /\ IF skip \/ drop
     THEN /\ Finish(i, published[h.user][kind])
          /\ recent' = IF skip THEN recent ELSE [recent EXCEPT ![h.user][kind] = now]
          /\ UNCHANGED published
     ELSE /\ handling' = [handling EXCEPT ![i].awaiting = TRUE]
          /\ published' = [published EXCEPT ![h.user][kind] = now]
          /\ UNCHANGED <<recent, settled>>
  /\ UNCHANGED <<pdpVars, denied, now, reports, forgets>>

\* The subscribers are done with the challenge; only now is it remembered.
Delivered(i) ==
  LET h == handling[i] IN
  /\ h.awaiting
  /\ Finish(i, published[h.user][Head(h.todo)])
  /\ recent' = [recent EXCEPT ![h.user][Head(h.todo)] = now]
  /\ UNCHANGED <<pdpVars, denied, published, now, reports, forgets>>

-------------------------------------------------------------------------------
(* Expiry: entries of the caches live a day, or are pushed out before.     *)

ForgetRisk(u) ==
  /\ userRisk[u] # None
  /\ userRisk' = [userRisk EXCEPT ![u] = None]
  /\ UNCHANGED <<attempts, failed, evaluated, requests, pepVars>>

ForgetDevice(d) ==
  /\ d \in failed
  /\ failed' = failed \ {d}
  /\ UNCHANGED <<attempts, userRisk, evaluated, requests, pepVars>>

\* Nothing else ends a denial: no decision asks for ALLOW_ACCESS.
ForgetDenial(u) ==
  /\ u \in denied
  /\ denied' = denied \ {u}
  /\ UNCHANGED <<pdpVars, handling, recent, published, settled>>

Forget ==
  /\ forgets < MaxForgets
  /\ forgets' = forgets + 1
  /\ \/ \E u \in Users : ForgetRisk(u) \/ ForgetDenial(u)
     \/ \E d \in Devices : ForgetDevice(d)
  /\ UNCHANGED <<now, reports>>

\* Subscribers answer within milliseconds: no time passes while one is awaited.
Tick ==
  /\ now < MaxTime /\ handling = <<>>
  /\ now' = now + 1
  /\ UNCHANGED <<pdpVars, pepVars, reports, forgets>>

Next ==
  \/ \E r \in Requests : OnAccessRequest(r)
  \/ \E u \in Users : Report(u, 100) \/ Report(u, 150)
  \/ \E d \in Devices : HealthFails(d)
  \/ \E i \in 1..Len(handling) : Enforce(i) \/ Delivered(i)
  \/ Forget \/ Tick

Spec == Init /\ [][Next]_vars

-------------------------------------------------------------------------------
\* However requests are spaced and however long a user goes on, no window of
\* RateWindow contains more than MaxAttempts requests of a user that the policy
\* was asked about: refused requests count, and old ones are dropped for good.
RateCapped ==
  \A u \in Users : \A e \in evaluated[u] :
    Cardinality({a \in evaluated[u] : a.at <= e.at /\ a.at > e.at - RateWindow}) <= MaxAttempts

\* A decision that asks for MFA leaves its user with a challenge that was
\* really delivered, and that has expired by less than the window in which the
\* enforcement point skips repetitions, although the bus drops repetitions as
\* well, by another clock, and decisions of a user overlap.  (It may have
\* expired: a challenge that the bus drops at the end of its minute counts as
\* carried out, and the next one is skipped.)
ChallengeStands ==
  \A c \in settled : c.kind = "mfa" => c.sent # None /\ c.at - c.sent < OtpLifetime + DedupWindow

==============================================================================
