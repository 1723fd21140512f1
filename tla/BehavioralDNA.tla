---------------------------- MODULE BehavioralDNA ----------------------------
(***************************************************************************)
(* The behavioural DNA engine (agent/engines/behavioral_dna_engine.py):     *)
(* what is typical of a user, an address or a device, and an anomaly when   *)
(* an event differs.  The profile learns an event before it is compared     *)
(* with it.                                                                 *)
(***************************************************************************)
EXTENDS BusEvents, SequencesExt

CONSTANTS
    MaxHours,       \* hours of the day a profile keeps: 16
    Sufficient,     \* min_events_for_profile; an event counts twice
    ProfileLife     \* hours until the cache drops a profile, from its creation

\* Assumed by Engines.
BehavioralAssumption == {MaxHours, Sufficient, ProfileLife} \subseteq Nat \ {0}

VARIABLES
    profiles,       \* _profiles: entity -> profile
    groups,         \* _peer_groups: group -> members
    clock           \* hours since the start

NewProfile ==
    [hours |-> <<>>, locations |-> <<>>, networks |-> <<>>, resources |-> <<>>, apps |-> <<>>, accesses |-> <<>>,
     volumes |-> <<>>, events |-> 0, sessions |-> 0, risk |-> 0, group |-> None, created |-> clock]

Profile(id) == Get(profiles, id, NewProfile)

InList(list, x) == \E i \in DOMAIN list : list[i] = x

LastOf(list, n) == IF Len(list) > n THEN SubSeq(list, Len(list) - n + 1, Len(list)) ELSE list

\* A value that is not in the list yet goes to its end, the oldest go
Learnt(list, x, max) == IF x = None \/ InList(list, x) THEN list ELSE LastOf(Append(list, x), max)

\* update_temporal keeps the "most common" hours of a list without repetitions:
\* the first ones.  A new hour of a full list is dropped.
LearntHour(hours, hour) ==
    IF InList(hours, hour) \/ Len(hours) >= MaxHours THEN hours ELSE Append(hours, hour)

Entities(e) ==
    LET named == {Get(e.payload, key, None) : key \in {"user_id", "src_ip", "device_id"}} \ {None}
    IN  IF named = {} THEN {e.source} ELSE named

Location(e) == Either(e.payload, <<"location", "detected_location", "zone">>)
Volume(e) == LET v == Either(e.payload, <<"unusual_data_volume_gb", "data_volume_gb">>) IN IF v = None THEN 0 ELSE v

\* What an event teaches; dst_port stands in for a resource that is not named
Updated(profile, e, hour) ==
    LET p == e.payload
        resource == Either(p, <<"resource", "signature", "dst_port">>)
    IN  [profile EXCEPT !.hours = LearntHour(@, hour),
                        !.locations = Learnt(@, Location(e), 10),
                        !.volumes = IF Volume(e) > 0 THEN LastOf(Append(@, Volume(e)), 50) ELSE @,
                        !.resources = Learnt(@, resource, 20),
                        !.apps = Learnt(@, Either(p, <<"application", "process_name">>), 15),
                        !.accesses = IF resource = None THEN @ ELSE LastOf(Append(@, resource), 50),
                        !.events = @ + 2]

\* What a request teaches; only requests teach networks
Requested(profile, p, hour) ==
    [profile EXCEPT !.hours = LearntHour(@, hour),
                    !.locations = Learnt(@, Get(p, "location", None), 10),
                    !.networks = Learnt(@, Get(p, "network", None), 5),
                    !.resources = Learnt(@, p.resource, 20),
                    !.accesses = LastOf(Append(@, p.resource), 50),
                    !.events = @ + 1, !.sessions = @ + 1]

-----------------------------------------------------------------------------
(* _detect_anomaly and _detect_anomaly_from_request: the sum of what is new, *)
(* in hundredths, against a threshold of 65.                                 *)

Points(condition, n) == IF condition THEN n ELSE 0

New(list, x) == x # None /\ list # <<>> /\ ~InList(list, x)

Total(list) ==
    LET sum[i \in 0..Len(list)] == IF i = 0 THEN 0 ELSE sum[i - 1] + list[i] IN sum[Len(list)]

\* More than three times the average, of which the volume is a part
Spike(profile, e) ==
    /\ Volume(e) > 0
    /\ LET n == Len(profile.volumes) IN
       IF n = 0 THEN 2 * Volume(e) > 3 ELSE Volume(e) * n > 3 * Total(profile.volumes)

AnomalyScore(profile, e, hour) ==
    LET p == e.payload
        resource == Either(p, <<"resource", "signature">>)
    IN  Points(New(profile.hours, hour), 40) + Points(New(profile.locations, Location(e)), 30)
        + Points(Spike(profile, e), 50) + Points(New(profile.resources, resource), 20)
        + Points(resource # None /\ Len(profile.accesses) > 5 /\ ~InList(LastOf(profile.accesses, 5), resource), 10)
        + Points(New(profile.networks, Either(p, <<"network", "network_info">>)), 20)

RequestScore(profile, p, hour) ==
    Points(New(profile.hours, hour), 40) + Points(New(profile.locations, Get(p, "location", None)), 30)
    + Points(New(profile.networks, Get(p, "network", None)), 20) + Points(New(profile.resources, p.resource), 20)

\* The profile an event is compared with: the one that has learnt it
Compared(profile, e, hour) ==
    IF e.kind = "request" THEN Requested(profile, e.payload, hour) ELSE Updated(profile, e, hour)

Anomalous(profile, e, hour) ==
    LET known == Compared(profile, e, hour) IN
    IF e.kind = "request" THEN known.sessions >= 3 /\ RequestScore(known, e.payload, hour) >= 65
    ELSE known.events >= Sufficient /\ AnomalyScore(known, e, hour) >= 65

Learners(e) == CASE e.kind = "finding" -> {} [] e.kind = "request" -> {e.payload.user_id} [] OTHER -> Entities(e)

Deviants(e, hour) == {id \in Learners(e) : Anomalous(Profile(id), e, hour)}

Severity(e, hour) == IF New(Compared(NewProfile, e, hour).hours, hour) THEN "medium" ELSE "high"

\* The alert names the entity under a key no engine but two reads
Alert(id, e, hour) ==
    ThreatEvent("BehavioralDNAEngine", "anomalous_behavior", Severity(e, hour),
                [entity_id |-> id, original_event |-> e.id], e.depth + 1)

Alerts(e, hour) ==
    LET ids == SetToSeq(Deviants(e, hour)) IN [i \in DOMAIN ids |-> Alert(ids[i], e, hour)]

Init ==
    /\ profiles = << >>
    /\ groups = << >>

\* _on_agent_finding: only a profile there is
Blamed(profile, e) == [profile EXCEPT !.risk = IF Serious(e.severity) THEN Clamp(@ + e.confidence \div 10) ELSE @]

On(e, hour) ==
    LET after(id) == IF e.kind = "request" THEN Requested(Profile(id), e.payload, hour) ELSE Updated(Profile(id), e, hour)
        blamed == Either(e.payload, <<"user_id", "src_ip">>)
    IN  /\ profiles' = IF e.kind = "finding"
                       THEN IF blamed \in DOMAIN profiles THEN [profiles EXCEPT ![blamed] = Blamed(@, e)] ELSE profiles
                       ELSE [id \in DOMAIN profiles \union Learners(e) |->
                               IF id \in Learners(e) THEN after(id) ELSE profiles[id]]
        /\ UNCHANGED groups

\* set_peer_group; an entity without a profile is a member all the same
SetPeerGroup(id, group) ==
    /\ groups' = With([g \in DOMAIN groups |-> groups[g] \ {id}], group, Get(groups, group, {}) \union {id})
    /\ profiles' = IF id \in DOMAIN profiles THEN [profiles EXCEPT ![id].group = group] ELSE profiles

\* The cache drops a profile before _cleanup_loop, which looks for those not
\* seen for as long, can find it: the groups keep the member.
Expire ==
    LET young == {id \in DOMAIN profiles : clock - profiles[id].created < ProfileLife}
    IN  /\ profiles' = [id \in young |-> profiles[id]]
        /\ UNCHANGED groups
=============================================================================
