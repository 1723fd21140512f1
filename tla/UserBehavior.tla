---------------------------- MODULE UserBehavior ----------------------------
(***************************************************************************)
(* The user and entity behaviour engine (agent/engines/ueba_engine.py): a   *)
(* profile of every user, address and device, and an anomaly when a stable  *)
(* profile is left.  A profile keeps its lists under the names the class    *)
(* gives them; _update_stats asks for others ("data_volume" for             *)
(* "data_volume_gb"), as getattr with a default.                            *)
(***************************************************************************)
EXTENDS BusEvents, SequencesExt

CONSTANTS
    MinEvents,      \* MIN_EVENTS_FOR_BASELINE
    Window,         \* BEHAVIORAL_WINDOW_EVENTS
    ProfileLife     \* hours until the cache drops a profile, from its creation

\* Assumed by Engines.
UserBehaviorAssumption == {MinEvents, Window, ProfileLife} \subseteq Nat \ {0}

VARIABLES
    profiles,       \* _profiles: entity -> profile
    clock           \* hours since the start

SensitiveZones == {"/api/v1/payroll", "/api/v1/employee_data", "/admin/console", "/finance/reports",
                   "server_room", "data_vault"}

NewProfile ==
    [data_volume_gb |-> <<>>, lateral_destinations |-> <<>>, after_hours_index |-> <<>>,
     sensitive_access_count |-> <<>>, apps |-> <<>>, hours |-> {},
     total_events |-> 0, is_stable |-> FALSE, created |-> clock]

Profile(id) == Get(profiles, id, NewProfile)

\* _extract_entities: everyone the event names, or else its source; a request
\* is of its user
Entities(e) ==
    LET keys == IF e.kind = "request" THEN {"user_id"} ELSE {"user_id", "src_ip", "device_id"}
        named == {Get(e.payload, key, None) : key \in keys} \ {None}
    IN  IF named # {} THEN named ELSE {e.source}

Pushed(list, value) == LET all == Append(list, value) IN
                       IF Len(all) > Window THEN Tail(all) ELSE all

\* The list a name stands for
ListOf(profile, attr) ==
    CASE attr = "data_volume" -> profile.data_volume_gb
      [] attr = "lateral" -> profile.lateral_destinations
      [] attr = "after_hours" -> profile.after_hours_index
      [] attr = "sensitive" -> profile.sensitive_access_count

\* _update_stats: the attribute the list is not under is the empty list
StatsOf(profile, attr) == Get(profile, attr, <<>>)

UpdateStats(profile, attr) ==
    [profile EXCEPT !.is_stable = @ \/ /\ Len(StatsOf(profile, attr)) >= MinEvents
                                       /\ profile.total_events >= MinEvents]

AddDataVolume(profile, p) ==
    LET volume == Either(p, <<"unusual_data_volume_gb", "data_volume_gb">>)
    IN  IF volume = None THEN profile
        ELSE UpdateStats([profile EXCEPT !.data_volume_gb = Pushed(@, volume)], "data_volume")

\* Every event has one destination
AddLateral(profile, p) ==
    IF Either(p, <<"dst_ip", "destination">>) = None THEN profile
    ELSE UpdateStats([profile EXCEPT !.lateral_destinations = Pushed(@, 1)], "lateral")

AddApp(profile, app) == IF app = None THEN profile ELSE [profile EXCEPT !.apps = Pushed(@, app)]

\* Thousandths of the distance from business hours, 7 to 21
OffHours(hour) == IF hour < 7 THEN ((7 - hour) * 1000) \div 7 ELSE IF hour > 21 THEN ((hour - 21) * 1000) \div 3 ELSE 0

AddAfterHours(profile, hour) ==
    UpdateStats([profile EXCEPT !.after_hours_index = Pushed(@, OffHours(hour))], "after_hours")

AddSensitive(profile, resource) ==
    IF resource \notin SensitiveZones THEN profile
    ELSE UpdateStats([profile EXCEPT !.sensitive_access_count = Pushed(@, 1)], "sensitive")

Seen(profile, hour) == [profile EXCEPT !.hours = @ \union {hour}, !.total_events = @ + 1]

\* _update_profile_from_event and _update_profile_from_request
Updated(profile, e, hour) ==
    LET p == e.payload
        seen == Seen(profile, hour)
    IN  IF e.kind = "request"
        THEN AddAfterHours(AddSensitive(AddApp(seen, Get(p, "resource", None)), Get(p, "resource", None)), hour)
        ELSE LET app == Either(p, <<"application", "process_name", "signature">>)
                 place == Either(p, <<"resource", "zone", "dst_port">>)
             IN  AddSensitive(AddAfterHours(AddApp(AddLateral(AddDataVolume(seen, p), p), app), hour), place)

-----------------------------------------------------------------------------
\* The last value lies more than 2.5 standard deviations from the mean: with n
\* values of sum S and square sum Q, (n v - S)^2 > 6.25 (n Q - S^2).  No value
\* is an outlier of a list whose deviation is not known.
Outlier(profile, attr) ==
    LET list == ListOf(profile, attr)
        n == Len(list)
        S == SumFunction(list)
        Q == SumFunction([i \in 1..n |-> list[i] * list[i]])
    IN  /\ Len(StatsOf(profile, attr)) >= MinEvents
        /\ n * Q > S * S
        /\ 4 * (n * list[n] - S) * (n * list[n] - S) > 25 * (n * Q - S * S)

\* The application is less than a tenth of those used
RareApp(profile) ==
    LET apps == profile.apps
        n == Len(apps)
    IN  n > 3 /\ 10 * Cardinality({i \in 1..n : apps[i] = apps[n]}) < n

\* _check_anomalies.  The hour of the event is always in the profile by now,
\* and every other signal scores above 0.4; peers only add to it.
Anomalous(profile) ==
    /\ profile.is_stable
    /\ \/ \E attr \in {"data_volume", "lateral", "after_hours", "sensitive"} : Outlier(profile, attr)
       \/ RareApp(profile)

Judged(e, hour) == {id \in Entities(e) : Anomalous(Updated(Profile(id), e, hour))}

\* One anomaly for every entity that is judged so
Alerts(e, hour) ==
    LET ids == IF e.kind = "finding" THEN <<>> ELSE SetToSeq(Judged(e, hour))
    IN  [i \in DOMAIN ids |-> ThreatEvent("UEBAEngine", "anomalous_behavior", "high",
                                          [entity_id |-> ids[i], overall_anomaly_score |-> 600], e.depth + 1)]

Init == profiles = << >>

On(e, hour) ==
    profiles' = IF e.kind = "finding" THEN profiles
                ELSE [id \in DOMAIN profiles \union Entities(e) |->
                        IF id \in Entities(e) THEN Updated(Profile(id), e, hour) ELSE profiles[id]]

\* The cache drops a profile before _cleanup_loop, which looks for those not
\* seen for as long, can find it
Expire ==
    LET young == {id \in DOMAIN profiles : clock - profiles[id].created < ProfileLife}
    IN  profiles' = [id \in young |-> profiles[id]]
=============================================================================
