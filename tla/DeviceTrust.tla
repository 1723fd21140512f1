----------------------------- MODULE DeviceTrust -----------------------------
(***************************************************************************)
(* The device trust engine (agent/engines/device_trust_engine.py): records  *)
(* of registered devices, those that wait for approval, and the set of      *)
(* quarantined devices, which is kept apart from the records.  The          *)
(* fingerprint is that of the machine the agent runs on and does not change *)
(* while it runs; a record is less than a day old.                          *)
(***************************************************************************)
EXTENDS BusEvents

CONSTANTS
    MaxAnomalies,   \* max_anomalies_before_quarantine
    Confidence      \* confidence of the fingerprint, in thousandths

\* Assumed by Engines.
DeviceTrustAssumption == MaxAnomalies \in Nat \ {0} /\ Confidence \in 0..1000

VARIABLES
    devices,        \* _trusted_devices: device -> record
    pending,        \* _pending_devices
    quarantined     \* _quarantined_devices

vars == <<devices, pending, quarantined>>

\* 40% health, 30% fingerprint, 20% behaviour, 10% age
OverallTrust(record) ==
    LET behavior == Clamp(1000 - 100 * record.anomaly_count)
    IN  Clamp((40 * record.health_score + 30 * Confidence + 20 * behavior + 10 * 700) \div 100)

\* _recalculate_trust sets is_trusted whatever it was
Recalculated(record) ==
    LET overall == OverallTrust(record)
    IN  [record EXCEPT !.trust_score = overall, !.is_trusted = overall >= 400]

Registered(d) == d \in DOMAIN devices

IsDeviceTrusted(d) == Registered(d) /\ devices[d].is_trusted /\ ~devices[d].is_quarantined
IsDeviceQuarantined(d) == d \in quarantined

\* verify_device: the fingerprint it compares with is that of this machine
Verified(d) == IsDeviceTrusted(d) /\ ~IsDeviceQuarantined(d)

\* A finding's device, or the one that a threat event names in one of two ways
DeviceOf(e) == IF e.kind = "threat" THEN Either(e.payload, <<"device_id", "device_info">>) ELSE Get(e.payload, "device_id", None)

-----------------------------------------------------------------------------
(* Quarantine: announced as a failure of the device's health. *)

\* Fault: a quarantine that only the set of quarantined devices knows of
LockedInSetOnly(record) == [record EXCEPT !.is_trusted = FALSE, !.trust_score = 0]

Locked(record) == [record EXCEPT !.is_quarantined = TRUE, !.is_trusted = FALSE, !.trust_score = 0]

Announcement(d, depth) ==
    << ThreatEvent("DeviceTrustEngine", "device_health_fail", "critical",
                   [device_id |-> d, action |-> "quarantine"], depth) >>

\* A critical intrusion counts as an anomaly of the device it names
Intruding(e) == e.kind = "threat" /\ e.type = "network_intrusion" /\ e.severity = "critical" /\ Registered(DeviceOf(e))

\* A critical finding with a confidence above 0.7 is a compromise
Compromising(e) == e.kind = "finding" /\ e.severity = "critical" /\ e.confidence > 700

Quarantines(e) ==
    /\ DeviceOf(e) # None
    /\ DeviceOf(e) \notin quarantined
    /\ \/ Intruding(e) /\ devices[DeviceOf(e)].anomaly_count + 1 >= MaxAnomalies
       \/ Compromising(e)

Alerts(e) == IF Quarantines(e) THEN Announcement(DeviceOf(e), e.depth + 1) ELSE <<>>

\* What the event says of the record.  The announcement of a quarantine is a
\* health failure that the engine hears itself.
AfterEvent(record, e) ==
    CASE e.kind = "finding" -> record
      [] e.type = "device_health_fail" -> Recalculated([record EXCEPT !.health_score = Clamp(@ - 100)])
      [] Intruding(e) -> [record EXCEPT !.anomaly_count = @ + 1]
      [] OTHER -> record

\* A finding ends with a recalculation, after the quarantine: of the lower
\* trust_score nothing is left, and is_trusted is set again.
Settled(record, e) == IF e.kind = "finding" THEN Recalculated(record) ELSE record

On(e) ==
    LET d == DeviceOf(e) IN
    /\ quarantined' = IF Quarantines(e) THEN quarantined \union {d} ELSE quarantined
    /\ devices' = IF e.kind = "request" \/ d = None \/ ~Registered(d) THEN devices
                  ELSE [devices EXCEPT ![d] = Settled(IF Quarantines(e) THEN Locked(AfterEvent(@, e)) ELSE AfterEvent(@, e), e)]
    /\ UNCHANGED pending

-----------------------------------------------------------------------------
(* The interface for administrators.  A health report is a score of the      *)
(* seven checks and whether the requirements are met.                        *)

NewRecord(health) ==
    Recalculated([health_score |-> health, trust_score |-> 0, anomaly_count |-> 0,
                  is_trusted |-> FALSE, is_quarantined |-> FALSE])

\* register_device returns the record there is
RegisterDevice(d, health) ==
    /\ devices' = IF Registered(d) THEN devices ELSE With(devices, d, NewRecord(health))
    /\ pending' = IF Registered(d) THEN pending ELSE pending \union {d}
    /\ UNCHANGED quarantined

ApproveDevice(d) ==
    /\ devices' = IF d \in pending /\ Registered(d) THEN [devices EXCEPT ![d] = Recalculated(@)] ELSE devices
    /\ pending' = pending \ {d}
    /\ UNCHANGED quarantined

RejectDevice(d) ==
    /\ devices' = [k \in DOMAIN devices \ {d} |-> devices[k]]
    /\ pending' = pending \ {d}
    /\ UNCHANGED quarantined

Sick(d, health) == Registered(d) /\ health < 400 /\ d \notin quarantined

HealthAlerts(d, health) == IF Sick(d, health) THEN Announcement(d, 0) ELSE <<>>

UpdateDeviceHealth(d, health) ==
    LET record == Recalculated([devices[d] EXCEPT !.health_score = health])
    IN  /\ devices' = IF ~Registered(d) THEN devices
                      ELSE [devices EXCEPT ![d] = IF Sick(d, health) THEN Locked(record) ELSE record]
        /\ quarantined' = IF Sick(d, health) THEN quarantined \union {d} ELSE quarantined
        /\ UNCHANGED pending

UnquarantineDevice(d) ==
    LET freed(record) == Recalculated([record EXCEPT !.is_quarantined = FALSE, !.anomaly_count = 0])
    IN  /\ devices' = IF d \in quarantined /\ Registered(d) THEN [devices EXCEPT ![d] = freed(@)] ELSE devices
        /\ quarantined' = quarantined \ {d}
        /\ UNCHANGED pending

Init ==
    /\ devices = << >>
    /\ pending = {}
    /\ quarantined = {}
=============================================================================
