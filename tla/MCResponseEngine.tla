--------------------------- MODULE MCResponseEngine ---------------------------
(* What Gate 3, a detection engine and an operator may ask about one user,  *)
(* two addresses and the processes with the pids 4 to 7.                    *)
EXTENDS ResponseEngine, TLC

Event(payload, raw, meta) == [payload |-> payload, raw |-> raw, meta |-> meta, minutes |-> 1]

\* An event of a log: one name for everything.
Plain == Event([pid |-> 7, src_ip |-> "ip", user_id |-> "u", device_id |-> "d"], <<>>, <<>>)

\* What the ingestion API accepts, too: another name in the raw payload.
Mixed == Event([ip |-> "ip", user_id |-> "unknown"], [src_ip |-> "ip2", user_id |-> "u"], <<>>)

SomeDecisions ==
  {[gate |-> 3, verdict |-> "block", event |-> Plain, actions |-> a] :
     a \in {<<"grant_temp_privilege", "schedule_privilege_revocation">>,
            <<"isolate_asset", "escalate_soc", "notify_security">>}}
  \cup {[gate |-> 3, verdict |-> "block", event |-> e,
         actions |-> <<"block_access", "quarantine_device", "revoke_identity">>] :
          e \in {Mixed, Event(<<>>, <<>>, <<>>)}}
  \cup {[gate |-> 2, verdict |-> "block", event |-> Plain, actions |-> <<"revoke_identity">>]}

\* With a pid in its metadata, or none there: CyberThreatAgent hands the payload
\* on as metadata["raw_payload"], where the engine does not look.
SomeFindings ==
  {[severity |-> "high", threat |-> t, sure |-> TRUE, event |-> Event(<<>>, <<>>, m)] :
     t \in {"ransomware_prelude", "anomalous_behavior"}, m \in {[pid |-> 7], <<>>}}

SomeCommands ==
  {[action |-> "terminate_process", target |-> "p", params |-> [pid |-> p], minutes |-> 1] : p \in {None, 4, 6}}
  \cup {[action |-> "grant_temp_privilege", target |-> "u", params |-> <<>>, minutes |-> n] : n \in {1, 3}}
  \cup {[action |-> a, target |-> "u", params |-> <<>>, minutes |-> 1] :
          a \in {"revoke_identity", "block_access", "schedule_privilege_revocation"}}

SomePids == {4, 5, 6, 7}
SomeBoot == 4 :> "lsass.exe" @@ [pid \in {5, 6, 7} |-> "tool.exe"]
===============================================================================
