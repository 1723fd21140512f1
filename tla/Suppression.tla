----------------------------- MODULE Suppression -----------------------------
(***************************************************************************)
(* The alert suppression engine                                            *)
(* (agent/engines/alert_suppression_engine.py): verdicts of analysts, and   *)
(* rules for findings that were called false often enough.  Rules and       *)
(* verdicts live in caches that drop them a week after they were made,      *)
(* whatever happened since.  Nothing asks the engine before a finding goes  *)
(* on: a suppressed finding is marked in the audit trail only.              *)
(***************************************************************************)
EXTENDS BusEvents
LOCAL INSTANCE FiniteSetsExt

CONSTANTS
    Threshold,      \* AUTO_SUPPRESSION_THRESHOLD
    RuleLife        \* DEFAULT_SUPPRESSION_TTL and the life of both caches, in hours

\* Assumed by Engines.
SuppressionAssumption == Threshold \in Nat \ {0} /\ RuleLife \in Nat \ {0}

VARIABLES
    rules,          \* _suppression_rules: fingerprint -> rule
    verdicts,       \* _feedback_history: fingerprint -> verdicts
    audit,          \* _audit_trail
    clock           \* hours since the start

NoLimit == -1

Rule(expires, max) == [created |-> clock, expires |-> expires, count |-> 0, max |-> max]

\* _generate_fingerprint: the values of the last four keys, not their names
Fingerprint(e) ==
    LET p == e.payload
        custom == << Get(p, "zone", None), Get(p, "resource", None), Get(p, "dst_port", None), Get(p, "process_name", None) >>
    IN  << e.source, e.type, e.severity, Either(p, <<"user_id", "src_ip", "device_id">>),
           Either(p, <<"signature", "threat_type">>), SelectSeq(custom, LAMBDA value : value # None) >>

Applies(rule) == (rule.expires = NoLimit \/ clock < rule.expires) /\ (rule.max = NoLimit \/ rule.count < rule.max)

Suppressed(e) == Fingerprint(e) \in DOMAIN rules /\ Applies(rules[Fingerprint(e)])

Init ==
    /\ rules = << >>
    /\ verdicts = << >>
    /\ audit = <<>>

On(e) ==
    IF e.kind # "finding" THEN UNCHANGED <<rules, verdicts, audit>>
    ELSE /\ rules' = IF Suppressed(e) THEN [rules EXCEPT ![Fingerprint(e)].count = @ + 1] ELSE rules
         /\ audit' = Append(audit, [n |-> e.id, fingerprint |-> Fingerprint(e), suppressed |-> Suppressed(e)])
         /\ UNCHANGED verdicts

FalsePositives(f, list) == Cardinality({i \in DOMAIN list : list[i].verdict = "false_positive"})

\* _handle_false_positive: a rule there is is prolonged, which its cache ignores
WithRule(f, list) ==
    IF FalsePositives(f, list) < Threshold THEN rules
    ELSE IF f \in DOMAIN rules THEN [rules EXCEPT ![f].expires = clock + RuleLife]
    ELSE With(rules, f, Rule(clock + RuleLife, NoLimit))

\* record_feedback, a minute or more after the last one for the fingerprint
RecordFeedback(f, verdict) ==
    LET list == Append(Get(verdicts, f, <<>>), [verdict |-> verdict, at |-> clock])
    IN  /\ verdicts' = With(verdicts, f, list)
        /\ rules' = IF verdict = "false_positive" THEN WithRule(f, list) ELSE rules
        /\ UNCHANGED audit

\* add_suppression_rule: the count of a rule there is goes on
AddRule(f, hours, max) ==
    LET expires == IF hours = NoLimit THEN NoLimit ELSE clock + hours
    IN  /\ rules' = IF f \notin DOMAIN rules THEN With(rules, f, Rule(expires, max))
                    ELSE [rules EXCEPT ![f].expires = IF hours = NoLimit THEN @ ELSE expires,
                                       ![f].max = IF max = NoLimit THEN @ ELSE max]
        /\ UNCHANGED <<verdicts, audit>>

RemoveRule(f) ==
    /\ rules' = [g \in DOMAIN rules \ {f} |-> rules[g]]
    /\ UNCHANGED <<verdicts, audit>>

\* What the caches drop
Expire ==
    LET fresh == {f \in DOMAIN rules : clock - rules[f].created < RuleLife}
        heard == {f \in DOMAIN verdicts : clock - verdicts[f][1].at < RuleLife}
    IN  /\ rules' = [f \in fresh |-> rules[f]]
        /\ verdicts' = [f \in heard |-> verdicts[f]]
        /\ UNCHANGED audit
=============================================================================
