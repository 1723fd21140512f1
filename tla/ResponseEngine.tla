---------------------------- MODULE ResponseEngine ----------------------------
(***************************************************************************)
(* agent/response/real_response_engine.py.  Gate 3 decisions, findings and *)
(* remote commands become tasks: a task announces each of its actions with *)
(* a PENDING record, runs the action's handler and publishes the record    *)
(* with its outcome, going on after a failure.  Handlers run in one piece  *)
(* (subprocess.run and psutil block the event loop); tasks interleave      *)
(* where a record is published.  A privilege revocation that has been      *)
(* scheduled is a timer of its own.                                        *)
(*                                                                         *)
(* A kill looks its process up twice, to check it and to end it: the event *)
(* loop is blocked meanwhile, the operating system is not, and the pid may *)
(* have become another program's.                                          *)
(*                                                                         *)
(* An event has the three dictionaries in which names are looked for: the  *)
(* payload, the raw payload within it and the metadata around it.  The     *)
(* record and the handler of an action do not look in the same order.      *)
(***************************************************************************)
EXTENDS Integers, Sequences, FiniteSets, SequencesExt

CONSTANTS
  Decisions,       \* GateDecisions: [gate, verdict, actions, event]
  Findings,        \* AgentFindings: [severity, threat, sure, event]
  Commands,        \* what the command channel passes on: [action, target, params, minutes]
  Pids, SelfPid,
  ParentPid,       \* or None: it could not be read
  Programs,        \* names of programs
  Boot,            \* the program behind each pid when the agent starts, or None
  Protected,       \* _PROTECTED_PROCESS_NAMES
  Addresses,       \* what netsh takes for an address
  Users,           \* user ids that match _USER_ID_PATTERN
  Accounts,        \* those the operating system knows
  MaxTasks, MaxTime, MaxCrashes,   \* bounds
  None

ASSUME ResponseAssumption ==
  /\ Pids \subseteq Nat \ {0} /\ SelfPid \in Pids /\ ParentPid \in Pids \cup {None}
  /\ Boot \in [Pids -> Programs \cup {None}]
  /\ Protected \subseteq Programs /\ None \notin Programs
  /\ Accounts \subseteq Users /\ None \notin Users /\ {None, "unknown"} \cap Addresses = {}
  /\ None \notin Int \cup {"pending", "failed", "success", "active", "unknown"}
  /\ \A request \in {d.event : d \in Decisions} \cup {f.event : f \in Findings} \cup Commands :
       request.minutes \in Nat \ {0}
  /\ MaxTasks \in Nat /\ MaxTime \in Nat /\ MaxCrashes \in Nat

VARIABLES
  tasks,      \* [todo, event, record]: handlings of one decision, finding or command
  grants,     \* _active_jit_grants: a user's expires_at, or None
  timers,     \* _revoke_privilege_at tasks: [user, expiry]
  dryRun,     \* _dry_run
  busy,       \* the kill that has been checked, [task, pid, read, reused], or None
  program,    \* the program behind a pid, or None
  blocked,    \* addresses with a firewall rule
  disabled,   \* accounts that net user made inactive
  admins,     \* members of the Administrators group
  orphans,    \* admins whose removal failed or whose grant a crash forgot (history)
  clock, crashes

osVars == <<program, blocked, disabled, admins>>
grantVars == <<grants, timers, orphans>>
vars == <<tasks, grantVars, dryRun, busy, osVars, clock, crashes>>

AutoThreats == {"ransomware_prelude", "network_intrusion", "insider_threat", "insider_threat_converged",
                "memory_threat", "correlated_attack", "process_create"}

\* Handlers that write a log line and nothing else.
Quiet == {"allow_access", "pseudo_lock", "notify_security", "challenge_mfa",
          "revoke_session", "force_logout", "step_up_auth"}
Handled == Quiet \cup {"terminate_process", "isolate_asset", "block_access", "quarantine_device",
                       "revoke_identity", "grant_temp_privilege", "schedule_privilege_revocation"}

FinalStatus(action) ==
  IF action \in {"pseudo_lock", "grant_temp_privilege"} THEN "active" ELSE "success"

Init ==
  /\ tasks = <<>>
  /\ grants = [u \in Users |-> None] /\ timers = {} /\ orphans = {}
  /\ dryRun \in BOOLEAN /\ busy = None
  /\ program = Boot
  /\ blocked = {} /\ disabled = {} /\ admins = {}
  /\ clock = 0 /\ crashes = 0

-----------------------------------------------------------------------------
(* What an event names. *)

Get(dictionary, key) == IF key \in DOMAIN dictionary THEN dictionary[key] ELSE None

\* Python's a or b.
OrElse(a, b) == IF a = None THEN b ELSE a

Known(value) == IF value = "unknown" THEN None ELSE value

Pid(e) == OrElse(Get(e.payload, "pid"), OrElse(Get(e.raw, "pid"), Get(e.meta, "pid")))

UserId(e) == OrElse(Get(e.payload, "user_id"), OrElse(Get(e.raw, "user_id"), Get(e.meta, "user_id")))

Pick(e, key) ==
  OrElse(Known(Get(e.payload, key)), OrElse(Known(Get(e.raw, key)), Known(Get(e.meta, key))))

PickAddress(e) == OrElse(Pick(e, "src_ip"), OrElse(Pick(e, "ip"), Pick(e, "remote_ip")))

\* What the record of an action names as its target; None: the event's own id.
Target(action, e) ==
  CASE action = "terminate_process" -> Pid(e)
    [] action \in {"isolate_asset", "block_access", "allow_access"} -> PickAddress(e)
    [] action = "quarantine_device" ->
         OrElse(Pick(e, "device_id"), OrElse(Get(e.payload, "device_info"), Get(e.raw, "device_info")))
    [] action = "pseudo_lock" -> OrElse(UserId(e), OrElse(Pick(e, "src_ip"), Pick(e, "ip")))
    [] action = "notify_security" -> None
    [] OTHER -> UserId(e)

\* What the handlers look up for themselves.
IsolatedAddress(e) == OrElse(Known(Get(e.payload, "src_ip")), Get(e.raw, "src_ip"))
BlockedAddress(e) == OrElse(Get(e.payload, "src_ip"), OrElse(Get(e.payload, "ip"), Get(e.raw, "src_ip")))
LockedUser(e) == OrElse(Known(Get(e.payload, "user_id")), Get(e.raw, "user_id"))
QuarantinedDevice(e) ==
  OrElse(Get(e.payload, "device_id"), OrElse(Get(e.payload, "device_info"), Get(e.raw, "device_id")))

\* A process whose name cannot be read passes for an ordinary one.
KillAllowed(pid, read) ==
  /\ pid \in Pids /\ pid > 4 /\ pid \notin {SelfPid, ParentPid}
  /\ program[pid] # None
  /\ read => program[pid] \notin Protected

-----------------------------------------------------------------------------
NoRecord == [action |-> None, target |-> None, status |-> None]

Enqueue(actions, event) ==
  /\ Len(tasks) < MaxTasks
  /\ tasks' = Append(tasks, [todo |-> SelectSeq(actions, LAMBDA a : a \in Handled),
                             event |-> event, record |-> NoRecord])
  /\ UNCHANGED <<grantVars, dryRun, busy, osVars, clock, crashes>>

OnDecision(d) == d.gate = 3 /\ d.verdict = "block" /\ Enqueue(d.actions, d.event)

\* An inspection that fails refuses the kill.
OnFinding(f) ==
  /\ f.severity \in {"high", "critical"} /\ f.threat \in AutoThreats /\ f.sure
  /\ \E read \in BOOLEAN : KillAllowed(Pid(f.event), read)
  /\ Enqueue(<<"terminate_process">>, f.event)

\* The payload of a command: its parameters, and its target, whatever that
\* names, for an address, a user or a device that is not among them.
RemotePayload(c) ==
  [key \in {"pid", "src_ip", "user_id", "device_id"} |->
     IF key = "pid" THEN Get(c.params, key) ELSE OrElse(Get(c.params, key), c.target)]

ExecuteRemote(c) ==
  /\ c.action \in Handled
  /\ Enqueue(<<c.action>>, [payload |-> RemotePayload(c), raw |-> <<>>, meta |-> c.params,
                            minutes |-> c.minutes])

Announce(i) ==
  /\ tasks[i].record.status # "pending" /\ tasks[i].todo # <<>>
  /\ LET action == Head(tasks[i].todo) IN
     tasks' = [tasks EXCEPT ![i].todo = Tail(@),
                 ![i].record = [action |-> action, target |-> Target(action, tasks[i].event),
                                status |-> "pending"]]
  /\ UNCHANGED <<grantVars, dryRun, busy, osVars, clock, crashes>>

Runs(i, actions) == tasks[i].record.status = "pending" /\ tasks[i].record.action \in actions

Ends(i, ok) ==
  /\ tasks' = [tasks EXCEPT ![i].record.status =
                 IF ok THEN FinalStatus(tasks[i].record.action) ELSE "failed"]
  /\ UNCHANGED <<dryRun, clock, crashes>>

\* A command of the operating system: a timeout fails whether or not it was applied.
Outcomes(possible) == {o \in [applied : BOOLEAN, ok : BOOLEAN] : /\ o.ok => o.applied
                                                                 /\ o.applied => possible}

Log(i) ==
  /\ Runs(i, Quiet)
  /\ Ends(i, TRUE) /\ UNCHANGED <<grantVars, busy, osVars>>

\* It writes a log line, too, but wants a device.
QuarantineDevice(i) ==
  /\ Runs(i, {"quarantine_device"})
  /\ Ends(i, QuarantinedDevice(tasks[i].event) # None) /\ UNCHANGED <<grantVars, busy, osVars>>

\* A firewall rule; nothing ever removes one.
AddRule(i, ip) ==
  /\ \E o \in Outcomes(ip \in Addresses) :
       /\ blocked' = blocked \cup (IF o.applied THEN {ip} ELSE {})
       /\ Ends(i, o.ok)
  /\ UNCHANGED <<grantVars, busy, program, disabled, admins>>

IsolateAsset(i) == Runs(i, {"isolate_asset"}) /\ AddRule(i, IsolatedAddress(tasks[i].event))

BlockAccess(i) == Runs(i, {"block_access"}) /\ AddRule(i, BlockedAddress(tasks[i].event))

LockUserAccount(i) ==
  /\ Runs(i, {"revoke_identity"})
  /\ LET user == LockedUser(tasks[i].event) IN
     \E o \in Outcomes(user \in Accounts) :
       /\ disabled' = disabled \cup (IF o.applied THEN {user} ELSE {})
       /\ Ends(i, o.ok)
  /\ UNCHANGED <<grantVars, busy, program, blocked, admins>>

\* There is no pid, the kill is not allowed, or the process cannot be inspected.
RefuseKill(i) ==
  /\ Runs(i, {"terminate_process"})
  /\ Ends(i, FALSE) /\ UNCHANGED <<grantVars, busy, osVars>>

\* Fault: the check of the finding is enough.
CheckKillNever(i) ==
  /\ Runs(i, {"terminate_process"}) /\ Pid(tasks[i].event) \in Pids
  /\ IF dryRun
     THEN Ends(i, TRUE) /\ UNCHANGED busy
     ELSE /\ busy' = [task |-> i, pid |-> Pid(tasks[i].event), read |-> TRUE, reused |-> FALSE]
          /\ UNCHANGED <<tasks, dryRun, clock, crashes>>
  /\ UNCHANGED <<grantVars, osVars>>

CheckKill(i) ==
  /\ Runs(i, {"terminate_process"})
  /\ \E read \in BOOLEAN :
       /\ KillAllowed(Pid(tasks[i].event), read)
       /\ IF dryRun
          THEN Ends(i, TRUE) /\ UNCHANGED busy
          ELSE /\ busy' = [task |-> i, pid |-> Pid(tasks[i].event), read |-> read, reused |-> FALSE]
               /\ UNCHANGED <<tasks, dryRun, clock, crashes>>
  /\ UNCHANGED <<grantVars, osVars>>

\* Fault: nobody asks whether the process still runs.
KillHopefully ==
  /\ program' \in {program, [program EXCEPT ![busy.pid] = None]}
  /\ Ends(busy.task, TRUE)
  /\ busy' = None /\ UNCHANGED <<grantVars, blocked, disabled, admins>>

\* terminate(), wait two seconds, kill(), wait two more: of whatever has the pid now.
Kill ==
  /\ \E o \in Outcomes(program[busy.pid] # None) :
       /\ program' = IF o.applied THEN [program EXCEPT ![busy.pid] = None] ELSE program
       /\ Ends(busy.task, o.ok)
  /\ busy' = None /\ UNCHANGED <<grantVars, blocked, disabled, admins>>

\* Fault: the grant is noted when the command has succeeded.
GrantNotedAfterwards(i) ==
  /\ Runs(i, {"grant_temp_privilege"})
  /\ LET user == UserId(tasks[i].event) IN
     IF user \notin Users
     THEN Ends(i, FALSE) /\ UNCHANGED <<grantVars, busy, osVars>>
     ELSE \E o \in Outcomes(user \in Accounts \ admins) :
            /\ grants' = IF o.ok THEN [grants EXCEPT ![user] = clock + tasks[i].event.minutes] ELSE grants
            /\ admins' = admins \cup (IF o.applied THEN {user} ELSE {})
            /\ orphans' = orphans \ {user}
            /\ Ends(i, o.ok)
            /\ UNCHANGED <<timers, busy, program, blocked, disabled>>

\* The grant is on the list before the command that gives it, which fails for a
\* member; the new expiry replaces that of an earlier grant.
Grant(i) ==
  /\ Runs(i, {"grant_temp_privilege"})
  /\ LET user == UserId(tasks[i].event) IN
     IF user \notin Users
     THEN Ends(i, FALSE) /\ UNCHANGED <<grantVars, busy, osVars>>
     ELSE /\ grants' = [grants EXCEPT ![user] = clock + tasks[i].event.minutes]
          /\ \E o \in Outcomes(user \in Accounts \ admins) :
               /\ admins' = admins \cup (IF o.applied THEN {user} ELSE {})
               /\ Ends(i, o.ok)
          /\ orphans' = orphans \ {user}
          /\ UNCHANGED <<timers, busy, program, blocked, disabled>>

\* Without a user or a grant the handler returns as if it had scheduled one.
ScheduleRevocation(i) ==
  /\ Runs(i, {"schedule_privilege_revocation"})
  /\ LET user == UserId(tasks[i].event) IN
     timers' = IF user \in Users /\ grants[user] # None
               THEN timers \cup {[user |-> user, expiry |-> grants[user]]} ELSE timers
  /\ Ends(i, TRUE) /\ UNCHANGED <<grants, orphans, busy, osVars>>

\* Fault: a timer leaves a grant alone that is not the one it was made for.
RevokeOwnGrant(t) ==
  /\ t.expiry <= clock
  /\ timers' = timers \ {t}
  /\ IF grants[t.user] # t.expiry
     THEN UNCHANGED <<grants, orphans, admins>>
     ELSE /\ grants' = [grants EXCEPT ![t.user] = None]
          /\ admins' = admins \ {t.user}
          /\ UNCHANGED orphans
  /\ UNCHANGED <<tasks, dryRun, busy, program, blocked, disabled, clock, crashes>>

\* The user's entry goes, whichever grant it is now and whether or not the command worked.
RevokePrivilege(t) ==
  /\ t.expiry <= clock
  /\ timers' = timers \ {t}
  /\ grants' = [grants EXCEPT ![t.user] = None]
  /\ \E o \in Outcomes(t.user \in admins) :
       /\ admins' = IF o.applied THEN admins \ {t.user} ELSE admins
       /\ orphans' = IF o.applied THEN orphans \ {t.user} ELSE orphans \cup ({t.user} \cap admins)
  /\ UNCHANGED <<tasks, dryRun, busy, program, blocked, disabled, clock, crashes>>

-----------------------------------------------------------------------------
(* The operating system ends programs and reuses their pids; nothing here   *)
(* depends on what becomes of a pid that is refused as such.                *)

Exit(pid) ==
  /\ pid > 4 /\ pid \notin {SelfPid, ParentPid} /\ program[pid] # None
  /\ program' = [program EXCEPT ![pid] = None]
  /\ UNCHANGED <<tasks, grantVars, dryRun, busy, blocked, disabled, admins, clock, crashes>>

Spawn(pid, name) ==
  /\ program[pid] = None
  /\ program' = [program EXCEPT ![pid] = name]
  /\ busy' = IF busy # None /\ pid = busy.pid THEN [busy EXCEPT !.reused = TRUE] ELSE busy
  /\ UNCHANGED <<tasks, grantVars, dryRun, blocked, disabled, admins, clock, crashes>>

Tick ==
  /\ clock < MaxTime \/ \E t \in timers : t.expiry > clock
  /\ clock' = clock + 1
  /\ UNCHANGED <<tasks, grantVars, dryRun, busy, osVars, crashes>>

\* The list of grants and the timers are in memory only.
Crash ==
  /\ crashes < MaxCrashes /\ crashes' = crashes + 1
  /\ tasks' = [i \in DOMAIN tasks |-> [todo |-> <<>>, event |-> tasks[i].event, record |-> NoRecord]]
  /\ busy' = None
  /\ grants' = [u \in Users |-> None] /\ timers' = {}
  /\ orphans' = orphans \cup admins
  /\ UNCHANGED <<dryRun, osVars, clock>>

\* The bounds are reached and nothing is left to do.
Over ==
  /\ Len(tasks) = MaxTasks /\ timers = {} /\ clock >= MaxTime /\ busy = None
  /\ \A i \in DOMAIN tasks : tasks[i].todo = <<>> /\ tasks[i].record.status # "pending"
  /\ UNCHANGED vars

Handle(i) ==
  \/ Log(i) \/ QuarantineDevice(i) \/ IsolateAsset(i) \/ BlockAccess(i)
  \/ LockUserAccount(i) \/ RefuseKill(i) \/ CheckKill(i) \/ Grant(i) \/ ScheduleRevocation(i)

\* The event loop takes a step, unless a kill blocks it.
Loop ==
  /\ busy = None
  /\ \/ \E d \in Decisions : OnDecision(d)
     \/ \E f \in Findings : OnFinding(f)
     \/ \E c \in Commands : ExecuteRemote(c)
     \/ \E i \in DOMAIN tasks : Announce(i) \/ Handle(i)
     \/ \E t \in timers : RevokePrivilege(t)

Next ==
  \/ Loop
  \/ busy # None /\ Kill
  \/ \E pid \in Pids : Exit(pid) \/ \E name \in Programs : Spawn(pid, name)
  \/ Tick \/ Crash \/ Over

\* A kill returns, and a sleeping task is woken once its time has come.
Spec ==
  /\ Init /\ [][Next]_vars
  /\ WF_vars(Tick) /\ WF_vars(busy # None /\ Kill)
  /\ WF_vars(busy = None /\ \E t \in timers : RevokePrivilege(t))

-----------------------------------------------------------------------------
(* What a kill ends has no reserved pid and is neither the agent nor its    *)
(* parent, whatever happened since a decision, a finding or a command named *)
(* the pid; and it is on the protect list only if its name could not be     *)
(* read or the pid changed hands between the check and the kill.            *)
NoProtectedKill ==
  [][\A pid \in Pids :
       busy # None /\ busy' = None /\ program[pid] # None /\ program'[pid] = None =>
         /\ pid > 4 /\ pid \notin {SelfPid, ParentPid}
         /\ program[pid] \in Protected => ~busy.read \/ busy.reused]_vars

\* Actions that do more than write a log line, and whom or what they act on.
Effective == {"terminate_process", "isolate_asset", "block_access", "revoke_identity",
              "grant_temp_privilege", "schedule_privilege_revocation"}
ActsOn(action, e) ==
  CASE action = "terminate_process" -> Pid(e)
    [] action = "isolate_asset" -> IsolatedAddress(e)
    [] action = "block_access" -> BlockedAddress(e)
    [] action = "revoke_identity" -> LockedUser(e)
    [] OTHER -> UserId(e)

Done(action, target) ==
  CASE action = "terminate_process" -> dryRun \/ program[target] = None
    [] action \in {"isolate_asset", "block_access"} -> target \in blocked
    [] action = "revoke_identity" -> target \in disabled
    [] action = "grant_temp_privilege" -> target \in admins /\ grants[target] > clock
    [] OTHER -> \E t \in timers : t.user = target /\ t.expiry = grants[target]

\* An event names one user, and one address besides "unknown".
Dictionaries(e) == {e.payload, e.raw, e.meta}
OneUser(e) == \A d1, d2 \in Dictionaries(e) :
  None \in {Get(d1, "user_id"), Get(d2, "user_id")} \/ Get(d1, "user_id") = Get(d2, "user_id")
OneAddress(e) == \A d1, d2 \in Dictionaries(e), k1, k2 \in {"src_ip", "ip", "remote_ip"} :
  {Get(d1, k1), Get(d2, k2)} \cap {None, "unknown"} # {} \/ Get(d1, k1) = Get(d2, k2)

Idle(i) ==
  /\ tasks[i].record.action = "schedule_privilege_revocation"
  /\ LET user == UserId(tasks[i].event) IN user \in Users => grants[user] = None

Succeeds(i) ==
  /\ tasks[i].record.status = "pending" /\ tasks'[i].record.status \in {"success", "active"}
  /\ tasks[i].record.action \in Effective

ReportedTruly(i) ==
  LET action == tasks[i].record.action
      e == tasks[i].event
  IN /\ Idle(i) \/ Done(action, ActsOn(action, e))'
     /\ OneUser(e) /\ OneAddress(e) => tasks[i].record.target = ActsOn(action, e)

(* A record is published as a success only when what the handler looked up  *)
(* is killed, blocked, disabled, privileged or scheduled to lose its        *)
(* privilege, except that a revocation without a grant succeeds idly; and   *)
(* the record, made before by other rules, names the same target unless the *)
(* event names two.                                                         *)
SuccessMeansDone == [][\A i \in DOMAIN tasks : Succeeds(i) => ReportedTruly(i)]_vars

(* The list of grants is complete: it holds every administrator the engine  *)
(* made, also after a timeout, unless the engine tried to remove him and    *)
(* failed, or has been restarted.                                           *)
GrantsAreComplete == \A u \in admins : grants[u] # None \/ u \in orphans

(* A revocation that was scheduled happens, or is known to have failed,     *)
(* however often the user is granted the privilege again meanwhile.         *)
ScheduledPrivilegesEnd ==
  \A u \in Users : (\E t \in timers : t.user = u) ~> (u \notin admins \/ u \in orphans)
===============================================================================
