------------------------- MODULE ResponseEngine_proofs -------------------------
(***************************************************************************)
(* Proofs about ResponseEngine for every set of decisions, findings and    *)
(* commands, of processes, users and addresses, and every number of tasks  *)
(* and crashes; and about ActionFeed, which takes the records the engine   *)
(* publishes to the dashboard.                                             *)
(***************************************************************************)
EXTENDS ResponseEngine, ActionFeed, PseudoLock, WellFoundedInduction, TLAPS

\* A sequence, whatever it holds.
IsSeq(s) == s \in Seq({s[i] : i \in DOMAIN s})

\* The fields of a task; SelectSeq says nothing of what is in todo.
IsTask(t) ==
  /\ t = [todo |-> t.todo, event |-> t.event, record |-> t.record]
  /\ t.record = [action |-> t.record.action, target |-> t.record.target, status |-> t.record.status]

TypeOK ==
  /\ IsSeq(tasks) /\ \A i \in DOMAIN tasks : IsTask(tasks[i])
  /\ grants \in [Users -> Nat \cup {None}]
  /\ timers \subseteq [user : Users, expiry : Nat \cup {None}]
  /\ program \in [Pids -> Programs \cup {None}]
  /\ admins \subseteq Users
  /\ clock \in Nat

\* An event asks for a positive time, and an announced record names the
\* target that its handler will look up again.
Announced ==
  \A i \in DOMAIN tasks :
    /\ tasks[i].event.minutes \in Nat \ {0}
    /\ tasks[i].record.status = "pending" =>
         tasks[i].record.target = Target(tasks[i].record.action, tasks[i].event)

\* A kill that has been checked is that of a task that waits for it, and its
\* pid is not one that is refused; the program behind it is the one that was
\* inspected, or the pid has been taken by another since.
Checked ==
  busy # None =>
    /\ busy \in [task : DOMAIN tasks, pid : Pids, read : BOOLEAN, reused : BOOLEAN]
    /\ tasks[busy.task].record.action = "terminate_process"
    /\ Pid(tasks[busy.task].event) = busy.pid
    /\ tasks[busy.task].record.status = "pending"
    /\ busy.pid > 4 /\ busy.pid \notin {SelfPid, ParentPid}
    /\ busy.read => busy.reused \/ program[busy.pid] \notin Protected

IInv == TypeOK /\ Announced /\ Checked /\ GrantsAreComplete

\* The properties of a step.
Spared ==
  \A pid \in Pids :
    busy # None /\ busy' = None /\ program[pid] # None /\ program'[pid] = None =>
      /\ pid > 4 /\ pid \notin {SelfPid, ParentPid}
      /\ program[pid] \in Protected => ~busy.read \/ busy.reused
Succeeded == \A i \in DOMAIN tasks : Succeeds(i) => ReportedTruly(i)

-----------------------------------------------------------------------------
\* What is a sequence of something is a sequence.
LEMMA Sequences ==
  ASSUME NEW S, NEW s \in Seq(S)
  PROVE  IsSeq(s)
<1> DEFINE R == {s[i] : i \in 1..Len(s)}
<1>1. Len(s) \in Nat /\ DOMAIN s = 1..Len(s) /\ s \in [1..Len(s) -> S]
  OBVIOUS
<1>2. \A i \in 1..Len(s) : s[i] \in R
  OBVIOUS
<1> HIDE DEF R
<1>3. s \in [1..Len(s) -> R]
  BY <1>1, <1>2
<1>4. s \in Seq(R)
  BY <1>1, <1>3
<1>5. QED
  BY <1>1, <1>4 DEF IsSeq, R

\* One more task.
LEMMA Appended ==
  ASSUME IsSeq(tasks), NEW t, tasks' = Append(tasks, t)
  PROVE  /\ IsSeq(tasks')
         /\ DOMAIN tasks' = DOMAIN tasks \cup {Len(tasks) + 1}
         /\ Len(tasks) + 1 \notin DOMAIN tasks
         /\ tasks'[Len(tasks) + 1] = t
         /\ \A i \in DOMAIN tasks : tasks'[i] = tasks[i]
<1> DEFINE S == {tasks[i] : i \in DOMAIN tasks} \cup {t}
<1>1. tasks \in Seq(S)
  <2>1. \A i \in DOMAIN tasks : tasks[i] \in S
    OBVIOUS
  <2>2. tasks \in Seq({tasks[i] : i \in DOMAIN tasks})
    BY DEF IsSeq
  <2> HIDE DEF S
  <2>3. QED
    BY <2>1, <2>2
<1>2. t \in S
  OBVIOUS
<1> HIDE DEF S
<1>3. /\ tasks' \in Seq(S) /\ Len(tasks') = Len(tasks) + 1 /\ Len(tasks) \in Nat
      /\ DOMAIN tasks = 1..Len(tasks) /\ DOMAIN tasks' = 1..(Len(tasks) + 1)
  BY <1>1, <1>2
<1>5. IsSeq(tasks')
  BY <1>3, Sequences
<1>6. tasks'[Len(tasks) + 1] = t /\ \A i \in DOMAIN tasks : tasks'[i] = tasks[i]
  BY <1>1, <1>2, <1>3
<1>7. QED
  BY <1>3, <1>5, <1>6

\* One task in place of another.
LEMMA Replaced ==
  ASSUME IsSeq(tasks), NEW i \in DOMAIN tasks, NEW t, tasks' = [tasks EXCEPT ![i] = t]
  PROVE  /\ IsSeq(tasks')
         /\ DOMAIN tasks' = DOMAIN tasks
         /\ tasks'[i] = t
         /\ \A j \in DOMAIN tasks : j # i => tasks'[j] = tasks[j]
<1>1. Len(tasks) \in Nat /\ DOMAIN tasks = 1..Len(tasks)
  BY DEF IsSeq
<1> DEFINE S == {tasks[j] : j \in DOMAIN tasks} \cup {t}
<1>2. tasks' \in Seq(S)
  <2>1. tasks \in Seq({tasks[j] : j \in DOMAIN tasks}) /\ \A j \in DOMAIN tasks : tasks[j] \in S
    BY DEF IsSeq
  <2>2. t \in S
    OBVIOUS
  <2> HIDE DEF S
  <2>3. QED
    BY <2>1, <2>2
<1> HIDE DEF S
<1>3. IsSeq(tasks') /\ DOMAIN tasks' = DOMAIN tasks
  BY <1>1, <1>2, Sequences
<1>4. QED
  BY <1>1, <1>2, <1>3


\* What the constants promise about the time an event asks for.
LEMMA Minutes ==
  /\ \A d \in Decisions : d.event.minutes \in Nat \ {0}
  /\ \A f \in Findings : f.event.minutes \in Nat \ {0}
  /\ \A c \in Commands : c.minutes \in Nat \ {0}
BY ResponseAssumption

\* The tasks are well formed and announced.
Tasks == IsSeq(tasks) /\ (\A i \in DOMAIN tasks : IsTask(tasks[i])) /\ Announced

\* A new task has no record yet.
LEMMA Enqueued ==
  ASSUME Tasks, NEW actions, NEW event, event.minutes \in Nat \ {0}, Enqueue(actions, event)
  PROVE  /\ Tasks'
         /\ DOMAIN tasks \subseteq DOMAIN tasks'
         /\ \A i \in DOMAIN tasks : tasks'[i] = tasks[i]
<1> DEFINE todo == SelectSeq(actions, LAMBDA a : a \in Handled)
           new == [todo |-> todo, event |-> event, record |-> NoRecord]
<1>1. tasks' = Append(tasks, new)
  BY DEF Enqueue
<1>2. IsTask(new) /\ new.event = event /\ new.record.status # "pending"
  <2> HIDE DEF todo
  <2>1. QED
    BY ResponseAssumption DEF IsTask, NoRecord
<1> HIDE DEF new
<1>3. /\ IsSeq(tasks') /\ DOMAIN tasks' = DOMAIN tasks \cup {Len(tasks) + 1}
      /\ tasks'[Len(tasks) + 1] = new /\ \A i \in DOMAIN tasks : tasks'[i] = tasks[i]
  BY <1>1, Appended DEF Tasks
<1>4. ASSUME NEW i \in DOMAIN tasks'
      PROVE  /\ IsTask(tasks'[i])
             /\ tasks'[i].event.minutes \in Nat \ {0}
             /\ tasks'[i].record.status = "pending" =>
                  tasks'[i].record.target = Target(tasks'[i].record.action, tasks'[i].event)
  BY <1>2, <1>3 DEF Tasks, Announced
<1>5. QED
  BY <1>3, <1>4 DEF Tasks, Announced

\* A record that is announced names the target of its action.
LEMMA Announcing ==
  ASSUME Tasks, NEW i \in DOMAIN tasks, Announce(i)
  PROVE  /\ Tasks' /\ DOMAIN tasks' = DOMAIN tasks
         /\ \A j \in DOMAIN tasks : tasks[j].record.status = "pending" => tasks'[j] = tasks[j]
<1> DEFINE t == tasks[i]
           action == Head(t.todo)
           rest == Tail(t.todo)
           new == [todo |-> rest, event |-> t.event,
                   record |-> [action |-> action, target |-> Target(action, t.event), status |-> "pending"]]
<1>1. /\ tasks' = [tasks EXCEPT ![i].todo = Tail(@),
                   ![i].record = [action |-> action, target |-> Target(action, t.event), status |-> "pending"]]
      /\ t.record.status # "pending"
  BY DEF Announce
<1>2. IsTask(t) /\ t.event.minutes \in Nat \ {0}
  BY DEF Tasks, Announced
<1>3. tasks' = [tasks EXCEPT ![i] = new]
  <2>1. IsSeq(tasks)
    BY DEF Tasks
  <2> HIDE DEF action, rest
  <2>2. [t EXCEPT !.todo = rest] = [todo |-> rest, event |-> t.event, record |-> t.record]
    BY <1>2 DEF IsTask
  <2>3. [[t EXCEPT !.todo = rest] EXCEPT !.record = new.record] = new
    <3>1. [[todo |-> rest, event |-> t.event, record |-> t.record] EXCEPT !.record = new.record] = new
      OBVIOUS
    <3>2. QED
      BY <2>2, <3>1
  <2>4. tasks' = [tasks EXCEPT ![i] = [[t EXCEPT !.todo = rest] EXCEPT !.record = new.record]]
    BY <1>1, <2>1 DEF rest
  <2>5. QED
    BY <2>3, <2>4
<1>4. /\ IsTask(new) /\ new.event = t.event
      /\ new.record.target = Target(new.record.action, new.event)
  <2> HIDE DEF action, rest
  <2>1. QED
    BY DEF IsTask
<1> HIDE DEF new
<1>5. /\ IsSeq(tasks') /\ DOMAIN tasks' = DOMAIN tasks /\ tasks'[i] = new
      /\ \A j \in DOMAIN tasks : j # i => tasks'[j] = tasks[j]
  BY <1>3, Replaced DEF Tasks
<1>6. ASSUME NEW j \in DOMAIN tasks'
      PROVE  /\ IsTask(tasks'[j])
             /\ tasks'[j].event.minutes \in Nat \ {0}
             /\ tasks'[j].record.status = "pending" =>
                  tasks'[j].record.target = Target(tasks'[j].record.action, tasks'[j].event)
  BY <1>2, <1>4, <1>5 DEF Tasks, Announced
<1>7. QED
  BY <1>1, <1>5, <1>6 DEF Tasks, Announced

\* A handler ends its own record and touches no other.
LEMMA Ending ==
  ASSUME Tasks, NEW i \in DOMAIN tasks, NEW ok \in BOOLEAN, Ends(i, ok)
  PROVE  /\ Tasks' /\ DOMAIN tasks' = DOMAIN tasks
         /\ ~ok => tasks'[i].record.status = "failed"
         /\ tasks'[i].record.action = tasks[i].record.action
         /\ tasks'[i].event = tasks[i].event
         /\ \A j \in DOMAIN tasks : j # i => tasks'[j] = tasks[j]
<1> DEFINE t == tasks[i]
           status == IF ok THEN FinalStatus(t.record.action) ELSE "failed"
           new == [todo |-> t.todo, event |-> t.event,
                   record |-> [action |-> t.record.action, target |-> t.record.target, status |-> status]]
<1>1. tasks' = [tasks EXCEPT ![i].record.status = status]
  BY DEF Ends
<1>2. IsTask(t) /\ t.event.minutes \in Nat \ {0} /\ IsSeq(tasks)
  BY DEF Tasks, Announced
<1>3. status # "pending"
  BY DEF FinalStatus
<1> HIDE DEF status
<1>4. tasks' = [tasks EXCEPT ![i] = new]
  <2>1. [t.record EXCEPT !.status = status] = new.record
    BY <1>2 DEF IsTask
  <2>2. [t EXCEPT !.record = new.record] = new
    BY <1>2 DEF IsTask
  <2>3. tasks' = [tasks EXCEPT ![i] = [t EXCEPT !.record = [t.record EXCEPT !.status = status]]]
    BY <1>1
  <2>4. QED
    BY <2>1, <2>2, <2>3
<1>5. /\ IsTask(new) /\ new.event = t.event /\ new.record.status = status
      /\ new.record.action = t.record.action /\ new.record.target = t.record.target
  BY DEF IsTask
<1> HIDE DEF new
<1>6. /\ IsSeq(tasks') /\ DOMAIN tasks' = DOMAIN tasks /\ tasks'[i] = new
      /\ \A j \in DOMAIN tasks : j # i => tasks'[j] = tasks[j]
  BY <1>2, <1>4, Replaced
<1>7. ASSUME NEW j \in DOMAIN tasks'
      PROVE  /\ IsTask(tasks'[j])
             /\ tasks'[j].event.minutes \in Nat \ {0}
             /\ tasks'[j].record.status = "pending" =>
                  tasks'[j].record.target = Target(tasks'[j].record.action, tasks'[j].event)
  BY <1>2, <1>3, <1>5, <1>6 DEF Tasks, Announced
<1>8. QED
  BY <1>5, <1>6, <1>7 DEF Tasks, Announced, status


\* Where the record names its target by the rules of _extract_target, it is the
\* one the handler finds by its own.
LEMMA SameTarget ==
  ASSUME NEW e, OneUser(e), OneAddress(e), NEW action \in Effective,
         action \in {"isolate_asset", "block_access"} => ActsOn(action, e) \in Addresses,
         action = "revoke_identity" => ActsOn(action, e) \in Users
  PROVE  Target(action, e) = ActsOn(action, e)
<1>1. CASE action \in {"terminate_process", "grant_temp_privilege", "schedule_privilege_revocation"}
  BY <1>1 DEF Target, ActsOn
<1>2. CASE action = "revoke_identity"
  <2>1. LockedUser(e) \in Users /\ LockedUser(e) # None
    BY <1>2, ResponseAssumption DEF ActsOn
  <2>2. \/ None \in {Get(e.payload, "user_id"), Get(e.raw, "user_id")}
        \/ Get(e.payload, "user_id") = Get(e.raw, "user_id")
    BY DEF OneUser, Dictionaries
  <2>3. UserId(e) = LockedUser(e)
    BY <2>1, <2>2 DEF UserId, LockedUser, OrElse, Known
  <2>4. QED
    BY <1>2, <2>3 DEF Target, ActsOn
<1>3. CASE action \in {"isolate_asset", "block_access"}
  <2> DEFINE Named == {Get(d, k) : d \in Dictionaries(e), k \in {"src_ip", "ip", "remote_ip"}} \ {None, "unknown"}
  <2>1. \A v, w \in Named : v = w
    BY DEF OneAddress
  <2>2. ActsOn(action, e) \in Named
    <3>1. ActsOn(action, e) \notin {None, "unknown"}
      BY <1>3, ResponseAssumption
    <3>2. \/ ActsOn(action, e) = Get(e.payload, "src_ip")
          \/ ActsOn(action, e) = Get(e.payload, "ip")
          \/ ActsOn(action, e) = Get(e.raw, "src_ip")
      BY <1>3, <3>1 DEF ActsOn, IsolatedAddress, BlockedAddress, OrElse, Known
    <3>3. QED
      BY <3>1, <3>2 DEF Dictionaries
  <2>3. PICK d \in Dictionaries(e), k \in {"src_ip", "ip", "remote_ip"} :
          Get(d, k) = ActsOn(action, e) /\ Get(d, k) \notin {None, "unknown"}
    BY <2>2
  <2>4. \A key \in {"src_ip", "ip", "remote_ip"} :
          /\ Pick(e, key) = None \/ Pick(e, key) \in Named
          /\ Pick(e, key) = None => \A c \in Dictionaries(e) : Get(c, key) \in {None, "unknown"}
    BY DEF Pick, OrElse, Known, Dictionaries
  <2> HIDE DEF Named
  <2>5. PickAddress(e) \in Named
    BY <2>3, <2>4 DEF PickAddress, OrElse
  <2>6. PickAddress(e) = ActsOn(action, e)
    BY <2>1, <2>2, <2>5
  <2>7. QED
    BY <1>3, <2>6 DEF Target
<1>4. QED
  BY <1>1, <1>2, <1>3 DEF Effective

\* Only the record of a handler that has not failed can become a success.
LEMMA Succeeding ==
  ASSUME Tasks, NEW i \in DOMAIN tasks, NEW ok \in BOOLEAN, Ends(i, ok),
         NEW action \in Effective, action = tasks[i].record.action, tasks[i].record.status = "pending",
         NEW target, target = ActsOn(action, tasks[i].event),
         ok => Idle(i) \/ Done(action, target)',
         ok /\ action \in {"isolate_asset", "block_access"} => target \in Addresses,
         ok /\ action = "revoke_identity" => target \in Users
  PROVE  Succeeded
<1>1. ASSUME NEW j \in DOMAIN tasks, Succeeds(j)
      PROVE  j = i /\ ok
  BY <1>1, Ending DEF Succeeds
<1>2. ASSUME ok
      PROVE  ReportedTruly(i)
  <2>1. tasks[i].record.target = Target(action, tasks[i].event)
    BY DEF Tasks, Announced
  <2>2. OneUser(tasks[i].event) /\ OneAddress(tasks[i].event) => tasks[i].record.target = target
    BY <1>2, <2>1, SameTarget
  <2>3. /\ tasks'[i].record.action = action /\ tasks'[i].event = tasks[i].event
        /\ ActsOn(tasks[i].record.action, tasks[i].event)' = target
    BY Ending DEF ActsOn, Pid, IsolatedAddress, BlockedAddress, LockedUser, UserId, OrElse, Known, Get
  <2>4. Idle(i) \/ Done(tasks[i].record.action, ActsOn(tasks[i].record.action, tasks[i].event))'
    BY <1>2, <2>3 DEF Done
  <2>5. QED
    BY <2>2, <2>4 DEF ReportedTruly
<1>3. QED
  BY <1>1, <1>2 DEF Succeeded

\* Where no task is ended none succeeds.
LEMMA NotEnding ==
  ASSUME \A i \in DOMAIN tasks : tasks[i].record.status = "pending" =>
           tasks'[i].record.status \notin {"success", "active"}
  PROVE  Succeeded
BY DEF Succeeded, Succeeds

\* Nor does an end without an effect count.
LEMMA EndsQuietly ==
  ASSUME Tasks, NEW i \in DOMAIN tasks, NEW ok \in BOOLEAN, Ends(i, ok),
         ~ok \/ tasks[i].record.action \notin Effective
  PROVE  Succeeded
<1>1. ASSUME NEW j \in DOMAIN tasks, Succeeds(j)
      PROVE  FALSE
  BY <1>1, Ending DEF Succeeds
<1>2. QED
  BY <1>1 DEF Succeeded

LEMMA InvInit == Init => IInv
<1> SUFFICES ASSUME Init PROVE IInv
  OBVIOUS
<1>1. tasks \in Seq({}) /\ DOMAIN tasks = {}
  BY DEF Init
<1>2. IsSeq(tasks)
  BY <1>1, Sequences
<1>3. QED
  BY <1>1, <1>2, ResponseAssumption DEF Init, IInv, TypeOK, Announced, Checked, GrantsAreComplete

\* One step keeps the invariant, kills no process that is spared, and publishes
\* no success that is none.
LEMMA Step == IInv /\ [Next]_vars => IInv' /\ Spared /\ Succeeded
<1> SUFFICES ASSUME IInv, [Next]_vars
             PROVE  IInv' /\ Spared /\ Succeeded
  OBVIOUS
<1>a. Tasks /\ TypeOK /\ Announced /\ GrantsAreComplete
  BY DEF IInv, TypeOK, Tasks
<1>b. ASSUME busy = None
      PROVE  Spared /\ (busy' = busy => Checked')
  BY <1>b DEF Spared, Checked
<1>1. ASSUME busy = None, NEW actions, NEW event, event.minutes \in Nat \ {0}, Enqueue(actions, event)
      PROVE  IInv' /\ Spared /\ Succeeded
  <2>1. Tasks' /\ \A i \in DOMAIN tasks : tasks'[i] = tasks[i]
    BY <1>a, <1>1, Enqueued
  <2>2. UNCHANGED <<grantVars, dryRun, busy, osVars, clock, crashes>>
    BY <1>1 DEF Enqueue
  <2>3. IInv'
    BY <1>a, <1>1, <1>b, <2>1, <2>2 DEF IInv, TypeOK, Tasks, GrantsAreComplete, grantVars, osVars
  <2>4. QED
    BY <1>1, <1>b, <2>1, <2>3, NotEnding
<1>2. CASE busy = None /\ \/ \E d \in Decisions : OnDecision(d)
                          \/ \E f \in Findings : OnFinding(f)
                          \/ \E c \in Commands : ExecuteRemote(c)
  BY <1>1, <1>2, Minutes DEF OnDecision, OnFinding, ExecuteRemote
<1>3. ASSUME busy = None, NEW i \in DOMAIN tasks, Announce(i)
      PROVE  IInv' /\ Spared /\ Succeeded
  <2>1. Tasks' /\ \A j \in DOMAIN tasks : tasks[j].record.status = "pending" => tasks'[j] = tasks[j]
    BY <1>a, <1>3, Announcing
  <2>2. UNCHANGED <<grantVars, dryRun, busy, osVars, clock, crashes>>
    BY <1>3 DEF Announce
  <2>3. IInv'
    BY <1>a, <1>3, <1>b, <2>1, <2>2 DEF IInv, TypeOK, Tasks, GrantsAreComplete, grantVars, osVars
  <2>4. QED
    BY <1>3, <1>b, <2>1, <2>3, NotEnding
<1>4. ASSUME busy = None, NEW i \in DOMAIN tasks, Log(i) \/ QuarantineDevice(i) \/ RefuseKill(i)
      PROVE  IInv' /\ Spared /\ Succeeded
  <2>1. PICK ok \in BOOLEAN :
          /\ Ends(i, ok) /\ UNCHANGED <<grantVars, busy, osVars>>
          /\ ~ok \/ tasks[i].record.action \notin Effective
    BY <1>4 DEF Log, QuarantineDevice, RefuseKill, Runs, Quiet, Effective
  <2>2. Tasks' /\ UNCHANGED <<dryRun, clock, crashes>>
    BY <1>a, <2>1, Ending DEF Ends
  <2>3. Succeeded
    BY <1>a, <2>1, EndsQuietly
  <2>4. IInv'
    BY <1>a, <1>4, <1>b, <2>1, <2>2 DEF IInv, TypeOK, Tasks, GrantsAreComplete, grantVars, osVars
  <2>5. QED
    BY <1>4, <1>b, <2>3, <2>4
<1>5. ASSUME busy = None, NEW i \in DOMAIN tasks, IsolateAsset(i) \/ BlockAccess(i)
      PROVE  IInv' /\ Spared /\ Succeeded
  <2>1. PICK action \in {"isolate_asset", "block_access"} : action = tasks[i].record.action
    BY <1>5 DEF IsolateAsset, BlockAccess, Runs
  <2>2. PICK ip : ip = ActsOn(action, tasks[i].event)
    OBVIOUS
  <2>3. AddRule(i, ip) /\ tasks[i].record.status = "pending" /\ action \in Effective
    BY <1>5, <2>1, <2>2 DEF IsolateAsset, BlockAccess, Runs, ActsOn, Effective
  <2>4. PICK o \in [applied : BOOLEAN, ok : BOOLEAN] :
          /\ o.ok => o.applied
          /\ o.applied => ip \in Addresses
          /\ blocked' = blocked \cup (IF o.applied THEN {ip} ELSE {})
          /\ Ends(i, o.ok)
          /\ UNCHANGED <<grantVars, busy, program, disabled, admins>>
    BY <2>3 DEF AddRule, Outcomes
  <2>5. Tasks' /\ UNCHANGED <<dryRun, clock, crashes>>
    BY <1>a, <2>4, Ending DEF Ends
  <2>6. o.ok => ip \in Addresses /\ Done(action, ip)'
    BY <2>1, <2>4 DEF Done
  <2>7. Succeeded
    BY <1>a, <2>1, <2>2, <2>3, <2>4, <2>6, Succeeding
  <2>8. IInv'
    BY <1>a, <1>5, <1>b, <2>4, <2>5 DEF IInv, TypeOK, Tasks, GrantsAreComplete, grantVars
  <2>9. QED
    BY <1>5, <1>b, <2>7, <2>8
<1>6. ASSUME busy = None, NEW i \in DOMAIN tasks, LockUserAccount(i)
      PROVE  IInv' /\ Spared /\ Succeeded
  <2>1. PICK user : user = LockedUser(tasks[i].event)
    OBVIOUS
  <2>2. /\ tasks[i].record.action = "revoke_identity" /\ tasks[i].record.status = "pending"
        /\ "revoke_identity" \in Effective /\ user = ActsOn("revoke_identity", tasks[i].event)
    BY <1>6, <2>1 DEF LockUserAccount, Runs, ActsOn, Effective
  <2>3. PICK o \in [applied : BOOLEAN, ok : BOOLEAN] :
          /\ o.ok => o.applied
          /\ o.applied => user \in Accounts
          /\ disabled' = disabled \cup (IF o.applied THEN {user} ELSE {})
          /\ Ends(i, o.ok)
          /\ UNCHANGED <<grantVars, busy, program, blocked, admins>>
    BY <1>6, <2>1 DEF LockUserAccount, Outcomes
  <2>4. Tasks' /\ UNCHANGED <<dryRun, clock, crashes>>
    BY <1>a, <2>3, Ending DEF Ends
  <2>5. o.ok => user \in Users /\ Done("revoke_identity", user)'
    BY <2>3, ResponseAssumption DEF Done
  <2>6. Succeeded
    BY <1>a, <2>2, <2>3, <2>5, Succeeding
  <2>7. IInv'
    BY <1>a, <1>6, <1>b, <2>3, <2>4 DEF IInv, TypeOK, Tasks, GrantsAreComplete, grantVars
  <2>8. QED
    BY <1>6, <1>b, <2>6, <2>7
<1>7. ASSUME busy = None, NEW i \in DOMAIN tasks, CheckKill(i)
      PROVE  IInv' /\ Spared /\ Succeeded
  <2>1. PICK pid : pid = Pid(tasks[i].event)
    OBVIOUS
  <2>2. PICK read \in BOOLEAN :
          /\ KillAllowed(pid, read)
          /\ IF dryRun
             THEN Ends(i, TRUE) /\ UNCHANGED busy
             ELSE /\ busy' = [task |-> i, pid |-> pid, read |-> read, reused |-> FALSE]
                  /\ UNCHANGED <<tasks, dryRun, clock, crashes>>
    BY <1>7, <2>1 DEF CheckKill
  <2>3. /\ UNCHANGED <<grantVars, osVars>>
        /\ tasks[i].record.action = "terminate_process" /\ tasks[i].record.status = "pending"
        /\ "terminate_process" \in Effective /\ pid = ActsOn("terminate_process", tasks[i].event)
    BY <1>7, <2>1 DEF CheckKill, Runs, ActsOn, Effective
  <2>4. CASE dryRun
    <3>1. Ends(i, TRUE) /\ UNCHANGED busy
      BY <2>2, <2>4
    <3>2. Tasks' /\ UNCHANGED <<dryRun, clock, crashes>>
      BY <1>a, <3>1, Ending DEF Ends
    <3>3. Done("terminate_process", pid)'
      BY <2>4, <3>2 DEF Done
    <3>4. Succeeded
      BY <1>a, <2>3, <3>1, <3>3, Succeeding
    <3>5. IInv'
      BY <1>a, <1>7, <1>b, <2>3, <3>1, <3>2 DEF IInv, TypeOK, Tasks, GrantsAreComplete, grantVars, osVars
    <3>6. QED
      BY <1>7, <1>b, <3>4, <3>5
  <2>5. CASE ~dryRun
    <3>1. /\ busy' = [task |-> i, pid |-> pid, read |-> read, reused |-> FALSE]
          /\ UNCHANGED <<tasks, dryRun, clock, crashes>>
      BY <2>2, <2>5
    <3>2. Succeeded
      BY <3>1, NotEnding
    <3>3. /\ i \in DOMAIN tasks' /\ pid \in Pids /\ pid > 4 /\ pid \notin {SelfPid, ParentPid}
          /\ read => program'[pid] \notin Protected
          /\ Pid(tasks'[i].event) = pid
          /\ tasks'[i].record.action = "terminate_process" /\ tasks'[i].record.status = "pending"
      BY <2>1, <2>2, <2>3, <3>1 DEF KillAllowed, osVars
    <3>4. Checked'
      <4>1. /\ busy'.task = i /\ busy'.pid = pid /\ busy'.read = read /\ busy'.reused = FALSE
            /\ busy' \in [task : DOMAIN tasks', pid : Pids, read : BOOLEAN, reused : BOOLEAN]
        BY <3>1, <3>3
      <4>2. Pid(tasks[busy.task].event)' = pid
        BY <3>3, <4>1 DEF Pid, OrElse, Get
      <4>3. QED
        BY <3>3, <4>1, <4>2 DEF Checked
    <3>5. IInv'
      BY <1>a, <2>3, <3>1, <3>4 DEF IInv, TypeOK, Announced, GrantsAreComplete, grantVars, osVars
    <3>6. QED
      BY <1>7, <1>b, <3>2, <3>5
  <2>6. QED
    BY <2>4, <2>5
<1>8. CASE busy # None /\ Kill
  <2>1. /\ busy \in [task : DOMAIN tasks, pid : Pids, read : BOOLEAN, reused : BOOLEAN]
        /\ tasks[busy.task].record.action = "terminate_process"
        /\ Pid(tasks[busy.task].event) = busy.pid
        /\ tasks[busy.task].record.status = "pending"
        /\ busy.pid > 4 /\ busy.pid \notin {SelfPid, ParentPid}
        /\ busy.read => busy.reused \/ program[busy.pid] \notin Protected
    BY <1>8 DEF IInv, Checked
  <2>2. PICK i \in DOMAIN tasks : i = busy.task
    BY <2>1
  <2>3. PICK pid \in Pids : pid = busy.pid
    BY <2>1
  <2>4. PICK o \in [applied : BOOLEAN, ok : BOOLEAN] :
          /\ o.ok => o.applied
          /\ program' = IF o.applied THEN [program EXCEPT ![pid] = None] ELSE program
          /\ Ends(i, o.ok)
          /\ busy' = None /\ UNCHANGED <<grantVars, blocked, disabled, admins>>
    BY <1>8, <2>2, <2>3 DEF Kill, Outcomes
  <2>5. Tasks' /\ UNCHANGED <<dryRun, clock, crashes>>
    BY <1>a, <2>4, Ending DEF Ends
  <2>6. o.ok => Done("terminate_process", pid)'
    BY <1>a, <2>4 DEF Done, TypeOK
  <2>7. Succeeded
    <3>1. "terminate_process" \in Effective /\ pid = ActsOn("terminate_process", tasks[i].event)
      BY <2>1, <2>2, <2>3 DEF Effective, ActsOn
    <3>2. QED
      BY <1>a, <2>1, <2>2, <2>4, <2>6, <3>1, Succeeding
  <2>8. Spared
    <3>1. \A p \in Pids \ {pid} : program'[p] = program[p]
      BY <1>a, <2>4 DEF TypeOK
    <3>2. QED
      BY <2>1, <2>3, <3>1 DEF Spared
  <2>9. IInv'
    <3>1. Checked'
      BY <2>4 DEF Checked
    <3>2. QED
      BY <1>a, <2>4, <2>5, <3>1 DEF IInv, TypeOK, Tasks, GrantsAreComplete, grantVars
  <2>10. QED
    BY <2>7, <2>8, <2>9
<1>9. ASSUME busy = None, NEW i \in DOMAIN tasks, Grant(i)
      PROVE  IInv' /\ Spared /\ Succeeded
  <2> DEFINE until == clock + tasks[i].event.minutes
  <2>0. PICK user : user = UserId(tasks[i].event)
    OBVIOUS
  <2>1. /\ tasks[i].record.action = "grant_temp_privilege" /\ tasks[i].record.status = "pending"
        /\ "grant_temp_privilege" \in Effective /\ user = ActsOn("grant_temp_privilege", tasks[i].event)
    BY <1>9, <2>0 DEF Grant, Runs, Effective, ActsOn
  <2>2. CASE user \notin Users
    <3>1. Ends(i, FALSE) /\ UNCHANGED <<grantVars, busy, osVars>>
      BY <1>9, <2>0, <2>2 DEF Grant
    <3>2. Tasks' /\ UNCHANGED <<dryRun, clock, crashes>>
      BY <1>a, <3>1, Ending DEF Ends
    <3>3. Succeeded
      BY <1>a, <3>1, EndsQuietly
    <3>4. IInv'
      BY <1>a, <1>9, <1>b, <3>1, <3>2 DEF IInv, TypeOK, Tasks, GrantsAreComplete, grantVars, osVars
    <3>5. QED
      BY <1>9, <1>b, <3>3, <3>4
  <2>3. CASE user \in Users
    <3>1. PICK o \in [applied : BOOLEAN, ok : BOOLEAN] :
            /\ o.ok => o.applied
            /\ grants' = [grants EXCEPT ![user] = until]
            /\ admins' = admins \cup (IF o.applied THEN {user} ELSE {})
            /\ orphans' = orphans \ {user}
            /\ Ends(i, o.ok)
            /\ UNCHANGED <<timers, busy, program, blocked, disabled>>
      BY <1>9, <2>0, <2>3 DEF Grant, Outcomes
    <3>2. until \in Nat /\ until > clock /\ until # None
      BY <1>a, ResponseAssumption DEF Announced, TypeOK
    <3>3. Tasks' /\ UNCHANGED <<dryRun, clock, crashes>>
      BY <1>a, <3>1, Ending DEF Ends
    <3> HIDE DEF until
    <3>4. o.ok => Done("grant_temp_privilege", user)'
      <4>1. grants'[user] = until
        BY <1>a, <2>3, <3>1 DEF TypeOK
      <4>2. QED
        BY <3>1, <3>2, <3>3, <4>1 DEF Done
    <3>5. Succeeded
      BY <1>a, <2>1, <3>1, <3>4, Succeeding
    <3>6. GrantsAreComplete'
      BY <1>a, <2>3, <3>1, <3>2 DEF GrantsAreComplete, TypeOK
    <3>7. TypeOK'
      BY <1>a, <2>3, <3>1, <3>2, <3>3 DEF TypeOK, Tasks
    <3>8. QED
      BY <1>9, <1>b, <3>1, <3>3, <3>5, <3>6, <3>7 DEF IInv, Tasks
  <2>4. QED
    BY <2>2, <2>3
<1>10. ASSUME busy = None, NEW i \in DOMAIN tasks, ScheduleRevocation(i)
      PROVE  IInv' /\ Spared /\ Succeeded
  <2>1. PICK user : user = UserId(tasks[i].event)
    OBVIOUS
  <2>2. /\ Ends(i, TRUE) /\ UNCHANGED <<grants, orphans, busy, osVars>>
        /\ timers' = IF user \in Users /\ grants[user] # None
                     THEN timers \cup {[user |-> user, expiry |-> grants[user]]} ELSE timers
        /\ tasks[i].record.action = "schedule_privilege_revocation" /\ tasks[i].record.status = "pending"
        /\ "schedule_privilege_revocation" \in Effective
        /\ user = ActsOn("schedule_privilege_revocation", tasks[i].event)
    BY <1>10, <2>1 DEF ScheduleRevocation, Runs, Effective, ActsOn
  <2>3. Tasks' /\ UNCHANGED <<dryRun, clock, crashes>>
    BY <1>a, <2>2, Ending DEF Ends
  <2>4. Idle(i) \/ Done("schedule_privilege_revocation", user)'
    <3>1. CASE user \in Users /\ grants[user] # None
      <4>1. [user |-> user, expiry |-> grants'[user]] \in timers'
        BY <2>2, <3>1
      <4>2. QED
        BY <4>1 DEF Done
    <3>2. CASE ~(user \in Users /\ grants[user] # None)
      BY <2>1, <2>2, <3>2 DEF Idle
    <3>3. QED
      BY <3>1, <3>2
  <2>5. Succeeded
    BY <1>a, <2>2, <2>4, Succeeding
  <2>6. timers' \subseteq [user : Users, expiry : Nat \cup {None}]
    BY <1>a, <2>2 DEF TypeOK
  <2>7. IInv'
    BY <1>a, <1>10, <1>b, <2>2, <2>3, <2>6 DEF IInv, TypeOK, Tasks, GrantsAreComplete, osVars
  <2>8. QED
    BY <1>10, <1>b, <2>5, <2>7
<1>11. ASSUME busy = None, NEW t \in timers, RevokePrivilege(t)
      PROVE  IInv' /\ Spared /\ Succeeded
  <2>1. t.user \in Users
    BY <1>a DEF TypeOK
  <2>2. PICK o \in [applied : BOOLEAN, ok : BOOLEAN] :
          /\ admins' = IF o.applied THEN admins \ {t.user} ELSE admins
          /\ orphans' = IF o.applied THEN orphans \ {t.user} ELSE orphans \cup ({t.user} \cap admins)
          /\ timers' = timers \ {t}
          /\ grants' = [grants EXCEPT ![t.user] = None]
          /\ UNCHANGED <<tasks, dryRun, busy, program, blocked, disabled, clock, crashes>>
    BY <1>11 DEF RevokePrivilege, Outcomes
  <2>3. GrantsAreComplete'
    BY <1>a, <2>1, <2>2 DEF GrantsAreComplete, TypeOK
  <2>4. TypeOK'
    BY <1>a, <2>1, <2>2 DEF TypeOK
  <2>5. Succeeded
    BY <2>2, NotEnding
  <2>6. QED
    BY <1>a, <1>11, <1>b, <2>2, <2>3, <2>4, <2>5 DEF IInv, Announced
<1>12. ASSUME NEW pid \in Pids, Exit(pid) \/ \E name \in Programs : Spawn(pid, name)
      PROVE  IInv' /\ Spared /\ Succeeded
  <2>1. /\ UNCHANGED <<tasks, grantVars, dryRun, blocked, disabled, admins, clock, crashes>>
        /\ program' \in [Pids -> Programs \cup {None}]
    BY <1>a, <1>12 DEF Exit, Spawn, TypeOK
  <2>2. Succeeded
    BY <2>1, NotEnding
  <2>3. Checked' /\ Spared
    <3>1. CASE Exit(pid)
      <4>1. UNCHANGED <<tasks, busy>> /\ program' = [program EXCEPT ![pid] = None]
        BY <3>1 DEF Exit
      <4>2. \A p \in Pids : program'[p] = program[p] \/ program'[p] \notin Protected
        BY <1>a, <4>1, ResponseAssumption DEF TypeOK
      <4>3. Checked'
        BY <4>1, <4>2 DEF IInv, Checked
      <4>4. QED
        BY <4>1, <4>3 DEF Spared
    <3>2. ASSUME NEW name \in Programs, Spawn(pid, name)
          PROVE  Checked' /\ Spared
      <4>1. /\ UNCHANGED tasks /\ program' = [program EXCEPT ![pid] = name]
            /\ busy' = IF busy # None /\ pid = busy.pid THEN [busy EXCEPT !.reused = TRUE] ELSE busy
            /\ name # None /\ program[pid] = None
        BY <3>2, ResponseAssumption DEF Spawn
      <4>2. \A p \in Pids : program[p] # None => program'[p] # None
        BY <1>a, <4>1 DEF TypeOK
      <4>3. CASE busy # None /\ pid = busy.pid
        <5>1. /\ busy \in [task : DOMAIN tasks, pid : Pids, read : BOOLEAN, reused : BOOLEAN]
              /\ busy' = [busy EXCEPT !.reused = TRUE]
          BY <4>1, <4>3 DEF IInv, Checked
        <5>2. /\ busy' \in [task : DOMAIN tasks, pid : Pids, read : BOOLEAN, reused : BOOLEAN]
              /\ busy'.task = busy.task /\ busy'.pid = busy.pid /\ busy'.reused
          BY <5>1
        <5>3. Checked'
          BY <4>1, <4>3, <5>2 DEF IInv, Checked
        <5>4. QED
          BY <4>2, <5>3 DEF Spared
      <4>4. CASE ~(busy # None /\ pid = busy.pid)
        <5>1. busy' = busy /\ (busy # None => pid # busy.pid)
          BY <4>1, <4>4
        <5>2. ASSUME busy # None
              PROVE  program'[busy.pid] = program[busy.pid]
          <6>1. busy.pid \in Pids /\ busy.pid # pid
            BY <5>1, <5>2 DEF IInv, Checked
          <6>2. QED
            BY <1>a, <4>1, <6>1 DEF TypeOK
        <5>3. Checked'
          BY <4>1, <5>1, <5>2 DEF IInv, Checked
        <5>4. QED
          BY <4>2, <5>3 DEF Spared
      <4>5. QED
        BY <4>3, <4>4
    <3>3. QED
      BY <1>12, <3>1, <3>2
  <2>4. QED
    BY <1>a, <2>1, <2>2, <2>3 DEF IInv, TypeOK, Announced, GrantsAreComplete, grantVars
<1>13. CASE Tick
  <2>1. clock' = clock + 1 /\ UNCHANGED <<tasks, grantVars, dryRun, busy, osVars, crashes>>
    BY <1>13 DEF Tick
  <2>2. Succeeded
    BY <2>1, NotEnding
  <2>3. Checked' /\ Spared
    BY <2>1 DEF IInv, Checked, Spared, osVars
  <2>4. QED
    BY <1>a, <2>1, <2>2, <2>3 DEF IInv, TypeOK, Announced, GrantsAreComplete, grantVars, osVars
<1>14. CASE Crash
  <2> DEFINE after(t) == [todo |-> <<>>, event |-> t.event, record |-> NoRecord]
  <2>1. /\ tasks' = [i \in DOMAIN tasks |-> after(tasks[i])]
        /\ grants' = [u \in Users |-> None] /\ timers' = {}
        /\ orphans' = orphans \cup admins
        /\ busy' = None
        /\ UNCHANGED <<dryRun, osVars, clock>>
    BY <1>14 DEF Crash
  <2>2. ASSUME NEW i \in DOMAIN tasks
        PROVE  /\ IsTask(after(tasks[i])) /\ after(tasks[i]).record.status = None
               /\ after(tasks[i]).event = tasks[i].event
    BY DEF IsTask, NoRecord
  <2> HIDE DEF after
  <2>3. IsSeq(tasks')
    <3> DEFINE S == {after(tasks[i]) : i \in DOMAIN tasks}
    <3>1. \A i \in DOMAIN tasks : after(tasks[i]) \in S
      OBVIOUS
    <3>2. Len(tasks) \in Nat /\ DOMAIN tasks = 1..Len(tasks)
      BY <1>a DEF TypeOK, IsSeq
    <3> HIDE DEF S
    <3>3. tasks' \in Seq(S)
      BY <2>1, <3>1, <3>2
    <3>4. QED
      BY <3>3, Sequences
  <2>4. ASSUME NEW i \in DOMAIN tasks'
        PROVE  IsTask(tasks'[i]) /\ tasks'[i].record.status = None /\ tasks'[i].event.minutes \in Nat \ {0}
    BY <1>a, <2>1, <2>2 DEF Announced
  <2>5. None \notin {"pending", "failed", "success", "active"}
    BY ResponseAssumption
  <2>6. Succeeded
    BY <2>1, <2>2, <2>5, NotEnding
  <2>7. TypeOK' /\ Announced'
    BY <1>a, <2>1, <2>3, <2>4, <2>5 DEF TypeOK, Announced, osVars
  <2>8. GrantsAreComplete'
    BY <1>a, <2>1 DEF GrantsAreComplete, osVars
  <2>9. Checked' /\ Spared
    BY <2>1 DEF Checked, Spared, osVars
  <2>10. QED
    BY <2>6, <2>7, <2>8, <2>9 DEF IInv
<1>15. CASE Over \/ UNCHANGED vars
  <2>1. UNCHANGED vars
    BY <1>15 DEF Over
  <2>2. Succeeded
    BY <2>1, NotEnding DEF vars
  <2>3. Checked' /\ Spared
    BY <2>1 DEF IInv, Checked, Spared, vars, osVars
  <2>4. QED
    BY <1>a, <2>1, <2>2, <2>3 DEF IInv, TypeOK, Announced, GrantsAreComplete, vars, grantVars, osVars
<1>16. QED
  BY <1>2, <1>3, <1>4, <1>5, <1>6, <1>7, <1>8, <1>9, <1>10, <1>11, <1>12, <1>13, <1>14, <1>15
     DEF Next, Loop, Handle

\* Every administrator the engine made is on its list of grants, or known to be
\* lost: whatever times out, fails, is granted twice or crashes.
THEOREM Complete == Spec => []GrantsAreComplete
<1>1. IInv => GrantsAreComplete
  BY DEF IInv
<1>2. QED
  BY <1>1, InvInit, Step, PTL DEF Spec

\* No kill ends the agent, its parent or a reserved process, nor one on the
\* protect list unless the name was unreadable or the pid changed hands.
THEOREM Spares == Spec => NoProtectedKill
<1>1. IInv /\ [Next]_vars => [Spared]_vars
  BY Step
<1>2. QED
  BY <1>1, InvInit, Step, PTL DEF Spec, NoProtectedKill, Spared

\* A record is published as a success only when what its handler looked up is
\* dealt with, and it names just that when the event does not name two.
THEOREM Truthful == Spec => SuccessMeansDone
<1>1. IInv /\ [Next]_vars => [Succeeded]_vars
  BY Step
<1>2. QED
  BY <1>1, InvInit, Step, PTL DEF Spec, SuccessMeansDone, Succeeded

-----------------------------------------------------------------------------
(* The records on their way to the dashboard: ActionFeed, for every set of *)
(* actions, length of the backend's list, and number of repeated and lost  *)
(* rows.                                                                   *)

Rows == Actions \X Status

FeedTypeOK ==
  /\ run \in [Actions -> {"new", "running", "done", "dead"}]
  /\ outcome \in [Actions -> {"none"} \cup Final]
  /\ rows \in Seq(Rows) /\ store \in Seq(Rows) /\ feed \in Seq(Rows)
  /\ reply \in [Fetches -> Seq(Rows)]
  /\ view \in [Actions -> {"none"} \cup Status]

\* An outcome is known when the handler has ended, and not before.
Ended == \A a \in Actions : run[a] \in {"new", "running"} => outcome[a] = "none"

\* No copy of a record, wherever it is, names another outcome than that.
Honest(copies) == \A i \in DOMAIN copies : copies[i][2] \in Final => copies[i][2] = outcome[copies[i][1]]

HonestReplies == \A f \in Fetches : Honest(reply[f])

FeedInv ==
  /\ FeedTypeOK /\ Ended /\ Honest(rows) /\ Honest(store) /\ Honest(feed) /\ HonestReplies
  /\ ShownIsTrue

-----------------------------------------------------------------------------
\* A set of indices that is not empty has a last one.
LEMMA LastIndex ==
  ASSUME NEW n \in Nat, NEW K \in SUBSET (1..n), K # {}
  PROVE  \E k \in K : \A m \in K : m <= k
<1> DEFINE T == {n - k : k \in K}
           R == OpToRel(<, Nat)
<1>1. \A k \in K : k \in Nat /\ n - k \in Nat
  <2> HIDE DEF R
  <2>1. QED
    OBVIOUS
<1>2. T \in SUBSET Nat /\ T # {}
  <2> HIDE DEF R
  <2>1. QED
    BY <1>1
<1>3. IsWellFoundedOn(R, Nat)
  BY NatLessThanWellFounded
<1>4. \A x, y \in Nat : y < x => <<y, x>> \in R
  BY DEF OpToRel
<1> HIDE DEF R, T
<1>5. PICK x \in T : \A y \in T : ~(<<y, x>> \in R)
  BY <1>2, <1>3, WFMin
<1>6. ASSUME NEW y \in T
      PROVE  x <= y
  <2>1. x \in Nat /\ y \in Nat
    BY <1>2
  <2>2. ~(y < x)
    BY <1>4, <1>5, <2>1
  <2>3. QED
    BY <2>1, <2>2
<1>7. PICK k \in K : x = n - k
  BY DEF T
<1>8. ASSUME NEW m \in K
      PROVE  m <= k
  <2>1. n - m \in T
    BY DEF T
  <2>2. QED
    BY <1>1, <1>6, <1>7, <2>1
<1>9. QED
  BY <1>8

\* What the dashboard shows after a merge it showed before, or it is in the list.
LEMMA MergeShows ==
  ASSUME NEW old \in [Actions -> {"none"} \cup Status], NEW incoming \in Seq(Rows)
  PROVE  \A a \in Actions :
           \/ mergeActions(old, incoming)[a] = old[a]
           \/ \E k \in DOMAIN incoming : incoming[k][1] = a /\ mergeActions(old, incoming)[a] = incoming[k][2]
<1> SUFFICES ASSUME NEW a \in Actions, \E k \in DOMAIN incoming : incoming[k][1] = a
             PROVE  \E k \in DOMAIN incoming : incoming[k][1] = a /\ mergeActions(old, incoming)[a] = incoming[k][2]
  BY DEF mergeActions
<1> DEFINE K == {k \in DOMAIN incoming : incoming[k][1] = a}
           IsLast(k) == incoming[k][1] = a /\ \A m \in (k + 1)..Len(incoming) : incoming[m][1] # a
<1>1. Len(incoming) \in Nat /\ DOMAIN incoming = 1..Len(incoming) /\ K \in SUBSET (1..Len(incoming)) /\ K # {}
  OBVIOUS
<1>2. PICK k \in K : \A m \in K : m <= k
  <2> HIDE DEF K
  <2>1. QED
    BY <1>1, LastIndex
<1>3. k \in DOMAIN incoming /\ IsLast(k)
  <2>1. k \in DOMAIN incoming /\ incoming[k][1] = a
    BY <1>2
  <2>2. ASSUME NEW m \in (k + 1)..Len(incoming), incoming[m][1] = a
        PROVE  FALSE
    <3>1. m \in K /\ m > k
      BY <1>1, <2>1, <2>2
    <3>2. QED
      BY <1>1, <1>2, <2>1, <3>1
  <2>3. QED
    BY <2>1, <2>2
<1>4. mergeActions(old, incoming)[a] = incoming[CHOOSE l \in DOMAIN incoming : IsLast(l)][2]
  BY DEF mergeActions
<1>5. /\ (CHOOSE l \in DOMAIN incoming : IsLast(l)) \in DOMAIN incoming
      /\ IsLast(CHOOSE l \in DOMAIN incoming : IsLast(l))
  <2> HIDE DEF IsLast
  <2>1. QED
    BY <1>3
<1>6. QED
  BY <1>4, <1>5

\* A merge of what is honest shows what is true.
LEMMA MergeKeepsTruth ==
  ASSUME FeedInv, NEW incoming \in Seq(Rows), Honest(incoming), outcome' = outcome, view' = mergeActions(view, incoming)
  PROVE  view' \in [Actions -> {"none"} \cup Status] /\ ShownIsTrue'
<1> DEFINE merged == mergeActions(view, incoming)
<1>1. view \in [Actions -> {"none"} \cup Status]
  BY DEF FeedInv, FeedTypeOK
<1>2. \A k \in DOMAIN incoming : incoming[k] \in Rows
  OBVIOUS
<1>3. \A a \in Actions :
        \/ merged[a] = view[a]
        \/ \E k \in DOMAIN incoming : incoming[k][1] = a /\ merged[a] = incoming[k][2]
  BY <1>1, MergeShows
<1>4. merged = [a \in Actions |-> merged[a]]
  BY DEF mergeActions
<1> HIDE DEF merged
<1>5. \A a \in Actions : merged[a] \in {"none"} \cup Status
  BY <1>1, <1>2, <1>3 DEF Rows
<1>6. \A a \in Actions : merged[a] \in Final => merged[a] = outcome[a]
  BY <1>3 DEF Honest, FeedInv, ShownIsTrue
<1>7. view' = merged
  BY DEF merged
<1>8. QED
  BY <1>4, <1>5, <1>6, <1>7 DEF ShownIsTrue

\* One more honest row.
LEMMA FeedAppends ==
  ASSUME NEW copies \in Seq(Rows), NEW row \in Rows, NEW f \in [Actions -> {"none"} \cup Final],
         \A i \in DOMAIN copies : copies[i][2] \in Final => copies[i][2] = f[copies[i][1]],
         row[2] \in Final => row[2] = f[row[1]]
  PROVE  /\ Append(copies, row) \in Seq(Rows)
         /\ \A i \in DOMAIN Append(copies, row) :
              Append(copies, row)[i][2] \in Final => Append(copies, row)[i][2] = f[Append(copies, row)[i][1]]
<1>1. Append(copies, row) \in Seq(Rows) /\ Len(Append(copies, row)) = Len(copies) + 1
  OBVIOUS
<1>2. ASSUME NEW i \in DOMAIN Append(copies, row)
      PROVE  (i \in DOMAIN copies /\ Append(copies, row)[i] = copies[i]) \/ Append(copies, row)[i] = row
  BY <1>1
<1>3. QED
  BY <1>1, <1>2

LEMMA FeedStarts == FeedInit => FeedInv
<1> SUFFICES ASSUME FeedInit PROVE FeedInv
  OBVIOUS
<1>1. FeedTypeOK
  BY DEF FeedInit, FeedTypeOK
<1>2. Ended /\ Honest(rows) /\ Honest(store) /\ Honest(feed) /\ HonestReplies /\ ShownIsTrue
  BY DEF FeedInit, Ended, Honest, HonestReplies, ShownIsTrue, Final
<1>3. QED
  BY <1>1, <1>2 DEF FeedInv

LEMMA FeedGoesOn == FeedInv /\ [FeedNext]_feedVars => FeedInv'
<1> SUFFICES ASSUME FeedInv, [FeedNext]_feedVars
             PROVE  FeedInv'
  OBVIOUS
<1> USE DEF FeedInv, FeedTypeOK
<1>1. ASSUME NEW a \in Actions, Start(a)
      PROVE  FeedInv'
  <2>1. /\ run' = [run EXCEPT ![a] = "running"] /\ run[a] = "new"
        /\ UNCHANGED <<outcome, store, feed, reply, view>>
        /\ rows' = Append(rows, <<a, "pending">>) \/ rows' = rows
    BY <1>1 DEF Start, Publish, dashboardVars
  <2>2. rows' \in Seq(Rows) /\ Honest(rows)'
    <3>1. <<a, "pending">> \in Rows /\ "pending" \notin Final
      BY DEF Rows, Status, Final
    <3>2. /\ Append(rows, <<a, "pending">>) \in Seq(Rows)
          /\ Honest(Append(rows, <<a, "pending">>))
      BY <3>1, FeedAppends DEF Honest
    <3>3. CASE rows' = rows
      BY <2>1, <3>3 DEF Honest
    <3>4. CASE rows' = Append(rows, <<a, "pending">>)
      BY <2>1, <3>2, <3>4 DEF Honest
    <3>5. QED
      BY <2>1, <3>3, <3>4
  <2>3. QED
    BY <2>1, <2>2 DEF Ended, Honest, HonestReplies, ShownIsTrue
<1>2. ASSUME NEW a \in Actions, Finish(a)
      PROVE  FeedInv'
  <2>1. PICK st \in Final :
          /\ run' = [run EXCEPT ![a] = "done"] /\ run[a] = "running"
          /\ outcome' = [outcome EXCEPT ![a] = st]
          /\ UNCHANGED <<store, feed, reply, view>>
          /\ rows' = Append(rows, <<a, st>>) \/ rows' = rows
    BY <1>2 DEF Finish, Publish, dashboardVars
  <2>2. outcome[a] = "none" /\ outcome[a] \notin Final
    BY <2>1 DEF Ended, Final
  <2>3. ASSUME NEW s \in Seq(Rows), Honest(s), NEW i \in DOMAIN s, s[i][2] \in Final
        PROVE  s[i][2] = outcome'[s[i][1]]
    <3>1. s[i] \in Rows /\ s[i][2] = outcome[s[i][1]]
      BY <2>3 DEF Honest
    <3>2. s[i][1] \in Actions /\ s[i][1] # a
      BY <2>2, <2>3, <3>1 DEF Rows
    <3>3. QED
      BY <2>1, <3>1, <3>2
  <2>4. Honest(store)' /\ Honest(feed)' /\ HonestReplies'
    <3>1. \A s \in {store, feed} : \A i \in DOMAIN s :
            s[i][2] \in Final => s[i][2] = outcome'[s[i][1]]
      BY <2>3
    <3>2. ASSUME NEW f \in Fetches, NEW i \in DOMAIN reply[f], reply[f][i][2] \in Final
          PROVE  reply[f][i][2] = outcome'[reply[f][i][1]]
      <4>1. reply[f] \in Seq(Rows) /\ Honest(reply[f])
        BY DEF HonestReplies
      <4>2. QED
        BY <2>3, <3>2, <4>1
    <3>3. Honest(store)' /\ Honest(feed)'
      BY <2>1, <3>1 DEF Honest, Final
    <3>4. HonestReplies'
      BY <2>1, <3>2 DEF Honest, HonestReplies, Final
    <3>5. QED
      BY <3>3, <3>4
  <2>5. rows' \in Seq(Rows) /\ Honest(rows)'
    <3>1. <<a, st>> \in Rows
      BY DEF Rows, Status
    <3>2. \A i \in DOMAIN rows : rows[i][2] \in Final => rows[i][2] = outcome'[rows[i][1]]
      BY <2>3
    <3>3. outcome' \in [Actions -> {"none"} \cup Final] /\ outcome'[a] = st
      BY <2>1
    <3>4. /\ Append(rows, <<a, st>>) \in Seq(Rows)
          /\ \A i \in DOMAIN Append(rows, <<a, st>>) :
               Append(rows, <<a, st>>)[i][2] \in Final =>
                 Append(rows, <<a, st>>)[i][2] = outcome'[Append(rows, <<a, st>>)[i][1]]
      BY <3>1, <3>2, <3>3, FeedAppends
    <3>5. CASE rows' = rows
      BY <3>2, <3>5 DEF Honest
    <3>6. CASE rows' = Append(rows, <<a, st>>)
      BY <3>4, <3>6 DEF Honest
    <3>7. QED
      BY <2>1, <3>5, <3>6
  <2>6. ShownIsTrue'
    BY <2>1, <2>2 DEF ShownIsTrue
  <2>7. QED
    BY <2>1, <2>4, <2>5, <2>6 DEF Ended
<1>3. ASSUME NEW a \in Actions, Die(a)
      PROVE  FeedInv'
  BY <1>3 DEF Die, dashboardVars, Ended, Honest, HonestReplies, ShownIsTrue
<1>4. ASSUME NEW i \in RowIds, Store(i)
      PROVE  FeedInv'
  <2> DEFINE longer == <<rows[i]>> \o store
  <2>1. /\ i \in DOMAIN rows
        /\ store' = IF Len(longer) > MaxStore THEN Front(longer) ELSE longer
        /\ feed' = IF connected THEN Append(feed, rows[i]) ELSE feed
        /\ UNCHANGED <<run, outcome, rows, reply, view>>
    BY <1>4 DEF Store, engineVars, dashboardVars
  <2>2. rows[i] \in Rows /\ (rows[i][2] \in Final => rows[i][2] = outcome[rows[i][1]])
    BY <2>1 DEF Honest
  <2>3. feed' \in Seq(Rows) /\ Honest(feed)'
    BY <2>1, <2>2 DEF Honest
  <2>4. longer \in Seq(Rows) /\ Len(longer) > 0 /\ Honest(longer)
    BY <2>2 DEF Honest
  <2> HIDE DEF longer
  <2>5. Front(longer) \in Seq(Rows) /\ Honest(Front(longer))
    BY <2>4 DEF Front, Honest
  <2>6. store' \in Seq(Rows) /\ Honest(store)'
    BY <2>1, <2>4, <2>5 DEF Honest
  <2>7. QED
    BY <2>1, <2>3, <2>6 DEF Ended, Honest, HonestReplies, ShownIsTrue
<1>5. CASE Live
  <2>1. /\ Head(feed) \in Rows /\ Tail(feed) \in Seq(Rows) /\ feed # <<>>
        /\ view' = mergeActions(view, <<Head(feed)>>) /\ feed' = Tail(feed)
        /\ UNCHANGED <<run, outcome, rows, store, reply>>
    BY <1>5 DEF Live, engineVars
  <2>2. <<Head(feed)>> \in Seq(Rows) /\ Honest(<<Head(feed)>>) /\ Honest(Tail(feed))
    BY <2>1 DEF Honest
  <2>3. view' \in [Actions -> {"none"} \cup Status] /\ ShownIsTrue'
    BY <2>1, <2>2, MergeKeepsTruth
  <2>4. QED
    BY <2>1, <2>2, <2>3 DEF Ended, Honest, HonestReplies
<1>6. ASSUME NEW f \in Fetches, Merge(f)
      PROVE  FeedInv'
  <2>1. /\ view' = mergeActions(view, reply[f]) /\ reply' = [reply EXCEPT ![f] = <<>>]
        /\ UNCHANGED <<run, outcome, rows, store, feed>>
        /\ reply[f] \in Seq(Rows) /\ Honest(reply[f])
    BY <1>6 DEF Merge, engineVars, HonestReplies
  <2>2. view' \in [Actions -> {"none"} \cup Status] /\ ShownIsTrue'
    BY <2>1, MergeKeepsTruth
  <2>3. reply' \in [Fetches -> Seq(Rows)] /\ HonestReplies'
    BY <2>1 DEF Honest, HonestReplies
  <2>4. QED
    BY <2>1, <2>2, <2>3 DEF Ended, Honest
<1>7. CASE \/ \E i \in RowIds : Settle(i)
           \/ \E f \in Fetches : Request(f) \/ RequestFails(f)
           \/ Connect \/ Disconnect \/ UNCHANGED feedVars
  <2>1. /\ UNCHANGED <<run, outcome, rows, store, view>>
        /\ feed' = feed \/ feed' = <<>>
        /\ \/ reply' = reply
           \/ \E f \in Fetches : reply' = [reply EXCEPT ![f] = store] \/ reply' = [reply EXCEPT ![f] = <<>>]
    BY <1>7 DEF Settle, Request, RequestFails, Connect, Disconnect, feedVars, engineVars, dashboardVars
  <2>2. <<>> \in Seq(Rows) /\ Honest(<<>>)
    BY DEF Honest
  <2>3. feed' \in Seq(Rows) /\ Honest(feed)'
    BY <2>1, <2>2 DEF Honest
  <2>4. reply' \in [Fetches -> Seq(Rows)] /\ HonestReplies'
    <3>1. CASE reply' = reply
      BY <2>1, <3>1 DEF Honest, HonestReplies
    <3>2. ASSUME NEW f \in Fetches, NEW s \in {store, <<>>}, reply' = [reply EXCEPT ![f] = s]
          PROVE  reply' \in [Fetches -> Seq(Rows)] /\ HonestReplies'
      <4>1. s \in Seq(Rows) /\ Honest(s)
        BY <2>2, <3>2
      <4>2. \A g \in Fetches : reply'[g] = IF g = f THEN s ELSE reply[g]
        BY <3>2
      <4>3. \A g \in Fetches : Honest(reply'[g])
        BY <4>1, <4>2 DEF HonestReplies
      <4>4. reply' \in [Fetches -> Seq(Rows)]
        BY <3>2, <4>1
      <4>5. QED
        BY <2>1, <4>3, <4>4 DEF Honest, HonestReplies
    <3>3. QED
      BY <2>1, <3>1, <3>2
  <2>5. QED
    BY <2>1, <2>3, <2>4 DEF Ended, Honest, ShownIsTrue
<1>8. QED
  BY <1>1, <1>2, <1>3, <1>4, <1>5, <1>6, <1>7 DEF FeedNext

\* The dashboard never shows an outcome an action did not have, however often
\* and in whatever order its rows arrive, and whichever lists are merged.
THEOREM FeedShown == FeedSpec => []ShownIsTrue
<1>1. FeedInv => ShownIsTrue
  BY DEF FeedInv
<1>2. QED
  BY <1>1, FeedStarts, FeedGoesOn, PTL DEF FeedSpec

-----------------------------------------------------------------------------
(* PseudoLock: the decoys with which the agent answers a finding, for every  *)
(* set of findings, lock ids, requests and ports, and every assignment of    *)
(* findings to lock ids.                                                     *)


\* The shape of the variables.
LockType ==
  /\ apply \in [LockFindings -> {"new", "bound", "done", "failed"}]
  /\ port \in [LockFindings -> Ports \cup {NoLock}]
  /\ binds \in [LockFindings -> 0..MaxBinds]
  /\ listening \subseteq LockFindings
  /\ registry \in [Locks -> LockFindings \cup {NoLock}]
  /\ servers \in [Locks -> LockFindings \cup {NoLock}]
  /\ restored \subseteq LockFindings
  /\ request \in [Requests -> {"new", "closing", "ok", "refused"}]
  /\ asked \in [Requests -> Locks]
  /\ held \in [Requests -> LockFindings \cup {NoLock}]
  /\ stopping = NotStopped \/ stopping \subseteq Locks \X LockFindings
  /\ visiting \in Locks \cup {NoLock}
  /\ owed \subseteq LockFindings

\* What is filed under a lock id is a record of that id, and the listener
\* that is filed, if any, is the record's.
Filed ==
  \A l \in Locks :
    /\ registry[l] # NoLock => LockOf[registry[l]] = l /\ apply[registry[l]] = "done"
    /\ servers[l] # NoLock => registry[l] = servers[l]

\* Only a finding that has bound a port listens; a record is marked after it
\* has been filed, and a listener that is filed and open is not marked.
Marked ==
  /\ \A f \in LockFindings : apply[f] = "bound" => f \in listening
  /\ \A f \in listening : apply[f] \in {"bound", "done"}
  /\ \A f \in restored : apply[f] = "done"
  /\ \A f \in restored \cap listening : servers[LockOf[f]] # f

\* A handler that still tries has attempts left.
Trying == \A f \in LockFindings : apply[f] = "new" => binds[f] < MaxBinds

\* A record that a request is waiting for has had its listener closed.
Held ==
  \A r \in Requests : request[r] = "closing" =>
    held[r] \in LockFindings /\ apply[held[r]] = "done" /\ held[r] \notin listening

\* What stop has still to close, and what it has just closed.
Visited ==
  /\ stopping # NotStopped => \A entry \in stopping : LockOf[entry[2]] = entry[1] /\ apply[entry[2]] = "done"
  /\ visiting # NoLock => \E f \in LockFindings \ listening : LockOf[f] = visiting /\ apply[f] = "done"
  /\ \A f \in owed : apply[f] = "done"
  /\ stopping # NotStopped => \A f \in owed \cap listening : Alone(f) => <<LockOf[f], f>> \in stopping
  /\ visiting # NoLock => stopping # NotStopped

LockInv == LockType /\ Trying /\ Filed /\ Marked /\ Held /\ Visited /\ NoStrayListener /\ ActiveMeansListening

LEMMA LockInvInit == LockInit => LockInv
<1> SUFFICES ASSUME LockInit PROVE LockInv
  OBVIOUS
<1>1. LockType
  BY PseudoLockAssumption DEF LockInit, LockType
<1>2. Trying /\ Filed /\ Marked /\ Held /\ Visited
  BY PseudoLockAssumption DEF LockInit, Trying, Filed, Marked, Held, Visited
<1>3. NoStrayListener /\ ActiveMeansListening
  BY DEF LockInit, NoStrayListener, ActiveMeansListening, Active
<1>4. QED
  BY <1>1, <1>2, <1>3 DEF LockInv

LEMMA LockInvStep == LockInv /\ [LockNext]_lockVars => LockInv'
<1> SUFFICES ASSUME LockInv, [LockNext]_lockVars
             PROVE  LockInv'
  OBVIOUS
<1> USE PseudoLockAssumption DEF LockInv, LockType
<1>1. ASSUME NEW f \in LockFindings, Bind(f)
      PROVE  LockInv'
  <2>1. LockType'
    BY <1>1 DEF Bind, filedVars, requestVars, stopVars
  <2>2. Trying'
    BY <1>1 DEF Bind, Trying
  <2>3. Filed'
    BY <1>1 DEF Bind, filedVars, Filed
  <2>4. Marked'
    BY <1>1 DEF Bind, filedVars, Marked
  <2>5. Held'
    BY <1>1 DEF Bind, requestVars, Held
  <2>6. Visited'
    BY <1>1 DEF Bind, stopVars, Visited
  <2>7. NoStrayListener'
    BY <1>1 DEF Bind, filedVars, NoStrayListener
  <2>8. ActiveMeansListening'
    BY <1>1 DEF Bind, filedVars, requestVars, stopVars, ActiveMeansListening, Active, NotStopping
  <2>9. QED
    BY <2>1, <2>2, <2>3, <2>4, <2>5, <2>6, <2>7, <2>8
<1>2. ASSUME NEW f \in LockFindings, BindFails(f)
      PROVE  LockInv'
  <2>0. /\ apply[f] = "new" /\ binds' = [binds EXCEPT ![f] = binds[f] + 1]
        /\ apply' = [apply EXCEPT ![f] = IF binds[f] + 1 = MaxBinds THEN "failed" ELSE "new"]
        /\ binds[f] + 1 \in 0..MaxBinds
    BY <1>2 DEF BindFails, Trying
  <2>1. LockType'
    BY <1>2, <2>0 DEF BindFails, filedVars, requestVars, stopVars
  <2>2. Trying'
    <3>1. ASSUME NEW g \in LockFindings, apply'[g] = "new"
          PROVE  binds'[g] < MaxBinds
      <4>1. CASE g = f
        BY <2>0, <3>1, <4>1
      <4>2. CASE g # f
        BY <2>0, <3>1, <4>2 DEF Trying
      <4>3. QED
        BY <4>1, <4>2
    <3>2. QED
      BY <3>1 DEF Trying
  <2>3. Filed'
    BY <1>2 DEF BindFails, filedVars, Filed
  <2>4. Marked'
    BY <1>2 DEF BindFails, filedVars, Marked
  <2>5. Held'
    BY <1>2 DEF BindFails, requestVars, Held
  <2>6. Visited'
    BY <1>2 DEF BindFails, stopVars, Visited
  <2>7. NoStrayListener'
    BY <1>2 DEF BindFails, filedVars, NoStrayListener
  <2>8. ActiveMeansListening'
    BY <1>2 DEF BindFails, filedVars, requestVars, stopVars, ActiveMeansListening, Active, NotStopping
  <2>9. QED
    BY <2>1, <2>2, <2>3, <2>4, <2>5, <2>6, <2>7, <2>8
<1>3. ASSUME NEW f \in LockFindings, Register(f)
      PROVE  LockInv'
  <2>1. LockType'
    BY <1>3 DEF Register, requestVars, stopVars
  <2>2. Trying'
    BY <1>3 DEF Register, Trying
  <2>3. Filed'
    BY <1>3 DEF Register, Filed
  <2>4. Marked'
    BY <1>3 DEF Register, Marked
  <2>5. Held'
    BY <1>3 DEF Register, requestVars, Held
  <2>6. Visited'
    BY <1>3 DEF Register, stopVars, Visited
  <2>7. NoStrayListener'
    BY <1>3 DEF Register, NoStrayListener, Alone
  <2>8. ActiveMeansListening'
    BY <1>3 DEF Register, requestVars, stopVars, Marked, ActiveMeansListening, Active, NotStopping
  <2>9. QED
    BY <2>1, <2>2, <2>3, <2>4, <2>5, <2>6, <2>7, <2>8
<1>4. ASSUME NEW r \in Requests, Refuse(r)
      PROVE  LockInv'
  <2>1. LockType'
    BY <1>4 DEF Refuse, applyVars, filedVars, stopVars
  <2>2. Trying'
    BY <1>4 DEF Refuse, applyVars, Trying
  <2>3. Filed'
    BY <1>4 DEF Refuse, applyVars, filedVars, Filed
  <2>4. Marked'
    BY <1>4 DEF Refuse, applyVars, filedVars, Marked
  <2>5. Held'
    BY <1>4 DEF Refuse, applyVars, Held
  <2>6. Visited'
    BY <1>4 DEF Refuse, applyVars, stopVars, Visited
  <2>7. NoStrayListener'
    BY <1>4 DEF Refuse, applyVars, filedVars, NoStrayListener
  <2>8. ActiveMeansListening'
    BY <1>4 DEF Refuse, filedVars, stopVars, ActiveMeansListening, Active, NotStopping
  <2>9. QED
    BY <2>1, <2>2, <2>3, <2>4, <2>5, <2>6, <2>7, <2>8
<1>5. ASSUME NEW r \in Requests, Close(r)
      PROVE  LockInv'
  <2>1. LockType'
    BY <1>5 DEF Close, applyVars, stopVars
  <2>2. Trying'
    BY <1>5 DEF Close, applyVars, Trying
  <2>3. Filed'
    BY <1>5 DEF Close, applyVars, Filed
  <2>4. Marked'
    BY <1>5 DEF Close, applyVars, Filed, Marked
  <2>5. Held'
    BY <1>5 DEF Close, applyVars, Filed, Held
  <2>6. Visited'
    BY <1>5 DEF Close, applyVars, stopVars, Visited
  <2>7. NoStrayListener'
    BY <1>5 DEF Close, applyVars, NoStrayListener
  <2>8. ActiveMeansListening'
    BY <1>5 DEF Close, stopVars, Filed, ActiveMeansListening, Active, NotStopping
  <2>9. QED
    BY <2>1, <2>2, <2>3, <2>4, <2>5, <2>6, <2>7, <2>8
<1>6. ASSUME NEW r \in Requests, Mark(r)
      PROVE  LockInv'
  <2>1. LockType'
    BY <1>6 DEF Mark, applyVars, stopVars, Held
  <2>2. Trying'
    BY <1>6 DEF Mark, applyVars, Trying
  <2>3. Filed'
    BY <1>6 DEF Mark, applyVars, Filed
  <2>4. Marked'
    BY <1>6 DEF Mark, applyVars, Marked, Held
  <2>5. Held'
    BY <1>6 DEF Mark, applyVars, Held
  <2>6. Visited'
    BY <1>6 DEF Mark, applyVars, stopVars, Visited
  <2>7. NoStrayListener'
    BY <1>6 DEF Mark, applyVars, NoStrayListener
  <2>8. ActiveMeansListening'
    BY <1>6 DEF Mark, stopVars, ActiveMeansListening, Active, NotStopping
  <2>9. QED
    BY <2>1, <2>2, <2>3, <2>4, <2>5, <2>6, <2>7, <2>8
<1>7. ASSUME NEW r \in Requests, MarkOnly(r)
      PROVE  LockInv'
  <2> DEFINE record == registry[asked[r]]
  <2>0. /\ record \in LockFindings /\ LockOf[record] = asked[r] /\ apply[record] = "done"
        /\ servers[LockOf[record]] = NoLock /\ restored' = restored \cup {record}
        /\ held' = [held EXCEPT ![r] = record] /\ request' = [request EXCEPT ![r] = "ok"]
        /\ UNCHANGED <<applyVars, listening, registry, servers, asked, stopVars>>
    BY <1>7 DEF MarkOnly, Active, Filed
  <2> HIDE DEF record
  <2>1. LockType'
    BY <2>0 DEF applyVars, stopVars
  <2>2. Trying'
    BY <1>7 DEF MarkOnly, applyVars, Trying
  <2>3. Filed'
    BY <1>7 DEF MarkOnly, applyVars, Filed
  <2>4. Marked'
    BY <2>0 DEF applyVars, Marked
  <2>5. Held'
    BY <1>7 DEF MarkOnly, applyVars, Held
  <2>6. Visited'
    BY <1>7 DEF MarkOnly, applyVars, stopVars, Visited
  <2>7. NoStrayListener'
    BY <1>7 DEF MarkOnly, applyVars, NoStrayListener
  <2>8. ActiveMeansListening'
    BY <1>7 DEF MarkOnly, stopVars, ActiveMeansListening, Active, NotStopping
  <2>9. QED
    BY <2>1, <2>2, <2>3, <2>4, <2>5, <2>6, <2>7, <2>8
<1>8. ASSUME Stop
      PROVE  LockInv'
  <2>1. LockType'
    BY <1>8 DEF Stop, applyVars, filedVars, requestVars
  <2>2. Trying'
    BY <1>8 DEF Stop, applyVars, Trying
  <2>3. Filed'
    BY <1>8 DEF Stop, applyVars, filedVars, Filed
  <2>4. Marked'
    BY <1>8 DEF Stop, applyVars, filedVars, Marked
  <2>5. Held'
    BY <1>8 DEF Stop, applyVars, requestVars, Held
  <2>6. Visited'
    <3>1. /\ stopping' = {<<l, servers[l]>> : l \in {k \in Locks : servers[k] # NoLock}}
          /\ owed' = {f \in listening : apply[f] = "done"}
          /\ UNCHANGED <<apply, listening, visiting>> /\ visiting = NoLock
      BY <1>8 DEF Stop, applyVars, Visited
    <3>2. \A entry \in stopping' : LockOf[entry[2]] = entry[1] /\ apply[entry[2]] = "done"
      BY <3>1 DEF Filed
    <3>3. ASSUME NEW f \in listening, apply[f] = "done", Alone(f)
          PROVE  <<LockOf[f], f>> \in stopping'
      <4>1. servers[LockOf[f]] = f /\ LockOf[f] \in Locks /\ f # NoLock
        BY <3>3 DEF NoStrayListener
      <4>2. QED
        BY <3>1, <4>1
    <3>4. QED
      BY <3>1, <3>2, <3>3 DEF Visited
  <2>7. NoStrayListener'
    BY <1>8 DEF Stop, applyVars, filedVars, NoStrayListener
  <2>8. ActiveMeansListening'
    BY <1>8 DEF Stop, NotStopped, ActiveMeansListening, NotStopping
  <2>9. QED
    BY <2>1, <2>2, <2>3, <2>4, <2>5, <2>6, <2>7, <2>8
<1>9. ASSUME StopCloses
      PROVE  LockInv'
  <2>1. LockType'
    BY <1>9 DEF StopCloses, applyVars, filedVars, requestVars
  <2>2. Trying'
    BY <1>9 DEF StopCloses, applyVars, Trying
  <2>3. Filed'
    BY <1>9 DEF StopCloses, applyVars, filedVars, Filed
  <2>4. Marked'
    BY <1>9 DEF StopCloses, applyVars, filedVars, Marked, Visited
  <2>5. Held'
    BY <1>9 DEF StopCloses, applyVars, requestVars, Held
  <2>6. Visited'
    BY <1>9 DEF StopCloses, applyVars, Visited, NotStopped
  <2>7. NoStrayListener'
    BY <1>9 DEF StopCloses, applyVars, filedVars, NoStrayListener
  <2>8. ActiveMeansListening'
    BY <1>9 DEF StopCloses, NotStopped, ActiveMeansListening, NotStopping
  <2>9. QED
    BY <2>1, <2>2, <2>3, <2>4, <2>5, <2>6, <2>7, <2>8
<1>10. ASSUME StopDrops
      PROVE  LockInv'
  <2>1. LockType'
    BY <1>10 DEF StopDrops, applyVars, requestVars
  <2>2. Trying'
    BY <1>10 DEF StopDrops, applyVars, Trying
  <2>3. Filed'
    BY <1>10 DEF StopDrops, applyVars, Filed
  <2>4. Marked'
    BY <1>10 DEF StopDrops, applyVars, Marked
  <2>5. Held'
    BY <1>10 DEF StopDrops, applyVars, requestVars, Held
  <2>6. Visited'
    BY <1>10 DEF StopDrops, applyVars, Visited
  <2>7. NoStrayListener'
    BY <1>10 DEF StopDrops, applyVars, Visited, NoStrayListener, Alone
  <2>8. ActiveMeansListening'
    BY <1>10 DEF StopDrops, requestVars, ActiveMeansListening, Active, NotStopping
  <2>9. QED
    BY <2>1, <2>2, <2>3, <2>4, <2>5, <2>6, <2>7, <2>8
<1>11. CASE UNCHANGED lockVars
  BY <1>11 DEF lockVars, applyVars, filedVars, requestVars, stopVars, Filed, Marked, Held, Visited, NoStrayListener, ActiveMeansListening, Active, NotStopping, Trying
<1>12. QED
  BY <1>1, <1>2, <1>3, <1>4, <1>5, <1>6, <1>7, <1>8, <1>9, <1>10, <1>11 DEF LockNext, ApplyStep, RestoreStep


\* Registry, listeners, handlers, restores and stop stay in step, whatever the
\* order in which they run and however many findings share a lock id.
THEOREM LocksInStep == LockSpec => []LockInv
BY LockInvInit, LockInvStep, PTL DEF LockSpec

\* A decoy that is open and filed can be closed by restore.
THEOREM Restorable == LockSpec => []OpenIsRestorable
<1>1. LockInv => OpenIsRestorable
  <2> SUFFICES ASSUME LockInv, NEW l \in Locks, servers[l] # NoLock, servers[l] \in listening
               PROVE  registry[l] = servers[l] /\ Active(l)
    BY DEF OpenIsRestorable
  <2>1. registry[l] = servers[l] /\ LockOf[servers[l]] = l /\ servers[l] \in LockFindings
    BY DEF LockInv, Filed, LockType
  <2>2. servers[l] \notin restored
    BY <2>1 DEF LockInv, Marked
  <2>3. QED
    BY <2>1, <2>2 DEF Active
<1>2. QED
  BY <1>1, LocksInStep, PTL

\* The listener of a finding that has its event to itself is never lost.
THEOREM NoStray == LockSpec => []NoStrayListener
<1>1. LockInv => NoStrayListener
  BY DEF LockInv
<1>2. QED
  BY <1>1, LocksInStep, PTL

\* A record that is shown as active has its decoy open, or about to be marked.
THEOREM StillListening == LockSpec => []ActiveMeansListening
<1>1. LockInv => ActiveMeansListening
  BY DEF LockInv
<1>2. QED
  BY <1>1, LocksInStep, PTL

\* stop closes the decoys that were open when it was called and whose event is
\* theirs alone.
THEOREM Closes == LockSpec => []StopClosesOwn
<1>1. LockInv => StopClosesOwn
  <2> SUFFICES ASSUME LockInv, StopReturned, NEW f \in owed, Alone(f), f \in listening
               PROVE  FALSE
    BY DEF StopClosesOwn
  <2>1. stopping = {} /\ stopping # NotStopped
    BY DEF StopReturned, NotStopped
  <2>2. <<LockOf[f], f>> \in stopping
    BY <2>1 DEF LockInv, Visited
  <2>3. QED
    BY <2>1, <2>2
<1>2. QED
  BY <1>1, LocksInStep, PTL
=============================================================================
