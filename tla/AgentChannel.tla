----------------------------- MODULE AgentChannel -----------------------------
(***************************************************************************)
(* The remote command channel: backend/sockets/agentChannel.js on one side *)
(* and agent/core/command_channel.py on the other.  An agent keeps one     *)
(* Socket.IO connection and reconnects forever; the backend remembers the  *)
(* socket of each endpoint, pushes commands down it and files the acks in  *)
(* a history of the last commands.                                         *)
(*                                                                         *)
(* Each side notices the end of a connection on its own, so an agent may   *)
(* be on a new socket while the backend still has the old one open.  One   *)
(* socket delivers in order; nothing orders messages of two sockets.       *)
(* Messages are at most once: what a closed socket held is lost.           *)
(***************************************************************************)
EXTENDS Naturals, Sequences, SequencesExt

CONSTANTS
  Endpoints,
  Commands,      \* cmd_ids
  MaxHistory,    \* MAX_COMMAND_HISTORY (500)
  MaxConns,      \* bound: connections an agent makes
  MaxCrashes,    \* bound: crashes of an agent
  None

ASSUME ChannelAssumption ==
  /\ MaxHistory \in Nat \ {0}
  /\ MaxConns \in Nat /\ MaxCrashes \in Nat
  /\ None \notin Endpoints

\* Every connection is a socket of its own.
Sockets == Endpoints \X (1..MaxConns)

Final  == {"executed", "failed"}

VARIABLES
  agents,     \* agents: the number of the socket registered for an endpoint, or 0
  open,       \* sockets whose 'disconnect' the backend has not seen
  history,    \* pendingCommands: its keys in the order they were inserted
  status,     \* the status of each entry (its last value, once trimmed)
  client,     \* the socket the agent believes to be connected on, or 0
  conns,      \* connections made so far
  task,       \* the agent's _handle_command coroutine of each command
  down, up,   \* commands and acks in transit, per socket
  dest,       \* the endpoint a command was sent to, or None (history)
  lost,       \* commands of which a message was lost (history)
  crashes

backendVars == <<agents, open, history, status>>
agentVars   == <<client, conns, task>>
ghostVars   == <<dest, lost>>
vars == <<backendVars, agentVars, down, up, ghostVars, crashes>>

Init ==
  /\ agents = [e \in Endpoints |-> 0]
  /\ open = {}
  /\ history = <<>>
  /\ status = [c \in Commands |-> "none"]
  /\ client = [e \in Endpoints |-> 0]
  /\ conns = [e \in Endpoints |-> 0]
  /\ task = [c \in Commands |-> "none"]
  /\ down = [s \in Sockets |-> <<>>]
  /\ up = [s \in Sockets |-> <<>>]
  /\ dest = [c \in Commands |-> None]
  /\ lost = {}
  /\ crashes = 0

-------------------------------------------------------------------------------
(* Connections.                                                            *)

\* 'connection': the new socket replaces whatever is registered.
Connect(e) ==
  /\ client[e] = 0
  /\ conns[e] < MaxConns
  /\ conns' = [conns EXCEPT ![e] = @ + 1]
  /\ client' = [client EXCEPT ![e] = conns'[e]]
  /\ agents' = [agents EXCEPT ![e] = conns'[e]]
  /\ open' = open \cup {<<e, conns'[e]>>}
  /\ UNCHANGED <<history, status, task, down, up, ghostVars, crashes>>

Socket(e) == <<e, client[e]>>

\* The agent finds its connection gone, and what was coming down it.
ClientDrops(e) ==
  /\ client[e] # 0
  /\ client' = [client EXCEPT ![e] = 0]
  /\ down' = [down EXCEPT ![Socket(e)] = <<>>]
  /\ lost' = lost \cup ToSet(down[Socket(e)])
  /\ UNCHANGED <<backendVars, conns, task, up, dest, crashes>>

\* Fault: the entry of a closed socket stays.
ServerDropsKeepsEntry(s) ==
  /\ s \in open
  /\ open' = open \ {s}
  /\ up' = [up EXCEPT ![s] = <<>>]
  /\ lost' = lost \cup {ack[1] : ack \in ToSet(up[s])}
  /\ UNCHANGED <<agents, history, status, agentVars, down, dest, crashes>>

\* 'disconnect': the endpoint's entry is deleted, whichever socket it holds.
ServerDrops(s) ==
  /\ s \in open
  /\ open' = open \ {s}
  /\ agents' = [agents EXCEPT ![s[1]] = 0]
  /\ up' = [up EXCEPT ![s] = <<>>]
  /\ lost' = lost \cup {ack[1] : ack \in ToSet(up[s])}
  /\ UNCHANGED <<history, status, agentVars, down, dest, crashes>>

-------------------------------------------------------------------------------
(* Dispatching a command.                                                  *)

Trimmed(h) == IF Len(h) > MaxHistory THEN SubSeq(h, Len(h) - MaxHistory + 1, Len(h)) ELSE h

\* dispatch: emit on the registered socket, then file and trim.  Without an
\* entry for the endpoint it returns ok: false and changes nothing.
Dispatch(c, e) ==
  /\ dest[c] = None
  /\ agents[e] # 0
  /\ dest' = [dest EXCEPT ![c] = e]
  /\ history' = Trimmed(Append(history, c))
  /\ status' = [status EXCEPT ![c] = "sent"]
  /\ IF client[e] = agents[e]
     THEN /\ down' = [down EXCEPT ![<<e, agents[e]>>] = Append(@, c)]
          /\ UNCHANGED lost
     ELSE /\ lost' = lost \cup {c}
          /\ UNCHANGED down
  /\ UNCHANGED <<agents, open, agentVars, up, crashes>>

-------------------------------------------------------------------------------
(* The agent.  Each command runs in a task of its own.                     *)

Deliver(e) ==
  /\ client[e] # 0
  /\ down[Socket(e)] # <<>>
  /\ task' = [task EXCEPT ![Head(down[Socket(e)])] = "started"]
  /\ down' = [down EXCEPT ![Socket(e)] = Tail(@)]
  /\ UNCHANGED <<backendVars, client, conns, up, ghostVars, crashes>>

\* emit on the socket the agent is on now: it raises if there is none, and is
\* lost on a socket that the backend has already given up.
Emit(c, st) ==
  LET s == Socket(dest[c]) IN
  IF s \in open
  THEN up' = [up EXCEPT ![s] = Append(@, <<c, st>>)] /\ UNCHANGED lost
  ELSE lost' = lost \cup {c} /\ UNCHANGED up

\* The receipt is acknowledged first.  If emit raises, outside the try block,
\* the command is not executed.
Acknowledge(c) ==
  /\ task[c] = "started"
  /\ Emit(c, "received")
  /\ task' = [task EXCEPT ![c] = IF client[dest[c]] = 0 THEN "dead" ELSE "running"]
  /\ UNCHANGED <<backendVars, client, conns, down, dest, crashes>>

\* Fault: an action that raised is not acknowledged.
FinishSilently(c) ==
  /\ task[c] = "running"
  /\ \E st \in Final :
       /\ task' = [task EXCEPT ![c] = st]
       /\ IF st = "executed" THEN Emit(c, st) ELSE UNCHANGED <<up, lost>>
  /\ UNCHANGED <<backendVars, client, conns, down, dest, crashes>>

\* execute_remote_action returned ("executed", also when the action's handler
\* failed: _execute_action swallows that) or raised (an unknown action).
Finish(c) ==
  /\ task[c] = "running"
  /\ \E st \in Final :
       /\ task' = [task EXCEPT ![c] = st]
       /\ Emit(c, st)
  /\ UNCHANGED <<backendVars, client, conns, down, dest, crashes>>

\* The agent process dies with its tasks.
Crash(e) ==
  /\ crashes < MaxCrashes
  /\ client[e] # 0
  /\ crashes' = crashes + 1
  /\ client' = [client EXCEPT ![e] = 0]
  /\ task' = [c \in Commands |->
       IF dest[c] = e /\ task[c] \in {"started", "running"} THEN "dead" ELSE task[c]]
  /\ lost' = lost \cup ToSet(down[Socket(e)])
       \cup {c \in Commands : task'[c] = "dead"}
  /\ down' = [down EXCEPT ![Socket(e)] = <<>>]
  /\ UNCHANGED <<backendVars, conns, up, dest>>

-------------------------------------------------------------------------------
\* Fault: any ack completes the command.
HandleAckCompletes(s) ==
  LET c == Head(up[s])[1] IN
  /\ s \in open
  /\ up[s] # <<>>
  /\ up' = [up EXCEPT ![s] = Tail(@)]
  /\ status' = IF c \in ToSet(history) THEN [status EXCEPT ![c] = "executed"] ELSE status
  /\ UNCHANGED <<agents, open, history, agentVars, down, ghostVars, crashes>>

\* Fault: the acks that have arrived are taken newest first.
HandleLastAck(s) ==
  LET ack == Last(up[s]) IN
  /\ s \in open
  /\ up[s] # <<>>
  /\ up' = [up EXCEPT ![s] = Front(@)]
  /\ status' = IF ack[1] \in ToSet(history) THEN [status EXCEPT ![ack[1]] = ack[2]] ELSE status
  /\ UNCHANGED <<agents, open, history, agentVars, down, ghostVars, crashes>>

\* 'agent:command-ack': overwrites the status of an entry still in the history.
HandleAck(s) ==
  LET ack == Head(up[s]) IN
  /\ s \in open
  /\ up[s] # <<>>
  /\ up' = [up EXCEPT ![s] = Tail(@)]
  /\ status' = IF ack[1] \in ToSet(history) THEN [status EXCEPT ![ack[1]] = ack[2]] ELSE status
  /\ UNCHANGED <<agents, open, history, agentVars, down, ghostVars, crashes>>

Next ==
  \/ \E e \in Endpoints : Connect(e) \/ ClientDrops(e) \/ Deliver(e) \/ Crash(e)
  \/ \E c \in Commands : Acknowledge(c) \/ Finish(c) \/ \E e \in Endpoints : Dispatch(c, e)
  \/ \E s \in Sockets : ServerDrops(s) \/ HandleAck(s)

Spec == Init /\ [][Next]_vars

(* Both event loops run what is ready, and an action ends: every program a *)
(* handler runs has a timeout.  Nothing is assumed of connections or users. *)
Fairness ==
  /\ \A e \in Endpoints : WF_vars(Deliver(e))
  /\ \A c \in Commands : WF_vars(Acknowledge(c)) /\ WF_vars(Finish(c))
  /\ \A s \in Sockets : WF_vars(HandleAck(s))

FairSpec == Spec /\ Fairness

-------------------------------------------------------------------------------
\* A command is never emitted on a socket the backend knows to be closed:
\* whatever the order of connections and disconnections, the entry of an
\* endpoint holds a socket that is open.
RegisteredIsOpen == \A e \in Endpoints : agents[e] # 0 => <<e, agents[e]>> \in open

\* What the history says of a finished command is what happened on the agent,
\* whatever acks were lost, crossed a reconnection or outlived a crash.
FinalStatusIsTrue == \A c \in Commands : status[c] \in Final => task[c] = status[c]

\* A finished command shows as in flight again only if its agent reconnected:
\* then the acks of one command may have travelled on two sockets.
RevertsOnlyAcrossSockets ==
  [][\A c \in Commands :
       (status[c] \in Final /\ status'[c] \notin Final) => conns[dest[c]] > 1]_vars

\* A dispatched command stays in flight for ever only if one of its messages
\* was lost with a connection or a crash (nothing times it out).
EveryCommandSettles ==
  \A c \in Commands :
    status[c] = "sent" ~> (status[c] \in Final \/ c \notin ToSet(history) \/ c \in lost)
==============================================================================
