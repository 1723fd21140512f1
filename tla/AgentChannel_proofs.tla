------------------------- MODULE AgentChannel_proofs -------------------------
(***************************************************************************)
(* Proofs about AgentChannel for every set of endpoints and commands, and  *)
(* any number of connections and crashes.                                  *)
(***************************************************************************)
EXTENDS AgentChannel, TLAPS

\* The shape of the variables, but for the order of the history.
TypeOK ==
  /\ agents \in [Endpoints -> 0..MaxConns] /\ open \subseteq Sockets
  /\ client \in [Endpoints -> 0..MaxConns] /\ conns \in [Endpoints -> 0..MaxConns]
  /\ status \in [Commands -> {"none", "sent", "received"} \cup Final]
  /\ task \in [Commands -> {"none", "started", "running", "dead"} \cup Final]
  /\ down \in [Sockets -> Seq(Commands)]
  /\ up \in [Sockets -> Seq(Commands \X ({"received"} \cup Final))]
  /\ dest \in [Commands -> Endpoints \cup {None}]

\* A command travels once, and what travels has not begun.
Underway ==
  /\ \A s \in Sockets : \A i \in DOMAIN down[s] : task[down[s][i]] = "none" /\ dest[down[s][i]] # None
  /\ \A s, t \in Sockets : \A i \in DOMAIN down[s], j \in DOMAIN down[t] : down[s][i] = down[t][j] => s = t /\ i = j
  /\ \A c \in Commands : dest[c] = None => task[c] = "none"

\* An ack of a finished command says how its task ended, and its sockets are
\* those its endpoint has had.
Truthful ==
  /\ \A e \in Endpoints : client[e] <= conns[e]
  /\ \A s \in Sockets : \A i \in DOMAIN up[s] :
       /\ up[s][i][2] \in Final => task[up[s][i][1]] = up[s][i][2]
       /\ dest[up[s][i][1]] = s[1] /\ s[2] <= conns[s[1]]

\* On one socket nothing follows the last ack of a command.
InOrder ==
  \A s \in Sockets : \A i, j \in DOMAIN up[s] :
    i < j /\ up[s][i][2] \in Final => up[s][j][1] # up[s][i][1]

\* The receipt of a command that is known to be finished was left behind on
\* another socket.
Overtaken ==
  \A s \in Sockets : \A i \in DOMAIN up[s] :
    up[s][i][2] \notin Final /\ status[up[s][i][1]] \in Final => conns[s[1]] > 1

IInv == TypeOK /\ Underway /\ Truthful /\ InOrder /\ Overtaken /\ RegisteredIsOpen /\ FinalStatusIsTrue


-----------------------------------------------------------------------------
LEMMA InvInit == Init => IInv
<1> SUFFICES ASSUME Init PROVE IInv
  OBVIOUS
<1>1. TypeOK
  BY ChannelAssumption DEF Init, TypeOK, Sockets
<1>2. Underway /\ Truthful /\ InOrder /\ Overtaken
  BY DEF Init, Underway, Truthful, InOrder, Overtaken
<1>3. RegisteredIsOpen /\ FinalStatusIsTrue
  BY DEF Init, RegisteredIsOpen, FinalStatusIsTrue, Final
<1>4. QED
  BY <1>1, <1>2, <1>3 DEF IInv

\* What an ack does to a socket, as far as the acks on it are concerned.
LEMMA EmitShape ==
  ASSUME IInv, NEW c \in Commands, NEW st \in {"received"} \cup Final, Emit(c, st)
  PROVE  \/ up' = up
         \/ /\ Socket(dest[c]) \in open /\ dest[c] \in Endpoints
            /\ up' = [up EXCEPT ![Socket(dest[c])] = Append(@, <<c, st>>)]
<1>1. Socket(dest[c]) \in open => dest[c] \in Endpoints
  BY DEF IInv, TypeOK, Sockets, Socket
<1>2. QED
  BY <1>1 DEF Emit

\* An ack that may be emitted now keeps what is known of the acks in transit.
LEMMA EmitKeepsInv ==
  ASSUME IInv, NEW c \in Commands, NEW st \in {"received"} \cup Final, Emit(c, st),
         task[c] \in {"started", "running"},
         NEW next, task' = [task EXCEPT ![c] = next], st \in Final => next = st,
         UNCHANGED <<dest, conns, client, status, open>>
  PROVE  /\ up' \in [Sockets -> Seq(Commands \X ({"received"} \cup Final))]
         /\ Truthful' /\ InOrder' /\ Overtaken'
<1> USE DEF IInv
<1>0. /\ up \in [Sockets -> Seq(Commands \X ({"received"} \cup Final))] /\ open \subseteq Sockets
      /\ task \in [Commands -> {"none", "started", "running", "dead"} \cup Final]
      /\ dest[c] # None /\ dest[c] \in Endpoints
  BY DEF TypeOK, Underway
<1> DEFINE s == Socket(dest[c])
<1>1. CASE up' = up
  BY <1>0, <1>1 DEF Truthful, InOrder, Overtaken, Final
<1>2. CASE s \in open /\ up' = [up EXCEPT ![s] = Append(@, <<c, st>>)]
  <2>1. s \in Sockets /\ s[1] = dest[c] /\ s[2] <= conns[s[1]]
    BY <1>0, <1>2 DEF Socket, Truthful
  <2> HIDE DEF s
  <2>2. up' \in [Sockets -> Seq(Commands \X ({"received"} \cup Final))]
    BY <1>0, <1>2, <2>1
  <2>3. ASSUME NEW t \in Sockets, NEW i \in DOMAIN up'[t]
        PROVE  \/ i \in DOMAIN up[t] /\ up'[t][i] = up[t][i]
               \/ t = s /\ i = Len(up[s]) + 1 /\ up'[t][i] = <<c, st>>
    BY <1>0, <1>2, <2>1
  <2>4. \A t \in Sockets : \A i \in DOMAIN up[t] : up[t][i] \in Commands \X ({"received"} \cup Final)
    BY <1>0
  <2>5. \A t \in Sockets : \A i \in DOMAIN up[t] : up[t][i][2] \in Final => up[t][i][1] # c
    BY <1>0 DEF Truthful, Final
  <2>6. Truthful'
    BY <1>0, <2>1, <2>3, <2>4, <2>5 DEF Truthful
  <2>7. InOrder'
    BY <1>0, <2>3, <2>5 DEF InOrder
  <2>8. Overtaken'
    <3>1. status[c] \notin Final
      BY DEF FinalStatusIsTrue, Final
    <3>2. ASSUME NEW t \in Sockets, NEW i \in DOMAIN up'[t], up'[t][i][2] \notin Final, status[up'[t][i][1]] \in Final
          PROVE  conns[t[1]] > 1
      <4>1. i \in DOMAIN up[t] /\ up'[t][i] = up[t][i]
        BY <2>3, <3>1, <3>2
      <4>2. QED
        BY <3>2, <4>1 DEF Overtaken
    <3>3. QED
      BY <3>2 DEF Overtaken
  <2>9. QED
    BY <2>2, <2>6, <2>7, <2>8
<1>3. QED
  BY <1>1, <1>2, EmitShape


LEMMA InvStep == IInv /\ [Next]_vars => IInv'
<1> SUFFICES ASSUME IInv, [Next]_vars
             PROVE  IInv'
  OBVIOUS
<1> USE ChannelAssumption DEF IInv, TypeOK
<1>1. ASSUME NEW e \in Endpoints, Connect(e)
      PROVE  IInv'
  <2>1. /\ conns[e] + 1 \in 1..MaxConns
        /\ conns' = [conns EXCEPT ![e] = conns[e] + 1] /\ client' = [client EXCEPT ![e] = conns[e] + 1]
        /\ agents' = [agents EXCEPT ![e] = conns[e] + 1] /\ open' = open \cup {<<e, conns[e] + 1>>}
        /\ UNCHANGED <<history, status, task, down, up, dest>>
    BY <1>1 DEF Connect, ghostVars
  <2>2. TypeOK'
    <3>1. open' \subseteq Sockets
      BY <2>1 DEF Sockets
    <3>2. QED
      BY <2>1, <3>1
  <2>3. \A s \in Sockets : s[1] \in Endpoints /\ s[2] \in Nat /\ conns[s[1]] <= conns'[s[1]]
    BY <2>1 DEF Sockets
  <2>4. Truthful'
    BY <2>1, <2>3 DEF Truthful
  <2>5. Overtaken'
    BY <2>1, <2>3 DEF Overtaken
  <2>6. Underway' /\ InOrder' /\ FinalStatusIsTrue'
    BY <2>1 DEF Underway, InOrder, FinalStatusIsTrue
  <2>7. RegisteredIsOpen'
    BY <2>1 DEF RegisteredIsOpen
  <2>8. QED
    BY <2>2, <2>4, <2>5, <2>6, <2>7
<1>2. ASSUME NEW e \in Endpoints, ClientDrops(e)
      PROVE  IInv'
  <2>1. /\ Socket(e) \in Sockets /\ client' = [client EXCEPT ![e] = 0]
        /\ down' = [down EXCEPT ![Socket(e)] = <<>>]
        /\ UNCHANGED <<agents, open, history, status, conns, task, up, dest>>
    BY <1>2 DEF ClientDrops, Socket, Sockets, backendVars
  <2>2. TypeOK'
    BY <2>1
  <2>3. Underway'
    BY <2>1 DEF Underway
  <2>4. Truthful' /\ InOrder' /\ Overtaken' /\ RegisteredIsOpen' /\ FinalStatusIsTrue'
    BY <2>1 DEF Truthful, InOrder, Overtaken, RegisteredIsOpen, FinalStatusIsTrue
  <2>5. QED
    BY <2>2, <2>3, <2>4
<1>3. ASSUME NEW e \in Endpoints, Crash(e)
      PROVE  IInv'
  <2>1. /\ Socket(e) \in Sockets /\ client' = [client EXCEPT ![e] = 0]
        /\ down' = [down EXCEPT ![Socket(e)] = <<>>]
        /\ task' = [c \in Commands |-> IF dest[c] = e /\ task[c] \in {"started", "running"} THEN "dead" ELSE task[c]]
        /\ UNCHANGED <<agents, open, history, status, conns, up, dest>>
    BY <1>3 DEF Crash, Socket, Sockets, backendVars
  <2>2. TypeOK'
    BY <2>1
  <2>3. \A c \in Commands : task[c] \notin {"started", "running"} => task'[c] = task[c]
    BY <2>1
  <2>4. Underway'
    BY <2>1, <2>3 DEF Underway
  <2>5. Truthful'
    BY <2>1, <2>3 DEF Truthful, Final
  <2>6. FinalStatusIsTrue'
    BY <2>1, <2>3 DEF FinalStatusIsTrue, Final
  <2>7. InOrder' /\ Overtaken' /\ RegisteredIsOpen'
    BY <2>1 DEF InOrder, Overtaken, RegisteredIsOpen
  <2>8. QED
    BY <2>2, <2>4, <2>5, <2>6, <2>7
<1>4. ASSUME NEW e \in Endpoints, Deliver(e)
      PROVE  IInv'
  <2> DEFINE s == Socket(e)
             c == Head(down[s])
  <2>1. /\ s \in Sockets /\ down[s] # <<>> /\ down' = [down EXCEPT ![s] = Tail(down[s])]
        /\ task' = [task EXCEPT ![c] = "started"]
        /\ UNCHANGED <<agents, open, history, status, client, conns, up, dest>>
    BY <1>4 DEF Deliver, Socket, Sockets, backendVars, ghostVars
  <2> HIDE DEF s
  <2>2. /\ down[s] \in Seq(Commands) /\ 1 \in DOMAIN down[s] /\ c = down[s][1] /\ c \in Commands
        /\ Tail(down[s]) \in Seq(Commands)
        /\ \A i \in DOMAIN Tail(down[s]) : i + 1 \in DOMAIN down[s] /\ Tail(down[s])[i] = down[s][i + 1] /\ i \in Nat \ {0}
    BY <2>1
  <2>3. task[c] = "none" /\ dest[c] # None
    BY <2>1, <2>2 DEF Underway
  <2> HIDE DEF c
  <2>4. TypeOK'
    BY <2>1, <2>2
  <2> DEFINE was(t, i) == IF t = s THEN i + 1 ELSE i
  <2>5. ASSUME NEW t \in Sockets, NEW i \in DOMAIN down'[t]
        PROVE  /\ down'[t][i] = down[t][was(t, i)] /\ i \in Nat \ {0}
               /\ was(t, i) \in DOMAIN down[t]
               /\ down'[t][i] # c
    <3>1. CASE t = s
      BY <2>1, <2>2, <3>1 DEF Underway
    <3>2. CASE t # s
      BY <2>1, <2>2, <3>2 DEF Underway
    <3>3. QED
      BY <3>1, <3>2
  <2>6. Underway'
    <3>1. ASSUME NEW t \in Sockets, NEW i \in DOMAIN down'[t]
          PROVE  task'[down'[t][i]] = "none" /\ dest'[down'[t][i]] # None
      BY <2>1, <2>5 DEF Underway
    <3>2. ASSUME NEW t \in Sockets, NEW u \in Sockets, NEW i \in DOMAIN down'[t], NEW j \in DOMAIN down'[u],
                 down'[t][i] = down'[u][j]
          PROVE  t = u /\ i = j
      <4>1. /\ was(t, i) \in DOMAIN down[t] /\ was(u, j) \in DOMAIN down[u]
            /\ down[t][was(t, i)] = down[u][was(u, j)] /\ i \in Nat /\ j \in Nat
        BY <2>5, <3>2
      <4>2. t = u /\ was(t, i) = was(u, j)
        <5> HIDE DEF was
        <5>1. QED
          BY <4>1 DEF Underway
      <4>3. QED
        BY <4>1, <4>2
    <3>3. \A d \in Commands : dest'[d] = None => task'[d] = "none"
      BY <2>1, <2>3 DEF Underway
    <3>4. QED
      BY <3>1, <3>2, <3>3 DEF Underway
  <2>7. Truthful' /\ FinalStatusIsTrue'
    BY <2>1, <2>2, <2>3 DEF Truthful, FinalStatusIsTrue, Final
  <2>8. InOrder' /\ Overtaken' /\ RegisteredIsOpen'
    BY <2>1 DEF InOrder, Overtaken, RegisteredIsOpen
  <2>9. QED
    BY <2>4, <2>6, <2>7, <2>8
<1>5. ASSUME NEW c \in Commands, NEW e \in Endpoints, Dispatch(c, e)
      PROVE  IInv'
  <2> DEFINE s == <<e, agents[e]>>
  <2>1. /\ dest[c] = None /\ dest' = [dest EXCEPT ![c] = e] /\ status' = [status EXCEPT ![c] = "sent"]
        /\ UNCHANGED <<agents, open, client, conns, task, up>>
        /\ s \in Sockets /\ (down' = down \/ down' = [down EXCEPT ![s] = Append(down[s], c)])
    <3>1. s \in Sockets
      BY <1>5 DEF Dispatch, Sockets
    <3>2. QED
      BY <1>5, <3>1 DEF Dispatch, agentVars
  <2> HIDE DEF s
  <2>2. TypeOK'
    <3>1. down' \in [Sockets -> Seq(Commands)]
      <4>1. Append(down[s], c) \in Seq(Commands)
        BY <2>1
      <4>2. QED
        BY <2>1, <4>1
    <3>2. QED
      BY <2>1, <3>1
  <2>3. \A t \in Sockets : \A i \in DOMAIN down[t] : down[t][i] # c /\ down[t][i] \in Commands
    BY <2>1 DEF Underway
  <2>4. ASSUME NEW t \in Sockets, NEW i \in DOMAIN down'[t]
        PROVE  \/ i \in DOMAIN down[t] /\ down'[t][i] = down[t][i]
               \/ t = s /\ i = Len(down[s]) + 1 /\ down'[t][i] = c
    <3>1. down \in [Sockets -> Seq(Commands)]
      OBVIOUS
    <3>2. CASE down' = down
      BY <3>2
    <3>3. CASE down' = [down EXCEPT ![s] = Append(down[s], c)] /\ t = s
      BY <2>1, <3>1, <3>3
    <3>4. CASE down' = [down EXCEPT ![s] = Append(down[s], c)] /\ t # s
      BY <2>1, <3>1, <3>4
    <3>5. QED
      BY <2>1, <3>2, <3>3, <3>4
  <2>5. Underway'
    <3>1. task[c] = "none" /\ dest'[c] # None
      BY <2>1, ChannelAssumption DEF Underway
    <3>2. ASSUME NEW t \in Sockets, NEW i \in DOMAIN down'[t]
          PROVE  task'[down'[t][i]] = "none" /\ dest'[down'[t][i]] # None
      BY <2>1, <2>3, <2>4, <3>1 DEF Underway
    <3>3. ASSUME NEW t \in Sockets, NEW u \in Sockets, NEW i \in DOMAIN down'[t], NEW j \in DOMAIN down'[u],
                 down'[t][i] = down'[u][j]
          PROVE  t = u /\ i = j
      <4>1. CASE i \in DOMAIN down[t] /\ down'[t][i] = down[t][i] /\ j \in DOMAIN down[u] /\ down'[u][j] = down[u][j]
        <5>1. down[t][i] = down[u][j]
          BY <3>3, <4>1
        <5>2. QED
          BY <4>1, <5>1 DEF Underway
      <4>2. CASE i \in DOMAIN down[t] /\ down'[t][i] = down[t][i] /\ down'[u][j] = c
        BY <2>3, <3>3, <4>2
      <4>3. CASE j \in DOMAIN down[u] /\ down'[u][j] = down[u][j] /\ down'[t][i] = c
        BY <2>3, <3>3, <4>3
      <4>4. QED
        BY <2>4, <4>1, <4>2, <4>3
    <3>4. \A d \in Commands : dest'[d] = None => task'[d] = "none"
      BY <2>1, <3>1 DEF Underway
    <3>5. QED
      BY <3>2, <3>3, <3>4 DEF Underway
  <2>6. \A t \in Sockets : \A i \in DOMAIN up[t] : up[t][i][1] \in Commands /\ up[t][i][1] # c
    BY <2>1 DEF Truthful, Sockets
  <2>7. Truthful'
    BY <2>1, <2>6 DEF Truthful
  <2>8. Overtaken'
    BY <2>1, <2>6 DEF Overtaken
  <2>9. InOrder' /\ RegisteredIsOpen' /\ FinalStatusIsTrue'
    BY <2>1 DEF InOrder, RegisteredIsOpen, FinalStatusIsTrue, Final
  <2>10. QED
    BY <2>2, <2>5, <2>7, <2>8, <2>9
<1>6. ASSUME NEW c \in Commands, Acknowledge(c) \/ Finish(c)
      PROVE  IInv'
  <2>1. PICK st \in {"received"} \cup Final, next \in {"running", "dead"} \cup Final :
          /\ Emit(c, st) /\ task' = [task EXCEPT ![c] = next] /\ (st \in Final => next = st)
          /\ task[c] \in {"started", "running"}
          /\ UNCHANGED <<agents, open, history, status, client, conns, down, dest>>
    <3>1. CASE Acknowledge(c)
      <4> DEFINE next == IF client[dest[c]] = 0 THEN "dead" ELSE "running"
      <4>1. /\ Emit(c, "received") /\ task' = [task EXCEPT ![c] = next] /\ task[c] = "started"
            /\ UNCHANGED <<agents, open, history, status, client, conns, down, dest>>
        BY <3>1 DEF Acknowledge, backendVars
      <4>2. next \in {"running", "dead"} \cup Final /\ "received" \notin Final
        BY DEF Final
      <4> HIDE DEF next
      <4>3. QED
        BY <4>1, <4>2
    <3>2. CASE Finish(c)
      BY <3>2 DEF Finish, backendVars
    <3>3. QED
      BY <1>6, <3>1, <3>2
  <2>2. /\ up' \in [Sockets -> Seq(Commands \X ({"received"} \cup Final))]
        /\ Truthful' /\ InOrder' /\ Overtaken'
    BY <2>1, EmitKeepsInv
  <2>3. TypeOK'
    BY <2>1, <2>2
  <2>4. Underway'
    BY <2>1 DEF Underway
  <2>5. RegisteredIsOpen' /\ FinalStatusIsTrue'
    BY <2>1 DEF RegisteredIsOpen, FinalStatusIsTrue, Final
  <2>6. QED
    BY <2>2, <2>3, <2>4, <2>5
<1>7. ASSUME NEW s \in Sockets, ServerDrops(s)
      PROVE  IInv'
  <2>1. /\ s[1] \in Endpoints /\ open' = open \ {s} /\ agents' = [agents EXCEPT ![s[1]] = 0] /\ up' = [up EXCEPT ![s] = <<>>]
        /\ UNCHANGED <<history, status, client, conns, task, down, dest>>
    BY <1>7 DEF ServerDrops, agentVars, Sockets
  <2>2. TypeOK'
    BY <2>1
  <2>3. \A t \in Sockets : \A i \in DOMAIN up'[t] : up'[t] = up[t]
    BY <2>1
  <2>4. Truthful' /\ InOrder' /\ Overtaken'
    BY <2>1, <2>3 DEF Truthful, InOrder, Overtaken
  <2>5. RegisteredIsOpen'
    BY <2>1 DEF RegisteredIsOpen
  <2>6. Underway' /\ FinalStatusIsTrue'
    BY <2>1 DEF Underway, FinalStatusIsTrue
  <2>7. QED
    BY <2>2, <2>4, <2>5, <2>6
<1>8. ASSUME NEW s \in Sockets, HandleAck(s)
      PROVE  IInv'
  <2> DEFINE ack == Head(up[s])
             c == ack[1]
  <2>1. /\ up[s] # <<>> /\ up' = [up EXCEPT ![s] = Tail(up[s])]
        /\ (status' = status \/ status' = [status EXCEPT ![c] = ack[2]])
        /\ UNCHANGED <<agents, open, history, client, conns, task, down, dest>>
    BY <1>8 DEF HandleAck, agentVars, ghostVars
  <2>2. /\ up[s] \in Seq(Commands \X ({"received"} \cup Final)) /\ 1 \in DOMAIN up[s] /\ ack = up[s][1]
        /\ c \in Commands /\ ack[2] \in {"received"} \cup Final
        /\ Tail(up[s]) \in Seq(Commands \X ({"received"} \cup Final))
        /\ \A i \in DOMAIN Tail(up[s]) : i + 1 \in DOMAIN up[s] /\ Tail(up[s])[i] = up[s][i + 1] /\ i \in Nat \ {0}
    BY <2>1
  <2> HIDE DEF ack
  <2>3. TypeOK'
    BY <2>1, <2>2
  <2> DEFINE was(t, i) == IF t = s THEN i + 1 ELSE i
  <2>4. ASSUME NEW t \in Sockets, NEW i \in DOMAIN up'[t]
        PROVE  /\ i \in Nat \ {0} /\ was(t, i) \in DOMAIN up[t] /\ up'[t][i] = up[t][was(t, i)]
               /\ up'[t][i][1] \in Commands
    <3>1. CASE t = s
      BY <2>1, <2>2, <3>1
    <3>2. CASE t # s
      BY <2>1, <2>2, <3>2
    <3>3. QED
      BY <3>1, <3>2
  <2>5. Truthful'
    <3> HIDE DEF was
    <3>1. QED
      BY <2>1, <2>4 DEF Truthful
  <2>6. InOrder'
    <3>1. ASSUME NEW t \in Sockets, NEW i \in DOMAIN up'[t], NEW j \in DOMAIN up'[t], i < j, up'[t][i][2] \in Final
          PROVE  up'[t][j][1] # up'[t][i][1]
      <4>1. was(t, i) < was(t, j)
        BY <2>4, <3>1
      <4> HIDE DEF was
      <4>2. QED
        BY <2>4, <3>1, <4>1 DEF InOrder
    <3>2. QED
      BY <3>1 DEF InOrder
  <2>7. FinalStatusIsTrue'
    <3>1. ack[2] \in Final => task[c] = ack[2]
      BY <2>2 DEF Truthful
    <3>2. QED
      BY <2>1, <2>2, <3>1 DEF FinalStatusIsTrue
  <2>8. Overtaken'
    <3>1. ASSUME NEW t \in Sockets, NEW i \in DOMAIN up'[t],
                 up'[t][i][2] \notin Final, up'[t][i][1] = c, ack[2] \in Final
          PROVE  conns[t[1]] > 1
      <4>1. t # s
        <5>1. CASE t = s
          <6>1. /\ 1 \in DOMAIN up[s] /\ i + 1 \in DOMAIN up[s] /\ 1 < i + 1
                /\ up[s][1][2] \in Final /\ up[s][i + 1][1] = up[s][1][1]
            BY <2>2, <2>4, <3>1, <5>1
          <6>2. QED
            BY <6>1 DEF InOrder
        <5>2. QED
          BY <5>1
      <4>2. t[1] = dest[c] /\ s[1] = dest[c] /\ t[2] <= conns[dest[c]] /\ s[2] <= conns[dest[c]]
        <5>1. up'[t][i] = up[t][was(t, i)] /\ was(t, i) \in DOMAIN up[t]
          BY <2>4
        <5> HIDE DEF was
        <5>2. QED
          BY <2>2, <3>1, <5>1 DEF Truthful
      <4>3. t[2] # s[2] /\ t[2] \in Nat \ {0} /\ s[2] \in Nat \ {0} /\ dest[c] \in Endpoints
        <5>1. /\ t = <<t[1], t[2]>> /\ s = <<s[1], s[2]>> /\ t[1] \in Endpoints
              /\ t[2] \in Nat \ {0} /\ s[2] \in Nat \ {0}
          BY DEF Sockets
        <5>2. QED
          BY <4>1, <4>2, <5>1
      <4>4. conns[dest[c]] \in Nat
        BY <4>3
      <4>5. QED
        BY <4>2, <4>3, <4>4
    <3>2. ASSUME NEW t \in Sockets, NEW i \in DOMAIN up'[t],
                 up'[t][i][2] \notin Final, status'[up'[t][i][1]] \in Final
          PROVE  conns'[t[1]] > 1
      <4> HIDE DEF was
      <4>1. CASE status[up'[t][i][1]] \in Final
        BY <2>1, <2>4, <3>2, <4>1 DEF Overtaken
      <4>2. CASE status[up'[t][i][1]] \notin Final
        <5>1. up'[t][i][1] = c /\ ack[2] \in Final
          BY <2>1, <2>2, <2>4, <3>2, <4>2
        <5>2. QED
          BY <2>1, <3>1, <3>2, <5>1
      <4>3. QED
        BY <4>1, <4>2
    <3>3. QED
      BY <3>2 DEF Overtaken
  <2>9. Underway' /\ RegisteredIsOpen'
    BY <2>1 DEF Underway, RegisteredIsOpen
  <2>10. QED
    BY <2>3, <2>5, <2>6, <2>7, <2>8, <2>9
<1>9. CASE UNCHANGED vars
  BY <1>9 DEF vars, backendVars, agentVars, ghostVars, Underway, Truthful, InOrder, Overtaken, RegisteredIsOpen, FinalStatusIsTrue
<1>10. QED
  BY <1>1, <1>2, <1>3, <1>4, <1>5, <1>6, <1>7, <1>8, <1>9 DEF Next


\* The inductive invariant holds in every reachable state.
THEOREM InvariantHolds == Spec => []IInv
  BY InvInit, InvStep, PTL DEF Spec

\* The registry of the backend never holds a closed socket, in whatever order
\* an agent's connections and disconnections are seen.
THEOREM Registered == Spec => []RegisteredIsOpen
<1>1. IInv => RegisteredIsOpen
  BY DEF IInv
<1>2. QED
  BY <1>1, InvariantHolds, PTL

\* What the history says of a finished command is how it ended on the agent.
THEOREM FinalStatus == Spec => []FinalStatusIsTrue
<1>1. IInv => FinalStatusIsTrue
  BY DEF IInv
<1>2. QED
  BY <1>1, InvariantHolds, PTL

\* An ack that would take a finished command back has come over another socket.
LEMMA StepReverts ==
  ASSUME IInv, [Next]_vars, NEW c \in Commands, status[c] \in Final, status'[c] \notin Final
  PROVE  conns[dest[c]] > 1
<1> USE DEF IInv, TypeOK
<1>1. ASSUME NEW s \in Sockets, HandleAck(s)
      PROVE  conns[dest[c]] > 1
  <2> DEFINE ack == Head(up[s])
  <2>1. 1 \in DOMAIN up[s] /\ ack = up[s][1] /\ ack[1] \in Commands
    BY <1>1 DEF HandleAck
  <2>2. c = ack[1] /\ ack[2] \notin Final
    BY <1>1, <2>1 DEF HandleAck
  <2>3. conns[s[1]] > 1 /\ dest[c] = s[1]
    BY <2>1, <2>2 DEF Overtaken, Truthful
  <2>4. QED
    BY <2>3
<1>2. ASSUME NEW d \in Commands, NEW e \in Endpoints, Dispatch(d, e)
      PROVE  d = c
  BY <1>2 DEF Dispatch
<1>3. \A d \in Commands : dest[d] = None => task[d] = "none"
  BY DEF Underway
<1>4. ASSUME NEW e \in Endpoints, Dispatch(c, e)
      PROVE  FALSE
  BY <1>3, <1>4 DEF Dispatch, FinalStatusIsTrue, Final
<1>5. CASE \/ \E e \in Endpoints : Connect(e) \/ ClientDrops(e) \/ Deliver(e) \/ Crash(e)
           \/ \E d \in Commands : Acknowledge(d) \/ Finish(d)
           \/ \E s \in Sockets : ServerDrops(s)
           \/ UNCHANGED vars
  <2>1. status' = status
    BY <1>5 DEF Connect, ClientDrops, Deliver, Crash, Acknowledge, Finish, ServerDrops, vars, backendVars
  <2>2. QED
    BY <2>1
<1>6. QED
  BY <1>1, <1>2, <1>4, <1>5 DEF Next

\* A finished command shows as in flight again only after a reconnection.
THEOREM Reverts == Spec => RevertsOnlyAcrossSockets
<1>1. IInv /\ IInv' /\ [Next]_vars =>
        \A c \in Commands : (status[c] \in Final /\ status'[c] \notin Final) => conns[dest[c]] > 1
  BY StepReverts
<1>2. QED
  BY <1>1, InvariantHolds, PTL DEF Spec, RevertsOnlyAcrossSockets
=============================================================================
