------------------------------ MODULE MrosProofs ------------------------------
(***************************************************************************)
(* The mROS tables, for every program and every size of the pools: PoolInv *)
(* says where a client entry may be (queued once, held by the subscribe    *)
(* task, the connection of one connector), that the entries in use are     *)
(* exactly those, and that a connector whose connection is closed is one   *)
(* of the cycle going on.  RequestInv follows the request of a call from   *)
(* the queue to the master task to one client, its caller asleep all the   *)
(* way, until the task goes on to a second publisher.  OrderInv orders the *)
(* last message delivered, the one in the topic and the one in the         *)
(* connector, which needs queues of one.                                   *)
(***************************************************************************)
EXTENDS Mros, TLAPS

ClientRecords == [used : BOOLEAN, uri : Uris \cup {0}, topic : Topics \cup {0}, api : Nat, conn : BOOLEAN]
Connectors == [node : OuterNodes, client : Clients \cup {0}]
Kinds == {"pub", "sub"}
Outers == [Kinds -> [Topics -> SUBSET Connectors]]
Managers == [inner : SUBSET Topics, outer : [Topics -> SUBSET Connectors], error : BOOLEAN]
SubTasks == [pc : {"asleep", "connect", "tcpros", "poll"}, client : Clients \cup {0},
             node : OuterNodes \cup {0}, todo : SUBSET Clients]

Has(q, c) == \E i \in DOMAIN q : q[i] = c
Once(q) == \A i, j \in DOMAIN q : q[i] = q[j] => i = j

\* A client is queued once, or held by the subscribe task, or the connection of one
\* connector; connectors have nodes of their own.
OnePlace(out, q, s) ==
    /\ Once(q) /\ ~Has(q, s.client)
    /\ \A m \in Kinds, t \in Topics : \A x \in out[m][t] :
          x.client # 0 => ~Has(q, x.client) /\ x.client # s.client
    /\ \A m1, m2 \in Kinds, t1, t2 \in Topics : \A x \in out[m1][t1], y \in out[m2][t2] :
          x.node = y.node \/ (x.client = y.client /\ x.client # 0) => m1 = m2 /\ t1 = t2 /\ x = y

\* The entries in use are those, and know their topic.
UsedAreHeld(cl, out, q, s) ==
    \A c \in Clients :
       /\ cl[c].used <=> \/ Has(q, c) \/ s.client = c
                         \/ \E m \in Kinds, t \in Topics : \E x \in out[m][t] : x.client = c
       /\ cl[c].used => cl[c].topic \in Topics

\* A connector has a node in use, and its connection is open, or was closed in the
\* cycle that is going on.
ConnectorsLive(cl, nd, out, err, s) ==
    \A m \in Kinds, t \in Topics : \A x \in out[m][t] :
       /\ x.node \in nd
       /\ x.client # 0 /\ ~cl[x.client].conn => m = "pub" /\ s.pc = "poll" /\ err

\* The subscribe task holds a client while it connects it, and a connector without a
\* connection from there to the handshake; what it is still to poll are connections
\* of outer publishers.
SubHolds(cl, out, s) ==
    /\ s.pc \in {"connect", "tcpros"} <=> s.client # 0
    /\ s.pc = "tcpros" => /\ cl[s.client].conn
                          /\ [node |-> s.node, client |-> 0] \in out["pub"][cl[s.client].topic]
    /\ s.pc = "poll" => \A c \in s.todo : \E t \in Topics : \E x \in out["pub"][t] : x.client = c

Pool(cl, nd, out, err, q, s) ==
    /\ cl \in [Clients -> ClientRecords] /\ nd \subseteq OuterNodes
    /\ out \in Outers /\ q \in Seq(Clients) /\ s \in SubTasks
    /\ OnePlace(out, q, s) /\ UsedAreHeld(cl, out, q, s)
    /\ ConnectorsLive(cl, nd, out, err, s) /\ SubHolds(cl, out, s)

OutersOf(g) == [m \in Kinds |-> [t \in Topics |-> g[m].outer[t]]]
PoolInv ==
    /\ mgr \in [Kinds -> Managers]
    /\ Pool(client, nodes, OutersOf(mgr), mgr["pub"].error, subQ, sub)

MasTasks == [pc : {"asleep", "connect", "register", "connect_slave", "reqtopic"}, call : Nat,
             uris : Seq(Uris), outer : BOOLEAN]
SlvTasks == [pc : {"accept", "connect", "reqtopic"}, topic : Topics \cup {0}, uris : Seq(Uris)]

\* Requests are of calls and topics of the program.
RequestsTyped ==
    /\ call \in Nat \ {0} /\ created \subseteq Topics
    /\ masQ \in Seq(DOMAIN Program) /\ mas \in MasTasks /\ slv \in SlvTasks
    /\ mas.pc # "asleep" => mas.call \in DOMAIN Program
    /\ slv.pc # "accept" => slv.topic \in Topics

Waiting == main = "sleep" /\ tstate["main"] = "wait"
Asked == \E c \in Clients : client[c].api # 0

TaskStates == [{"main", "mas", "sub"} -> {"run", "wait"}]

\* Before a second publisher is asked for, the request of a call is in one place: in the
\* queue, with the master task, or with one client; and its caller is asleep.
RequestInv ==
    /\ tstate \in TaskStates /\ ~mas.outer
    /\ masQ = <<>> \/ (masQ = <<call>> /\ Waiting /\ mas.pc = "asleep" /\ ~Asked)
    /\ mas.pc # "asleep" => Waiting /\ mas.call = call /\ masQ = <<>> /\ ~Asked
    /\ \A c \in Clients : client[c].api # 0 => client[c].api = call /\ Waiting
    /\ \A c, d \in Clients : client[c].api # 0 /\ client[d].api # 0 => c = d

\* With queues of one message: what waits in a connector is no older than what waits in
\* the topic, and that no older than what was delivered; 0 is an outer message.
InOrder(c, q, s, n) ==
    /\ s \in 0 .. n
    /\ c = <<>> \/ \E x \in s .. n : c = <<x>>
    /\ q = <<>> \/ \E y \in {0} \cup (s .. n) : q = <<y>> /\ (c # <<>> => y <= c[1])
OrderInv ==
    /\ msgs \in Nat /\ seen \in [Topics -> Nat]
    /\ connQ \in [Topics -> Seq(Nat)] /\ topicQ \in [Topics -> Seq(Nat)]
    /\ \A t \in Topics : InOrder(connQ[t], topicQ[t], seen[t], msgs)

\* The connectors out \ out2 go, with the nodes N and the clients F.
Removal(cl, out, out2, s, F, N) ==
    /\ \A m \in Kinds, t \in Topics : \A x \in out2[m][t] :
          /\ x \in out[m][t] /\ x.node \notin N
          /\ x.client # 0 => x.client \notin F /\ cl[x.client].conn
    /\ \A c \in Clients : c \in F <=>
          \/ s.client = c
          \/ \E m \in Kinds, t \in Topics : \E x \in out[m][t] : x \notin out2[m][t] /\ x.client = c

\* No entry is taken or given back.
SameUse(cl, cl2) == \A c \in Clients : (cl2[c].used <=> cl[c].used) /\ cl2[c].topic = cl[c].topic

\* The connector w is added to those of kind k of topic u.
Added(out, out2, k, u, w) ==
    \A m \in Kinds, t \in Topics : \A x : x \in out2[m][t] <=> x \in out[m][t] \/ (m = k /\ t = u /\ x = w)

\* The connector w of kind k of topic u becomes w2.
Replaced(out, out2, k, u, w, w2) ==
    \A m \in Kinds, t \in Topics : \A x : x \in out2[m][t] <=>
       \/ x \in out[m][t] /\ ~(m = k /\ t = u /\ x = w)
       \/ m = k /\ t = u /\ x = w2

\* No connection but that of c is closed, and that one with the error noted.
StillOpen(cl, cl2, c, err) == \A d \in Clients : cl[d].conn => cl2[d].conn \/ (d = c /\ err)

\* The entry c, if any, is taken for a connection of topic u.
Taken(cl, cl2, c, u) ==
    \A d \in Clients : IF d = c THEN cl2[d].used /\ cl2[d].topic = u /\ cl2[d].conn ELSE cl2[d] = cl[d]

-----------------------------------------------------------------------------
(* The order of the messages, with queues of one.                           *)

\* The messages stay in order at every step, and none is delivered after a newer one.
LEMMA OrderStep ==
    ASSUME QueueLen = 1, OrderInv, MrosNext
    PROVE  OrderInv' /\ \A t \in Topics : seen'[t] >= seen[t]
\* A queue of one message.
<1>OneMessage.
    ASSUME NEW x \in Nat
    PROVE  /\ <<x>> \in Seq(Nat) /\ Len(<<x>>) = 1 /\ Head(<<x>>) = x /\ <<x>>[1] = x /\ <<x>> # <<>>
           /\ Tail(<<x>>) = <<>>
  <2> USE <1>OneMessage
  <2>1. Tail(<<x>>) \in Seq(Nat) /\ Len(Tail(<<x>>)) = 0
    OBVIOUS
  <2>2. Tail(<<x>>) = <<>>
    BY <2>1
  <2> QED
    BY <2>2
\* mros_topic_connector_put_data: the new message takes the place of what waits.
<1>PutKeepsOrder.
    ASSUME QueueLen = 1, NEW n \in Nat, NEW s, NEW c \in Seq(Nat), NEW q, InOrder(c, q, s, n)
    PROVE  /\ mros_topic_connector_put_data(c, n + 1) \in Seq(Nat)
           /\ InOrder(mros_topic_connector_put_data(c, n + 1), q, s, n + 1)
  <2> USE <1>PutKeepsOrder
  <2>1. mros_topic_connector_put_data(c, n + 1) = <<n + 1>>
    <3>1. CASE c = <<>>
      BY <3>1 DEF mros_topic_connector_put_data, ListEntry_AddEntry
    <3>2. CASE c # <<>>
      <4>1. PICK x \in Nat : c = <<x>>
        BY <3>2 DEF InOrder
      <4>2. Len(c) = 1 /\ Tail(c) = <<>>
        BY <4>1, <1>OneMessage, Zenon
      <4>3. (IF Len(c) >= QueueLen THEN Tail(c) ELSE c) = <<>>
        BY <4>2
      <4>4. mros_topic_connector_put_data(c, n + 1) = <<n + 1>> \o <<>>
        BY <4>3, Zenon DEF mros_topic_connector_put_data, ListEntry_AddEntry
      <4> QED
        BY <4>4
    <3> QED
      BY <3>1, <3>2, Zenon
  <2>2. InOrder(<<n + 1>>, q, s, n + 1)
    BY DEF InOrder
  <2>3. <<n + 1>> \in Seq(Nat)
    BY <1>OneMessage
  <2> QED
    BY <2>1, <2>2, <2>3, Zenon
\* mros_topic_add_data of any message: the topic keeps that one.
<1>TopicKeepsOne.
    ASSUME NEW n \in Nat, NEW s, NEW c, NEW q \in Seq(Nat), InOrder(c, q, s, n), NEW m \in Nat
    PROVE  mros_topic_add_data(q, m) = <<m>> /\ <<m>> \in Seq(Nat)
  <2> USE <1>TopicKeepsOne
  <2>1. CASE q = <<>>
    BY <2>1 DEF mros_topic_add_data, ListEntry_AddEntry
  <2>2. CASE q # <<>>
    <3>1. PICK x \in Nat : q = <<x>>
      BY <2>2 DEF InOrder
    <3>2. Len(q) = 1 /\ Tail(q) = <<>>
      BY <3>1, <1>OneMessage, Zenon
    <3>3. (IF Len(q) >= 1 THEN Tail(q) ELSE q) = <<>>
      BY <3>2
    <3>4. mros_topic_add_data(q, m) = <<m>> \o <<>>
      BY <3>3, Zenon DEF mros_topic_add_data, ListEntry_AddEntry
    <3> QED
      BY <3>4
  <2> QED
    BY <2>1, <2>2, Zenon
\* What a step of a topic's queues may do.
<1>OrderMoves.
    ASSUME NEW n \in Nat, NEW s \in Nat, NEW c \in Seq(Nat), NEW q \in Seq(Nat), InOrder(c, q, s, n)
    PROVE  /\ InOrder(c, <<0>>, s, n)
           /\ c # <<>> => Tail(c) = <<>> /\ Head(c) \in Nat /\ InOrder(<<>>, <<Head(c)>>, s, n)
           /\ q # <<>> => Tail(q) = <<>> /\ Head(q) \in Nat /\ InOrder(c, <<>>, s, n)
           /\ q # <<>> /\ Head(q) # 0 => InOrder(c, <<>>, Head(q), n) /\ Head(q) >= s
  <2> USE <1>OrderMoves
  <2>1. InOrder(c, <<0>>, s, n) /\ InOrder(c, <<>>, s, n)
    BY DEF InOrder
  <2>2. ASSUME c # <<>> PROVE Tail(c) = <<>> /\ Head(c) \in Nat /\ InOrder(<<>>, <<Head(c)>>, s, n)
    <3>1. PICK x \in s .. n : c = <<x>>
      BY <2>2, Zenon DEF InOrder
    <3>2. Tail(c) = <<>> /\ Head(c) = x /\ x \in Nat
      BY <3>1, <1>OneMessage
    <3>3. InOrder(<<>>, <<x>>, s, n)
      BY Zenon DEF InOrder
    <3> QED
      BY <3>2, <3>3, Zenon
  <2>3. ASSUME q # <<>>
        PROVE  /\ Tail(q) = <<>> /\ Head(q) \in Nat
               /\ Head(q) # 0 => InOrder(c, <<>>, Head(q), n) /\ Head(q) >= s
    <3>1. PICK y \in {0} \cup (s .. n) : q = <<y>> /\ (c # <<>> => y <= c[1])
      BY <2>3, Zenon DEF InOrder
    <3>2. Tail(q) = <<>> /\ Head(q) = y /\ y \in Nat
      BY <3>1, <1>OneMessage
    <3>3. ASSUME y # 0 PROVE InOrder(c, <<>>, y, n) /\ y >= s
      <4>1. c = <<>> \/ \E x \in s .. n : c = <<x>> /\ y <= x
        BY <3>1, <1>OneMessage DEF InOrder
      <4> QED
        BY <3>1, <3>3, <4>1 DEF InOrder
    <3> QED
      BY <3>2, <3>3, Zenon
  <2> QED
    BY <2>1, <2>2, <2>3, Zenon
<1>1. /\ msgs \in Nat /\ seen \in [Topics -> Nat]
      /\ connQ \in [Topics -> Seq(Nat)] /\ topicQ \in [Topics -> Seq(Nat)]
      /\ \A t \in Topics : InOrder(connQ[t], topicQ[t], seen[t], msgs)
  BY Zenon DEF OrderInv
<1>2. CASE UNCHANGED <<connQ, topicQ, msgs, seen>>
  BY <1>1, <1>2 DEF OrderInv
<1>3. ASSUME NEW t \in Topics, ros_topic_publish(t)
      PROVE  OrderInv' /\ \A u \in Topics : seen'[u] >= seen[u]
  <2>1. /\ msgs' = msgs + 1 /\ UNCHANGED <<topicQ, seen>>
        /\ connQ' = [connQ EXCEPT ![t] = mros_topic_connector_put_data(connQ[t], msgs + 1)]
    BY <1>3, Zenon DEF ros_topic_publish
  <2>2. PICK p : p = mros_topic_connector_put_data(connQ[t], msgs + 1)
    BY Zenon
  <2>3. p \in Seq(Nat) /\ InOrder(p, topicQ[t], seen[t], msgs + 1)
    BY <1>1, <2>2, <1>PutKeepsOrder, Zenon
  <2>4. \A u \in Topics : InOrder(connQ[u], topicQ[u], seen[u], msgs + 1)
    BY <1>1 DEF InOrder
  <2>5. connQ' \in [Topics -> Seq(Nat)] /\ connQ'[t] = p /\ \A u \in Topics \ {t} : connQ'[u] = connQ[u]
    BY <1>1, <2>1, <2>2, <2>3, Zenon
  <2>6. \A u \in Topics : InOrder(connQ'[u], topicQ[u], seen[u], msgs + 1)
    BY <2>3, <2>4, <2>5, Zenon
  <2> QED
    BY <1>1, <2>1, <2>5, <2>6 DEF OrderInv
<1>4. CASE SubWake /\ subQ = <<>>
  <2>1. UNCHANGED <<msgs, seen>> /\ mros_topic_data_publisher_run
    BY <1>4, Zenon DEF SubWake
  <2>2. PICK R \in SUBSET Topics :
          /\ \A t \in R : connQ[t] # <<>>
          /\ topicQ' = [t \in Topics |-> IF t \in R THEN mros_topic_add_data(topicQ[t], Head(connQ[t])) ELSE topicQ[t]]
          /\ connQ' = [t \in Topics |-> IF t \in R THEN Tail(connQ[t]) ELSE connQ[t]]
    <3>1. PICK S : S = {t \in mgr["pub"].inner : connQ[t] # <<>>}
      BY Zenon
    <3>2. /\ topicQ' = [t \in Topics |-> IF t \in S THEN mros_topic_add_data(topicQ[t], Head(connQ[t])) ELSE topicQ[t]]
          /\ connQ' = [t \in Topics |-> IF t \in S THEN Tail(connQ[t]) ELSE connQ[t]]
      BY <2>1, <3>1, Zenon DEF mros_topic_data_publisher_run
    <3>3. S \cap Topics \in SUBSET Topics /\ \A t \in S \cap Topics : connQ[t] # <<>>
      BY <3>1, Zenon
    <3> QED
      BY <3>2, <3>3, Zenon
  <2>3. ASSUME NEW t \in Topics
        PROVE  /\ topicQ'[t] \in Seq(Nat) /\ connQ'[t] \in Seq(Nat)
               /\ InOrder(connQ'[t], topicQ'[t], seen[t], msgs)
    <3>1. CASE t \in R
      <4>1. PICK m : m = Head(connQ[t]) /\ m \in Nat
        BY <1>1, <2>2, <3>1
      <4>2. topicQ'[t] = <<m>> /\ <<m>> \in Seq(Nat)
        BY <1>1, <2>2, <3>1, <4>1, <1>TopicKeepsOne
      <4>3. connQ'[t] = <<>> /\ InOrder(<<>>, <<m>>, seen[t], msgs)
        BY <1>1, <2>2, <3>1, <4>1, <1>OrderMoves, Zenon
      <4> QED
        BY <4>2, <4>3
    <3>2. CASE t \notin R
      BY <1>1, <2>2, <3>2, Zenon
    <3> QED
      BY <3>1, <3>2, Zenon
  <2>4. topicQ' \in [Topics -> Seq(Nat)] /\ connQ' \in [Topics -> Seq(Nat)]
    BY <2>2, <2>3, Zenon
  <2> QED
    BY <1>1, <2>1, <2>3, <2>4 DEF OrderInv
<1>5. ASSUME NEW c, SubPoll(c)
      PROVE  OrderInv' /\ \A u \in Topics : seen'[u] >= seen[u]
  <2>1. UNCHANGED <<connQ, msgs, seen>>
    BY <1>5, Zenon DEF SubPoll
  <2>2. CASE UNCHANGED topicQ
    BY <1>2, <2>1, <2>2, Zenon
  <2>3. CASE topicQ' = [topicQ EXCEPT ![client[c].topic] = mros_topic_add_data(topicQ[client[c].topic], 0)]
    <3>1. PICK t : t = client[c].topic
      BY Zenon
    <3>2. topicQ' = [topicQ EXCEPT ![t] = mros_topic_add_data(topicQ[t], 0)]
      BY <2>3, <3>1, Zenon
    <3>3. CASE t \in Topics
      <4>1. mros_topic_add_data(topicQ[t], 0) = <<0>> /\ <<0>> \in Seq(Nat)
        BY <1>1, <3>3, <1>TopicKeepsOne, Zenon
      <4>2. InOrder(connQ[t], <<0>>, seen[t], msgs)
        BY <1>1, <3>3, <1>OrderMoves, Zenon
      <4>3. topicQ' \in [Topics -> Seq(Nat)] /\ topicQ'[t] = <<0>> /\ \A u \in Topics \ {t} : topicQ'[u] = topicQ[u]
        BY <1>1, <3>2, <3>3, <4>1, Zenon
      <4>4. \A u \in Topics : InOrder(connQ[u], topicQ'[u], seen[u], msgs)
        BY <1>1, <4>2, <4>3, Zenon
      <4> QED
        BY <1>1, <2>1, <4>3, <4>4 DEF OrderInv
    <3>4. CASE t \notin Topics
      <4>1. topicQ' = topicQ
        BY <1>1, <3>2, <3>4, Zenon
      <4> QED
        BY <1>2, <2>1, <4>1, Zenon
    <3> QED
      BY <3>3, <3>4, Zenon
  <2> QED
    BY <1>5, <2>2, <2>3, Zenon DEF SubPoll
<1>6. CASE mros_topic_data_subscriber_run
  <2>1. UNCHANGED <<connQ, msgs>>
    BY <1>6, Zenon DEF mros_topic_data_subscriber_run
  <2>2. PICK R, D \in SUBSET Topics :
          /\ D \subseteq R /\ \A t \in R : topicQ[t] # <<>>
          /\ seen' = [t \in Topics |-> IF t \in D /\ Head(topicQ[t]) # 0 THEN Head(topicQ[t]) ELSE seen[t]]
          /\ topicQ' = [t \in Topics |-> IF t \in R THEN Tail(topicQ[t]) ELSE topicQ[t]]
    <3>1. PICK S : S = {t \in Topics : topicQ[t] # <<>> /\ (t \in mgr["sub"].inner \/ mgr["sub"].outer[t] # {})}
      BY Zenon
    <3>2. PICK D : D = S \cap mgr["sub"].inner
      BY Zenon
    <3>3. /\ seen' = [t \in Topics |-> IF t \in D /\ Head(topicQ[t]) # 0 THEN Head(topicQ[t]) ELSE seen[t]]
          /\ topicQ' = [t \in Topics |-> IF t \in S THEN Tail(topicQ[t]) ELSE topicQ[t]]
      BY <1>6, <3>1, <3>2, Zenon DEF mros_topic_data_subscriber_run
    <3>4. S \in SUBSET Topics /\ D \in SUBSET Topics /\ D \subseteq S /\ \A t \in S : topicQ[t] # <<>>
      BY <3>1, <3>2, Zenon
    <3> QED
      BY <3>3, <3>4, Zenon
  <2>3. ASSUME NEW t \in Topics
        PROVE  /\ topicQ'[t] \in Seq(Nat) /\ seen'[t] \in Nat /\ seen'[t] >= seen[t]
               /\ InOrder(connQ[t], topicQ'[t], seen'[t], msgs)
    <3>1. PICK s, c, q, n : s = seen[t] /\ c = connQ[t] /\ q = topicQ[t] /\ n = msgs
      BY Zenon
    <3>2. s \in Nat /\ c \in Seq(Nat) /\ q \in Seq(Nat) /\ n \in Nat /\ InOrder(c, q, s, n)
      BY <1>1, <3>1, Zenon
    <3>3. /\ q # <<>> => Tail(q) = <<>> /\ Head(q) \in Nat /\ InOrder(c, <<>>, s, n)
          /\ q # <<>> /\ Head(q) # 0 => InOrder(c, <<>>, Head(q), n) /\ Head(q) >= s
      BY <3>2, <1>OrderMoves, Zenon
    <3>4. CASE t \in R
      <4>1. q # <<>> /\ topicQ'[t] = <<>> /\ seen'[t] = IF t \in D /\ Head(q) # 0 THEN Head(q) ELSE s
        BY <2>2, <3>1, <3>3, <3>4, Zenon
      <4> QED
        BY <3>1, <3>2, <3>3, <4>1
    <3>5. CASE t \notin R
      <4>1. topicQ'[t] = q /\ seen'[t] = s
        BY <2>2, <3>1, <3>5, Zenon
      <4> QED
        BY <3>1, <3>2, <4>1
    <3> QED
      BY <3>4, <3>5, Zenon
  <2>4. topicQ' \in [Topics -> Seq(Nat)] /\ seen' \in [Topics -> Nat]
    BY <2>2, <2>3, Zenon
  <2> QED
    BY <1>1, <2>1, <2>3, <2>4, Zenon DEF OrderInv
<1>7. CASE mros_protocol_subscribe_run
  <2>1. CASE SubWake /\ subQ # <<>>
    BY <1>2, <2>1, Zenon DEF SubWake
  <2>2. CASE SubConnect \/ SubTcpros
    BY <1>2, <2>2, Zenon DEF SubConnect, SubTcpros, data
  <2> QED
    BY <1>4, <1>5, <1>6, <1>7, <2>1, <2>2, Zenon DEF mros_protocol_subscribe_run
<1>8. CASE \/ Register \/ RegisterReturns \/ cyclic_handler
           \/ mros_protocol_master_run \/ mros_protocol_slave_run
           \/ \E t \in Topics : mros_protocol_publish_run(t)
  <2>1. UNCHANGED data
    BY <1>8, Zenon DEF Register, RegisterReturns, cyclic_handler, mros_protocol_master_run,
       mros_protocol_slave_run, mros_protocol_publish_run
  <2> QED
    BY <1>2, <2>1, Zenon DEF data
<1> QED
  BY <1>3, <1>7, <1>8, Zenon DEF MrosNext

-----------------------------------------------------------------------------
(* The requests, while no second publisher is asked for.                    *)

\* The requests are those of sleepers, at every step that does not go on to a second
\* publisher.
LEMMA RequestStep ==
    ASSUME ~mas'.outer, RequestInv, PoolInv, RequestsTyped, [MrosNext]_mrosVars
    PROVE  RequestInv'
\* wup_tsk and slp_tsk of one task.
<1>TaskWoken.
    ASSUME tstate \in TaskStates, NEW S, NEW x \in {"mas", "sub"}, NEW v \in {"run", "wait"}
    PROVE  /\ wup_tsk(S) \in TaskStates
           /\ [wup_tsk(S) EXCEPT ![x] = v] \in TaskStates
           /\ [wup_tsk(S) EXCEPT ![x] = wup_tsk(S)[x]] \in TaskStates
           /\ "main" \notin S => wup_tsk(S)["main"] = tstate["main"]
           /\ "main" \notin S => [wup_tsk(S) EXCEPT ![x] = v]["main"] = tstate["main"]
           /\ "main" \notin S => [wup_tsk(S) EXCEPT ![x] = wup_tsk(S)[x]]["main"] = tstate["main"]
  BY <1>TaskWoken, Zenon DEF wup_tsk, TaskStates
\* A step that leaves the caller and the master task alone, and gives no client a request.
<1>RequestsKept.
    ASSUME RequestInv, tstate' \in TaskStates, tstate'["main"] = tstate["main"],
           UNCHANGED <<main, call, masQ, mas>>,
           \A c \in Clients : client'[c].api \in {0, client[c].api}
    PROVE  RequestInv'
  <2> USE <1>RequestsKept
  <2>1. Waiting' <=> Waiting
    BY Zenon DEF Waiting
  <2>2. Asked' => Asked
    BY Zenon DEF Asked
  <2> QED
    BY <2>1, <2>2, Zenon DEF RequestInv
\* ros_topic_advertise and ros_topic_subscribe, their return, and cyclic_handler:
\* main is awake, so no request is on its way.
<1>MainKeepsRequests.
    ASSUME RequestInv, Register \/ RegisterReturns \/ cyclic_handler
    PROVE  RequestInv'
  <2> USE <1>MainKeepsRequests
  <2>1. ~Waiting
    BY Zenon DEF Register, RegisterReturns, cyclic_handler, Waiting
  <2>2. masQ = <<>> /\ mas.pc = "asleep" /\ (\A c \in Clients : client[c].api = 0) /\ UNCHANGED <<mas, client>>
    BY <2>1, Zenon DEF RequestInv, Register, RegisterReturns, cyclic_handler
  <2>3. ~Asked'
    BY <2>2, Zenon DEF Asked
  <2>4. tstate \in TaskStates /\ ~mas.outer
    BY Zenon DEF RequestInv
  <2>5. CASE masQ' = masQ /\ tstate' \in TaskStates
    BY <2>2, <2>3, <2>4, <2>5, Zenon DEF RequestInv
  <2>6. CASE Register /\ mros_client_wait_for_request_done
    <3>1. /\ main' = "sleep" /\ masQ' = <<call>> /\ call' = call
          /\ tstate' = [wup_tsk({"mas"}) EXCEPT !["main"] = "wait"]
      BY <2>2, <2>6 DEF Register, mros_client_wait_for_request_done, ListEntry_AddEntry
    <3>2. tstate' \in TaskStates /\ tstate'["main"] = "wait"
      BY <2>4, <3>1, Zenon DEF wup_tsk, TaskStates
    <3> QED
      BY <2>2, <2>3, <2>4, <3>1, <3>2, Zenon DEF RequestInv, Waiting
  <2>7. CASE cyclic_handler
    <3>1. masQ' = masQ /\ tstate' = wup_tsk({"sub"})
      BY <2>7, Zenon DEF cyclic_handler
    <3> QED
      BY <2>4, <2>5, <3>1, <1>TaskWoken, Zenon
  <2> QED
    BY <2>4, <2>5, <2>6, <2>7, Zenon DEF Register, RegisterReturns
\* A request for a connection is put, or not.
<1>PutRequestAsks.
    ASSUME client \in [Clients -> ClientRecords], NEW t, NEW a, NEW k, PutRequest(t, a, k)
    PROVE  \/ UNCHANGED client
           \/ /\ Addition(t, a) = "queued"
              /\ \E c \in Clients : /\ client'[c].api = k
                                        /\ \A d \in Clients \ {c} : client'[d] = client[d]
  <2> USE <1>PutRequestAsks
  <2>1. CASE Addition(t, a) = "queued"
    <3>1. PICK c \in Clients : client' = [client EXCEPT ![c] =
              [used |-> TRUE, uri |-> a, topic |-> t, api |-> k, conn |-> FALSE]]
      BY <2>1, Zenon DEF PutRequest
    <3> QED
      BY <2>1, <3>1, Zenon
  <2> QED
    BY <2>1, Zenon DEF PutRequest
\* The master task.
<1>MasterKeepsRequests.
    ASSUME ~mas'.outer, RequestInv, RequestsTyped, client \in [Clients -> ClientRecords],
           mros_protocol_master_run
    PROVE  RequestInv'
  \* The end of a request at the master task.
  <2>MasDoneKeepsRequests.
      ASSUME RequestInv, mas.pc # "asleep", NEW w \in BOOLEAN, NEW q \in BOOLEAN, MasDone(w, q),
             UNCHANGED <<main, call>>,
             UNCHANGED client \/ (~w /\ \E c \in Clients :
                                           /\ client'[c].api \in {0, call}
                                           /\ \A d \in Clients \ {c} : client'[d].api = client[d].api)
      PROVE  RequestInv'
    <3> USE <2>MasDoneKeepsRequests
    <3> DEFINE S == (IF w THEN {"main"} ELSE {}) \cup (IF q THEN {"sub"} ELSE {})
    <3>1. /\ masQ = <<>> /\ Waiting /\ tstate \in TaskStates
          /\ \A c \in Clients : client[c].api = 0
      BY Zenon DEF RequestInv, Asked
    <3>2. tstate' = [wup_tsk(S) EXCEPT !["mas"] = "wait"] /\ masQ' = <<>> /\ mas' = MasIdle
      BY <3>1, Zenon DEF MasDone
    <3>3. ~w => "main" \notin S
      BY Zenon
    <3> HIDE DEF S
    <3>4. tstate' \in TaskStates /\ (~w => tstate'["main"] = tstate["main"])
      BY <3>1, <3>2, <3>3, <1>TaskWoken, Zenon
    <3>5. ~mas'.outer /\ mas'.pc = "asleep"
      BY <3>2 DEF MasIdle
    <3>6. CASE UNCHANGED client
      BY <3>1, <3>2, <3>4, <3>5, <3>6, Zenon DEF RequestInv
    <3>7. CASE ~w /\ \E c \in Clients : /\ client'[c].api \in {0, call}
                                            /\ \A d \in Clients \ {c} : client'[d].api = client[d].api
      <4>1. Waiting'
        BY <3>1, <3>4, <3>7, Zenon DEF Waiting
      <4> QED
        BY <3>1, <3>2, <3>4, <3>5, <3>7, <4>1, Zenon DEF RequestInv
    <3> QED
      BY <3>6, <3>7, Zenon
  <2> USE <1>MasterKeepsRequests
  <2>1. UNCHANGED <<main, call>> /\ mas \in MasTasks /\ tstate \in TaskStates
    BY Zenon DEF mros_protocol_master_run, RequestsTyped, RequestInv, api
  <2>2. CASE mros_server_queue_wait
    <3>1. mas.pc = "asleep" /\ MasDone(FALSE, FALSE) /\ UNCHANGED client
      BY <2>2, Zenon DEF mros_server_queue_wait
    <3>2. tstate' \in TaskStates /\ tstate'["main"] = tstate["main"]
      <4>1. PICK v : v = [wup_tsk({} \cup {}) EXCEPT !["mas"] = IF masQ = <<>> THEN "wait" ELSE @]
        BY Zenon
      <4>2. v \in TaskStates /\ v["main"] = tstate["main"]
        BY <2>1, <4>1, Zenon DEF wup_tsk, TaskStates
      <4>3. tstate' = v
        BY <3>1, <4>1, Zenon DEF MasDone
      <4> QED
        BY <4>2, <4>3, Zenon
    <3>3. Waiting' <=> Waiting
      BY <2>1, <3>2, Zenon DEF Waiting
    <3>4. Asked' <=> Asked
      BY <3>1, Zenon DEF Asked
    <3>5. CASE masQ = <<>>
      <4>1. mas' = MasIdle /\ masQ' = <<>>
        BY <3>1, <3>5, Zenon DEF MasDone
      <4>2. ~mas'.outer /\ mas'.pc = "asleep"
        BY <4>1 DEF MasIdle
      <4> QED
        BY <2>1, <3>1, <3>2, <3>3, <4>1, <4>2, Zenon DEF RequestInv
    <3>6. CASE masQ # <<>>
      <4>1. masQ = <<call>> /\ Waiting /\ ~Asked
        BY <3>6, Zenon DEF RequestInv
      <4>2. mas' = [MasIdle EXCEPT !.pc = "connect", !.call = Head(masQ)] /\ masQ' = Tail(masQ)
        BY <3>1, <3>6, Zenon DEF MasDone
      <4>3. ~mas'.outer /\ mas'.pc = "connect" /\ mas'.call = call /\ masQ' = <<>>
        BY <4>1, <4>2 DEF MasIdle
      <4> QED
        BY <2>1, <3>1, <3>2, <3>3, <3>4, <4>1, <4>3, Zenon DEF RequestInv
    <3> QED
      BY <3>5, <3>6, Zenon
  <2>3. CASE /\ mas.pc # "asleep" /\ UNCHANGED <<masQ, tstate, client>>
             /\ \E p \in {"connect", "register", "connect_slave", "reqtopic"}, us \in Seq(Uris) :
                   mas' = [mas EXCEPT !.pc = p, !.uris = us]
    <3>1. ~mas.outer /\ Waiting /\ mas.call = call /\ masQ = <<>> /\ ~Asked
      BY <2>3, Zenon DEF RequestInv
    <3>2. PICK s : s = mas' /\ ~s.outer /\ s.call = call
      BY <2>1, <2>3, <3>1, Zenon DEF MasTasks
    <3>3. Waiting' /\ ~Asked'
      BY <2>1, <2>3, <3>1, Zenon DEF Waiting, Asked
    <3> QED
      BY <2>1, <2>3, <3>1, <3>2, <3>3, Zenon DEF RequestInv
  <2>4. CASE /\ mas.pc # "asleep" /\ UNCHANGED client
             /\ \E w, q \in BOOLEAN : MasDone(w, q)
    BY <2>1, <2>4, <2>MasDoneKeepsRequests, Zenon
  <2>5. mas.pc # "asleep" => mas.uris \in Seq(Uris) /\ mas.outer = FALSE /\ mas.call = call
    BY <2>1, Zenon DEF MasTasks, RequestInv
  <2>6. CASE MasConnect \/ MasConnectSlave
    <3>1. CASE \E w, q \in BOOLEAN : MasDone(w, q)
      <4>1. mas.pc # "asleep" /\ UNCHANGED client
        BY <2>6, Zenon DEF MasConnect, MasConnectSlave
      <4> QED
        BY <2>4, <3>1, <4>1, Zenon
    <3>2. CASE ~\E w, q \in BOOLEAN : MasDone(w, q)
      <4>1. /\ mas.pc # "asleep" /\ UNCHANGED <<masQ, tstate, client>>
            /\ mas' = [mas EXCEPT !.pc = "register"] \/ mas' = [mas EXCEPT !.pc = "reqtopic"]
        BY <2>6, <3>2, Zenon DEF MasConnect, MasConnectSlave, mros_comm_tcp_client_connect
      <4>2. \/ mas' = [mas EXCEPT !.pc = "register", !.uris = mas.uris]
            \/ mas' = [mas EXCEPT !.pc = "reqtopic", !.uris = mas.uris]
        BY <2>1, <4>1, Zenon DEF MasTasks
      <4> QED
        BY <2>3, <2>5, <4>1, <4>2, Zenon
    <3> QED
      BY <3>1, <3>2, Zenon
  <2>7. CASE MasRegister
    <3>1. CASE MasDone(TRUE, FALSE)
      <4>1. mas.pc # "asleep" /\ UNCHANGED client
        BY <2>7, Zenon DEF MasRegister
      <4> QED
        BY <2>4, <3>1, <4>1, Zenon
    <3>2. CASE ~MasDone(TRUE, FALSE)
      <4>1. mas.pc # "asleep" /\ UNCHANGED <<masQ, tstate, client>>
        BY <2>7, <3>2, Zenon DEF MasRegister
      <4>2. PICK us \in Lists(Uris) : mas' = [mas EXCEPT !.pc = "connect_slave", !.uris = us]
        BY <2>7, <3>2, Zenon DEF MasRegister
      <4>3. us \in Seq(Uris)
        BY MrosAssumption DEF Lists
      <4> QED
        BY <2>3, <4>1, <4>2, <4>3, Zenon
    <3> QED
      BY <3>1, <3>2, Zenon
  <2>8. CASE MasRequestTopic
    <3>1. mas.pc # "asleep"
      BY <2>8, Zenon DEF MasRequestTopic
    <3>2. CASE MasDone(~mas.outer, FALSE) /\ UNCHANGED client
      <4>1. (~mas.outer) \in BOOLEAN
        BY Zenon
      <4> QED
        BY <2>4, <3>1, <3>2, <4>1, Zenon
    <3>3. CASE ~(MasDone(~mas.outer, FALSE) /\ UNCHANGED client)
      <4>1. PICK a \in Uris \cup {0} :
              LET t == Program[mas.call].topic
                  r == Addition(t, a)
              IN  /\ PutRequest(t, a, mas.call)
                  /\ r # "nomem" => MasDone(FALSE, r = "queued") \/ \E us :
                       mas' = [mas EXCEPT !.pc = "connect_slave", !.uris = us, !.outer = TRUE]
                  /\ r = "nomem" => MasDone(~mas.outer, FALSE)
        BY <2>8, <3>3, Zenon DEF MasRequestTopic, mros_rpc_sendreply_xmlpacket, None
      <4>2. PICK t, r : t = Program[mas.call].topic /\ r = Addition(t, a)
        BY Zenon
      <4>3. /\ PutRequest(t, a, mas.call) /\ (r = "nomem" => MasDone(~mas.outer, FALSE))
            /\ r # "nomem" => MasDone(FALSE, r = "queued") \/ \E us :
                       mas' = [mas EXCEPT !.pc = "connect_slave", !.uris = us, !.outer = TRUE]
        BY <4>1, <4>2, Zenon
      <4>4. UNCHANGED client \/ (r = "queued" /\ \E c \in Clients :
                                           /\ client'[c].api \in {0, call}
                                           /\ \A d \in Clients \ {c} : client'[d].api = client[d].api)
        <5>1. PutRequest(t, a, mas.call) /\ r = Addition(t, a)
          BY <4>2, <4>3, Zenon
        <5> QED
          BY <2>5, <3>1, <5>1, <1>PutRequestAsks
      <4>5. r # "nomem"
        BY <3>3, <4>3, <4>4, Zenon
      <4>6. \A us : mas' # [mas EXCEPT !.pc = "connect_slave", !.uris = us, !.outer = TRUE]
        BY <2>1, Zenon DEF MasTasks
      <4>7. MasDone(FALSE, r = "queued")
        BY <4>3, <4>5, <4>6, Zenon
      <4>8. PICK q \in BOOLEAN : q = (r = "queued")
        BY Zenon
      <4>9. MasDone(FALSE, q)
        BY <4>7, <4>8, Zenon
      <4> QED
        BY <2>1, <3>1, <4>4, <4>9, <2>MasDoneKeepsRequests, Zenon
    <3> QED
      BY <3>2, <3>3, Zenon
  <2> QED
    BY <2>2, <2>6, <2>7, <2>8, Zenon DEF mros_protocol_master_run
\* The subscribe task: a handshake that is done wakes the caller and forgets the request.
<1>SubscribeKeepsRequests.
    ASSUME RequestInv, PoolInv, mros_protocol_subscribe_run
    PROVE  RequestInv'
  \* A step of the subscribe task that does not wake main.
  <2>SubNextQuiet.
      ASSUME tstate \in TaskStates, SubNext(FALSE)
      PROVE  tstate' \in TaskStates /\ tstate'["main"] = tstate["main"]
    <3> USE <2>SubNextQuiet
    <3>1. \/ tstate' = [wup_tsk({}) EXCEPT !["sub"] = "wait"]
          \/ tstate' = [wup_tsk({}) EXCEPT !["sub"] = wup_tsk({})["sub"]]
      BY Zenon DEF SubNext
    <3> QED
      BY <3>1, Zenon DEF wup_tsk, TaskStates
  \* Clients given back hold no request.
  <2>FreedAskNothing.
      ASSUME NEW F
      PROVE  \A c \in Clients : mros_comm_tcp_client_free(client, F)[c].api \in {0, client[c].api}
    BY <2>FreedAskNothing, Zenon DEF mros_comm_tcp_client_free, FreeClient, None
  <2> USE <1>SubscribeKeepsRequests
  <2>1. UNCHANGED <<main, call, masQ, mas>> /\ tstate \in TaskStates
        /\ client \in [Clients -> ClientRecords]
    BY Zenon DEF mros_protocol_subscribe_run, RequestInv, PoolInv, Pool, api
  <2>2. CASE SubNext(FALSE) /\ (UNCHANGED client \/ \E F : client' = mros_comm_tcp_client_free(client, F))
    <3>1. \A c \in Clients : client'[c].api \in {0, client[c].api}
      BY <2>2, <2>FreedAskNothing, Zenon
    <3> QED
      BY <2>1, <2>2, <3>1, <2>SubNextQuiet, <1>RequestsKept, Zenon
  <2>3. CASE UNCHANGED tstate /\ (UNCHANGED client \/ \E c \in Clients, b \in BOOLEAN : client' = [client EXCEPT ![c].conn = b])
    <3>1. \A c \in Clients : client'[c].api = client[c].api
      BY <2>1, <2>3 DEF ClientRecords
    <3> QED
      BY <2>1, <2>3, <3>1, <1>RequestsKept, Zenon
  <2>4. CASE SubWake
    BY <2>2, <2>3, <2>4, Zenon DEF SubWake, mros_topic_data_publisher_run
  <2>5. sub.pc \in {"connect", "tcpros"} => sub.client \in Clients
    BY Zenon DEF PoolInv, Pool, SubHolds, SubTasks
  <2>6. CASE SubConnect
    <3>1. CASE SubFail
      BY <2>2, <3>1, Zenon DEF SubFail
    <3>2. CASE ~SubFail
      <4>1. UNCHANGED tstate /\ client' = [client EXCEPT ![sub.client].conn = TRUE] /\ sub.pc = "connect"
        BY <2>6, <3>2, Zenon DEF SubConnect
      <4> QED
        BY <2>3, <2>5, <4>1, Zenon
    <3> QED
      BY <3>1, <3>2, Zenon
  <2>7. CASE SubTcpros
    <3>1. CASE SubFail
      BY <2>2, <3>1, Zenon DEF SubFail
    <3>2. CASE ~SubFail
      <4>1. PICK c : c = sub.client
        BY Zenon
      <4>2. /\ c \in Clients /\ client' = [client EXCEPT ![c].api = 0]
            /\ SubNext(client[c].api # 0)
        BY <2>5, <2>7, <3>2, <4>1, Zenon DEF SubTcpros, None, mros_rpc_sendreply_tcpros
      <4>3. client'[c].api = 0 /\ \A d \in Clients \ {c} : client'[d].api = client[d].api
        BY <2>1, <4>2, Zenon DEF ClientRecords
      <4>4. CASE client[c].api = 0
        <5>1. SubNext(FALSE)
          <6>1. (client[c].api # 0) = FALSE
            BY <4>4, Zenon
          <6> QED
            BY <4>2, <6>1, Zenon
        <5> QED
          BY <2>1, <4>3, <5>1, <2>SubNextQuiet, <1>RequestsKept, Zenon
      <4>5. CASE client[c].api # 0
        <5>1. \A d \in Clients : client'[d].api = 0
          BY <4>2, <4>3, <4>5, Zenon DEF RequestInv
        <5>2. Asked
          BY <4>2, <4>5, Zenon DEF Asked
        <5>3. masQ = <<>> /\ mas.pc = "asleep" /\ ~mas.outer
          BY <5>2, Zenon DEF RequestInv
        <5>4. tstate' \in TaskStates
          <6>1. \/ tstate' = [wup_tsk({"main"}) EXCEPT !["sub"] = "wait"]
                \/ tstate' = [wup_tsk({"main"}) EXCEPT !["sub"] = wup_tsk({"main"})["sub"]]
            BY <4>2, <4>5, Zenon DEF SubNext
          <6> QED
            BY <2>1, <6>1, Zenon DEF wup_tsk, TaskStates
        <5> QED
          BY <2>1, <5>1, <5>3, <5>4, Zenon DEF RequestInv
      <4> QED
        BY <4>4, <4>5, Zenon
    <3> QED
      BY <3>1, <3>2, Zenon
  <2>8. CASE mros_topic_data_subscriber_run
    BY <2>2, <2>8, Zenon DEF mros_topic_data_subscriber_run
  <2>9. CASE \E c \in Clients : SubPoll(c)
    BY <2>3, <2>9, Zenon DEF SubPoll
  <2> QED
    BY <2>4, <2>6, <2>7, <2>8, <2>9, Zenon DEF mros_protocol_subscribe_run
<1>1. tstate \in TaskStates /\ client \in [Clients -> ClientRecords]
  BY Zenon DEF RequestInv, PoolInv, Pool
<1>2. CASE mros_protocol_slave_run
  <2>1. UNCHANGED <<main, call, masQ, mas>>
    BY <1>2, Zenon DEF mros_protocol_slave_run, api
  <2>2. tstate' = tstate \/ tstate' = wup_tsk({"sub"})
    BY <1>2, Zenon DEF mros_protocol_slave_run, PublisherUpdate, SlvConnect, SlvRequestTopic,
       mros_rpc_sendreply_xmlpacket
  <2>3. UNCHANGED client \/ \E a : PutRequest(slv.topic, a, 0)
    BY <1>2, Zenon DEF mros_protocol_slave_run, PublisherUpdate, SlvConnect, SlvRequestTopic,
       mros_rpc_sendreply_xmlpacket, None
  <2>4. \A c \in Clients : client'[c].api \in {0, client[c].api}
    BY <1>1, <2>3, <1>PutRequestAsks
  <2>5. tstate' \in TaskStates /\ tstate'["main"] = tstate["main"]
    BY <1>1, <2>2, Zenon DEF wup_tsk, TaskStates
  <2> QED
    BY <2>1, <2>4, <2>5, <1>RequestsKept, Zenon
<1>3. CASE \E t \in Topics : mros_protocol_publish_run(t)
  <2>1. PICK t \in Topics : mros_protocol_publish_run(t)
    BY <1>3, Zenon
  <2>2. UNCHANGED <<main, call, masQ, mas, tstate>> /\ mros_proc_add_outersub_connector(t)
    BY <2>1, Zenon DEF mros_protocol_publish_run, api
  <2>3. \A c \in Clients : client'[c].api \in {0, client[c].api}
    BY <2>2, Zenon DEF mros_proc_add_outersub_connector, FreeClient, None
  <2> QED
    BY <1>1, <2>2, <2>3, <1>RequestsKept, Zenon
<1>4. CASE (\E t \in Topics : ros_topic_publish(t)) \/ UNCHANGED mrosVars
  <2>1. UNCHANGED <<main, call, masQ, mas, tstate, client>>
    BY <1>4, Zenon DEF ros_topic_publish, mrosVars, api
  <2> QED
    BY <1>1, <2>1, <1>RequestsKept, Zenon
<1> QED
  BY <1>1, <1>2, <1>3, <1>4, <1>MainKeepsRequests, <1>MasterKeepsRequests, <1>SubscribeKeepsRequests, Zenon DEF MrosNext

\* None is on its way at the start.
LEMMA RequestInit == MrosInit => RequestInv
<1> SUFFICES ASSUME MrosInit PROVE RequestInv
  BY Zenon
<1>1. /\ tstate = [t \in {"main", "mas", "sub"} |-> IF t = "main" THEN "run" ELSE "wait"]
      /\ masQ = <<>> /\ mas = MasIdle /\ client = [c \in Clients |-> FreeClient]
  BY Zenon DEF MrosInit
<1>2. ~mas.outer /\ mas.pc = "asleep"
  BY <1>1 DEF MasIdle
<1>3. \A c \in Clients : client[c].api = 0
  BY <1>1, Zenon DEF FreeClient, None
<1>4. tstate \in TaskStates
  BY <1>1, Zenon DEF TaskStates
<1> QED
  BY <1>1, <1>2, <1>3, <1>4, Zenon DEF RequestInv

\* Whoever holds a request holds that of a call that is asleep.
LEMMA RequestsAreOfSleepers == RequestInv => RequestsOfSleepers
BY DEF RequestInv, RequestsOfSleepers, Asleep, Waiting, None

-----------------------------------------------------------------------------
(* The types of what the tasks hold.                                        *)

\* Taking the head of a queue.
LEMMA TakeHead ==
    ASSUME NEW S, NEW q \in Seq(S), q # <<>>
    PROVE  /\ Head(q) \in S /\ Tail(q) \in Seq(S)
           /\ \A c : Has(q, c) <=> c = Head(q) \/ Has(Tail(q), c)
           /\ Once(q) => Once(Tail(q)) /\ ~Has(Tail(q), Head(q))
<1>1. Head(q) \in S /\ Tail(q) \in Seq(S) /\ Len(q) \in Nat \ {0} /\ Len(Tail(q)) = Len(q) - 1
      /\ Head(q) = q[1]
  OBVIOUS
<1>2. \A i \in 1 .. Len(q) - 1 : Tail(q)[i] = q[i + 1]
  OBVIOUS
<1>3. DOMAIN q = 1 .. Len(q) /\ DOMAIN Tail(q) = 1 .. Len(q) - 1
  BY <1>1
<1>4. ASSUME NEW c PROVE Has(q, c) <=> c = Head(q) \/ Has(Tail(q), c)
  <2>1. ASSUME NEW i \in DOMAIN q, q[i] = c, i # 1 PROVE Has(Tail(q), c)
    <3>1. i - 1 \in DOMAIN Tail(q) /\ Tail(q)[i - 1] = c
      BY <1>1, <1>2, <1>3, <2>1
    <3> QED
      BY <3>1, Zenon DEF Has
  <2>2. ASSUME NEW i \in DOMAIN Tail(q), Tail(q)[i] = c PROVE Has(q, c)
    <3>1. i + 1 \in DOMAIN q /\ q[i + 1] = c
      BY <1>1, <1>2, <1>3, <2>2
    <3> QED
      BY <3>1, Zenon DEF Has
  <2>3. 1 \in DOMAIN q
    BY <1>1, <1>3
  <2> QED
    BY <1>1, <2>1, <2>2, <2>3, Zenon DEF Has
<1>5. ASSUME Once(q) PROVE Once(Tail(q)) /\ ~Has(Tail(q), Head(q))
  <2>1. ASSUME NEW i \in DOMAIN Tail(q), NEW j \in DOMAIN Tail(q), Tail(q)[i] = Tail(q)[j] PROVE i = j
    <3>1. i + 1 \in DOMAIN q /\ j + 1 \in DOMAIN q /\ q[i + 1] = q[j + 1] /\ i \in Nat /\ j \in Nat
      BY <1>1, <1>2, <1>3, <2>1
    <3>2. i + 1 = j + 1
      BY <1>5, <3>1, Zenon DEF Once
    <3> QED
      BY <3>1, <3>2
  <2>2. ASSUME NEW i \in DOMAIN Tail(q), Tail(q)[i] = q[1] PROVE FALSE
    <3>1. i + 1 \in DOMAIN q /\ 1 \in DOMAIN q /\ q[i + 1] = q[1] /\ i \in Nat \ {0}
      BY <1>1, <1>2, <1>3, <2>2
    <3>2. i + 1 = 1
      BY <1>5, <3>1, Zenon DEF Once
    <3> QED
      BY <3>1, <3>2
  <2> QED
    BY <1>1, <2>1, <2>2, Zenon DEF Once, Has
<1> QED
  BY <1>1, <1>4, <1>5, Zenon

\* ListEntry_AddEntry puts one at the head.
LEMMA AddAtHead ==
    ASSUME NEW S, NEW q \in Seq(S), NEW e \in S
    PROVE  /\ ListEntry_AddEntry(q, e) \in Seq(S)
           /\ \A c : Has(ListEntry_AddEntry(q, e), c) <=> c = e \/ Has(q, c)
           /\ Once(q) /\ ~Has(q, e) => Once(ListEntry_AddEntry(q, e))
<1> DEFINE p == <<e>> \o q
<1>1. p \in Seq(S) /\ Len(p) = Len(q) + 1 /\ Len(q) \in Nat
  OBVIOUS
<1>2. p[1] = e /\ \A i \in 1 .. Len(q) : p[i + 1] = q[i]
  OBVIOUS
<1>3. DOMAIN q = 1 .. Len(q) /\ DOMAIN p = 1 .. Len(q) + 1
  BY <1>1
<1>4. p = ListEntry_AddEntry(q, e)
  BY Zenon DEF ListEntry_AddEntry
<1> HIDE DEF p
<1>5. \A i \in DOMAIN p : i = 1 \/ (i - 1 \in DOMAIN q /\ p[i] = q[i - 1] /\ i \in Nat)
  <2> SUFFICES ASSUME NEW i \in DOMAIN p, i # 1 PROVE i - 1 \in DOMAIN q /\ p[i] = q[i - 1] /\ i \in Nat
    BY Zenon
  <2>1. i - 1 \in 1 .. Len(q) /\ i = (i - 1) + 1 /\ i \in Nat
    BY <1>1, <1>3
  <2>2. p[(i - 1) + 1] = q[i - 1]
    BY <1>2, <2>1, Zenon
  <2> QED
    BY <1>3, <2>1, <2>2, Zenon
<1>6. ASSUME NEW c PROVE Has(p, c) <=> c = e \/ Has(q, c)
  <2>1. ASSUME NEW i \in DOMAIN q, q[i] = c PROVE Has(p, c)
    <3>1. i + 1 \in DOMAIN p /\ p[i + 1] = c
      BY <1>1, <1>2, <1>3, <2>1
    <3> QED
      BY <3>1, Zenon DEF Has
  <2>2. 1 \in DOMAIN p
    BY <1>1, <1>3
  <2> QED
    BY <1>2, <1>5, <2>1, <2>2, Zenon DEF Has
<1>7. ASSUME Once(q), ~Has(q, e) PROVE Once(p)
  <2> SUFFICES ASSUME NEW i \in DOMAIN p, NEW j \in DOMAIN p, p[i] = p[j] PROVE i = j
    BY Zenon DEF Once
  <2>1. CASE i = 1 \/ j = 1
    BY <1>2, <1>5, <1>7, <2>1, Zenon DEF Has
  <2>2. CASE i # 1 /\ j # 1
    <3>1. i - 1 = j - 1 /\ i \in Nat /\ j \in Nat
      BY <1>5, <1>7, <2>2, Zenon DEF Once
    <3> QED
      BY <3>1
  <2> QED
    BY <2>1, <2>2, Zenon
<1> QED
  BY <1>1, <1>4, <1>6, <1>7, Zenon

\* What the program registers.
LEMMA ProgramTyped == \A k \in DOMAIN Program : Program[k].kind \in Kinds /\ Program[k].topic \in Topics
<1> DEFINE R == [kind : Kinds, topic : Topics]
<1>1. Program \in Seq(R)
  BY MrosAssumption, Zenon DEF Kinds
<1>2. \A x \in R : x.kind \in Kinds /\ x.topic \in Topics
  BY Zenon
<1> HIDE DEF R
<1> QED
  BY <1>1, <1>2

\* A call that is not past the end is one of the program.
LEMMA CallInProgram == ASSUME NEW k \in Nat \ {0}, k <= Len(Program) PROVE k \in DOMAIN Program
<1> DEFINE R == [kind : {"pub", "sub"}, topic : Topics]
<1>1. Program \in Seq(R)
  BY MrosAssumption, Zenon
<1> HIDE DEF R
<1> QED
  BY <1>1

\* The requests on the way are of the program, at every step.
LEMMA RequestsTypedStep == RequestsTyped /\ [MrosNext]_mrosVars => RequestsTyped'
\* A list of URIs, and what is left of one.
<1>UriLists.
    /\ Lists(Uris) \subseteq Seq(Uris)
    /\ \A us \in Seq(Uris), k \in Nat \ {0} : SubSeq(us, k, Len(us)) \in Seq(Uris)
  <2>1. Lists(Uris) \subseteq Seq(Uris)
    <3>1. MaxUris \in Nat
      BY MrosAssumption, Zenon
    <3> SUFFICES ASSUME NEW us \in Lists(Uris) PROVE us \in Seq(Uris)
      BY Zenon
    <3>2. PICK n \in 0 .. MaxUris : us \in [1 .. n -> Uris]
      BY Zenon DEF Lists
    <3> QED
      BY <3>1, <3>2
  <2>2. \A us \in Seq(Uris), k \in Nat \ {0} : SubSeq(us, k, Len(us)) \in Seq(Uris)
    OBVIOUS
  <2> QED
    BY <2>1, <2>2, Zenon
\* What the end of a request makes of the master task.
<1>MasDoneTyped.
    ASSUME RequestsTyped, NEW wake, NEW queued, MasDone(wake, queued)
    PROVE  /\ masQ' \in Seq(DOMAIN Program) /\ mas' \in MasTasks
           /\ mas'.pc # "asleep" => mas'.call \in DOMAIN Program
  <2> USE <1>MasDoneTyped
  <2>1. MasIdle \in MasTasks /\ MasIdle.pc = "asleep"
    BY DEF MasIdle, MasTasks, None
  <2>2. CASE masQ = <<>>
    BY <2>1, <2>2, Zenon DEF MasDone, RequestsTyped
  <2>3. CASE masQ # <<>>
    <3>1. Head(masQ) \in DOMAIN Program /\ Tail(masQ) \in Seq(DOMAIN Program)
      BY <2>3, TakeHead, Zenon DEF RequestsTyped
    <3>2. mas' = [MasIdle EXCEPT !.pc = "connect", !.call = Head(masQ)] /\ masQ' = Tail(masQ)
      BY <2>3, Zenon DEF MasDone
    <3>3. DOMAIN Program \subseteq Nat
      BY MrosAssumption
    <3> QED
      BY <2>1, <3>1, <3>2, <3>3, Zenon DEF MasTasks
  <2> QED
    BY <2>2, <2>3, Zenon
\* A step of the master task ends a request or goes on with it.
<1>MasterSteps.
    ASSUME RequestsTyped, mros_protocol_master_run
    PROVE  \/ \E wake, queued \in BOOLEAN : MasDone(wake, queued)
           \/ /\ UNCHANGED masQ /\ mas.pc # "asleep" /\ mas' \in MasTasks /\ mas'.pc # "asleep"
              /\ mas'.call = mas.call
  <2> USE <1>MasterSteps
  <2> USE DEF RequestsTyped, MasTasks
  <2>1. CASE mros_server_queue_wait
    BY <2>1, Zenon DEF mros_server_queue_wait
  <2>2. CASE MasConnect
    <3>1. CASE MasDone(TRUE, FALSE)
      BY <3>1, Zenon
    <3>2. CASE mas' = [mas EXCEPT !.pc = "register"] /\ UNCHANGED <<masQ, tstate>>
      BY <2>2, <3>2, Zenon DEF MasConnect
    <3> QED
      BY <2>2, <3>1, <3>2, Zenon DEF MasConnect, mros_comm_tcp_client_connect
  <2>3. CASE MasRegister
    <3>1. CASE MasDone(TRUE, FALSE)
      BY <3>1, Zenon
    <3>2. ASSUME NEW us \in Lists(Uris), mas' = [mas EXCEPT !.pc = "connect_slave", !.uris = us],
                 UNCHANGED <<masQ, tstate>>
          PROVE  UNCHANGED masQ /\ mas' \in MasTasks /\ mas'.pc # "asleep" /\ mas'.call = mas.call
      <4>1. us \in Seq(Uris)
        BY <1>UriLists, Zenon
      <4> QED
        BY <3>2, <4>1, Zenon
    <3> QED
      BY <2>3, <3>1, <3>2, Zenon DEF MasRegister
  <2>4. CASE MasConnectSlave
    <3>1. CASE MasDone(~mas.outer, FALSE)
      BY <3>1, Zenon
    <3>2. CASE mas' = [mas EXCEPT !.pc = "reqtopic"] /\ UNCHANGED <<masQ, tstate>>
      BY <2>4, <3>2, Zenon DEF MasConnectSlave
    <3> QED
      BY <2>4, <3>1, <3>2, Zenon DEF MasConnectSlave, mros_comm_tcp_client_connect
  <2>5. CASE MasRequestTopic
    <3>1. ASSUME NEW wake, NEW queued, MasDone(wake, queued), wake \in BOOLEAN, queued \in BOOLEAN
          PROVE  \E w, d \in BOOLEAN : MasDone(w, d)
      BY <3>1, Zenon
    <3>2. ASSUME NEW k \in 2 .. Len(mas.uris) + 1, UNCHANGED masQ,
                 mas' = [mas EXCEPT !.pc = "connect_slave", !.uris = SubSeq(mas.uris, k, Len(mas.uris)), !.outer = TRUE]
          PROVE  UNCHANGED masQ /\ mas' \in MasTasks /\ mas'.pc # "asleep" /\ mas'.call = mas.call
      <4>1. mas.uris \in Seq(Uris) /\ k \in Nat \ {0}
        OBVIOUS
      <4>2. SubSeq(mas.uris, k, Len(mas.uris)) \in Seq(Uris)
        BY <4>1, <1>UriLists, Zenon
      <4> QED
        BY <3>2, <4>2, Zenon
    <3> QED
      BY <2>5, <3>1, <3>2, Zenon DEF MasRequestTopic, mros_rpc_sendreply_xmlpacket
  <2> QED
    BY <2>1, <2>2, <2>3, <2>4, <2>5, Zenon DEF mros_protocol_master_run
\* A step of the slave task.
<1>SlaveSteps.
    ASSUME RequestsTyped, mros_protocol_slave_run
    PROVE  slv' \in SlvTasks /\ (slv'.pc # "accept" => slv'.topic \in Topics)
  <2> USE <1>SlaveSteps
  <2> USE DEF RequestsTyped
  <2>1. SlvIdle \in SlvTasks /\ SlvIdle.pc = "accept"
    BY DEF SlvIdle, SlvTasks, None
  <2>2. ASSUME NEW t \in Topics, NEW us \in Seq(Uris), SlvNext(t, us)
        PROVE  slv' \in SlvTasks /\ (slv'.pc # "accept" => slv'.topic \in Topics)
    <3>1. CASE slv' = SlvIdle
      BY <2>1, <3>1, Zenon
    <3>2. CASE slv' # SlvIdle
      <4>1. PICK k \in DOMAIN us : slv' = [pc |-> "connect", topic |-> t, uris |-> SubSeq(us, k, Len(us))]
        BY <2>2, <3>2, Zenon DEF SlvNext
      <4>2. k \in Nat \ {0}
        OBVIOUS
      <4>3. SubSeq(us, k, Len(us)) \in Seq(Uris)
        BY <4>2, <1>UriLists, Zenon
      <4> QED
        BY <4>1, <4>3, Zenon DEF SlvTasks
    <3> QED
      BY <3>1, <3>2, Zenon
  <2>3. CASE PublisherUpdate
    <3>1. PICK t \in created, us \in Lists(Uris) : SlvNext(t, us)
      BY <2>3, Zenon DEF PublisherUpdate
    <3>2. t \in Topics /\ us \in Seq(Uris)
      BY <1>UriLists, Zenon
    <3> QED
      BY <2>2, <3>1, <3>2, Zenon
  <2>4. CASE SlvConnect
    <3>1. CASE slv' = SlvIdle
      BY <2>1, <3>1, Zenon
    <3>2. CASE slv' = [slv EXCEPT !.pc = "reqtopic"]
      BY <2>4, <3>2, Zenon DEF SlvTasks, SlvConnect
    <3> QED
      BY <2>4, <3>1, <3>2, Zenon DEF SlvConnect, mros_comm_tcp_client_connect
  <2>5. CASE SlvRequestTopic
    <3>1. slv.topic \in Topics /\ slv.uris \in Seq(Uris)
      BY <2>5, Zenon DEF SlvRequestTopic, SlvTasks
    <3>2. \/ slv' = SlvIdle
          \/ \E k \in 2 .. Len(slv.uris) + 1 : SlvNext(slv.topic, SubSeq(slv.uris, k, Len(slv.uris)))
      BY <2>5, Zenon DEF SlvRequestTopic, mros_rpc_sendreply_xmlpacket
    <3>3. ASSUME NEW k \in 2 .. Len(slv.uris) + 1 PROVE SubSeq(slv.uris, k, Len(slv.uris)) \in Seq(Uris)
      <4>1. k \in Nat \ {0}
        BY <3>1
      <4> QED
        BY <3>1, <4>1, <1>UriLists, Zenon
    <3> QED
      BY <2>1, <2>2, <3>1, <3>2, <3>3, Zenon
  <2> QED
    BY <2>3, <2>4, <2>5, Zenon DEF mros_protocol_slave_run
<1> SUFFICES ASSUME RequestsTyped, [MrosNext]_mrosVars PROVE RequestsTyped'
  BY Zenon
<1>2. CASE Register
  <2>1. call \in Nat \ {0} /\ call <= Len(Program)
    BY <1>2, Zenon DEF Register, RequestsTyped
  <2>2. call \in DOMAIN Program /\ Program[call].topic \in Topics
    BY <2>1, CallInProgram, ProgramTyped, Zenon
  <2>3. masQ' = masQ \/ masQ' = ListEntry_AddEntry(masQ, call)
    BY <1>2, Zenon DEF Register, mros_client_wait_for_request_done
  <2>4. masQ \in Seq(DOMAIN Program)
    BY Zenon DEF RequestsTyped
  <2>5. masQ' \in Seq(DOMAIN Program)
    <3>1. ListEntry_AddEntry(masQ, call) \in Seq(DOMAIN Program)
      BY <2>2, <2>4, AddAtHead, Zenon
    <3> QED
      BY <2>3, <2>4, <3>1, Zenon
  <2>6. call' = call /\ created' = created \cup {Program[call].topic} /\ mas' = mas /\ slv' = slv
    BY <1>2, Zenon DEF Register, mros_topic_create
  <2> QED
    BY <2>2, <2>5, <2>6, Zenon DEF RequestsTyped
<1>3. CASE RegisterReturns \/ cyclic_handler \/ mros_protocol_subscribe_run
  BY <1>3 DEF RegisterReturns, cyclic_handler, mros_protocol_subscribe_run, api, RequestsTyped
<1>4. ASSUME NEW t \in Topics, ros_topic_publish(t) \/ mros_protocol_publish_run(t)
      PROVE  RequestsTyped'
  BY <1>4, Zenon DEF ros_topic_publish, mros_protocol_publish_run, api, RequestsTyped
<1>5. CASE mros_protocol_master_run
  <2>1. call' = call /\ created' = created /\ slv' = slv
    BY <1>5, Zenon DEF mros_protocol_master_run, api
  <2>2. /\ masQ' \in Seq(DOMAIN Program) /\ mas' \in MasTasks
        /\ mas'.pc # "asleep" => mas'.call \in DOMAIN Program
    <3>1. CASE \E wake, queued \in BOOLEAN : MasDone(wake, queued)
      BY <3>1, <1>MasDoneTyped, Zenon
    <3>2. CASE ~ \E wake, queued \in BOOLEAN : MasDone(wake, queued)
      BY <1>5, <3>2, <1>MasterSteps, Zenon DEF RequestsTyped
    <3> QED
      BY <3>1, <3>2, Zenon
  <2> QED
    BY <2>1, <2>2, Zenon DEF RequestsTyped
<1>6. CASE mros_protocol_slave_run
  BY <1>6, <1>SlaveSteps, Zenon DEF mros_protocol_slave_run, api, RequestsTyped
<1>7. CASE UNCHANGED mrosVars
  BY <1>7, Zenon DEF mrosVars, RequestsTyped
<1> QED
  BY <1>2, <1>3, <1>4, <1>5, <1>6, <1>7, Zenon DEF MrosNext

-----------------------------------------------------------------------------
(* What the invariant of the tables says.                                   *)

\* Two connectors of one node, or of one pool entry, are the same connector.
LEMMA OneConnector ==
    ASSUME NEW out, NEW q, NEW s, OnePlace(out, q, s),
           NEW m1 \in Kinds, NEW m2 \in Kinds, NEW t1 \in Topics, NEW t2 \in Topics,
           NEW x \in out[m1][t1], NEW y \in out[m2][t2],
           x.node = y.node \/ (x.client = y.client /\ x.client # 0)
    PROVE  m1 = m2 /\ t1 = t2 /\ x = y
  BY DEF OnePlace

\* The connectors of a manager.
LEMMA OutersTyped ==
    ASSUME NEW g \in [Kinds -> Managers]
    PROVE  OutersOf(g) \in Outers /\ \A m \in Kinds, t \in Topics : OutersOf(g)[m][t] = g[m].outer[t]
BY DEF OutersOf, Outers, Managers

\* They are at the start.
LEMMA PoolInit == MrosInit => PoolInv /\ RequestsTyped
<1> SUFFICES ASSUME MrosInit PROVE PoolInv /\ RequestsTyped
  BY Zenon
<1> DEFINE r == [inner |-> {}, outer |-> [t \in Topics |-> {}], error |-> FALSE]
<1>1. mgr = [m \in Kinds |-> r] /\ r \in Managers
  BY Zenon DEF MrosInit, Managers, Kinds
<1>2. mgr \in [Kinds -> Managers] /\ \A m \in Kinds, t \in Topics : mgr[m].outer[t] = {}
  BY <1>1, Zenon
<1>3. OutersOf(mgr) \in Outers /\ \A m \in Kinds, t \in Topics : OutersOf(mgr)[m][t] = {}
  BY <1>2, OutersTyped
<1>4. sub = SubIdle /\ subQ = <<>> /\ nodes = {} /\ client = [c \in Clients |-> FreeClient]
  BY Zenon DEF MrosInit
<1>5. sub \in SubTasks /\ sub.client = 0 /\ sub.pc = "asleep"
  BY <1>4, Zenon DEF SubIdle, SubTasks, None
<1>6. /\ client \in [Clients -> ClientRecords] /\ \A c \in Clients : ~client[c].used
  <2>1. FreeClient \in ClientRecords /\ ~FreeClient.used
    BY Zenon DEF FreeClient, ClientRecords, None
  <2> HIDE DEF FreeClient
  <2> QED
    BY <1>4, <2>1, Zenon
<1>7. 0 \notin Clients /\ \A c : ~Has(subQ, c)
  BY <1>4 DEF Clients, Has
<1>8. OnePlace(OutersOf(mgr), subQ, sub)
  <2>1. Once(subQ)
    BY <1>4 DEF Once
  <2> QED
    BY <1>3, <1>7, <2>1, Zenon DEF OnePlace
<1>9. UsedAreHeld(client, OutersOf(mgr), subQ, sub)
  BY <1>3, <1>5, <1>6, <1>7, Zenon DEF UsedAreHeld
<1>10. ConnectorsLive(client, nodes, OutersOf(mgr), mgr["pub"].error, sub) /\ SubHolds(client, OutersOf(mgr), sub)
  BY <1>3, <1>5, Zenon DEF ConnectorsLive, SubHolds
<1>11. subQ \in Seq(Clients) /\ nodes \subseteq OuterNodes
  BY <1>4
<1>12. PoolInv
  BY <1>2, <1>3, <1>5, <1>6, <1>8, <1>9, <1>10, <1>11, Zenon DEF PoolInv, Pool
<1>13. RequestsTyped
  <2>1. call = 1 /\ created = {} /\ masQ = <<>> /\ mas = MasIdle /\ slv = SlvIdle
    BY Zenon DEF MrosInit
  <2>2. <<>> \in Seq(Uris) /\ <<>> \in Seq(DOMAIN Program)
    OBVIOUS
  <2>3. mas \in MasTasks /\ mas.pc = "asleep"
    BY <2>1, <2>2, Zenon DEF MasIdle, MasTasks, None
  <2>4. slv \in SlvTasks /\ slv.pc = "accept"
    BY <2>1, <2>2, Zenon DEF SlvIdle, SlvTasks, None
  <2> QED
    BY <2>1, <2>2, <2>3, <2>4 DEF RequestsTyped
<1> QED
  BY <1>12, <1>13, Zenon

\* Each client in use has one holder, each free one none.
LEMMA PoolAccounts == PoolInv => ClientsAccounted
<1> SUFFICES ASSUME PoolInv, NEW c \in Clients
             PROVE  /\ client[c].used <=> Queued(c) # {} \/ sub.client = c \/ Connections(c) # {}
                    /\ \A i, j \in Queued(c) : i = j
                    /\ \A x, y \in Connections(c) : x = y
                    /\ sub.client = c => Queued(c) = {} /\ Connections(c) = {}
                    /\ Queued(c) = {} \/ Connections(c) = {}
  BY Zenon DEF ClientsAccounted
<1> DEFINE out == OutersOf(mgr)
           A == Queued(c)
           B == Connections(c)
<1>1. /\ OnePlace(out, subQ, sub) /\ UsedAreHeld(client, out, subQ, sub) /\ out \in Outers
      /\ \A m \in Kinds, t \in Topics : out[m][t] = mgr[m].outer[t]
  BY OutersTyped, Zenon DEF PoolInv, Pool
<1>2. c # 0
  BY DEF Clients
<1>3. (A # {}) <=> Has(subQ, c)
  BY Zenon DEF Has, Queued
<1>4. \A i, j \in A : i = j
  BY <1>1, Zenon DEF OnePlace, Once, Queued
<1>5. ASSUME NEW x \in B
      PROVE  /\ x[1] \in Kinds /\ x[2] \in Topics /\ x = <<x[1], x[2], x[3]>>
             /\ [node |-> x[3], client |-> c] \in out[x[1]][x[2]]
  <2>1. x[1] \in Kinds /\ x[2] \in Topics /\ x = <<x[1], x[2], x[3]>>
    BY <1>5 DEF Kinds, Connections
  <2> HIDE DEF out
  <2> QED
    BY <1>1, <1>5, <2>1, Zenon DEF Connections
<1>6. ASSUME NEW m \in Kinds, NEW t \in Topics, NEW y \in out[m][t], y.client = c
      PROVE  B # {}
  <2>1. y \in Connectors
    <3> HIDE DEF out
    <3> QED
      BY <1>1, <1>6, Zenon DEF Outers
  <2>2. y = [node |-> y.node, client |-> c] /\ y.node \in OuterNodes
    BY <1>6, <2>1, Zenon DEF Connectors
  <2>3. [node |-> y.node, client |-> c] \in mgr[m].outer[t]
    <3> HIDE DEF out
    <3> QED
      BY <1>1, <1>6, <2>2, Zenon
  <2>4. <<m, t, y.node>> \in B
    BY <2>2, <2>3, Zenon DEF Kinds, Connections
  <2> QED
    BY <2>4, Zenon
<1> HIDE DEF A, B, out
<1>7. (B # {}) <=> \E m \in Kinds, t \in Topics : \E x \in out[m][t] : x.client = c
  <2>1. ASSUME B # {} PROVE \E m \in Kinds, t \in Topics : \E x \in out[m][t] : x.client = c
    <3>1. PICK x \in B : TRUE
      BY <2>1, Zenon
    <3>2. PICK y : y = [node |-> x[3], client |-> c]
      BY Zenon
    <3>3. y.client = c /\ y \in out[x[1]][x[2]] /\ x[1] \in Kinds /\ x[2] \in Topics
      BY <1>5, <3>2, Zenon
    <3> QED
      BY <3>3, Zenon
  <2> QED
    BY <1>6, <2>1, Zenon
<1>8. \A x, y \in B : x = y
  <2> SUFFICES ASSUME NEW x \in B, NEW y \in B PROVE x = y
    BY Zenon
  <2>1. PICK v, w : v = [node |-> x[3], client |-> c] /\ w = [node |-> y[3], client |-> c]
    BY Zenon
  <2>2. /\ v \in out[x[1]][x[2]] /\ w \in out[y[1]][y[2]] /\ v.client = w.client /\ v.client # 0
        /\ x[1] \in Kinds /\ x[2] \in Topics /\ y[1] \in Kinds /\ y[2] \in Topics
        /\ v.node = x[3] /\ w.node = y[3]
    BY <1>2, <1>5, <2>1, Zenon
  <2>3. x[1] = y[1] /\ x[2] = y[2] /\ v = w
    BY <1>1, <2>2 DEF OnePlace
  <2>4. x[3] = y[3]
    BY <2>2, <2>3, Zenon
  <2>5. x = <<x[1], x[2], x[3]>> /\ y = <<y[1], y[2], y[3]>>
    BY <1>5, Zenon
  <2> QED
    BY <2>3, <2>4, <2>5, Zenon
<1>9. /\ ~(Has(subQ, c) /\ sub.client = c) /\ ~(Has(subQ, c) /\ B # {}) /\ ~(sub.client = c /\ B # {})
  BY <1>1, <1>2, <1>7 DEF OnePlace
<1>10. client[c].used <=> Has(subQ, c) \/ sub.client = c \/ B # {}
  BY <1>1, <1>7, Zenon DEF UsedAreHeld
<1> QED
  BY <1>3, <1>4, <1>8, <1>9, <1>10, Zenon DEF A, B

\* Outside a cycle every connection is open.
LEMMA PoolPurges == PoolInv => ClosedArePurged
<1> SUFFICES ASSUME PoolInv, sub.pc # "poll", NEW m \in Kinds, NEW t \in Topics, NEW x \in mgr[m].outer[t]
             PROVE  x.node \in nodes /\ (x.client # 0 => client[x.client].conn)
  BY Zenon DEF ClosedArePurged, Kinds, None
<1>1. x \in OutersOf(mgr)[m][t] /\ ConnectorsLive(client, nodes, OutersOf(mgr), mgr["pub"].error, sub)
  BY OutersTyped, Zenon DEF PoolInv, Pool
<1> QED
  BY <1>1, Zenon DEF ConnectorsLive

-----------------------------------------------------------------------------
(* Every step keeps the tables in order.                                    *)

\* A free entry is taken and queued.
LEMMA PoolEnqueue ==
    ASSUME NEW cl, NEW nd, NEW out, NEW err, NEW q, NEW s, Pool(cl, nd, out, err, q, s),
           NEW c \in Clients, ~cl[c].used, NEW r \in ClientRecords, r.used, r.topic \in Topics
    PROVE  Pool([cl EXCEPT ![c] = r], nd, out, err, ListEntry_AddEntry(q, c), s)
<1> DEFINE cl2 == [cl EXCEPT ![c] = r]
           q2 == ListEntry_AddEntry(q, c)
<1>1. /\ cl \in [Clients -> ClientRecords] /\ q \in Seq(Clients) /\ s \in SubTasks
      /\ OnePlace(out, q, s) /\ UsedAreHeld(cl, out, q, s)
      /\ ConnectorsLive(cl, nd, out, err, s) /\ SubHolds(cl, out, s)
  BY Zenon DEF Pool
<1>2. ~Has(q, c) /\ s.client # c /\ \A m \in Kinds, t \in Topics : \A x \in out[m][t] : x.client # c
  BY <1>1, Zenon DEF UsedAreHeld
<1>3. q2 \in Seq(Clients) /\ Once(q2) /\ \A d : Has(q2, d) <=> d = c \/ Has(q, d)
  BY <1>1, <1>2, AddAtHead, Zenon DEF OnePlace
<1>4. cl2 \in [Clients -> ClientRecords] /\ cl2[c] = r /\ \A d \in Clients \ {c} : cl2[d] = cl[d]
  BY <1>1, Zenon
<1> HIDE DEF cl2, q2
<1>5. OnePlace(out, q2, s)
  BY <1>1, <1>2, <1>3, Zenon DEF OnePlace
<1>6. UsedAreHeld(cl2, out, q2, s)
  BY <1>1, <1>2, <1>3, <1>4, Zenon DEF UsedAreHeld
<1>7. out \in Outers /\ 0 \notin Clients /\ s.client \in Clients \cup {0}
  BY <1>1 DEF Pool, Clients, SubTasks
<1>8. ConnectorsLive(cl2, nd, out, err, s)
  <2> SUFFICES ASSUME NEW m \in Kinds, NEW t \in Topics, NEW x \in out[m][t]
               PROVE  /\ x.node \in nd
                      /\ x.client # 0 /\ ~cl2[x.client].conn => m = "pub" /\ s.pc = "poll" /\ err
    BY Zenon DEF ConnectorsLive
  <2>1. x.client \in Clients \cup {0} /\ x.client # c
    BY <1>2, <1>7 DEF Outers, Connectors
  <2>2. x.client # 0 => cl2[x.client] = cl[x.client]
    BY <1>4, <2>1, Zenon
  <2> QED
    BY <1>1, <2>2, Zenon DEF ConnectorsLive
<1>9. SubHolds(cl2, out, s)
  <2>1. s.client # 0 => cl2[s.client] = cl[s.client]
    BY <1>2, <1>4, <1>7, Zenon
  <2> QED
    BY <1>1, <2>1, Zenon DEF SubHolds
<1> QED
  BY <1>3, <1>4, <1>5, <1>6, <1>8, <1>9, Zenon DEF Pool, cl2, q2

\* mros_proc_request_outer_node_addition, of the master or the slave task.
LEMMA PutRequestKeeps ==
    ASSUME PoolInv, NEW t \in Topics, NEW a \in Uris \cup {0}, NEW k \in Nat, PutRequest(t, a, k),
           UNCHANGED <<nodes, mgr, sub>>
    PROVE  PoolInv'
<1>1. CASE Addition(t, a) = "queued"
  <2>1. PICK c \in Clients : /\ mros_comm_tcp_client_alloc(c) /\ subQ' = ListEntry_AddEntry(subQ, c)
                             /\ client' = [client EXCEPT ![c] = [used |-> TRUE, uri |-> a, topic |-> t,
                                                                 api |-> k, conn |-> FALSE]]
    BY <1>1, Zenon DEF PutRequest
  <2>3. ~client[c].used
    BY <2>1, Zenon DEF mros_comm_tcp_client_alloc, First, FreeClients
  <2>4. PICK r : r = [used |-> TRUE, uri |-> a, topic |-> t, api |-> k, conn |-> FALSE]
    BY Zenon
  <2>5. client' = [client EXCEPT ![c] = r] /\ subQ' = ListEntry_AddEntry(subQ, c)
    BY <2>1, <2>4, Zenon
  <2>6. r \in ClientRecords /\ r.used /\ r.topic \in Topics
    BY <2>4, Zenon DEF ClientRecords
  <2>7. Pool([client EXCEPT ![c] = r], nodes, OutersOf(mgr), mgr["pub"].error, ListEntry_AddEntry(subQ, c), sub)
    BY <2>3, <2>6, PoolEnqueue, Zenon DEF PoolInv
  <2> QED
    BY <2>5, <2>7, Zenon DEF PoolInv
<1>2. CASE Addition(t, a) # "queued"
  BY <1>2, Zenon DEF PutRequest, PoolInv
<1> QED
  BY <1>1, <1>2, Zenon

\* The master task leaves the connectors and the subscribe task alone, but for a request
\* to connect.
LEMMA MasterKeepsPool ==
    ASSUME PoolInv, RequestsTyped, mros_protocol_master_run
    PROVE  PoolInv'
<1>1. UNCHANGED <<nodes, mgr, sub>>
  BY Zenon DEF mros_protocol_master_run
<1>2. CASE UNCHANGED <<subQ, client>>
  BY <1>1, <1>2, Zenon DEF PoolInv
<1>3. CASE mas.pc # "asleep" /\ \E a \in Uris \cup {None} :
                PutRequest(Program[mas.call].topic, a, mas.call)
  <2>1. PICK a \in Uris \cup {0} : PutRequest(Program[mas.call].topic, a, mas.call)
    BY <1>3, Zenon DEF None
  <2>2. mas.call \in DOMAIN Program /\ mas.call \in Nat
    BY <1>3, Zenon DEF RequestsTyped, MasTasks
  <2>3. Program[mas.call].topic \in Topics
    BY <2>2, ProgramTyped, Zenon
  <2> QED
    BY <1>1, <2>1, <2>2, <2>3, PutRequestKeeps, Zenon
<1>4. UNCHANGED <<subQ, client>> \/ (mas.pc # "asleep" /\ \E a \in Uris \cup {None} :
                PutRequest(Program[mas.call].topic, a, mas.call))
  <2>1. CASE MasRequestTopic
    <3>1. mas.pc # "asleep"
      BY <2>1, Zenon DEF MasRequestTopic
    <3> QED
      BY <2>1, <3>1, Zenon DEF MasRequestTopic, mros_rpc_sendreply_xmlpacket
  <2>2. CASE ~MasRequestTopic
    BY <2>2, Zenon DEF mros_protocol_master_run, mros_server_queue_wait, MasConnect, MasRegister, MasConnectSlave
  <2> QED
    BY <2>1, <2>2, Zenon
<1> QED
  BY <1>2, <1>3, <1>4, Zenon

\* The slave task leaves them alone too, but for a request to connect.
LEMMA SlaveKeepsPool ==
    ASSUME PoolInv, RequestsTyped, mros_protocol_slave_run
    PROVE  PoolInv'
<1>1. UNCHANGED <<nodes, mgr, sub>>
  BY Zenon DEF mros_protocol_slave_run
<1>2. CASE UNCHANGED <<subQ, client>>
  BY <1>1, <1>2, Zenon DEF PoolInv
<1>3. CASE slv.pc # "accept" /\ \E a \in Uris \cup {None} : PutRequest(slv.topic, a, None)
  <2>1. PICK a \in Uris \cup {0} : PutRequest(slv.topic, a, 0)
    BY <1>3, Zenon DEF None
  <2>2. slv.topic \in Topics /\ 0 \in Nat
    BY <1>3, Zenon DEF RequestsTyped
  <2> QED
    BY <1>1, <2>1, <2>2, PutRequestKeeps, Zenon
<1>4. UNCHANGED <<subQ, client>>
      \/ (slv.pc # "accept" /\ \E a \in Uris \cup {None} : PutRequest(slv.topic, a, None))
  <2>1. CASE SlvRequestTopic
    <3>1. slv.pc # "accept"
      BY <2>1, Zenon DEF SlvRequestTopic
    <3> QED
      BY <2>1, <3>1, Zenon DEF SlvRequestTopic, mros_rpc_sendreply_xmlpacket
  <2>2. CASE ~SlvRequestTopic
    BY <2>2, Zenon DEF mros_protocol_slave_run, PublisherUpdate, SlvConnect
  <2> QED
    BY <2>1, <2>2, Zenon
<1> QED
  BY <1>2, <1>3, <1>4, Zenon

\* A change of what is not a connector.
LEMMA SameOuters ==
    ASSUME mgr \in [Kinds -> Managers], NEW k \in Kinds, NEW r \in Managers,
           mgr' = [mgr EXCEPT ![k] = r], r.outer = mgr[k].outer
    PROVE  mgr' \in [Kinds -> Managers] /\ OutersOf(mgr') = OutersOf(mgr)
BY Zenon DEF OutersOf

\* ros_topic_advertise and ros_topic_subscribe take an entry for the program's own
\* connector.
LEMMA RegisterKeepsPool == ASSUME PoolInv, RequestsTyped, Register PROVE PoolInv'
<1>1. UNCHANGED <<client, nodes, subQ, sub>> /\ mgr \in [Kinds -> Managers]
  BY Zenon DEF Register, PoolInv
<1>2. mgr' \in [Kinds -> Managers] /\ OutersOf(mgr') = OutersOf(mgr) /\ mgr'["pub"].error = mgr["pub"].error
  <2>1. CASE mgr' = mgr
    BY <1>1, <2>1, Zenon
  <2>2. CASE mgr' # mgr
    <3>1. PICK k, u : k = Program[call].kind /\ u = Program[call].topic
      BY Zenon
    <3>2. k \in Kinds /\ u \in Topics
      <4>1. call \in DOMAIN Program
        BY CallInProgram, Zenon DEF Register, RequestsTyped
      <4> QED
        BY <3>1, <4>1, ProgramTyped, Zenon
    <3>3. PICK i : i = mgr[k].inner \cup {u}
      BY Zenon
    <3>4. PICK r : r = [mgr[k] EXCEPT !.inner = i]
      BY Zenon
    <3>5. mgr' = [mgr EXCEPT ![k] = r]
      <4>1. mgr' = [mgr EXCEPT ![k].inner = @ \cup {u}]
        BY <2>2, <3>1, Zenon DEF Register
      <4> QED
        BY <1>1, <3>2, <3>3, <3>4, <4>1, Zenon
    <3>6. i \in SUBSET Topics /\ mgr[k] \in Managers
      BY <1>1, <3>2, <3>3, Zenon DEF Managers
    <3>7. r \in Managers /\ r.outer = mgr[k].outer /\ r.error = mgr[k].error
      BY <3>4, <3>6, Zenon DEF Managers
    <3>8. mgr'["pub"].error = mgr["pub"].error
      BY <1>1, <3>2, <3>5, <3>7, Zenon DEF Kinds
    <3> QED
      BY <1>1, <3>2, <3>5, <3>7, <3>8, SameOuters, Zenon
  <2> QED
    BY <2>1, <2>2, Zenon
<1> QED
  BY <1>1, <1>2, Zenon DEF PoolInv

\* A connection has been polled, and perhaps closed.
LEMMA PoolPolled ==
    ASSUME NEW cl, NEW nd, NEW out, NEW err, NEW q, NEW s, Pool(cl, nd, out, err, q, s), s.pc = "poll",
           NEW c \in s.todo, NEW cl2 \in [Clients -> ClientRecords], SameUse(cl, cl2),
           NEW err2, err => err2,
           StillOpen(cl, cl2, c, err2),
           NEW s2 \in SubTasks, s2.pc = "poll", s2.client = s.client, s2.todo = s.todo \ {c}
    PROVE  Pool(cl2, nd, out, err2, q, s2)
<1>1. /\ cl \in [Clients -> ClientRecords] /\ q \in Seq(Clients) /\ out \in Outers
      /\ OnePlace(out, q, s) /\ UsedAreHeld(cl, out, q, s) /\ nd \subseteq OuterNodes
      /\ ConnectorsLive(cl, nd, out, err, s) /\ SubHolds(cl, out, s) /\ s \in SubTasks
  BY Zenon DEF Pool
<1>2. s2 \in SubTasks /\ s2.pc = "poll" /\ s2.client = s.client /\ s2.todo = s.todo \ {c}
  BY <1>1, Zenon DEF SubTasks
<1>3. OnePlace(out, q, s2)
  BY <1>1, <1>2 DEF OnePlace
<1>4. UsedAreHeld(cl2, out, q, s2)
  BY <1>1, <1>2, Zenon DEF UsedAreHeld, SameUse
<1>5. SubHolds(cl2, out, s2)
  <2>1. \A d \in s2.todo : \E t \in Topics : \E x \in out["pub"][t] : x.client = d
    BY <1>1, <1>2, Zenon DEF SubHolds
  <2>2. s2.client = 0
    BY <1>1, <1>2, Zenon DEF SubHolds
  <2> QED
    BY <1>2, <2>1, <2>2, Zenon DEF SubHolds
<1>6. ConnectorsLive(cl2, nd, out, err2, s2)
  <2> SUFFICES ASSUME NEW m \in Kinds, NEW t \in Topics, NEW x \in out[m][t]
               PROVE  x.node \in nd /\ (x.client # 0 /\ ~cl2[x.client].conn => m = "pub" /\ err2)
    BY <1>2, Zenon DEF ConnectorsLive
  <2>1. x.client \in Clients \cup {0} /\ x.node \in nd
    BY <1>1 DEF Outers, Connectors, ConnectorsLive
  <2>2. ASSUME x.client # 0, ~cl2[x.client].conn PROVE m = "pub" /\ err2
    <3>1. CASE ~cl[x.client].conn
      BY <1>1, <2>2, <3>1, Zenon DEF ConnectorsLive
    <3>2. CASE cl[x.client].conn
      <4>1. x.client = c /\ err2
        BY <2>1, <2>2, <3>2, Zenon DEF StillOpen
      <4>2. PICK t2 \in Topics : \E y \in out["pub"][t2] : y.client = c
        BY <1>1, Zenon DEF SubHolds
      <4>3. m = "pub"
        <5>1. "pub" \in Kinds
          BY Zenon DEF Kinds
        <5> QED
          BY <1>1, <2>2, <4>1, <4>2, <5>1, OneConnector
      <4> QED
        BY <4>1, <4>3, Zenon
    <3> QED
      BY <3>1, <3>2, Zenon
  <2> QED
    BY <2>1, <2>2, Zenon
<1> QED
  BY <1>1, <1>2, <1>3, <1>4, <1>5, <1>6, Zenon DEF Pool

\* One connection of an outer publisher is polled.
LEMMA SubPollKeepsPool ==
    ASSUME PoolInv, NEW c \in Clients, SubPoll(c)
    PROVE  PoolInv'
<1> DEFINE out == OutersOf(mgr)
           e == mgr["pub"].error
<1>1. /\ Pool(client, nodes, out, e, subQ, sub) /\ mgr \in [Kinds -> Managers]
      /\ sub.pc = "poll" /\ c \in sub.todo /\ UNCHANGED <<subQ, nodes>>
      /\ sub' = [sub EXCEPT !.todo = sub.todo \ {c}]
  BY Zenon DEF PoolInv, SubPoll
<1>2. client \in [Clients -> ClientRecords]
  BY <1>1, Zenon DEF Pool
<1>3. PICK s : /\ s = sub' /\ s \in SubTasks
               /\ s.pc = "poll" /\ s.client = sub.client /\ s.todo = sub.todo \ {c}
  <2>1. sub \in SubTasks
    BY <1>1, Zenon DEF Pool
  <2> QED
    BY <1>1, <2>1 DEF SubTasks
<1>4. CASE UNCHANGED <<client, mgr>>
  <2>1. SameUse(client, client) /\ StillOpen(client, client, c, e)
    BY Zenon DEF SameUse, StillOpen
  <2>2. Pool(client, nodes, out, e, subQ, s)
    <3> HIDE DEF e, out
    <3>1. Pool(client, nodes, out, e, subQ, sub) /\ sub.pc = "poll" /\ c \in sub.todo /\ (e => e)
      BY <1>1, Zenon
    <3> QED
      BY <1>2, <1>3, <2>1, <3>1, PoolPolled, Zenon
  <2> QED
    BY <1>1, <1>3, <1>4, <2>2, Zenon DEF PoolInv
<1>5. CASE client' = [client EXCEPT ![c].conn = FALSE] /\ mgr' = [mgr EXCEPT !["pub"].error = TRUE]
  <2>1. PICK r : r = [client[c] EXCEPT !.conn = FALSE]
    BY Zenon
  <2>2. client[c] \in ClientRecords /\ client' = [client EXCEPT ![c] = r]
    BY <1>2, <1>5, <2>1, Zenon
  <2>3. r \in ClientRecords /\ r.topic = client[c].topic /\ (r.used <=> client[c].used)
    BY <2>1, <2>2, Zenon DEF ClientRecords
  <2>4. PICK cl2 : cl2 = client'
    BY Zenon
  <2>5. /\ cl2 \in [Clients -> ClientRecords] /\ cl2[c] = r
        /\ \A d \in Clients \ {c} : cl2[d] = client[d]
    BY <1>2, <2>2, <2>3, <2>4, Zenon
  <2>6. SameUse(client, cl2) /\ StillOpen(client, cl2, c, TRUE)
    BY <2>3, <2>5, Zenon DEF SameUse, StillOpen
  <2>7. PICK g : g = [mgr["pub"] EXCEPT !.error = TRUE]
    BY Zenon
  <2>8. "pub" \in Kinds /\ mgr["pub"] \in Managers /\ mgr' = [mgr EXCEPT !["pub"] = g]
    BY <1>1, <1>5, <2>7, Zenon DEF Kinds
  <2>9. g \in Managers /\ g.outer = mgr["pub"].outer /\ g.error = TRUE
    BY <2>7, <2>8, Zenon DEF Managers
  <2>10. mgr' \in [Kinds -> Managers] /\ OutersOf(mgr') = OutersOf(mgr) /\ mgr'["pub"].error = TRUE
    BY <1>1, <2>8, <2>9, SameOuters, Zenon
  <2>11. Pool(cl2, nodes, out, TRUE, subQ, s)
    <3> HIDE DEF e, out
    <3>1. Pool(client, nodes, out, e, subQ, sub) /\ sub.pc = "poll" /\ c \in sub.todo /\ (e => TRUE)
      BY <1>1, Zenon
    <3> QED
      BY <1>3, <2>5, <2>6, <3>1, PoolPolled, Zenon
  <2> QED
    BY <1>1, <1>3, <2>4, <2>10, <2>11, Zenon DEF PoolInv
<1> QED
  BY <1>4, <1>5, Zenon DEF SubPoll

\* The subscribe task goes on with the next client or sleeps.
LEMMA SubNextKeeps ==
    ASSUME NEW e, Pool(client', nodes', OutersOf(mgr'), e, subQ, SubIdle), NEW w, SubNext(w)
    PROVE  Pool(client', nodes', OutersOf(mgr'), e, subQ', sub')
\* An idle subscribe task takes the next client.
<1>PoolNext.
    ASSUME NEW cl, NEW nd, NEW out, NEW err, NEW q, Pool(cl, nd, out, err, q, SubIdle), q # <<>>,
           NEW s, s = [SubIdle EXCEPT !.pc = "connect", !.client = Head(q)]
    PROVE  Pool(cl, nd, out, err, Tail(q), s)
  <2> USE <1>PoolNext
  <2> DEFINE z == SubIdle
  <2>1. /\ q \in Seq(Clients) /\ OnePlace(out, q, z) /\ UsedAreHeld(cl, out, q, z)
        /\ ConnectorsLive(cl, nd, out, err, z) /\ SubHolds(cl, out, z)
    BY Zenon DEF Pool
  <2>2. /\ Head(q) \in Clients /\ Tail(q) \in Seq(Clients)
        /\ \A c : Has(q, c) <=> c = Head(q) \/ Has(Tail(q), c)
        /\ Once(Tail(q)) /\ ~Has(Tail(q), Head(q))
    BY <2>1, TakeHead, Zenon DEF OnePlace
  <2>3. s \in SubTasks /\ s.client = Head(q) /\ s.pc = "connect"
    BY <2>2, Zenon DEF SubTasks, SubIdle, None
  <2>4. 0 \notin Clients /\ z.client = 0 /\ z.pc = "asleep"
    BY DEF Clients, SubIdle, None
  <2> HIDE DEF z
  <2>5. OnePlace(out, Tail(q), s)
    BY <2>1, <2>2, <2>3, Zenon DEF OnePlace
  <2>6. UsedAreHeld(cl, out, Tail(q), s)
    BY <2>1, <2>2, <2>3, <2>4, Zenon DEF UsedAreHeld
  <2>7. ConnectorsLive(cl, nd, out, err, s)
    <3> SUFFICES ASSUME NEW m \in Kinds, NEW t \in Topics, NEW x \in out[m][t]
                 PROVE  x.node \in nd /\ (x.client # 0 => cl[x.client].conn)
      BY Zenon DEF ConnectorsLive
    <3> QED
      BY <2>1, <2>4, Zenon DEF ConnectorsLive
  <2>8. SubHolds(cl, out, s)
    BY <2>2, <2>3, <2>4, Zenon DEF SubHolds
  <2> QED
    BY <2>2, <2>3, <2>5, <2>6, <2>7, <2>8, Zenon DEF Pool
<1>1. CASE subQ = <<>>
  BY <1>1, Zenon DEF SubNext
<1>2. CASE subQ # <<>>
  <2>1. sub' = [SubIdle EXCEPT !.pc = "connect", !.client = Head(subQ)] /\ subQ' = Tail(subQ)
    BY <1>2, Zenon DEF SubNext
  <2>2. PICK s : s = [SubIdle EXCEPT !.pc = "connect", !.client = Head(subQ)]
    BY Zenon
  <2>3. PICK cl, nd, out : cl = client' /\ nd = nodes' /\ out = OutersOf(mgr')
    BY Zenon
  <2>4. Pool(cl, nd, out, e, subQ, SubIdle)
    BY <2>3, Zenon
  <2>5. Pool(cl, nd, out, e, Tail(subQ), s)
    BY <1>2, <2>2, <2>4, <1>PoolNext, Zenon
  <2> QED
    BY <2>1, <2>2, <2>3, <2>5, Zenon
<1> QED
  BY <1>1, <1>2, Zenon

\* The subscribe task is woken.
LEMMA SubWakeKeepsPool == ASSUME PoolInv, SubWake PROVE PoolInv'
\* A cycle begins: the connections of the outer publishers are to be polled.
<1>PoolCycle.
    ASSUME NEW cl, NEW nd, NEW out, NEW err, NEW q, NEW s, Pool(cl, nd, out, err, q, s), s.pc = "asleep",
           NEW s2 \in SubTasks, s2.pc = "poll", s2.client = 0,
           \A c \in s2.todo : \E t \in Topics : \E x \in out["pub"][t] : x.client = c
    PROVE  Pool(cl, nd, out, err, q, s2)
  <2> USE <1>PoolCycle
  <2>1. s.client = 0
    BY Zenon DEF Pool, SubHolds
  <2>2. OnePlace(out, q, s2) /\ UsedAreHeld(cl, out, q, s2)
    <3>1. OnePlace(out, q, s) /\ UsedAreHeld(cl, out, q, s) /\ s.client = s2.client
      BY <2>1, Zenon DEF Pool
    <3>2. OnePlace(out, q, s2)
      BY <3>1, Zenon DEF OnePlace
    <3>3. UsedAreHeld(cl, out, q, s2)
      BY <3>1, Zenon DEF UsedAreHeld
    <3> QED
      BY <3>2, <3>3, Zenon
  <2>3. ConnectorsLive(cl, nd, out, err, s2)
    BY Zenon DEF Pool, ConnectorsLive
  <2>4. SubHolds(cl, out, s2)
    BY Zenon DEF SubHolds
  <2> QED
    BY <2>2, <2>3, <2>4, Zenon DEF Pool
<1>1. UNCHANGED <<client, nodes, mgr>> /\ sub.pc = "asleep"
  BY Zenon DEF SubWake
<1>2. /\ Pool(client, nodes, OutersOf(mgr), mgr["pub"].error, subQ, sub) /\ sub.client = 0
      /\ mgr \in [Kinds -> Managers]
  BY <1>1, Zenon DEF PoolInv, Pool, SubHolds
<1>3. CASE subQ # <<>>
  <2>1. Pool(client, nodes, OutersOf(mgr), mgr["pub"].error, subQ, SubIdle)
    <3>1. SubIdle \in SubTasks /\ SubIdle.client = 0 /\ SubIdle.pc = "asleep"
      BY Zenon DEF SubIdle, SubTasks, None
    <3>2. OnePlace(OutersOf(mgr), subQ, SubIdle) /\ UsedAreHeld(client, OutersOf(mgr), subQ, SubIdle)
      BY <1>2, <3>1, Zenon DEF Pool, OnePlace, UsedAreHeld
    <3>3. ConnectorsLive(client, nodes, OutersOf(mgr), mgr["pub"].error, SubIdle)
      BY <1>1, <1>2, <3>1, Zenon DEF Pool, ConnectorsLive
    <3>4. SubHolds(client, OutersOf(mgr), SubIdle)
      BY <3>1, Zenon DEF SubHolds
    <3> QED
      BY <1>2, <3>1, <3>2, <3>3, <3>4, Zenon DEF Pool
  <2>2. SubNext(FALSE)
    BY <1>3, Zenon DEF SubWake
  <2> QED
    BY <1>1, <1>2, <2>1, <2>2, SubNextKeeps, Zenon DEF PoolInv
<1>4. CASE subQ = <<>>
  <2> DEFINE T == {c \in Clients : \E t \in Topics : \E x \in mgr["pub"].outer[t] : x.client = c}
  <2>1. subQ' = subQ /\ sub' = [SubIdle EXCEPT !.pc = "poll", !.todo = T]
    BY <1>4, Zenon DEF SubWake, mros_topic_data_publisher_run
  <2>2. T \subseteq Clients /\ \A c \in T : \E t \in Topics : \E x \in OutersOf(mgr)["pub"][t] : x.client = c
    BY <1>2, OutersTyped, Zenon DEF Kinds
  <2> HIDE DEF T
  <2>3. sub' \in SubTasks /\ sub'.pc = "poll" /\ sub'.client = 0 /\ sub'.todo = T
    BY <2>1, <2>2, Zenon DEF SubIdle, SubTasks, None
  <2>4. Pool(client, nodes, OutersOf(mgr), mgr["pub"].error, subQ, sub')
    <3>1. PICK s : s = sub'
      BY Zenon
    <3> QED
      BY <1>1, <1>2, <2>2, <2>3, <3>1, <1>PoolCycle, Zenon
  <2> QED
    BY <1>1, <1>2, <2>1, <2>4, Zenon DEF PoolInv
<1> QED
  BY <1>3, <1>4, Zenon

\* Connectors are removed with their nodes and connections, the client the subscribe
\* task holds is given back, and the task is idle.
LEMMA PoolRelease ==
    ASSUME NEW cl, NEW nd, NEW out, NEW err, NEW q, NEW s, Pool(cl, nd, out, err, q, s),
           NEW out2 \in Outers, NEW F, NEW N, NEW err2, Removal(cl, out, out2, s, F, N)
    PROVE  Pool(mros_comm_tcp_client_free(cl, F), nd \ N, out2, err2, q, SubIdle)
<1> DEFINE cl2 == mros_comm_tcp_client_free(cl, F)
           z == SubIdle
<1>1. /\ cl \in [Clients -> ClientRecords] /\ q \in Seq(Clients) /\ out \in Outers
      /\ OnePlace(out, q, s) /\ UsedAreHeld(cl, out, q, s) /\ nd \subseteq OuterNodes
      /\ ConnectorsLive(cl, nd, out, err, s) /\ SubHolds(cl, out, s)
  BY Zenon DEF Pool
<1>2. 0 \notin Clients /\ z.client = 0 /\ z.pc = "asleep" /\ z \in SubTasks
  BY DEF Clients, SubIdle, None, SubTasks
<1>3. FreeClient \in ClientRecords /\ ~FreeClient.used
  BY Zenon DEF FreeClient, ClientRecords, None
<1>4. /\ cl2 \in [Clients -> ClientRecords]
      /\ \A c \in Clients : cl2[c] = IF c \in F THEN FreeClient ELSE cl[c]
  BY <1>1, <1>3, Zenon DEF mros_comm_tcp_client_free
<1>5. \A m \in Kinds, t \in Topics : \A x \in out[m][t] : x.client \in Clients \cup {0}
  BY <1>1 DEF Outers, Connectors
<1>6. ~Has(q, 0)
  BY <1>1, <1>2 DEF Has
<1> HIDE DEF cl2, z
<1>7. OnePlace(out2, q, z)
  <2>1. \A m \in Kinds, t \in Topics : \A x \in out2[m][t] : x \in out[m][t]
    BY Zenon DEF Removal
  <2> QED
    BY <1>1, <1>2, <1>6, <2>1 DEF OnePlace
<1>8. ASSUME NEW c \in Clients
      PROVE  /\ cl2[c].used <=> \/ Has(q, c) \/ z.client = c
                                \/ \E m \in Kinds, t \in Topics : \E x \in out2[m][t] : x.client = c
             /\ cl2[c].used => cl2[c].topic \in Topics
  <2>1. CASE c \in F
    <3>1. ~cl2[c].used
      BY <1>3, <1>4, <2>1, Zenon
    <3>2. ~Has(q, c)
      <4>1. CASE s.client = c
        BY <1>1, <4>1, Zenon DEF OnePlace
      <4>2. CASE s.client # c
        <5>1. PICK m \in Kinds, t \in Topics : \E x \in out[m][t] : x.client = c
          BY <2>1, <4>2 DEF Removal
        <5> QED
          BY <1>1, <1>2, <5>1 DEF OnePlace
      <4> QED
        BY <4>1, <4>2, Zenon
    <3>3. \A m \in Kinds, t \in Topics : \A x \in out2[m][t] : x.client # c
      BY <1>2, <2>1 DEF Removal
    <3> QED
      BY <1>2, <3>1, <3>2, <3>3, Zenon
  <2>2. CASE c \notin F
    <3>1. cl2[c] = cl[c] /\ s.client # c /\ z.client # c
      BY <1>2, <1>4, <2>2, Zenon DEF Removal
    <3>2. \A m \in Kinds, t \in Topics : \A x \in out[m][t] : x.client = c => x \in out2[m][t]
      BY <2>2 DEF Removal
    <3>3. \A m \in Kinds, t \in Topics : \A x \in out2[m][t] : x \in out[m][t]
      BY Zenon DEF Removal
    <3> QED
      BY <1>1, <3>1, <3>2, <3>3 DEF UsedAreHeld
  <2> QED
    BY <2>1, <2>2, Zenon
<1>9. ConnectorsLive(cl2, nd \ N, out2, err2, z)
  <2> SUFFICES ASSUME NEW m \in Kinds, NEW t \in Topics, NEW x \in out2[m][t]
               PROVE  x.node \in nd \ N /\ (x.client # 0 => cl2[x.client].conn)
    BY Zenon DEF ConnectorsLive
  <2>1. x \in out[m][t] /\ x.node \notin N /\ (x.client # 0 => x.client \notin F /\ cl[x.client].conn)
    BY Zenon DEF Removal
  <2>2. x.client # 0 => cl2[x.client] = cl[x.client]
    BY <1>4, <1>5, <2>1, Zenon
  <2> QED
    BY <1>1, <2>1, <2>2, Zenon DEF ConnectorsLive
<1>10. SubHolds(cl2, out2, z)
  BY <1>2, Zenon DEF SubHolds
<1> QED
  BY <1>1, <1>2, <1>4, <1>7, <1>8, <1>9, <1>10, Zenon DEF Pool, UsedAreHeld, cl2, z

\* The end of a cycle: what is purged is given back, node and connection.
LEMMA CycleEndKeepsPool == ASSUME PoolInv, mros_topic_data_subscriber_run PROVE PoolInv'
\* mros_topic_connector_purge.
<1>PurgedRemoves.
    ASSUME NEW h \in [Kinds -> Managers], NEW k \in Kinds, NEW dead \in SUBSET Connectors,
           NEW g, g = Purged(k, h, dead)
    PROVE  /\ g \in [Kinds -> Managers] /\ ~g[k].error
           /\ \A m \in Kinds, t \in Topics : \A x : x \in OutersOf(g)[m][t] <=>
                 x \in OutersOf(h)[m][t] /\ ~(m = k /\ x \in dead)
  <2> USE <1>PurgedRemoves
  <2> DEFINE o == [t \in Topics |-> h[k].outer[t] \ dead]
             r == [inner |-> h[k].inner, outer |-> o, error |-> FALSE]
  <2>1. h[k] \in Managers
    BY Zenon
  <2>2. o \in [Topics -> SUBSET Connectors]
    BY <2>1, Zenon DEF Managers
  <2>3. g = [h EXCEPT ![k] = r]
    BY Zenon DEF Purged
  <2>4. \A t \in Topics : o[t] = h[k].outer[t] \ dead
    BY Zenon
  <2> HIDE DEF o
  <2>5. r \in Managers /\ r.outer = o /\ r.error = FALSE
    BY <2>1, <2>2, Zenon DEF Managers
  <2> HIDE DEF r
  <2>6. g \in [Kinds -> Managers] /\ g[k] = r /\ \A m \in Kinds \ {k} : g[m] = h[m]
    BY <2>3, <2>5, Zenon
  <2>7. \A m \in Kinds, t \in Topics : \A x : x \in g[m].outer[t] <=> x \in h[m].outer[t] /\ ~(m = k /\ x \in dead)
    BY <2>4, <2>5, <2>6, Zenon
  <2>8. /\ \A m \in Kinds, t \in Topics : OutersOf(g)[m][t] = g[m].outer[t]
        /\ \A m \in Kinds, t \in Topics : OutersOf(h)[m][t] = h[m].outer[t]
    BY <2>6, OutersTyped, Zenon
  <2> QED
    BY <2>5, <2>6, <2>7, <2>8
<1> DEFINE out == OutersOf(mgr)
           e == mgr["pub"].error
           gone == IF e THEN Dead("pub", client) ELSE {}
           full == {t \in Topics : topicQ[t] # <<>>
                       /\ (t \in mgr["sub"].inner \/ mgr["sub"].outer[t] # {})}
           targets == {x \in UNION {mgr["sub"].outer[t] : t \in full} : x.client # 0}
<1>1. /\ Pool(client, nodes, out, e, subQ, sub) /\ mgr \in [Kinds -> Managers]
      /\ sub.pc = "poll" /\ SubNext(FALSE)
  BY Zenon DEF PoolInv, mros_topic_data_subscriber_run
<1>2. PICK lost \in SUBSET targets :
        /\ client' = mros_comm_tcp_client_free(client, {x.client : x \in gone \cup lost})
        /\ nodes' = nodes \ {x.node : x \in gone \cup lost}
        /\ mgr' = Purged("sub", Purged("pub", mgr, gone), lost)
  BY Zenon DEF mros_topic_data_subscriber_run, mros_topic_connector_send_data, None, mros_node_remove
<1>3. out \in Outers /\ (\A m \in Kinds, t \in Topics : out[m][t] = mgr[m].outer[t])
      /\ "pub" \in Kinds /\ "sub" \in Kinds
  BY <1>1, OutersTyped, Zenon DEF Kinds
<1>4. /\ gone \in SUBSET Connectors
      /\ \A x \in gone : x.client # 0 /\ \E t \in Topics : x \in out["pub"][t]
      /\ e => \A t \in Topics : \A x \in out["pub"][t] : x.client # 0 /\ ~client[x.client].conn => x \in gone
  <2>1. \A x \in Dead("pub", client) : /\ x.client # 0 /\ \E t \in Topics : x \in mgr["pub"].outer[t]
    BY Zenon DEF Dead, None
  <2>2. \A t \in Topics : \A x \in mgr["pub"].outer[t] :
           x.client # 0 /\ ~client[x.client].conn => x \in Dead("pub", client)
    BY Zenon DEF Dead, None
  <2>3. \A x \in gone : x.client # 0 /\ \E t \in Topics : x \in out["pub"][t]
    <3> HIDE DEF out
    <3> QED
      BY <1>3, <2>1, Zenon
  <2>4. e => \A t \in Topics : \A x \in out["pub"][t] : x.client # 0 /\ ~client[x.client].conn => x \in gone
    <3> HIDE DEF out
    <3> QED
      BY <1>3, <2>2, Zenon
  <2>5. gone \in SUBSET Connectors
    <3> HIDE DEF out, gone
    <3> QED
      BY <1>3, <2>3 DEF Outers
  <2> QED
    BY <2>3, <2>4, <2>5, Zenon
<1>5. \A x \in lost : x.client # 0 /\ \E t \in Topics : x \in out["sub"][t]
  <2> HIDE DEF out
  <2> QED
    BY <1>2, <1>3
<1> HIDE DEF out, e, gone, targets
<1>6. lost \in SUBSET Connectors
  BY <1>3, <1>5, Zenon DEF Outers
<1>7. PICK h : h = Purged("pub", mgr, gone)
  BY Zenon
<1>8. /\ h \in [Kinds -> Managers]
      /\ \A m \in Kinds, t \in Topics : \A x : x \in OutersOf(h)[m][t] <=>
            x \in out[m][t] /\ ~(m = "pub" /\ x \in gone)
  BY <1>1, <1>3, <1>4, <1>7, <1>PurgedRemoves DEF out
<1>9. PICK g : g = Purged("sub", h, lost)
  BY Zenon
<1>10. /\ g \in [Kinds -> Managers]
       /\ \A m \in Kinds, t \in Topics : \A x : x \in OutersOf(g)[m][t] <=>
             x \in OutersOf(h)[m][t] /\ ~(m = "sub" /\ x \in lost)
  BY <1>3, <1>6, <1>8, <1>9, <1>PurgedRemoves
<1>11. PICK out2 : out2 = OutersOf(g)
  BY Zenon
<1>12. /\ out2 \in Outers
       /\ \A m \in Kinds, t \in Topics : \A x : x \in out2[m][t] <=>
             x \in out[m][t] /\ ~(m = "pub" /\ x \in gone) /\ ~(m = "sub" /\ x \in lost)
  BY <1>8, <1>10, <1>11, OutersTyped, Zenon
<1> DEFINE F == {x.client : x \in gone \cup lost}
           N == {x.node : x \in gone \cup lost}
<1>13. sub.client = 0 /\ 0 \notin Clients /\ OnePlace(out, subQ, sub)
       /\ ConnectorsLive(client, nodes, out, e, sub)
  BY <1>1 DEF Pool, SubHolds, Clients
<1>14. Removal(client, out, out2, sub, F, N)
  <2>1. ASSUME NEW m \in Kinds, NEW t \in Topics, NEW x \in out2[m][t]
        PROVE  /\ x \in out[m][t] /\ x.node \notin N
               /\ x.client # 0 => x.client \notin F /\ client[x.client].conn
    <3>1. x \in out[m][t] /\ ~(m = "pub" /\ x \in gone) /\ ~(m = "sub" /\ x \in lost)
      BY <1>12, Zenon
    <3>2. ASSUME NEW y \in gone \cup lost, x.node = y.node \/ (x.client = y.client /\ x.client # 0)
          PROVE  FALSE
      <4>1. CASE y \in gone
        <5>1. PICK u \in Topics : y \in out["pub"][u]
          BY <1>4, <4>1, Zenon
        <5>2. m = "pub" /\ x = y
          BY <1>3, <1>13, <3>1, <3>2, <5>1 DEF OnePlace
        <5> QED
          BY <3>1, <4>1, <5>2, Zenon
      <4>2. CASE y \in lost
        <5>1. PICK u \in Topics : y \in out["sub"][u]
          BY <1>5, <4>2, Zenon
        <5>2. m = "sub" /\ x = y
          BY <1>3, <1>13, <3>1, <3>2, <5>1 DEF OnePlace
        <5> QED
          BY <3>1, <4>2, <5>2, Zenon
      <4> QED
        BY <4>1, <4>2, Zenon
    <3>3. x.client # 0 => client[x.client].conn
      BY <1>4, <1>13, <3>1, Zenon DEF ConnectorsLive
    <3> QED
      BY <3>1, <3>2, <3>3, Zenon
  <2>2. ASSUME NEW c \in Clients
        PROVE  c \in F <=> \/ sub.client = c
                           \/ \E m \in Kinds, t \in Topics : \E x \in out[m][t] : x \notin out2[m][t] /\ x.client = c
    <3>1. ASSUME c \in F PROVE \E m \in Kinds, t \in Topics : \E x \in out[m][t] : x \notin out2[m][t] /\ x.client = c
      BY <1>3, <1>4, <1>5, <1>12, <3>1
    <3>2. ASSUME NEW m \in Kinds, NEW t \in Topics, NEW x \in out[m][t], x \notin out2[m][t], x.client = c
          PROVE  c \in F
      BY <1>12, <3>2, Zenon
    <3> QED
      BY <1>13, <3>1, <3>2, Zenon
  <2> HIDE DEF F, N
  <2> QED
    BY <2>1, <2>2, Zenon DEF Removal
<1> HIDE DEF F, N
<1>15. Pool(mros_comm_tcp_client_free(client, F), nodes \ N, out2, g["pub"].error, subQ, SubIdle)
  BY <1>1, <1>12, <1>14, PoolRelease, Zenon
<1>16. client' = mros_comm_tcp_client_free(client, F) /\ nodes' = nodes \ N /\ mgr' = g
  BY <1>2, <1>7, <1>9, Zenon DEF F, N
<1>17. Pool(client', nodes', OutersOf(mgr'), g["pub"].error, subQ, SubIdle)
  BY <1>11, <1>15, <1>16, Zenon
<1>18. Pool(client', nodes', OutersOf(mgr'), g["pub"].error, subQ', sub')
  BY <1>1, <1>17, SubNextKeeps, Zenon
<1> QED
  BY <1>10, <1>16, <1>18, Zenon DEF PoolInv

\* A failed step of the subscribe task gives its client back.
LEMMA SubFailKeeps ==
    ASSUME NEW nd, NEW out, NEW e, Pool(client, nd, out, e, subQ, sub), sub.client # 0,
           NEW g, OutersOf(g) \in Outers, NEW N,
           \A m \in Kinds, t \in Topics : \A x : x \in OutersOf(g)[m][t] =>
              x \in out[m][t] /\ x.node \notin N /\ (x.client # 0 => client[x.client].conn),
           \A m \in Kinds, t \in Topics : \A x \in out[m][t] : x \notin OutersOf(g)[m][t] => x.client = 0
    PROVE  Pool(mros_comm_tcp_client_free(client, {sub.client}), nd \ N, OutersOf(g), g["pub"].error, subQ, SubIdle)
<1> DEFINE F == {sub.client}
<1>1. OnePlace(out, subQ, sub)
  BY Zenon DEF Pool
<1>2. 0 \notin Clients
  BY DEF Clients
<1>3. Removal(client, out, OutersOf(g), sub, F, N)
  <2>1. \A m \in Kinds, t \in Topics : \A x \in OutersOf(g)[m][t] :
          /\ x \in out[m][t] /\ x.node \notin N
          /\ x.client # 0 => x.client \notin F /\ client[x.client].conn
    BY <1>1, Zenon DEF OnePlace
  <2>2. \A c \in Clients : c \in F <=>
          \/ sub.client = c
          \/ \E m \in Kinds, t \in Topics : \E x \in out[m][t] : x \notin OutersOf(g)[m][t] /\ x.client = c
    BY <1>2, Zenon
  <2> QED
    BY <2>1, <2>2, Zenon DEF Removal
<1> HIDE DEF F
<1>4. Pool(mros_comm_tcp_client_free(client, F), nd \ N, OutersOf(g), g["pub"].error, subQ, SubIdle)
  BY <1>3, PoolRelease, Zenon
<1> QED
  BY <1>4, Zenon DEF F

\* mros_topic_connector_add.
LEMMA AddOuterAdds ==
    ASSUME mgr \in [Kinds -> Managers], NEW k \in Kinds, NEW u \in Topics,
           NEW n \in OuterNodes, NEW c \in Clients \cup {0}
    PROVE  /\ AddOuter(k, u, n, c) \in [Kinds -> Managers]
           /\ Added(OutersOf(mgr), OutersOf(AddOuter(k, u, n, c)), k, u, [node |-> n, client |-> c])
           /\ AddOuter(k, u, n, c)["pub"].error = mgr["pub"].error
<1> DEFINE w == [node |-> n, client |-> c]
           g == AddOuter(k, u, n, c)
           r == [mgr[k] EXCEPT !.outer = [mgr[k].outer EXCEPT ![u] = mgr[k].outer[u] \cup {w}]]
<1>1. w \in Connectors
  BY Zenon DEF Connectors
<1>2. g = [mgr EXCEPT ![k] = r]
  BY Zenon DEF AddOuter
<1>3. r \in Managers
  <2>1. mgr[k] \in Managers
    BY Zenon
  <2>2. PICK o : o = [mgr[k].outer EXCEPT ![u] = mgr[k].outer[u] \cup {w}]
    BY Zenon
  <2>3. o \in [Topics -> SUBSET Connectors]
    BY <1>1, <2>1, <2>2, Zenon DEF Managers
  <2>4. r = [mgr[k] EXCEPT !.outer = o]
    BY <2>2, Zenon
  <2> HIDE DEF r
  <2> QED
    BY <2>1, <2>3, <2>4, Zenon DEF Managers
<1>4. r.outer = [mgr[k].outer EXCEPT ![u] = mgr[k].outer[u] \cup {w}] /\ r.error = mgr[k].error
  BY Zenon DEF Managers
<1> HIDE DEF g, r, w
<1>5. g \in [Kinds -> Managers] /\ g["pub"].error = mgr["pub"].error
  BY <1>2, <1>3, <1>4, Zenon DEF Kinds
<1>6. \A m \in Kinds, t \in Topics : \A x : x \in g[m].outer[t] <=>
         x \in mgr[m].outer[t] \/ (m = k /\ t = u /\ x = w)
  BY <1>2, <1>3, <1>4 DEF Managers
<1> QED
  <2>1. /\ \A m \in Kinds, t \in Topics : OutersOf(g)[m][t] = g[m].outer[t]
        /\ \A m \in Kinds, t \in Topics : OutersOf(mgr)[m][t] = mgr[m].outer[t]
    BY <1>5, OutersTyped, Zenon
  <2>2. Added(OutersOf(mgr), OutersOf(g), k, u, w)
    BY <1>6, <2>1 DEF Added
  <2> QED
    BY <1>5, <2>2, Zenon DEF g, w

\* An outer subscriber gets a node and a connector, and a client if one is free.
LEMMA PoolOuterSub ==
    ASSUME NEW cl, NEW nd, NEW out, NEW err, NEW q, NEW s, Pool(cl, nd, out, err, q, s),
           NEW n \in OuterNodes \ nd, NEW u \in Topics, NEW out2 \in Outers,
           NEW c \in Clients \cup {0}, c # 0 => ~cl[c].used,
           NEW cl2 \in [Clients -> ClientRecords],
           Taken(cl, cl2, c, u), Added(out, out2, "sub", u, [node |-> n, client |-> c])
    PROVE  Pool(cl2, nd \cup {n}, out2, err, q, s)
<1> DEFINE w == [node |-> n, client |-> c]
<1>1. /\ cl \in [Clients -> ClientRecords] /\ q \in Seq(Clients) /\ out \in Outers
      /\ OnePlace(out, q, s) /\ UsedAreHeld(cl, out, q, s) /\ nd \subseteq OuterNodes
      /\ ConnectorsLive(cl, nd, out, err, s) /\ SubHolds(cl, out, s) /\ s \in SubTasks
  BY Zenon DEF Pool
<1>2. w.node = n /\ w.client = c
  BY Zenon
<1>3. \A m \in Kinds, t \in Topics : \A x \in out2[m][t] : x \in out[m][t] \/ (m = "sub" /\ t = u /\ x = w)
  BY Zenon DEF Added
<1>4. /\ \A m \in Kinds, t \in Topics : \A x \in out[m][t] : x \in out2[m][t]
      /\ w \in out2["sub"][u]
  BY Zenon DEF Kinds, Added
<1>5. \A m \in Kinds, t \in Topics : \A x \in out[m][t] : x.node # n /\ x.node \in nd
  BY <1>1, Zenon DEF ConnectorsLive
<1>6. c # 0 => /\ ~Has(q, c) /\ s.client # c
               /\ \A m \in Kinds, t \in Topics : \A x \in out[m][t] : x.client # c
  BY <1>1, Zenon DEF UsedAreHeld
<1>7. \A d \in Clients : d # c => cl2[d] = cl[d]
  BY Zenon DEF Taken
<1>8. \A d \in Clients : d = c => cl2[d].used /\ cl2[d].topic = u /\ cl2[d].conn
  BY Zenon DEF Taken
<1>9. s.client \in Clients \cup {0} /\ (s.client # 0 => cl2[s.client] = cl[s.client])
  BY <1>1, <1>6, <1>7, Zenon DEF SubTasks
<1> HIDE DEF w
<1>10. OnePlace(out2, q, s)
  <2>1. ASSUME NEW m1 \in Kinds, NEW m2 \in Kinds, NEW t1 \in Topics, NEW t2 \in Topics,
               NEW x \in out2[m1][t1], NEW y \in out2[m2][t2],
               x.node = y.node \/ (x.client = y.client /\ x.client # 0)
        PROVE  m1 = m2 /\ t1 = t2 /\ x = y
    <3>1. CASE x \in out[m1][t1] /\ y \in out[m2][t2]
      BY <1>1, <2>1, <3>1 DEF OnePlace
    <3>2. CASE x = w \/ y = w
      BY <1>2, <1>3, <1>5, <1>6, <2>1, <3>2
    <3> QED
      BY <1>3, <3>1, <3>2, Zenon
  <2>2. ASSUME NEW m \in Kinds, NEW t \in Topics, NEW x \in out2[m][t], x.client # 0
        PROVE  ~Has(q, x.client) /\ x.client # s.client
    BY <1>1, <1>2, <1>3, <1>6, <2>2, Zenon DEF OnePlace
  <2> QED
    BY <1>1, <2>1, <2>2, Zenon DEF OnePlace
<1>11. ASSUME NEW d \in Clients
       PROVE  /\ cl2[d].used <=> \/ Has(q, d) \/ s.client = d
                                 \/ \E m \in Kinds, t \in Topics : \E x \in out2[m][t] : x.client = d
              /\ cl2[d].used => cl2[d].topic \in Topics
  <2>1. CASE d = c
    <3>1. \E m \in Kinds, t \in Topics : \E x \in out2[m][t] : x.client = d
      BY <1>2, <1>4, <2>1, Zenon DEF Kinds
    <3> QED
      BY <1>8, <2>1, <3>1, Zenon
  <2>2. CASE d # c
    <3>1. (\E m \in Kinds, t \in Topics : \E x \in out2[m][t] : x.client = d)
          <=> \E m \in Kinds, t \in Topics : \E x \in out[m][t] : x.client = d
      BY <1>2, <1>3, <1>4, <2>2, Zenon
    <3>2. cl2[d] = cl[d]
      BY <1>7, <2>2, Zenon
    <3> QED
      BY <1>1, <3>1, <3>2, Zenon DEF UsedAreHeld
  <2> QED
    BY <2>1, <2>2, Zenon
<1>12. ConnectorsLive(cl2, nd \cup {n}, out2, err, s)
  <2> SUFFICES ASSUME NEW m \in Kinds, NEW t \in Topics, NEW x \in out2[m][t]
               PROVE  /\ x.node \in nd \cup {n}
                      /\ x.client # 0 /\ ~cl2[x.client].conn => m = "pub" /\ s.pc = "poll" /\ err
    BY Zenon DEF ConnectorsLive
  <2>1. CASE x = w
    BY <1>2, <1>8, <2>1, Zenon
  <2>2. CASE x \in out[m][t]
    <3>1. x.client \in Clients \cup {0}
      BY <1>1, <2>2 DEF Outers, Connectors
    <3>2. x.client # 0 => cl2[x.client] = cl[x.client]
      BY <1>6, <1>7, <2>2, <3>1, Zenon
    <3> QED
      BY <1>1, <2>2, <3>2, Zenon DEF ConnectorsLive
  <2> QED
    BY <1>3, <2>1, <2>2, Zenon
<1>13. SubHolds(cl2, out2, s)
  <2>1. "pub" \in Kinds
    BY Zenon DEF Kinds
  <2>2. s.pc = "tcpros" => s.client # 0 /\ cl[s.client].topic \in Topics
    BY <1>1, <1>9, Zenon DEF SubHolds, UsedAreHeld
  <2>3. s.pc = "tcpros" => /\ cl2[s.client].conn
                           /\ [node |-> s.node, client |-> 0] \in out2["pub"][cl2[s.client].topic]
    BY <1>1, <1>4, <1>9, <2>1, <2>2, Zenon DEF SubHolds
  <2> QED
    BY <1>1, <1>4, <2>1, <2>3, Zenon DEF SubHolds
<1> QED
  BY <1>1, <1>10, <1>11, <1>12, <1>13, Zenon DEF Pool, UsedAreHeld

\* A node more does no harm.
LEMMA PoolNode ==
    ASSUME NEW cl, NEW nd, NEW out, NEW err, NEW q, NEW s, Pool(cl, nd, out, err, q, s), NEW n \in OuterNodes
    PROVE  Pool(cl, nd \cup {n}, out, err, q, s)
<1>1. ConnectorsLive(cl, nd \cup {n}, out, err, s)
  BY Zenon DEF Pool, ConnectorsLive
<1>2. nd \cup {n} \subseteq OuterNodes
  BY Zenon DEF Pool
<1> QED
  BY <1>1, <1>2, Zenon DEF Pool

\* mros_protocol_publish_run: an outer subscriber connects.
LEMMA OuterSubKeepsPool ==
    ASSUME PoolInv, NEW u \in Topics, mros_protocol_publish_run(u)
    PROVE  PoolInv'
<1> DEFINE r == [FreeClient EXCEPT !.used = TRUE, !.topic = u, !.conn = TRUE]
<1>1. UNCHANGED <<subQ, sub>> /\ nodes # OuterNodes /\ mros_proc_add_outersub_connector(u)
  BY Zenon DEF mros_protocol_publish_run
<1>2. /\ nodes \subseteq OuterNodes /\ client \in [Clients -> ClientRecords]
      /\ mgr \in [Kinds -> Managers]
  BY Zenon DEF PoolInv, Pool
<1>3. PICK n \in OuterNodes, c \in Clients \cup {0} :
         /\ mros_node_create_outer(n) /\ nodes' = nodes \cup {n}
         /\ FreeClients # {} => mros_comm_tcp_client_alloc(c)
         /\ FreeClients = {} => c = 0
         /\ \/ UNCHANGED <<mgr, client>>
            \/ /\ mgr' = AddOuter("sub", u, n, c)
               /\ client' = [d \in Clients |-> IF d = c THEN r ELSE client[d]]
  BY <1>1, Zenon DEF mros_proc_add_outersub_connector, None
<1>4. n \in OuterNodes \ nodes /\ (c # 0 => ~client[c].used)
  BY <1>3, Zenon DEF mros_node_create_outer, mros_comm_tcp_client_alloc, First, FreeClients
<1>5. r \in ClientRecords /\ r.used /\ r.topic = u /\ r.conn
  BY Zenon DEF FreeClient, ClientRecords, None
<1> HIDE DEF r
<1>6. CASE UNCHANGED <<mgr, client>>
  <2>1. Pool(client, nodes \cup {n}, OutersOf(mgr), mgr["pub"].error, subQ, sub)
    BY <1>4, PoolNode, Zenon DEF PoolInv
  <2> QED
    BY <1>1, <1>2, <1>3, <1>6, <2>1, Zenon DEF PoolInv
<1>7. CASE /\ mgr' = AddOuter("sub", u, n, c)
           /\ client' = [d \in Clients |-> IF d = c THEN r ELSE client[d]]
  <2>1. /\ mgr' \in [Kinds -> Managers] /\ mgr'["pub"].error = mgr["pub"].error
        /\ Added(OutersOf(mgr), OutersOf(mgr'), "sub", u, [node |-> n, client |-> c])
    <3>1. "sub" \in Kinds
      BY Zenon DEF Kinds
    <3> QED
      BY <1>2, <1>7, <3>1, AddOuterAdds, Zenon
  <2>2. OutersOf(mgr') \in Outers
    BY <2>1, OutersTyped, Zenon
  <2>3. client' \in [Clients -> ClientRecords]
    BY <1>2, <1>5, <1>7, Zenon
  <2>4. Taken(client, client', c, u)
    BY <1>5, <1>7, Zenon DEF Taken
  <2>5. Pool(client, nodes, OutersOf(mgr), mgr["pub"].error, subQ, sub)
    BY Zenon DEF PoolInv
  <2>6. Pool(client', nodes \cup {n}, OutersOf(mgr'), mgr["pub"].error, subQ, sub)
    BY <1>4, <2>1, <2>2, <2>3, <2>4, <2>5, PoolOuterSub, Zenon
  <2> QED
    BY <1>1, <1>3, <2>1, <2>6, Zenon DEF PoolInv
<1> QED
  BY <1>3, <1>6, <1>7, Zenon

\* The data connection is opened, or fails.
LEMMA SubConnectKeepsPool == ASSUME PoolInv, SubConnect PROVE PoolInv'
\* The client the subscribe task holds gets a new connector, without connection yet.
<1>PoolConnect.
    ASSUME NEW cl, NEW nd, NEW out, NEW err, NEW q, NEW s, Pool(cl, nd, out, err, q, s), s.pc = "connect",
           NEW n \in OuterNodes \ nd, NEW out2 \in Outers, NEW cl2 \in [Clients -> ClientRecords],
           SameUse(cl, cl2), \A c \in Clients : cl[c].conn \/ c = s.client => cl2[c].conn,
           Added(out, out2, "pub", cl[s.client].topic, [node |-> n, client |-> 0]),
           NEW s2, s2 = [s EXCEPT !.pc = "tcpros", !.node = n]
    PROVE  Pool(cl2, nd \cup {n}, out2, err, q, s2)
  <2> USE <1>PoolConnect
  <2>1. /\ cl \in [Clients -> ClientRecords] /\ q \in Seq(Clients) /\ out \in Outers
        /\ OnePlace(out, q, s) /\ UsedAreHeld(cl, out, q, s) /\ nd \subseteq OuterNodes
        /\ ConnectorsLive(cl, nd, out, err, s) /\ SubHolds(cl, out, s) /\ s \in SubTasks
    BY Zenon DEF Pool
  <2>2. s2 \in SubTasks /\ s2.pc = "tcpros" /\ s2.client = s.client /\ s2.node = n
    BY <2>1, Zenon DEF SubTasks
  <2>3. s.client \in Clients /\ s.client # 0
    BY <2>1, Zenon DEF SubHolds, SubTasks
  <2>4. cl[s.client].topic \in Topics
    BY <2>1, <2>3, Zenon DEF UsedAreHeld
  <2> DEFINE w == [node |-> n, client |-> 0]
  <2>5. w.node = n /\ w.client = 0
    BY Zenon
  <2>6. \A m \in Kinds, t \in Topics : \A x \in out2[m][t] : x \in out[m][t] \/ (m = "pub" /\ t = cl[s.client].topic /\ x = w)
    BY Zenon DEF Added
  <2>7. /\ \A m \in Kinds, t \in Topics : \A x \in out[m][t] : x \in out2[m][t]
        /\ w \in out2["pub"][cl[s.client].topic]
    BY <2>4, Zenon DEF Kinds, Added
  <2>8. \A m \in Kinds, t \in Topics : \A x \in out[m][t] : x.node # n /\ x.node \in nd
    BY <2>1, Zenon DEF ConnectorsLive
  <2> HIDE DEF w
  <2>9. OnePlace(out2, q, s2)
    <3>1. ASSUME NEW m1 \in Kinds, NEW m2 \in Kinds, NEW t1 \in Topics, NEW t2 \in Topics,
                 NEW x \in out2[m1][t1], NEW y \in out2[m2][t2],
                 x.node = y.node \/ (x.client = y.client /\ x.client # 0)
          PROVE  m1 = m2 /\ t1 = t2 /\ x = y
      <4>1. CASE x \in out[m1][t1] /\ y \in out[m2][t2]
        BY <2>1, <3>1, <4>1 DEF OnePlace
      <4>2. CASE x = w \/ y = w
        BY <2>5, <2>6, <2>8, <3>1, <4>2
      <4> QED
        BY <2>6, <4>1, <4>2, Zenon
    <3>2. ASSUME NEW m \in Kinds, NEW t \in Topics, NEW x \in out2[m][t], x.client # 0
          PROVE  ~Has(q, x.client) /\ x.client # s2.client
      BY <2>1, <2>2, <2>5, <2>6, <3>2 DEF OnePlace
    <3> QED
      BY <2>1, <2>2, <3>1, <3>2, Zenon DEF OnePlace
  <2>10. UsedAreHeld(cl2, out2, q, s2)
    <3>1. \A c \in Clients : c # 0
      BY DEF Clients
    <3> SUFFICES ASSUME NEW c \in Clients
                 PROVE  /\ cl2[c].used <=> \/ Has(q, c) \/ s2.client = c
                                           \/ \E m \in Kinds, t \in Topics : \E x \in out2[m][t] : x.client = c
                        /\ cl2[c].used => cl2[c].topic \in Topics
      BY Zenon DEF UsedAreHeld
    <3>2. (\E m \in Kinds, t \in Topics : \E x \in out2[m][t] : x.client = c)
          <=> \E m \in Kinds, t \in Topics : \E x \in out[m][t] : x.client = c
      BY <2>5, <2>6, <2>7, <3>1
    <3> QED
      BY <2>1, <2>2, <3>2, Zenon DEF UsedAreHeld, SameUse
  <2>11. ConnectorsLive(cl2, nd \cup {n}, out2, err, s2)
    <3> SUFFICES ASSUME NEW m \in Kinds, NEW t \in Topics, NEW x \in out2[m][t]
                 PROVE  x.node \in nd \cup {n} /\ (x.client # 0 => cl2[x.client].conn)
      BY Zenon DEF ConnectorsLive
    <3>1. CASE x = w
      BY <2>5, <3>1, Zenon
    <3>2. CASE x \in out[m][t]
      <4>1. x.client \in Clients \cup {0}
        BY <2>1, <3>2 DEF Outers, Connectors
      <4>2. x.node \in nd /\ (x.client # 0 => cl[x.client].conn)
        BY <2>1, <3>2, Zenon DEF ConnectorsLive
      <4> QED
        BY <4>1, <4>2, Zenon
    <3> QED
      BY <2>6, <3>1, <3>2, Zenon
  <2>12. SubHolds(cl2, out2, s2)
    <3>1. cl2[s2.client].conn /\ cl2[s2.client].topic = cl[s.client].topic
      BY <2>2, <2>3, Zenon DEF SameUse
    <3> QED
      BY <2>2, <2>3, <2>7, <3>1, Zenon DEF SubHolds, w
  <2> QED
    BY <2>1, <2>2, <2>9, <2>10, <2>11, <2>12, Zenon DEF Pool
<1> DEFINE c == sub.client
           u == client[c].topic
           out == OutersOf(mgr)
           e == mgr["pub"].error
<1>1. Pool(client, nodes, out, e, subQ, sub) /\ mgr \in [Kinds -> Managers] /\ sub.pc = "connect"
  BY Zenon DEF PoolInv, SubConnect
<1>2. /\ c \in Clients /\ c # 0 /\ nodes \subseteq OuterNodes /\ sub \in SubTasks
      /\ client \in [Clients -> ClientRecords]
  BY <1>1, Zenon DEF Pool, SubHolds, SubTasks
<1>3. client[c].used /\ u \in Topics
  BY <1>1, <1>2, Zenon DEF Pool, UsedAreHeld
<1>4. out \in Outers
  BY <1>1, OutersTyped, Zenon
<1>5. CASE SubFail /\ UNCHANGED <<nodes, mgr, conns>>
  <2>1. \A m \in Kinds, t \in Topics : \A x : x \in out[m][t] =>
           x \in out[m][t] /\ x.node \notin {} /\ (x.client # 0 => client[x.client].conn)
    BY <1>1, Zenon DEF Pool, ConnectorsLive
  <2>2. Pool(mros_comm_tcp_client_free(client, {sub.client}), nodes \ {}, out, e, subQ, SubIdle)
    <3> HIDE DEF c
    <3> QED
      BY <1>1, <1>2, <1>4, <2>1, SubFailKeeps, Zenon DEF c
  <2>3. nodes \ {} = nodes
    BY Zenon
  <2>4. client' = mros_comm_tcp_client_free(client, {sub.client}) /\ SubNext(FALSE) /\ UNCHANGED <<nodes, mgr>>
    BY <1>5, Zenon DEF SubFail
  <2>5. Pool(client', nodes', OutersOf(mgr'), e, subQ, SubIdle)
    BY <2>2, <2>3, <2>4, Zenon
  <2>6. Pool(client', nodes', OutersOf(mgr'), e, subQ', sub')
    BY <2>4, <2>5, SubNextKeeps, Zenon
  <2> QED
    BY <1>1, <2>4, <2>6, Zenon DEF PoolInv
<1>6. CASE ~(SubFail /\ UNCHANGED <<nodes, mgr, conns>>)
  <2>1. PICK n \in OuterNodes :
           /\ mros_node_create_outer(n) /\ nodes' = nodes \cup {n} /\ mgr' = AddOuter("pub", u, n, 0)
           /\ client' = [client EXCEPT ![c].conn = TRUE]
           /\ sub' = [sub EXCEPT !.pc = "tcpros", !.node = n] /\ UNCHANGED subQ
    BY <1>6, Zenon DEF SubConnect, None
  <2>2. n \in OuterNodes \ nodes
    BY <2>1, Zenon DEF mros_node_create_outer, First
  <2> HIDE DEF c, u, out, e
  <2>3. /\ mgr' \in [Kinds -> Managers] /\ mgr'["pub"].error = mgr["pub"].error
        /\ Added(OutersOf(mgr), OutersOf(mgr'), "pub", u, [node |-> n, client |-> 0])
    <3>1. "pub" \in Kinds
      BY Zenon DEF Kinds
    <3> QED
      BY <1>1, <1>3, <2>1, <2>2, <3>1, AddOuterAdds, Zenon
  <2>4. OutersOf(mgr') \in Outers
    BY <2>3, OutersTyped, Zenon
  <2>5. PICK r : r = [client[c] EXCEPT !.conn = TRUE]
    BY Zenon
  <2>6. client[c] \in ClientRecords /\ client' = [client EXCEPT ![c] = r]
    BY <1>2, <2>1, <2>5, Zenon
  <2>7. r \in ClientRecords /\ r.topic = client[c].topic /\ (r.used <=> client[c].used) /\ r.conn
    BY <2>5, <2>6, Zenon DEF ClientRecords
  <2>8. /\ client' \in [Clients -> ClientRecords] /\ client'[c] = r
        /\ \A d \in Clients \ {c} : client'[d] = client[d]
    BY <1>2, <2>6, <2>7, Zenon
  <2>9. SameUse(client, client') /\ \A d \in Clients : client[d].conn \/ d = c => client'[d].conn
    BY <2>7, <2>8, Zenon DEF SameUse
  <2>10. PICK cl2, out2, s2 : cl2 = client' /\ out2 = OutersOf(mgr') /\ s2 = sub'
    BY Zenon
  <2>11. Pool(cl2, nodes \cup {n}, out2, e, subQ, s2)
    <3>1. /\ cl2 \in [Clients -> ClientRecords] /\ out2 \in Outers /\ SameUse(client, cl2)
          /\ \A d \in Clients : client[d].conn \/ d = sub.client => cl2[d].conn
      BY <2>4, <2>8, <2>9, <2>10, Zenon DEF c
    <3>2. Added(out, out2, "pub", client[sub.client].topic, [node |-> n, client |-> 0])
      BY <2>3, <2>10, Zenon DEF out, u, c
    <3>3. s2 = [sub EXCEPT !.pc = "tcpros", !.node = n]
      BY <2>1, <2>10, Zenon
    <3> QED
      BY <1>1, <2>2, <3>1, <3>2, <3>3, <1>PoolConnect, Zenon
  <2> QED
    BY <2>1, <2>3, <2>10, <2>11, Zenon DEF PoolInv, e
<1> QED
  BY <1>5, <1>6, Zenon

\* The handshake is done: the client is the connection of the task's connector.
LEMMA PoolConnected ==
    ASSUME NEW cl, NEW nd, NEW out, NEW err, NEW q, NEW s, Pool(cl, nd, out, err, q, s), s.pc = "tcpros",
           NEW out2 \in Outers, NEW cl2 \in [Clients -> ClientRecords],
           SameUse(cl, cl2), \A c \in Clients : cl[c].conn => cl2[c].conn,
           Replaced(out, out2, "pub", cl[s.client].topic, [node |-> s.node, client |-> 0],
                    [node |-> s.node, client |-> s.client])
    PROVE  Pool(cl2, nd, out2, err, q, SubIdle)
<1> DEFINE z == SubIdle
           w == [node |-> s.node, client |-> 0]
           w2 == [node |-> s.node, client |-> s.client]
           u == cl[s.client].topic
<1>1. /\ cl \in [Clients -> ClientRecords] /\ q \in Seq(Clients) /\ out \in Outers
      /\ OnePlace(out, q, s) /\ UsedAreHeld(cl, out, q, s) /\ nd \subseteq OuterNodes
      /\ ConnectorsLive(cl, nd, out, err, s) /\ SubHolds(cl, out, s) /\ s \in SubTasks
  BY Zenon DEF Pool
<1>2. 0 \notin Clients /\ z.client = 0 /\ z.pc = "asleep" /\ z \in SubTasks
  BY DEF Clients, SubIdle, None, SubTasks
<1>3. s.client \in Clients /\ s.client # 0 /\ cl[s.client].conn /\ w \in out["pub"][u]
  BY <1>1, Zenon DEF SubHolds, SubTasks
<1>4. u \in Topics
  BY <1>1, <1>3, Zenon DEF UsedAreHeld
<1>5. w.node = s.node /\ w.client = 0 /\ w2.node = s.node /\ w2.client = s.client
  BY Zenon
<1>6. \A m \in Kinds, t \in Topics : \A x \in out2[m][t] :
         \/ x \in out[m][t] /\ ~(m = "pub" /\ t = u /\ x = w)
         \/ m = "pub" /\ t = u /\ x = w2
  BY Zenon DEF Replaced
<1>7. /\ \A m \in Kinds, t \in Topics : \A x \in out[m][t] : x.client # 0 => x \in out2[m][t]
      /\ w2 \in out2["pub"][u]
  BY <1>4, <1>5, Zenon DEF Kinds, Replaced
<1> HIDE DEF w, w2, z, u
<1>8. \A m \in Kinds, t \in Topics : \A x \in out[m][t] :
         /\ x.node = s.node => m = "pub" /\ t = u /\ x = w
         /\ x.client # s.client
  <2> SUFFICES ASSUME NEW m \in Kinds, NEW t \in Topics, NEW x \in out[m][t]
               PROVE  (x.node = s.node => m = "pub" /\ t = u /\ x = w) /\ x.client # s.client
    BY Zenon
  <2>1. "pub" \in Kinds
    BY Zenon DEF Kinds
  <2>2. ASSUME x.node = w.node PROVE m = "pub" /\ t = u /\ x = w
    BY <1>1, <1>3, <1>4, <2>1, <2>2, OneConnector
  <2>3. x.client # s.client
    BY <1>1, <1>3, Zenon DEF OnePlace
  <2> QED
    BY <1>5, <2>2, <2>3, Zenon
<1>9. ~Has(q, 0) /\ ~Has(q, s.client)
  BY <1>1, <1>2 DEF Has, OnePlace
<1>10. OnePlace(out2, q, z)
  <2>1. ASSUME NEW m1 \in Kinds, NEW m2 \in Kinds, NEW t1 \in Topics, NEW t2 \in Topics,
               NEW x \in out2[m1][t1], NEW y \in out2[m2][t2],
               x.node = y.node \/ (x.client = y.client /\ x.client # 0)
        PROVE  m1 = m2 /\ t1 = t2 /\ x = y
    <3>1. CASE x \in out[m1][t1] /\ y \in out[m2][t2]
      BY <1>1, <2>1, <3>1 DEF OnePlace
    <3>2. CASE x = w2 /\ y = w2
      BY <1>5, <1>6, <1>8, <2>1, <3>2, Zenon
    <3>3. CASE x = w2 /\ y # w2
      <4>1. y \in out[m2][t2] /\ ~(m2 = "pub" /\ t2 = u /\ y = w)
        BY <1>6, <3>3, Zenon
      <4>2. y.node # s.node /\ y.client # s.client
        BY <1>8, <4>1, Zenon
      <4> QED
        BY <1>5, <2>1, <3>3, <4>2, Zenon
    <3>4. CASE x # w2 /\ y = w2
      <4>1. x \in out[m1][t1] /\ ~(m1 = "pub" /\ t1 = u /\ x = w)
        BY <1>6, <3>4, Zenon
      <4>2. x.node # s.node /\ x.client # s.client
        BY <1>8, <4>1, Zenon
      <4> QED
        BY <1>5, <2>1, <3>4, <4>2, Zenon
    <3> QED
      BY <1>6, <3>1, <3>2, <3>3, <3>4, Zenon
  <2>2. ASSUME NEW m \in Kinds, NEW t \in Topics, NEW x \in out2[m][t], x.client # 0
        PROVE  ~Has(q, x.client) /\ x.client # z.client
    BY <1>1, <1>2, <1>5, <1>6, <1>9, <2>2 DEF OnePlace
  <2> QED
    BY <1>1, <1>2, <1>9, <2>1, <2>2, Zenon DEF OnePlace
<1>11. UsedAreHeld(cl2, out2, q, z)
  <2> SUFFICES ASSUME NEW c \in Clients
               PROVE  /\ cl2[c].used <=> \/ Has(q, c) \/ z.client = c
                                         \/ \E m \in Kinds, t \in Topics : \E x \in out2[m][t] : x.client = c
                      /\ cl2[c].used => cl2[c].topic \in Topics
    BY Zenon DEF UsedAreHeld
  <2>1. (\E m \in Kinds, t \in Topics : \E x \in out2[m][t] : x.client = c)
        <=> s.client = c \/ \E m \in Kinds, t \in Topics : \E x \in out[m][t] : x.client = c
    <3>1. ASSUME s.client = c PROVE \E m \in Kinds, t \in Topics : \E x \in out2[m][t] : x.client = c
      BY <1>4, <1>5, <1>7, <3>1, Zenon DEF Kinds
    <3>2. ASSUME NEW m \in Kinds, NEW t \in Topics, NEW x \in out[m][t], x.client = c PROVE x \in out2[m][t]
      BY <1>2, <1>7, <3>2, Zenon
    <3>3. ASSUME NEW m \in Kinds, NEW t \in Topics, NEW x \in out2[m][t], x.client = c
          PROVE  s.client = c \/ x \in out[m][t]
      BY <1>5, <1>6, <3>3, Zenon
    <3> QED
      BY <3>1, <3>2, <3>3, Zenon
  <2> QED
    BY <1>1, <1>2, <2>1, Zenon DEF UsedAreHeld, SameUse
<1>12. ConnectorsLive(cl2, nd, out2, err, z)
  <2> SUFFICES ASSUME NEW m \in Kinds, NEW t \in Topics, NEW x \in out2[m][t]
               PROVE  x.node \in nd /\ (x.client # 0 => cl2[x.client].conn)
    BY Zenon DEF ConnectorsLive
  <2>1. CASE x = w2
    <3>1. w.node \in nd
      BY <1>1, <1>3, <1>4, Zenon DEF ConnectorsLive, Kinds
    <3> QED
      BY <1>3, <1>5, <2>1, <3>1, Zenon
  <2>2. CASE x \in out[m][t]
    <3>1. x.client \in Clients \cup {0}
      BY <1>1, <2>2 DEF Outers, Connectors
    <3>2. x.node \in nd /\ (x.client # 0 => cl[x.client].conn)
      BY <1>1, <2>2, Zenon DEF ConnectorsLive
    <3> QED
      BY <3>1, <3>2, Zenon
  <2> QED
    BY <1>6, <2>1, <2>2, Zenon
<1>13. SubHolds(cl2, out2, z)
  BY <1>2, Zenon DEF SubHolds
<1> QED
  BY <1>1, <1>2, <1>10, <1>11, <1>12, <1>13, Zenon DEF Pool, z

\* The TCPROS handshake.
LEMMA SubTcprosKeepsPool == ASSUME PoolInv, SubTcpros PROVE PoolInv'
\* mros_topic_connector_set_connection, of the one connector of a node.
<1>SetConnectionReplaces.
    ASSUME mgr \in [Kinds -> Managers], NEW u \in Topics, NEW n \in OuterNodes, NEW c \in Clients,
           [node |-> n, client |-> 0] \in mgr["pub"].outer[u],
           \A x \in mgr["pub"].outer[u] : x.node = n => x = [node |-> n, client |-> 0],
           NEW g, g = mros_topic_connector_set_connection(u, n, c)
    PROVE  /\ g \in [Kinds -> Managers] /\ g["pub"].error = mgr["pub"].error
           /\ Replaced(OutersOf(mgr), OutersOf(g), "pub", u, [node |-> n, client |-> 0], [node |-> n, client |-> c])
  <2> USE <1>SetConnectionReplaces
  <2> DEFINE w == [node |-> n, client |-> 0]
             w2 == [node |-> n, client |-> c]
             S == mgr["pub"].outer[u]
             T == {IF x.node = n THEN [x EXCEPT !.client = c] ELSE x : x \in S}
             o == [mgr["pub"].outer EXCEPT ![u] = T]
  <2>1. mgr["pub"] \in Managers /\ S \subseteq Connectors
    BY Zenon DEF Kinds, Managers
  <2>2. \A x : x \in T <=> (x \in S /\ x # w) \/ x = w2
    <3>1. [w EXCEPT !.client = c] = w2 /\ w.node = n
      OBVIOUS
    <3>2. \A x \in S : IF x.node = n THEN x = w /\ [x EXCEPT !.client = c] = w2 ELSE x # w
      BY <3>1, Zenon
    <3>3. w \in S
      BY Zenon
    <3> HIDE DEF w, w2, S
    <3> QED
      BY <3>1, <3>2, <3>3, Zenon
  <2>3. w2 \in Connectors
    BY Zenon DEF Connectors
  <2>4. o \in [Topics -> SUBSET Connectors]
    <3>1. T \in SUBSET Connectors
      <4> HIDE DEF T, S, w2, w
      <4> QED
        BY <2>1, <2>2, <2>3, Zenon
    <3> HIDE DEF T
    <3> QED
      BY <2>1, <3>1, Zenon DEF Managers
  <2>5. g = [mgr EXCEPT !["pub"].outer = o]
    BY Zenon DEF mros_topic_connector_set_connection
  <2>6. o[u] = T /\ \A t \in Topics \ {u} : o[t] = mgr["pub"].outer[t]
    BY <2>1, Zenon DEF Managers
  <2> HIDE DEF o, T, w, w2, S
  <2>a. PICK r : r = [mgr["pub"] EXCEPT !.outer = o]
    BY Zenon
  <2>7. r \in Managers /\ r.outer = o /\ r.error = mgr["pub"].error /\ g = [mgr EXCEPT !["pub"] = r]
    <3>1. g = [mgr EXCEPT !["pub"] = r]
      BY <2>5, <2>a, Zenon
    <3> QED
      BY <2>1, <2>4, <2>a, <3>1, Zenon DEF Managers
  <2>8. g \in [Kinds -> Managers] /\ g["pub"] = r /\ g["sub"] = mgr["sub"]
    BY <2>7, Zenon DEF Kinds
  <2>9. \A m \in Kinds, t \in Topics : \A x : x \in g[m].outer[t] <=>
           \/ x \in mgr[m].outer[t] /\ ~(m = "pub" /\ t = u /\ x = w)
           \/ m = "pub" /\ t = u /\ x = w2
    BY <2>2, <2>6, <2>7, <2>8, Zenon DEF Kinds, S
  <2>10. /\ \A m \in Kinds, t \in Topics : OutersOf(g)[m][t] = g[m].outer[t]
         /\ \A m \in Kinds, t \in Topics : OutersOf(mgr)[m][t] = mgr[m].outer[t]
    BY <2>8, OutersTyped, Zenon
  <2>11. Replaced(OutersOf(mgr), OutersOf(g), "pub", u, w, w2)
    BY <2>9, <2>10 DEF Replaced
  <2> QED
    BY <2>7, <2>8, <2>11, Zenon DEF w, w2
\* mros_topic_connector_remove.
<1>RemoveOuterRemoves.
    ASSUME mgr \in [Kinds -> Managers], NEW u \in Topics, NEW n \in OuterNodes,
           NEW g, g = RemoveOuter("pub", u, n, 0)
    PROVE  /\ g \in [Kinds -> Managers]
           /\ \A m \in Kinds, t \in Topics : \A x : x \in OutersOf(g)[m][t] <=>
                 x \in OutersOf(mgr)[m][t] /\ ~(m = "pub" /\ t = u /\ x = [node |-> n, client |-> 0])
  <2> USE <1>RemoveOuterRemoves
  <2> DEFINE w == [node |-> n, client |-> 0]
             T == mgr["pub"].outer[u] \ {w}
             o == [mgr["pub"].outer EXCEPT ![u] = T]
             i == IF T = {} THEN mgr["pub"].inner \ {u} ELSE mgr["pub"].inner
  <2>1. mgr["pub"] \in Managers
    BY Zenon DEF Kinds
  <2>2. o \in [Topics -> SUBSET Connectors] /\ i \in SUBSET Topics
    BY <2>1, Zenon DEF Managers
  <2>3. o[u] = T /\ \A t \in Topics \ {u} : o[t] = mgr["pub"].outer[t]
    BY <2>1, Zenon DEF Managers
  <2>a. PICK r : r = [mgr["pub"] EXCEPT !.outer = o, !.inner = i]
    BY Zenon
  <2>4. g = [mgr EXCEPT !["pub"] = r]
    BY <2>a, Zenon DEF RemoveOuter
  <2> HIDE DEF o, i, w
  <2>5. r \in Managers /\ r.outer = o
    BY <2>1, <2>2, <2>a, Zenon DEF Managers
  <2>6. g \in [Kinds -> Managers] /\ g["pub"] = r /\ g["sub"] = mgr["sub"]
    BY <2>4, <2>5, Zenon DEF Kinds
  <2>7. \A m \in Kinds, t \in Topics : \A x : x \in g[m].outer[t] <=>
           x \in mgr[m].outer[t] /\ ~(m = "pub" /\ t = u /\ x = w)
    BY <2>3, <2>5, <2>6, Zenon DEF Kinds
  <2>8. /\ \A m \in Kinds, t \in Topics : OutersOf(g)[m][t] = g[m].outer[t]
        /\ \A m \in Kinds, t \in Topics : OutersOf(mgr)[m][t] = mgr[m].outer[t]
    BY <2>6, OutersTyped, Zenon
  <2> QED
    BY <2>6, <2>7, <2>8, Zenon DEF w
<1> DEFINE c == sub.client
           u == client[c].topic
           n == sub.node
           w == [node |-> n, client |-> 0]
           out == OutersOf(mgr)
           e == mgr["pub"].error
<1>1. Pool(client, nodes, out, e, subQ, sub) /\ mgr \in [Kinds -> Managers] /\ sub.pc = "tcpros"
  BY Zenon DEF PoolInv, SubTcpros
<1>2. /\ c \in Clients /\ c # 0 /\ nodes \subseteq OuterNodes /\ sub \in SubTasks
      /\ client \in [Clients -> ClientRecords] /\ OnePlace(out, subQ, sub)
      /\ w \in out["pub"][u]
  BY <1>1, Zenon DEF Pool, SubHolds, SubTasks
<1>3. client[c].used /\ u \in Topics
  BY <1>1, <1>2, Zenon DEF Pool, UsedAreHeld
<1>4. out \in Outers /\ \A m \in Kinds, t \in Topics : out[m][t] = mgr[m].outer[t]
  BY <1>1, OutersTyped, Zenon
<1>5. \A m \in Kinds, t \in Topics : \A x \in out[m][t] :
         x.node \in nodes /\ (x.client # 0 => client[x.client].conn)
  BY <1>1, Zenon DEF Pool, ConnectorsLive
<1>6. "pub" \in Kinds
  BY Zenon DEF Kinds
<1>7. w.node = n /\ w.client = 0
  BY Zenon
<1>8. \A m \in Kinds, t \in Topics : \A x \in out[m][t] : x.node = n => m = "pub" /\ t = u /\ x = w
  <2> HIDE DEF w, n, out, u, c
  <2> QED
    BY <1>2, <1>3, <1>6, <1>7 DEF OnePlace
<1>9. n \in OuterNodes
  <2> HIDE DEF w, n, out, u, c
  <2> QED
    BY <1>2, <1>3, <1>5, <1>6, <1>7, Zenon
<1>10. CASE mgr' = RemoveOuter("pub", u, n, 0) /\ nodes' = nodes \ {n} /\ SubFail
  <2>1. /\ mgr' \in [Kinds -> Managers]
        /\ \A m \in Kinds, t \in Topics : \A x : x \in OutersOf(mgr')[m][t] <=>
              x \in out[m][t] /\ ~(m = "pub" /\ t = u /\ x = w)
    <3>1. PICK g : g = mgr'
      BY Zenon
    <3> QED
      BY <1>1, <1>3, <1>9, <1>10, <3>1, <1>RemoveOuterRemoves
  <2>2. client' = mros_comm_tcp_client_free(client, {sub.client}) /\ SubNext(FALSE)
    BY <1>10, Zenon DEF SubFail
  <2> HIDE DEF w, n, out, u, c, e
  <2>3. \A m \in Kinds, t \in Topics : \A x : x \in OutersOf(mgr')[m][t] =>
           x \in out[m][t] /\ x.node \notin {n} /\ (x.client # 0 => client[x.client].conn)
    BY <1>5, <1>8, <2>1
  <2>4. \A m \in Kinds, t \in Topics : \A x \in out[m][t] : x \notin OutersOf(mgr')[m][t] => x.client = 0
    BY <1>7, <2>1, Zenon
  <2>5. OutersOf(mgr') \in Outers /\ sub.client # 0
    BY <1>2, <2>1, OutersTyped, Zenon DEF c
  <2>6. Pool(mros_comm_tcp_client_free(client, {sub.client}), nodes \ {n}, OutersOf(mgr'),
             mgr'["pub"].error, subQ, SubIdle)
    <3>1. PICK g : g = mgr'
      BY Zenon
    <3> QED
      BY <1>1, <2>3, <2>4, <2>5, <3>1, SubFailKeeps, Zenon
  <2>7. Pool(client', nodes', OutersOf(mgr'), mgr'["pub"].error, subQ, SubIdle)
    BY <1>10, <2>2, <2>6, Zenon
  <2>8. Pool(client', nodes', OutersOf(mgr'), mgr'["pub"].error, subQ', sub')
    <3>1. PICK g : g = mgr'["pub"].error
      BY Zenon
    <3> QED
      BY <2>2, <2>7, <3>1, SubNextKeeps, Zenon
  <2> QED
    BY <2>1, <2>8, Zenon DEF PoolInv
<1>11. CASE /\ mgr' = mros_topic_connector_set_connection(u, n, c)
            /\ client' = [client EXCEPT ![c].api = 0]
            /\ SubNext(client[c].api # 0) /\ UNCHANGED nodes
  <2>1. /\ mgr' \in [Kinds -> Managers] /\ mgr'["pub"].error = mgr["pub"].error
        /\ Replaced(out, OutersOf(mgr'), "pub", u, w, [node |-> n, client |-> c])
    <3>1. PICK g : g = mgr'
      BY Zenon
    <3>2. w \in mgr["pub"].outer[u] /\ \A x \in mgr["pub"].outer[u] : x.node = n => x = w
      <4> HIDE DEF w, n, out, u, c
      <4> QED
        BY <1>2, <1>3, <1>4, <1>6, <1>8
    <3> QED
      BY <1>1, <1>2, <1>3, <1>9, <1>11, <3>1, <3>2, <1>SetConnectionReplaces, Zenon
  <2>2. PICK r : r = [client[c] EXCEPT !.api = 0]
    BY Zenon
  <2> HIDE DEF w, n, out, u, c, e
  <2>3. client[c] \in ClientRecords /\ client' = [client EXCEPT ![c] = r]
    BY <1>2, <1>11, <2>2, Zenon
  <2>4. /\ r \in ClientRecords /\ r.topic = client[c].topic /\ (r.used <=> client[c].used)
        /\ r.conn <=> client[c].conn
    BY <2>2, <2>3, Zenon DEF ClientRecords
  <2>5. /\ client' \in [Clients -> ClientRecords] /\ client'[c] = r
        /\ \A d \in Clients \ {c} : client'[d] = client[d]
    BY <1>2, <2>3, <2>4, Zenon
  <2>6. SameUse(client, client') /\ \A d \in Clients : client[d].conn => client'[d].conn
    BY <2>4, <2>5, Zenon DEF SameUse
  <2>7. PICK cl2, out2 : cl2 = client' /\ out2 = OutersOf(mgr')
    BY Zenon
  <2>8. Pool(cl2, nodes, out2, e, subQ, SubIdle)
    <3>1. /\ cl2 \in [Clients -> ClientRecords] /\ out2 \in Outers /\ SameUse(client, cl2)
          /\ \A d \in Clients : client[d].conn => cl2[d].conn
      BY <2>1, <2>5, <2>6, <2>7, OutersTyped, Zenon
    <3>2. Replaced(out, out2, "pub", client[sub.client].topic, [node |-> sub.node, client |-> 0],
                   [node |-> sub.node, client |-> sub.client])
      BY <2>1, <2>7, Zenon DEF u, c, n, w
    <3> QED
      BY <1>1, <3>1, <3>2, PoolConnected, Zenon
  <2>9. Pool(client', nodes', OutersOf(mgr'), e, subQ', sub')
    BY <1>11, <2>7, <2>8, SubNextKeeps, Zenon
  <2> QED
    BY <2>1, <2>9, Zenon DEF PoolInv, e
<1> QED
  BY <1>10, <1>11, Zenon DEF SubTcpros, mros_rpc_sendreply_tcpros, mros_node_remove, None

\* The pools are sound at every step.
LEMMA PoolStep == PoolInv /\ RequestsTyped /\ [MrosNext]_mrosVars => PoolInv'
<1> SUFFICES ASSUME PoolInv, RequestsTyped, [MrosNext]_mrosVars PROVE PoolInv'
  BY Zenon
<1>1. CASE Register
  BY <1>1, RegisterKeepsPool, Zenon
<1>2. CASE RegisterReturns \/ cyclic_handler \/ \E t \in Topics : ros_topic_publish(t)
  <2>1. UNCHANGED <<client, nodes, mgr, subQ, sub>>
    BY <1>2, Zenon DEF RegisterReturns, cyclic_handler, ros_topic_publish
  <2> QED
    BY <2>1, Zenon DEF PoolInv
<1>3. CASE mros_protocol_master_run
  BY <1>3, MasterKeepsPool, Zenon
<1>4. CASE mros_protocol_subscribe_run
  BY <1>4, SubWakeKeepsPool, SubConnectKeepsPool, SubTcprosKeepsPool, SubPollKeepsPool,
     CycleEndKeepsPool, Zenon DEF mros_protocol_subscribe_run
<1>5. CASE mros_protocol_slave_run
  BY <1>5, SlaveKeepsPool, Zenon
<1>6. CASE \E t \in Topics : mros_protocol_publish_run(t)
  BY <1>6, OuterSubKeepsPool, Zenon
<1>7. CASE UNCHANGED mrosVars
  BY <1>7, Zenon DEF PoolInv, mrosVars
<1> QED
  BY <1>1, <1>2, <1>3, <1>4, <1>5, <1>6, <1>7, Zenon DEF MrosNext

-----------------------------------------------------------------------------
(* The theorems.                                                            *)

\* For every program, number of topics, publishers, clients, nodes and connectors, on
\* every error path of mros_protocol_subscribe_run and with any of the pools full: each
\* client entry is free or has one holder, and a connection that was closed is purged
\* at the end of its cycle.
THEOREM PoolsAreSound == MrosSpec => [](ClientsAccounted /\ ClosedArePurged)
<1>1. MrosInit => PoolInv /\ RequestsTyped
  BY PoolInit, Zenon
<1>2. PoolInv /\ RequestsTyped /\ [MrosNext]_mrosVars => (PoolInv /\ RequestsTyped)'
  BY PoolStep, RequestsTypedStep, Zenon
<1>3. PoolInv => ClientsAccounted /\ ClosedArePurged
  BY PoolAccounts, PoolPurges, Zenon
<1> QED
  BY <1>1, <1>2, <1>3, PTL DEF MrosSpec

\* Until the master task goes on to a second publisher of a reply with the connection to
\* the first one queued (is_outer_node of mros_protocol_master_cimpl.c:240), however many
\* publishers the replies list and whichever of its steps fail, the request that is queued,
\* handled by the master task or held by a client is that of a caller that is asleep.
THEOREM RequestsAreOfSleepersUntil ==
    MrosSpec /\ [](~mas.outer) => []RequestsOfSleepers
<1> DEFINE I == PoolInv /\ RequestsTyped /\ RequestInv
<1>1. MrosInit => I
  BY PoolInit, RequestInit, Zenon
<1>2. I /\ (~mas.outer)' /\ [MrosNext]_mrosVars => I'
  BY PoolStep, RequestsTypedStep, RequestStep, Zenon
<1>3. I => RequestsOfSleepers
  BY RequestsAreOfSleepers, Zenon
<1> QED
  BY <1>1, <1>2, <1>3, PTL DEF MrosSpec

\* With the queue of one message the device asks for, no callback gets a message older
\* than its last one, though the lists are newest first.
THEOREM MessagesAreInOrder ==
    ASSUME QueueLen = 1
    PROVE  MrosSpec => DeliveredInOrder
<1>1. MrosInit => OrderInv
  BY DEF MrosInit, OrderInv, InOrder
<1>2. OrderInv /\ [MrosNext]_mrosVars => OrderInv' /\ [\A t \in Topics : seen'[t] >= seen[t]]_mrosVars
  <2>1. OrderInv /\ UNCHANGED mrosVars => OrderInv'
    BY Zenon DEF OrderInv, mrosVars, data
  <2> QED
    BY <2>1, OrderStep, Zenon
<1> QED
  BY <1>1, <1>2, PTL DEF MrosSpec, DeliveredInOrder
=============================================================================
