---------------------------------- MODULE Mros ----------------------------------
(***************************************************************************)
(* The mROS device (device/peripheral/mros-dev): a ROS node inside the     *)
(* emulator.  Its tasks are threads over one giant lock, mutex_lock of     *)
(* os_asp.c, which lwip_connect, lwip_recv and lwip_select let go while    *)
(* they block and slp_tsk lets go while it waits.  What a task does from   *)
(* one of these points to the next is one action.                          *)
(*                                                                         *)
(* main     advertises and subscribes the registered topics, then wakes    *)
(*          the subscribe task every 100 ms                                *)
(* mas      registers a topic with the ROS master, then asks each          *)
(*          publisher of a subscribed topic for its data address           *)
(* sub      connects to publishers, and on every cycle moves topic data    *)
(*          from publishers to subscribers                                 *)
(* slv      serves publisherUpdate                                         *)
(* pub      accepts the connections of outer subscribers                   *)
(*                                                                         *)
(* The circular lists of mros_list.h are sequences, newest entry first,    *)
(* and where their order is never looked at, the connectors of a topic,    *)
(* sets.  All tasks have priority 0 (get_pri), so a server takes the first *)
(* entry.                                                                  *)
(***************************************************************************)
EXTENDS Integers, Sequences, FiniteSets

CONSTANTS Topics,
          Program,      \* what main registers: a sequence of [kind, topic]
          Uris,         \* the publishers outside
          SymPorts,     \* those whose port has two equal bytes
          MaxClients,   \* MROS_TOPIC_TCP_CLIENT_MAX_NUM
          MaxNodes,     \* MROS_NODE_MAX_NUM, of the outer nodes
          MaxConns,     \* MROS_PUB/SUB_TOPIC_CONNECTOR_MAX_NUM
          QueueLen,     \* queue_size given to ros_topic_advertise
          MaxUris,      \* bound: publishers listed in one reply or update
          MaxUpdates,   \* bound: publisherUpdate requests
          MaxOuterSubs, \* bound: connections of outer subscribers
          MaxMsgs       \* bound: messages published by the emulated program

ASSUME MrosAssumption ==
    /\ SymPorts \subseteq Uris
    /\ Program \in Seq([kind : {"pub", "sub"}, topic : Topics])
    /\ MaxClients \in Nat /\ MaxNodes \in Nat /\ MaxConns \in Nat
    /\ QueueLen \in Nat \ {0} /\ MaxUris \in Nat

VARIABLES
    call, main,      \* the API call main makes, and where it is
    tstate,          \* os_task_table[].state of main, mas and sub
    masQ, mas,       \* mros_master_wait_queue, the master task
    subQ, sub,       \* mros_subscribe_wait_queue, the subscribe task
    slv,             \* the slave task
    client,          \* mros_comm_tcp_client_entries
    nodes,           \* the outer nodes in use
    created,         \* the topics of topic_manager
    mgr, conns,      \* pub_connector_mgr and sub_connector_mgr, their pools' entries in use
    connQ, topicQ,   \* data waiting in a publisher's connector, in the topic
    msgs, seen,      \* messages published, and the last one the callback got
    updates, outersubs

api == <<call, main>>
data == <<connQ, topicQ, msgs, seen>>
bounds == <<updates, outersubs>>
mrosVars == <<call, main, tstate, masQ, mas, subQ, sub, slv, client, nodes, created,
              mgr, conns, data, bounds>>

Clients == 1 .. MaxClients
OuterNodes == 1 .. MaxNodes
None == 0
Lists(S) == UNION {[1 .. n -> S] : n \in 0 .. MaxUris}

\* ListEntry_Alloc and ListEntry_AddEntry of mros_list.h.
First(x, S) == x \in S /\ \A y \in S : x <= y
ListEntry_AddEntry(list, e) == <<e>> \o list

\* The pools mros_comm_tcp_client_entries and node_manager, and os_task_table: taking
\* an entry off the free list, giving one back, waking a task. Entries are alike, so
\* that it makes no difference which one the free list begins with.
FreeClient == [used |-> FALSE, uri |-> None, topic |-> None, api |-> None, conn |-> FALSE]
FreeClients == {c \in Clients : ~client[c].used}
mros_comm_tcp_client_alloc(c) == First(c, FreeClients)
mros_comm_tcp_client_free(cl, freed) == [c \in Clients |-> IF c \in freed THEN FreeClient ELSE cl[c]]
mros_node_create_outer(n) == First(n, OuterNodes \ nodes)
mros_node_remove(gone) == nodes' = nodes \ gone
wup_tsk(tasks) == [t \in DOMAIN tstate |-> IF t \in tasks THEN "run" ELSE tstate[t]]

MasIdle == [pc |-> "asleep", call |-> None, uris |-> <<>>, outer |-> FALSE]
SubIdle == [pc |-> "asleep", client |-> None, node |-> None, todo |-> {}]
SlvIdle == [pc |-> "accept", topic |-> None, uris |-> <<>>]

MrosInit ==
    /\ call = 1 /\ main = "call"
    /\ tstate = [t \in {"main", "mas", "sub"} |-> IF t = "main" THEN "run" ELSE "wait"]
    /\ masQ = <<>> /\ mas = MasIdle /\ subQ = <<>> /\ sub = SubIdle /\ slv = SlvIdle
    /\ client = [c \in Clients |-> FreeClient] /\ nodes = {} /\ created = {}
    /\ mgr = [m \in {"pub", "sub"} |->
                 [inner |-> {}, outer |-> [t \in Topics |-> {}], error |-> FALSE]]
    /\ conns = [m \in {"pub", "sub"} |-> 0]
    /\ connQ = [t \in Topics |-> <<>>] /\ topicQ = [t \in Topics |-> <<>>]
    /\ msgs = 0 /\ seen = [t \in Topics |-> 0]
    /\ updates = 0 /\ outersubs = 0

-----------------------------------------------------------------------------
(* Connectors, connections and the requests to the subscribe task.          *)

\* mros_proc_connector_get_first compares the port of the socket address, in
\* network byte order, with the port of the URI, in host byte order.
Connected(t, u) ==
    \E x \in mgr["pub"].outer[t] : x.client # None /\ client[x.client].uri = u /\ u \in SymPorts

\* mros_topic_connector_add of an outer node's connector.
AddOuter(m, t, n, c) ==
    [mgr EXCEPT ![m].outer[t] = @ \cup {[node |-> n, client |-> c]}]

mros_topic_connector_set_connection(t, n, c) ==
    [mgr EXCEPT !["pub"].outer[t] =
        {IF x.node = n THEN [x EXCEPT !.client = c] ELSE x : x \in @}]

\* mros_topic_connector_remove: with the last connector of its kind, the topic
\* leaves the manager's list, and the inner connectors of the topic with it.
RemoveOuter(m, t, n, c) ==
    LET rest == mgr[m].outer[t] \ {[node |-> n, client |-> c]}
    IN  [mgr EXCEPT ![m].outer[t] = rest, ![m].inner = IF rest = {} THEN @ \ {t} ELSE @]

\* mros_topic_connector_purge: every connector whose connection is closed goes,
\* and with it its node, its client and its entry of the pool.
Dead(m, cl) ==
    {x \in UNION {mgr[m].outer[t] : t \in Topics} : x.client # None /\ ~cl[x.client].conn}
Purged(m, g, dead) ==
    [g EXCEPT ![m] = [inner |-> @.inner, outer |-> [t \in Topics |-> @.outer[t] \ dead],
                      error |-> FALSE]]

\* mros_proc_request_outer_node_addition, of the one address of a requestTopic
\* reply, or none: "nomem", "none" or "queued".
Addition(t, a) ==
    IF a = None THEN "none"
    ELSE IF FreeClients = {} THEN "nomem"
    ELSE IF Connected(t, a) THEN "none" ELSE "queued"
PutRequest(t, a, k) ==
    IF Addition(t, a) = "queued"
    THEN \E c \in Clients :
         /\ mros_comm_tcp_client_alloc(c)
         /\ client' = [client EXCEPT ![c] = [used |-> TRUE, uri |-> a, topic |-> t,
                                             api |-> k, conn |-> FALSE]]
         /\ subQ' = ListEntry_AddEntry(subQ, c)
    ELSE UNCHANGED <<client, subQ>>

-----------------------------------------------------------------------------
(* The API, called by main.                                                 *)

mros_topic_create(t) == created' = created \cup {t}

\* mros_client_wait_for_request_done: the request is queued, the server woken
\* and the caller put to sleep.
mros_client_wait_for_request_done ==
    /\ main' = "sleep"
    /\ masQ' = ListEntry_AddEntry(masQ, call)
    /\ tstate' = [wup_tsk({"mas"}) EXCEPT !["main"] = "wait"]

\* ros_topic_advertise and ros_topic_subscribe: create the topic and the
\* connector, queue the request and sleep.  NULL makes the device exit.
Register ==
    /\ main = "call" /\ call <= Len(Program)
    /\ LET m == Program[call].kind
           t == Program[call].topic
       IN  /\ mros_topic_create(t)
           /\ IF t \in mgr[m].inner \/ conns[m] < MaxConns
              THEN /\ mgr' = [mgr EXCEPT ![m].inner = @ \cup {t}]
                   /\ conns' = [conns EXCEPT ![m] = IF t \in mgr[m].inner THEN @ ELSE @ + 1]
                   /\ mros_client_wait_for_request_done
              ELSE main' = "exit" /\ UNCHANGED <<mgr, conns, masQ, tstate>>
    /\ UNCHANGED <<call, mas, subQ, sub, slv, client, nodes, data, bounds>>

\* slp_tsk returns: the call is done.
RegisterReturns ==
    /\ main = "sleep" /\ tstate["main"] = "run"
    /\ main' = "call" /\ call' = call + 1
    /\ UNCHANGED <<tstate, masQ, mas, subQ, sub, slv, client, nodes, created, mgr, conns, data, bounds>>

\* After the last call, cyclic_handler wakes the subscribe task.
cyclic_handler ==
    /\ main = "call" /\ call > Len(Program)
    /\ tstate' = wup_tsk({"sub"})
    /\ UNCHANGED <<api, masQ, mas, subQ, sub, slv, client, nodes, created, mgr, conns, data, bounds>>

\* Mutant: a full queue is not shortened before the new message.
mros_topic_connector_put_data_Grows(q, msg) == ListEntry_AddEntry(q, msg)

\* A full queue loses its first entry to the new message.
mros_topic_connector_put_data(q, msg) ==
    ListEntry_AddEntry(IF Len(q) >= QueueLen THEN Tail(q) ELSE q, msg)

\* The emulated program publishes on a topic it holds a publisher for.
ros_topic_publish(t) ==
    /\ main # "exit" /\ msgs < MaxMsgs
    /\ \E k \in 1 .. call - 1 : Program[k] = [kind |-> "pub", topic |-> t]
    /\ msgs' = msgs + 1
    /\ connQ' = [connQ EXCEPT ![t] = mros_topic_connector_put_data(@, msgs')]
    /\ UNCHANGED <<api, tstate, masQ, mas, subQ, sub, slv, client, nodes, created, mgr, conns,
                   topicQ, seen, bounds>>

-----------------------------------------------------------------------------
(* Calls to the network, of which any part may fail.                        *)

mros_comm_tcp_client_connect(fail, done) == fail \/ done
mros_rpc_sendreply_xmlpacket(fail, done) == fail \/ done
mros_rpc_sendreply_tcpros(fail, done) == fail \/ done

-----------------------------------------------------------------------------
(* The master task.                                                         *)

\* The end of a request: main is woken or not, the subscribe task is woken if
\* it got a client, and the next request is taken or the task sleeps.
MasDone(wake, queued) ==
    /\ tstate' = [wup_tsk((IF wake THEN {"main"} ELSE {}) \cup (IF queued THEN {"sub"} ELSE {}))
                     EXCEPT !["mas"] = IF masQ = <<>> THEN "wait" ELSE @]
    /\ IF masQ = <<>>
       THEN mas' = MasIdle /\ UNCHANGED masQ
       ELSE /\ mas' = [MasIdle EXCEPT !.pc = "connect", !.call = Head(masQ)]
            /\ masQ' = Tail(masQ)

mros_server_queue_wait ==
    /\ mas.pc = "asleep" /\ tstate["mas"] = "run"
    /\ MasDone(FALSE, FALSE)
    /\ UNCHANGED <<subQ, client>>

\* Mutant: an unreachable master leaves the caller asleep.
MasConnect_NoWakeup ==
    /\ mas.pc = "connect"
    /\ \/ MasDone(FALSE, FALSE)
       \/ mas' = [mas EXCEPT !.pc = "register"] /\ UNCHANGED <<masQ, tstate>>
    /\ UNCHANGED <<subQ, client>>

MasConnect ==
    /\ mas.pc = "connect"
    /\ mros_comm_tcp_client_connect(
          MasDone(TRUE, FALSE),
          mas' = [mas EXCEPT !.pc = "register"] /\ UNCHANGED <<masQ, tstate>>)
    /\ UNCHANGED <<subQ, client>>

\* The reply of the master: a failure, a publisher's registration, or the URIs
\* of a subscribed topic's publishers.
MasRegister ==
    /\ mas.pc = "register"
    /\ \/ MasDone(TRUE, FALSE)
       \/ /\ Program[mas.call].kind = "sub"
          /\ \E us \in Lists(Uris) \ {<<>>} : mas' = [mas EXCEPT !.pc = "connect_slave", !.uris = us]
          /\ UNCHANGED <<masQ, tstate>>
    /\ UNCHANGED <<subQ, client>>

\* An error ends the loop over the URIs; the caller is woken here unless a
\* client was queued, whose connection wakes it.
MasConnectSlave ==
    /\ mas.pc = "connect_slave"
    /\ mros_comm_tcp_client_connect(
          MasDone(~mas.outer, FALSE),
          mas' = [mas EXCEPT !.pc = "reqtopic"] /\ UNCHANGED <<masQ, tstate>>)
    /\ UNCHANGED <<subQ, client>>

\* The reply overwrites the packet that holds the URIs: the loop goes on with
\* some part of the rest.
MasRequestTopic ==
    /\ mas.pc = "reqtopic"
    /\ mros_rpc_sendreply_xmlpacket(
          MasDone(~mas.outer, FALSE) /\ UNCHANGED <<subQ, client>>,
          \E a \in Uris \cup {None} :
          LET t == Program[mas.call].topic
              r == Addition(t, a)
          IN  /\ PutRequest(t, a, mas.call)
              /\ IF r = "nomem"
                 THEN MasDone(~mas.outer, FALSE)
                 ELSE \E k \in 2 .. Len(mas.uris) + 1 :
                      LET rest == SubSeq(mas.uris, k, Len(mas.uris))
                      IN  IF rest = <<>>
                          THEN MasDone(FALSE, r = "queued")
                          ELSE /\ mas' = [mas EXCEPT !.pc = "connect_slave", !.uris = rest, !.outer = TRUE]
                               /\ tstate' = IF r = "queued" THEN wup_tsk({"sub"}) ELSE tstate
                               /\ UNCHANGED masQ)

mros_protocol_master_run ==
    /\ main # "exit"
    /\ \/ mros_server_queue_wait \/ MasConnect \/ MasRegister \/ MasConnectSlave \/ MasRequestTopic
    /\ UNCHANGED <<api, sub, slv, nodes, created, mgr, conns, data, bounds>>

-----------------------------------------------------------------------------
(* The subscribe task.                                                      *)

\* The next client to connect, or sleep.
SubNext(wake) ==
    /\ tstate' = [wup_tsk(IF wake THEN {"main"} ELSE {})
                     EXCEPT !["sub"] = IF subQ = <<>> THEN "wait" ELSE @]
    /\ IF subQ = <<>>
       THEN sub' = SubIdle /\ UNCHANGED subQ
       ELSE sub' = [SubIdle EXCEPT !.pc = "connect", !.client = Head(subQ)] /\ subQ' = Tail(subQ)

\* Mutant: a failed step keeps its entry of the pool.
SubFail_Leaks == SubNext(FALSE) /\ UNCHANGED client

\* A failed step frees the client and goes on to the next.
SubFail ==
    /\ client' = mros_comm_tcp_client_free(client, {sub.client})
    /\ SubNext(FALSE)

\* mros_topic_add_data: a topic keeps one message.
mros_topic_add_data(q, msg) == ListEntry_AddEntry(IF Len(q) >= 1 THEN Tail(q) ELSE q, msg)

\* A cycle begins: what is waiting in the publishers' connectors moves to the
\* topics, and the connections of outer publishers are to be polled.
mros_topic_data_publisher_run ==
    LET ready == {t \in mgr["pub"].inner : connQ[t] # <<>>}
    IN  /\ topicQ' = [t \in Topics |->
             IF t \in ready THEN mros_topic_add_data(topicQ[t], Head(connQ[t])) ELSE topicQ[t]]
        /\ connQ' = [t \in Topics |-> IF t \in ready THEN Tail(connQ[t]) ELSE connQ[t]]
        /\ sub' = [SubIdle EXCEPT !.pc = "poll", !.todo =
             {c \in Clients : \E t \in Topics : \E x \in mgr["pub"].outer[t] : x.client = c}]
        /\ UNCHANGED <<subQ, tstate>>

\* Woken with a client, connect it; woken by the cyclic handler, begin a cycle.
SubWake ==
    /\ sub.pc = "asleep" /\ tstate["sub"] = "run"
    /\ IF subQ # <<>>
       THEN SubNext(FALSE) /\ UNCHANGED <<connQ, topicQ>>
       ELSE mros_topic_data_publisher_run
    /\ UNCHANGED <<client, nodes, mgr, conns, msgs, seen>>

\* The data connection: opening it, then an outer node and its connector. The inner
\* subscriber looked up next is there: a subscriber's connector is never removed.
SubConnect ==
    /\ sub.pc = "connect"
    /\ \/ SubFail /\ UNCHANGED <<nodes, mgr, conns>>
       \/ \E n \in OuterNodes :
             /\ mros_node_create_outer(n) /\ nodes' = nodes \cup {n}
             /\ conns["pub"] < MaxConns /\ conns' = [conns EXCEPT !["pub"] = @ + 1]
             /\ mgr' = AddOuter("pub", client[sub.client].topic, n, None)
             /\ client' = [client EXCEPT ![sub.client].conn = TRUE]
             /\ sub' = [sub EXCEPT !.pc = "tcpros", !.node = n]
             /\ UNCHANGED <<subQ, tstate>>
    /\ UNCHANGED data

\* The TCPROS handshake; a success wakes the caller of ros_topic_subscribe.
SubTcpros ==
    /\ sub.pc = "tcpros"
    /\ LET c == sub.client
           t == client[c].topic
       IN  mros_rpc_sendreply_tcpros(
              /\ mgr' = RemoveOuter("pub", t, sub.node, None)
              /\ mros_node_remove({sub.node})
              /\ conns' = [conns EXCEPT !["pub"] = @ - 1]
              /\ SubFail,
              /\ mgr' = mros_topic_connector_set_connection(t, sub.node, c)
              /\ client' = [client EXCEPT ![c].api = None]
              /\ SubNext(client[c].api # None)
              /\ UNCHANGED <<nodes, conns>>)
    /\ UNCHANGED data

\* mros_topic_connector_send_data to outer subscribers: some of the sends fail.
mros_topic_connector_send_data(targets) == SUBSET targets

\* mros_topic_connector_receive_data of one outer publisher: nothing to read,
\* a message (outer messages are numbered 0), or an error that closes it.
SubPoll(c) ==
    /\ sub.pc = "poll" /\ c \in sub.todo
    /\ sub' = [sub EXCEPT !.todo = @ \ {c}]
    /\ \/ UNCHANGED <<topicQ, client, mgr>>
       \/ /\ topicQ' = [topicQ EXCEPT ![client[c].topic] = mros_topic_add_data(@, 0)]
          /\ UNCHANGED <<client, mgr>>
       \/ /\ client' = [client EXCEPT ![c].conn = FALSE]
          /\ mgr' = [mgr EXCEPT !["pub"].error = TRUE]
          /\ UNCHANGED topicQ
    /\ UNCHANGED <<subQ, tstate, nodes, conns, connQ, msgs, seen>>

\* The end of mros_topic_data_publisher_run, and mros_topic_data_subscriber_run: closed
\* publishers are purged; each topic's message goes to the callback and to the
\* outer subscribers, of which those in lost fail and are purged.
mros_topic_data_subscriber_run ==
    /\ sub.pc = "poll" /\ sub.todo = {}
    /\ LET gone == IF mgr["pub"].error THEN Dead("pub", client) ELSE {}
           full == {t \in Topics : topicQ[t] # <<>>
                       /\ (t \in mgr["sub"].inner \/ mgr["sub"].outer[t] # {})}
           targets == {x \in UNION {mgr["sub"].outer[t] : t \in full} : x.client # None}
       IN  \E lost \in mros_topic_connector_send_data(targets) :
           /\ client' = mros_comm_tcp_client_free(client, {x.client : x \in gone \cup lost})
           /\ mros_node_remove({x.node : x \in gone \cup lost})
           /\ mgr' = Purged("sub", Purged("pub", mgr, gone), lost)
           /\ conns' = [pub |-> conns["pub"] - Cardinality(gone), sub |-> conns["sub"] - Cardinality(lost)]
           /\ seen' = [t \in Topics |-> IF t \in full \cap mgr["sub"].inner /\ Head(topicQ[t]) # 0
                                        THEN Head(topicQ[t]) ELSE seen[t]]
           /\ topicQ' = [t \in Topics |-> IF t \in full THEN Tail(topicQ[t]) ELSE topicQ[t]]
    /\ SubNext(FALSE)
    /\ UNCHANGED <<connQ, msgs>>

mros_protocol_subscribe_run ==
    /\ main # "exit"
    /\ \/ SubWake \/ SubConnect \/ SubTcpros \/ mros_topic_data_subscriber_run
       \/ \E c \in Clients : SubPoll(c)
    /\ UNCHANGED <<api, masQ, mas, slv, created, bounds>>

-----------------------------------------------------------------------------
(* The slave and publish tasks.                                             *)

\* mros_proc_slave_publisher_update: the first URI not yet connected, if any.
SlvNext(t, us) ==
    LET new == {k \in DOMAIN us : ~Connected(t, us[k])}
    IN  IF new = {} \/ t \notin mgr["sub"].inner THEN slv' = SlvIdle
        ELSE \E k \in DOMAIN us :
             First(k, new) /\ slv' = [pc |-> "connect", topic |-> t, uris |-> SubSeq(us, k, Len(us))]

PublisherUpdate ==
    /\ slv.pc = "accept" /\ updates < MaxUpdates /\ updates' = updates + 1
    /\ \E t \in created, us \in Lists(Uris) : SlvNext(t, us)
    /\ UNCHANGED <<subQ, client, tstate>>

SlvConnect ==
    /\ slv.pc = "connect"
    /\ mros_comm_tcp_client_connect(slv' = SlvIdle, slv' = [slv EXCEPT !.pc = "reqtopic"])
    /\ UNCHANGED <<subQ, client, tstate, updates>>

SlvRequestTopic ==
    /\ slv.pc = "reqtopic"
    /\ mros_rpc_sendreply_xmlpacket(
          slv' = SlvIdle /\ UNCHANGED <<subQ, client, tstate>>,
          \E a \in Uris \cup {None}, k \in 2 .. Len(slv.uris) + 1 :
          LET r == Addition(slv.topic, a)
          IN  /\ PutRequest(slv.topic, a, None)
              /\ tstate' = IF r = "queued" THEN wup_tsk({"sub"}) ELSE tstate
              /\ IF r = "nomem" THEN slv' = SlvIdle
                 ELSE SlvNext(slv.topic, SubSeq(slv.uris, k, Len(slv.uris))))
    /\ UNCHANGED updates

mros_protocol_slave_run ==
    /\ main # "exit"
    /\ PublisherUpdate \/ SlvConnect \/ SlvRequestTopic
    /\ UNCHANGED <<api, masQ, mas, sub, nodes, created, mgr, conns, data, outersubs>>

\* A full connector pool loses the node, a full client pool the node and the
\* connector.
mros_proc_add_outersub_connector(t) ==
    \E n \in OuterNodes, c \in Clients \cup {None} :
       /\ mros_node_create_outer(n) /\ nodes' = nodes \cup {n}
       /\ IF FreeClients = {} THEN c = None ELSE mros_comm_tcp_client_alloc(c)
       /\ IF conns["sub"] >= MaxConns
          THEN UNCHANGED <<mgr, conns, client>>
          ELSE /\ mgr' = AddOuter("sub", t, n, c)
               /\ conns' = [conns EXCEPT !["sub"] = @ + 1]
               /\ client' = [d \in Clients |->
                    IF d = c THEN [FreeClient EXCEPT !.used = TRUE, !.topic = t, !.conn = TRUE] ELSE client[d]]

\* mros_proc_pub_tcpros: an outer subscriber of a topic with an inner publisher
\* connects.
mros_protocol_publish_run(t) ==
    /\ main # "exit" /\ outersubs < MaxOuterSubs /\ outersubs' = outersubs + 1
    /\ t \in mgr["pub"].inner /\ nodes # OuterNodes
    /\ mros_proc_add_outersub_connector(t)
    /\ UNCHANGED <<api, tstate, masQ, mas, subQ, sub, slv, created, data, updates>>

MrosNext ==
    \/ Register \/ RegisterReturns \/ cyclic_handler
    \/ mros_protocol_master_run \/ mros_protocol_subscribe_run \/ mros_protocol_slave_run
    \/ \E t \in Topics : ros_topic_publish(t) \/ mros_protocol_publish_run(t)

\* The tasks run, and the socket calls they block in return: with data, with an
\* error or because the peer closed.  Nothing obliges the program to publish or
\* the network to send updates.
MrosSpec ==
    /\ MrosInit /\ [][MrosNext]_mrosVars
    /\ WF_mrosVars(Register) /\ WF_mrosVars(RegisterReturns) /\ WF_mrosVars(cyclic_handler)
    /\ WF_mrosVars(mros_protocol_master_run) /\ WF_mrosVars(mros_protocol_subscribe_run)
    /\ WF_mrosVars(slv.pc # "accept" /\ mros_protocol_slave_run)

-----------------------------------------------------------------------------
(* Properties.                                                              *)

Asleep(k) == call = k /\ main = "sleep" /\ tstate["main"] = "wait"

\* Every ros_topic_advertise returns, whatever the master answers: each way out
\* of mros_protocol_master_register_publisher wakes the caller.
AdvertiseReturns ==
    \A k \in DOMAIN Program : Program[k].kind = "pub" => ((main = "sleep" /\ call = k) ~> call > k)

\* A ros_topic_subscribe returns too: the caller that the master task leaves
\* asleep is woken by mros_protocol_subscribe_run.
SubscribeReturns ==
    \A k \in DOMAIN Program : Program[k].kind = "sub" => ((main = "sleep" /\ call = k) ~> call > k)

\* The request and the wait entry of an API call live on its stack: whoever
\* still holds them (the master's queue, the master task, api_reqp of a client)
\* holds those of a call that is asleep.  So it is as long as the master's reply
\* lists one publisher (MaxUris): with a second, the first one's connection
\* wakes the caller while the master task still goes through the list.
RequestsOfSleepers ==
    /\ \A i \in DOMAIN masQ : Asleep(masQ[i])
    /\ mas.pc # "asleep" => Asleep(mas.call)
    /\ \A c \in Clients : client[c].api # None => Asleep(client[c].api)

\* A client of the pool is free, or queued, or held by the subscribe task, or
\* the connection of a connector, and never two of these: no entry is lost or
\* freed twice on any of the error paths.
Queued(c) == {i \in DOMAIN subQ : subQ[i] = c}
Connections(c) == {x \in {"pub", "sub"} \X Topics \X OuterNodes :
                      [node |-> x[3], client |-> c] \in mgr[x[1]].outer[x[2]]}
ClientsAccounted ==
    \A c \in Clients :
       /\ client[c].used <=> Queued(c) # {} \/ sub.client = c \/ Connections(c) # {}
       /\ \A i, j \in Queued(c) : i = j
       /\ \A x, y \in Connections(c) : x = y
       /\ sub.client = c => Queued(c) = {} /\ Connections(c) = {}
       /\ Queued(c) = {} \/ Connections(c) = {}

\* A connection that was closed is purged at the end of the cycle: outside a
\* cycle, every connector with a connection has an open one and a node of its
\* own.
ClosedArePurged ==
    sub.pc # "poll" =>
       \A m \in {"pub", "sub"}, t \in Topics : \A x \in mgr[m].outer[t] :
          x.node \in nodes /\ (x.client # None => client[x.client].conn)

\* The tables of the tasks agree: no request of a call that has returned, no client
\* lost or shared, no closed connection kept.
TablesSound == RequestsOfSleepers /\ ClientsAccounted /\ ClosedArePurged

\* With the queue of one message the device asks for, the newest-first lists
\* keep the order: a callback never gets a message older than its last one.
DeliveredInOrder == [][\A t \in Topics : seen'[t] >= seen[t]]_mrosVars
=============================================================================
