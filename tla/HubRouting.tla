------------------------------ MODULE HubRouting ------------------------------
(***************************************************************************)
(* The hub's routing between brokers (hub.c).                              *)
(*                                                                         *)
(* The hub has a thread for every broker.  The thread's dealer is a peer   *)
(* of the broker's router: interhub_callback reads from it the requests    *)
(* that router could not route and the responses to requests of other      *)
(* brokers, and publishes each for the thread of the broker it goes to.    *)
(* The thread's subscriber gets what was published for its broker and      *)
(* every registration: broker_sub_callback sends the former to the broker  *)
(* and notes the latter in the thread's small tree of brokers and their    *)
(* services, which remove_smalltree_callback ages.                         *)
(*                                                                         *)
(* A callback reads until its socket is empty, always into one buffer that *)
(* it zeroes only when it is entered.  A frame is compared with a type as  *)
(* a string, so it equals that type only if the byte after it is zero:     *)
(* dirty holds the type lengths at which the buffer has another byte.      *)
(* A queue is the sequence of frames its socket has received.              *)
(***************************************************************************)
EXTENDS Integers, Sequences, FiniteSets

CONSTANTS
    Broker,             \* brokers with a thread (broker_id)
    Svc,                \* services
    Offers,             \* the services that register at each broker
    Request,            \* requests that some broker's router cannot route
    SrcOf, DstOf,       \* the broker each comes from, the service it is for
    TMCHK_BROKER_SVC,   \* seconds of silence a node of a small tree survives
    QueueBound,         \* registrations come while queues are this short
    NULL

ASSUME RoutingAssumption ==
    /\ IsFiniteSet(Broker)
    /\ Offers \in [Broker -> SUBSET Svc]
    /\ SrcOf \in [Request -> Broker] /\ DstOf \in [Request -> Svc]
    /\ TMCHK_BROKER_SVC \in Nat /\ QueueBound \in Nat
    /\ NULL \notin Broker

\* A small tree has broker nodes <<c>> and service nodes <<c, s>>.
Node   == {<<c>> : c \in Broker} \cup (Broker \X Svc)
MaxAge == TMCHK_BROKER_SVC + Cardinality(Broker) + 1

VARIABLES
    dq, sq,     \* frames each thread's dealer, subscriber has received
    running,    \* the callback each thread is in: "none", "dealer" or "sub"
    dirty,      \* type lengths at which that callback's buffer is not zero
    small,      \* the nodes of each thread's small tree, a broker's services
                \* after it, both in the order they were added
    age,        \* seconds since each node's last registration
    swept,      \* threads that have removed an old node in this second
    asked,      \* requests that were sent to the hub
    at,         \* messages each broker's router got from the hub, in order
    answered    \* requests that were answered

queues == <<dq, sq>>
trees  == <<small, age, swept>>
vars   == <<queues, running, dirty, trees, asked, at, answered>>

F(k, x) == [k |-> k, v |-> x]
Type(t) == F("type", t)

\* relay_req_to_interhub of the broker, mq_send_res, find_svc_and_relay and
\* find_broker_and_relay, regi_action.
LogFrames(m)       == <<Type("svc_log"), F("log", m)>>
ReqFrames(m)       == <<Type("svc_req"), F("svc", DstOf[m]), F("tag", NULL), F("body", m)>>
ResFrames(m, c)    == <<Type("svc_res_interhub"), F("broker", c), F("svc", DstOf[m]),
                        F("name", m), F("body", m)>>
RegFrames(c, s)    == <<Type("svc_reg"), F("regi", <<c, s>>)>>

\* The buffer after frame f: types have 7 ("short") or 16 ("long") bytes,
\* service and process names between, broker ids, bodies and log lines more;
\* a tag begins with a flag and 48 bytes of broker name, still zero; a regi
\* with an address of less than 16 bytes in a field of 24.
Length(t) == IF t \in {"svc_req", "svc_log", "svc_reg"} THEN "short" ELSE "long"

Wipe(d, f) ==
    CASE f.k = "type" -> IF Length(f.v) = "short" THEN d ELSE d \cup {"short"}
      [] f.k \in {"svc", "name"} -> d \cup {"short"}
      [] f.k \in {"broker", "topic", "body", "log"} -> {"short", "long"}
      [] f.k = "tag" -> {}
      [] f.k = "regi" -> {"short"}

Drop(q, n) == SubSeq(q, n + 1, Len(q))

Init ==
    /\ dq = [b \in Broker |-> <<>>] /\ sq = [b \in Broker |-> <<>>]
    /\ running = [b \in Broker |-> "none"] /\ dirty = [b \in Broker |-> {}]
    /\ small = [b \in Broker |-> <<>>] /\ age = [b \in Broker |-> [x \in Node |-> 0]]
    /\ swept = {} /\ asked = {} /\ answered = {}
    /\ at = [b \in Broker |-> <<>>]

-----------------------------------------------------------------------------
(* The brokers and the hub's registration thread.                          *)

\* The broker sends its log line and the request.
Ask(m) ==
    /\ m \notin asked
    /\ asked' = asked \cup {m}
    /\ dq' = [dq EXCEPT ![SrcOf[m]] = @ \o LogFrames(m) \o ReqFrames(m)]
    /\ UNCHANGED <<sq, running, dirty, trees, at, answered>>

\* A process behind broker b answers a request, by the broker in its tag.
Answer(b, m) ==
    /\ m \notin answered
    /\ \E i \in 1..Len(at[b]) :
         /\ at[b][i][1] = Type("svc_req") /\ at[b][i][4] = F("body", m)
         /\ dq' = [dq EXCEPT ![b] = @ \o ResFrames(m, at[b][i][3].v)]
    /\ answered' = answered \cup {m}
    /\ UNCHANGED <<sq, running, dirty, trees, asked, at>>

\* Every registration is published for every thread.
Register(c, s) ==
    /\ s \in Offers[c]
    /\ \A b \in Broker : Len(sq[b]) <= QueueBound
    /\ sq' = [b \in Broker |-> sq[b] \o RegFrames(c, s)]
    /\ UNCHANGED <<dq, running, dirty, trees, asked, at, answered>>

-----------------------------------------------------------------------------
(* Every thread runs one callback at a time.                               *)

\* A callback reads a frame, the first one when the thread enters it.
Reads(b, cb, q) ==
    /\ running[b] \in {"none", cb}
    /\ q # <<>>
    /\ running' = [running EXCEPT ![b] = cb]
    /\ dirty' = [dirty EXCEPT ![b] = Wipe(@, q[1])]

\* Faulty variants of a definition, which the checks substitute for it, stand
\* before it and are named Bad<Definition>.
BadReturn(b) ==
    /\ running[b] # "none"
    /\ running' = [running EXCEPT ![b] = "none"]
    /\ UNCHANGED <<queues, dirty, trees, asked, at, answered>>

\* zmq_recv finds the socket empty.
Return(b) ==
    /\ running[b] # "none"
    /\ running[b] = "dealer" => dq[b] = <<>>
    /\ running[b] = "sub" => sq[b] = <<>>
    /\ running' = [running EXCEPT ![b] = "none"]
    /\ dirty' = [dirty EXCEPT ![b] = {}]
    /\ UNCHANGED <<queues, trees, asked, at, answered>>

-----------------------------------------------------------------------------
(* interhub_callback.                                                      *)

\* The next frame is read where a type is expected, and is it t?
ReadsType(b) ==
    /\ Reads(b, "dealer", dq[b])
    /\ UNCHANGED <<trees, asked, at, answered>>

Is(f, d, t) == f = Type(t) /\ Length(t) \notin d
Known(f, d) == \E t \in {"svc_req", "svc_res_interhub", "svc_log"} : Is(f, d, t)

Nodes(b) == {small[b][i] : i \in 1..Len(small[b])}
FirstIn(b, S) == CHOOSE i \in 1..Len(small[b]) :
    small[b][i] \in S /\ \A j \in 1..(i - 1) : small[b][j] \notin S

BadOffering(b, s) == {<<c, s>> : c \in Broker} \cap Nodes(b)

\* find_svc_exist_tree: the first broker, but for b's own, with the service.
Offering(b, s) == {<<c, s>> : c \in Broker \ {b}} \cap Nodes(b)
Find(b, s) == small[b][FirstIn(b, Offering(b, s))][1]

Publish(c, frames) == sq' = [sq EXCEPT ![c] = @ \o <<F("topic", c)>> \o frames]

\* find_svc_and_relay, with the broker's id as the broker of the tag.
RelayReq(b) ==
    /\ ReadsType(b)
    /\ Is(dq[b][1], dirty[b], "svc_req")
    /\ Offering(b, dq[b][2].v) # {}
    /\ Publish(Find(b, dq[b][2].v),
               <<Type("svc_req_interhub"), dq[b][2], F("tag", b), dq[b][4]>>)
    /\ dq' = [dq EXCEPT ![b] = Drop(@, 4)]

\* No broker is known for the service: tag and body stay unread.
RelayReqNowhere(b) ==
    /\ ReadsType(b)
    /\ Is(dq[b][1], dirty[b], "svc_req")
    /\ Offering(b, dq[b][2].v) = {}
    /\ dq' = [dq EXCEPT ![b] = Drop(@, 2)]
    /\ UNCHANGED sq

\* find_broker_and_relay.
RelayRes(b) ==
    /\ ReadsType(b)
    /\ Is(dq[b][1], dirty[b], "svc_res_interhub")
    /\ Publish(dq[b][2].v, <<Type("svc_res_interhub")>> \o SubSeq(dq[b], 3, 5))
    /\ dq' = [dq EXCEPT ![b] = Drop(@, 5)]

ReadLog(b) ==
    /\ ReadsType(b)
    /\ Is(dq[b][1], dirty[b], "svc_log")
    /\ dq' = [dq EXCEPT ![b] = Drop(@, 2)]
    /\ UNCHANGED sq

\* Anything else is passed over, one frame at a time.
PassOver(b) ==
    /\ ReadsType(b)
    /\ ~Known(dq[b][1], dirty[b])
    /\ dq' = [dq EXCEPT ![b] = Drop(@, 1)]
    /\ UNCHANGED sq

-----------------------------------------------------------------------------
(* broker_sub_callback.                                                    *)

ReadsTopic(b) ==
    /\ Reads(b, "sub", sq[b])
    /\ UNCHANGED <<dq, swept, asked, answered>>

IsReg(b) == Is(sq[b][1], dirty[b], "svc_reg")

\* The places of broker c and its services, and the last of them.
Places(q, c) == {i \in 1..Len(q) : q[i][1] = c}
LastOf(q, c) == CHOOSE i \in Places(q, c) : \A j \in Places(q, c) : j <= i

\* A new broker comes last, a new service last below its broker.
Added(q, r) ==
    IF r \in {q[i] : i \in 1..Len(q)} THEN q
    ELSE IF Places(q, r[1]) = {} THEN Append(q, r)
    ELSE SubSeq(q, 1, LastOf(q, r[1])) \o <<r>> \o Drop(q, LastOf(q, r[1]))

\* chk_small_tree: the broker's node and the service's are new or renewed.
ChkSmallTree(b) ==
    /\ ReadsTopic(b)
    /\ IsReg(b)
    /\ LET r == sq[b][2].v IN
         /\ small' = [small EXCEPT ![b] = Added(Added(@, <<r[1]>>), r)]
         /\ age' = [age EXCEPT ![b] = [@ EXCEPT ![<<r[1]>>] = 0, ![r] = 0]]
    /\ sq' = [sq EXCEPT ![b] = Drop(@, 2)]
    /\ UNCHANGED at

ForBroker(b) ==
    /\ ReadsTopic(b)
    /\ ~IsReg(b)
    /\ Len(sq[b]) >= 2
    /\ sq[b][2] \in {Type("svc_req_interhub"), Type("svc_res_interhub")}
    /\ UNCHANGED <<small, age>>

AsAtHome(t) == IF t = "svc_req_interhub" THEN "svc_req" ELSE "svc_res"

\* relay_to_broker: requests and responses become what they are at home.
RelayToBroker(b) ==
    /\ ForBroker(b)
    /\ at' = [at EXCEPT ![b] = Append(@, <<Type(AsAtHome(sq[b][2].v))>> \o SubSeq(sq[b], 3, 5))]
    /\ sq' = [sq EXCEPT ![b] = Drop(@, 5)]

BadBrokerFull(b) ==
    /\ ForBroker(b)
    /\ at' = [at EXCEPT ![b] = Append(@, <<Type(AsAtHome(sq[b][2].v))>> \o SubSeq(sq[b], 3, 5))]
    /\ sq' = sq

\* The dealer's queue is full: the body stays unread.
BrokerFull(b) ==
    /\ ForBroker(b)
    /\ sq' = [sq EXCEPT ![b] = Drop(@, 4)]
    /\ UNCHANGED at

\* Anything else is passed over, two frames at a time.
PassOverTwo(b) ==
    /\ ReadsTopic(b)
    /\ ~IsReg(b)
    /\ Len(sq[b]) >= 2 => sq[b][2] \notin {Type("svc_req_interhub"), Type("svc_res_interhub")}
    /\ sq' = [sq EXCEPT ![b] = Drop(@, 2)]
    /\ UNCHANGED <<small, age, at>>

-----------------------------------------------------------------------------
(* remove_smalltree_callback, once a second.                               *)

BadOld(b) == {x \in Nodes(b) : x = small[b][1] /\ age[b][x] > TMCHK_BROKER_SVC}
Old(b)    == {x \in Nodes(b) : age[b][x] > TMCHK_BROKER_SVC}

\* A broker's node goes with its services.
BadLastBelow(q, i) == i
LastBelow(q, i)    == IF q[i] = <<q[i][1]>> THEN LastOf(q, q[i][1]) ELSE i

\* At most one node goes, the first that is old, with those below it.
RemoveSmallTree(b) ==
    /\ running[b] = "none"
    /\ b \notin swept
    /\ Old(b) # {}
    /\ swept' = swept \cup {b}
    /\ LET first == FirstIn(b, Old(b))
           last  == LastBelow(small[b], first)
       IN small' = [small EXCEPT ![b] = SubSeq(@, 1, first - 1) \o Drop(@, last)]
    /\ age' = [age EXCEPT ![b] = [x \in Node |-> IF x \in Nodes(b) \ Nodes(b)' THEN 0 ELSE @[x]]]
    /\ UNCHANGED <<queues, running, dirty, asked, at, answered>>

\* One second passes; callbacks return, and the timers run, within one.
Tick ==
    /\ \A b \in Broker : b \in swept \/ Old(b) = {}
    /\ \A b \in Broker : running[b] = "none"
    /\ swept' = {}
    /\ age' = [b \in Broker |-> [x \in Node |->
                 IF x \in Nodes(b) /\ age[b][x] < MaxAge THEN age[b][x] + 1 ELSE age[b][x]]]
    /\ UNCHANGED <<queues, running, dirty, small, asked, at, answered>>

-----------------------------------------------------------------------------
InterhubCallback(b) ==
    RelayReq(b) \/ RelayReqNowhere(b) \/ RelayRes(b) \/ ReadLog(b) \/ PassOver(b)
BrokerSubCallback(b) ==
    ChkSmallTree(b) \/ RelayToBroker(b) \/ BrokerFull(b) \/ PassOverTwo(b)

Next ==
    \/ \E m \in Request : Ask(m) \/ \E b \in Broker : Answer(b, m)
    \/ \E c \in Broker, s \in Svc : Register(c, s)
    \/ \E b \in Broker :
         InterhubCallback(b) \/ BrokerSubCallback(b) \/ Return(b) \/ RemoveSmallTree(b)
    \/ Tick

Spec == Init /\ [][Next]_vars

-----------------------------------------------------------------------------
(* Correctness.                                                            *)

FrameKind == {"type", "svc", "tag", "body", "broker", "name", "log", "regi", "topic"}
WellFormed(q) == \A i \in 1..Len(q) : q[i].k \in FrameKind

TypeOK ==
    /\ \A b \in Broker : WellFormed(dq[b]) /\ WellFormed(sq[b])
    /\ running \in [Broker -> {"none", "dealer", "sub"}]
    /\ dirty \in [Broker -> SUBSET {"short", "long"}]
    /\ \A b \in Broker : Nodes(b) \subseteq Node /\ Len(small[b]) = Cardinality(Nodes(b))
    /\ \A b \in Broker : \A x \in Nodes(b) : <<x[1]>> \in Nodes(b)
    /\ age \in [Broker -> [Node -> 0..MaxAge]]
    /\ swept \subseteq Broker /\ asked \subseteq Request /\ answered \subseteq asked

\* What reaches a broker through the hub is whole and in the right place: a
\* request at a broker that offers its service and is not the one it came
\* from, marked with the one it came from; a response where its request came
\* from.
RightPlace(b, f) ==
    LET m == f[4].v IN
    \/ /\ f = <<Type("svc_req"), F("svc", DstOf[m]), F("tag", SrcOf[m]), F("body", m)>>
       /\ b # SrcOf[m] /\ DstOf[m] \in Offers[b] /\ m \in asked
    \/ /\ f = <<Type("svc_res"), F("svc", DstOf[m]), F("name", m), F("body", m)>>
       /\ b = SrcOf[m] /\ m \in answered
RoutedRight == \A b \in Broker : \A i \in 1..Len(at[b]) : RightPlace(b, at[b][i])

\* No message reaches brokers twice.
RoutedOnce == \A b, c \in Broker : \A i \in 1..Len(at[b]), j \in 1..Len(at[c]) :
    <<b, i>> # <<c, j>> => at[b][i] # at[c][j]

\* A callback never returns in the middle of a message: the next one starts
\* with a type where it expects a type, and with a topic where it expects one.
Aligned ==
    \A b \in Broker : running[b] = "none" =>
        /\ dq[b] # <<>> => dq[b][1].k = "type"
        /\ sq[b] # <<>> => sq[b][1].k = "topic" \/ sq[b][1] = Type("svc_reg")

\* Every broker has one service, as in the instances.
OneEach == \A c \in Broker : \A s, t \in Offers[c] : s = t

\* Where every broker has one service, a route is forgotten at the latest when
\* that of every other broker could have gone before it, one a second.
\* (remove_smalltree_callback returns after the first node that is old.)
RouteLease == \A b \in Broker : \A x \in Nodes(b) :
    age[b][x] <= TMCHK_BROKER_SVC + Cardinality(Broker)

\* "relay regi message to dealer thread" (broker_regi_thrd): a thread that
\* reads a registration has the service in its small tree.
RegistrationTaken ==
    [][\A b \in Broker :
         (sq[b] # <<>> /\ sq[b][1] = Type("svc_reg") /\ Len(sq'[b]) < Len(sq[b]))
           => \E i \in 1..Len(small'[b]) : small'[b][i] = sq[b][2].v]_vars
=============================================================================
