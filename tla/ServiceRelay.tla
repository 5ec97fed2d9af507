----------------------------- MODULE ServiceRelay -----------------------------
(***************************************************************************)
(* The broker's service layer (broker.c) and the client library            *)
(* (zmq_wrapper.c): a request from mq_send_req in one process to           *)
(* mq_recv_req in a process of the service it is for, and the answer back. *)
(*                                                                         *)
(* A service's slot has a pull socket that reads from its processes, a     *)
(* dealer to the router, a push socket that hands each request to one of   *)
(* its processes, and a subscriber and a publisher for answers.  One       *)
(* thread runs the slots' callbacks.  mq_relay_callback moves one frame    *)
(* after the other and ignores zmq_send's result, so a message that meets  *)
(* a full queue, or no process, loses its first frames and only those: the *)
(* socket keeps what follows an accepted frame together.  The router is    *)
(* that of a broker without a hub, one message at a time (BrokerRouter has *)
(* its frames).                                                            *)
(***************************************************************************)
EXTENDS Integers, Sequences, FiniteSets

CONSTANTS
    Svc, Proc,      \* services and processes
    SvcOf, PortOf,  \* each process's service and the port it was given
    Ipc,            \* processes that connect by ipc, the others by tcp
    SvcBegins,      \* <<s, t>>: the name of s begins that of another service t
    ProcBegins,     \* the same for the names of processes
    Request,        \* requests, each sent once
    From, To,       \* the process each comes from, the service it is for
    Mortal,         \* processes that may exit
    MaxReleases,    \* bound on released slots
    RELAY_MAX,      \* frames one callback relays at most (1000 in the code)
    HWM,            \* messages a queue holds
    NULL

F(k, x) == [k |-> k, v |-> x]

\* A body of no bytes is of kind "nothing".
BodyKind == {"body", "nothing"}
Frame    == {F("type", t) : t \in {"svc_req", "svc_res"}} \cup {F("svc", s) : s \in Svc}
              \cup {F(k, m) : k \in BodyKind \cup {"tag"}, m \in Request} \cup {F("name", p) : p \in Proc}

\* The two ways mq_relay_callback is used: pull to dealer, dealer to push.
Way == {"pull", "dealer"}

\* A message that a callback has begun to send, and the callback itself.
Begun == [to : Svc \cup Proc, msg : Seq(Frame)]
Relay == [svc : Svc, way : Way, cnt : 0..RELAY_MAX]

ASSUME RelayAssumption ==
    /\ SvcOf \in [Proc -> Svc] /\ PortOf \in [Proc -> Nat] /\ Ipc \subseteq Proc
    /\ SvcBegins \subseteq Svc \X Svc /\ ProcBegins \subseteq Proc \X Proc
    /\ From \in [Request -> Proc] /\ To \in [Request -> Svc]
    /\ Mortal \subseteq Proc /\ MaxReleases \in Nat
    /\ RELAY_MAX \in Nat \ {0} /\ HWM \in Nat \ {0}
    /\ Proc \cap {"left", "router"} = {}
    /\ NULL \notin Svc \cup Proc \cup Request \cup {"sent", "failed"} \cup Begun \cup Relay

VARIABLES
    base,       \* the port each service's open slot is bound to, 0 if none
    releases,   \* slots released so far
    gone,       \* processes that have exited
    conn,       \* the service whose slot a process's sockets have connected to
    outq,       \* messages a process has sent that its slot has not read
    dq, up, sq, \* messages to and from each slot's dealer, to its subscriber
    rd,         \* frames each callback has still to read of a message
    snd,        \* the message each callback has begun to send, or NULL
    eye,        \* what each socket's reader knows: see Arrived
    cb,         \* the relay the service thread is in, or NULL
    inq, ansq,  \* requests and answers that have reached each process
    hand,       \* the request each process is answering, or NULL
    result,     \* what mq_send_req returned
    taken,      \* what mq_recv_req returned, in order
    read        \* what mq_recv_res returned, in order

slotq == <<dq, up, sq>>
thread == <<rd, snd, eye, cb>>
client == <<inq, ansq, hand>>
done   == <<result, taken, read>>
vars   == <<base, releases, gone, conn, outq, slotq, thread, client, done>>

\* What mq_send_req and mq_send_res send; a tag names the asking process.
ReqFrames(m, k) == <<F("type", "svc_req"), F("svc", To[m]), F("tag", m), F(k, m)>>
ResFrames(m) == <<F("type", "svc_res"), F("svc", SvcOf[From[m]]),
                  F("name", From[m]), F("body", m)>>

Init ==
    /\ base = [s \in Svc |-> 0] /\ releases = 0 /\ gone = {}
    /\ conn = [p \in Proc |-> NULL] /\ outq = [p \in Proc |-> <<>>]
    /\ dq = [s \in Svc |-> <<>>] /\ up = [s \in Svc |-> <<>>] /\ sq = [s \in Svc |-> <<>>]
    /\ rd = [s \in Svc |-> [w \in Way |-> <<>>]]
    /\ snd = [s \in Svc |-> [w \in Way |-> NULL]]
    /\ eye = [s \in Svc |-> [w \in Way |-> "asleep"]]
    /\ cb = NULL
    /\ inq = [p \in Proc |-> <<>>] /\ ansq = [p \in Proc |-> <<>>]
    /\ hand = [p \in Proc |-> NULL]
    /\ result = [m \in Request |-> NULL] /\ taken = <<>> /\ read = <<>>

-----------------------------------------------------------------------------
(* Slots and connections.                                                  *)

\* A socket's reader is "asleep" after it found nothing to read.  Only then
\* does an arrival signal the descriptor ("ready"), once: it is edge-triggered.
\* A reader that stopped with messages left is "awake" and gets no signal.
Arrived(s, w) == IF eye[s][w] = "asleep" THEN "ready" ELSE eye[s][w]
See(s, w, x)  == [eye EXCEPT ![s][w] = x]

Rounded(port) == (port \div 10) * 10

\* connect_svc_slot binds the rounded port of the registration that claimed
\* the slot; slots in use have different ports (BrokerRegistry!PortsUnique).
OpenSlot(s) ==
    /\ cb = NULL
    /\ base[s] = 0
    /\ \E p \in Proc \ gone :
         /\ SvcOf[p] = s
         /\ \A t \in Svc : base[t] # Rounded(PortOf[p])
         /\ base' = [base EXCEPT ![s] = Rounded(PortOf[p])]
    /\ UNCHANGED <<releases, gone, conn, outq, slotq, thread, client, done>>

\* Faulty variants of a definition, which the checks substitute for it, stand
\* before it and are named Bad<Definition>.
BadMeets(p, s) == base[s] # 0 /\ IF p \in Ipc THEN SvcOf[p] = s
                  ELSE PortOf[p] \div 100 = base[s] \div 100

\* make_addr_str: ipc addresses have the service's name, tcp ones the port
\* that the process was given.
Meets(p, s) == base[s] # 0 /\ IF p \in Ipc THEN SvcOf[p] = s ELSE PortOf[p] = base[s]

Connect(p) ==
    /\ p \notin gone
    /\ conn[p] = NULL
    /\ \E s \in Svc :
         /\ Meets(p, s)
         /\ conn' = [conn EXCEPT ![p] = s]
         /\ eye' = IF outq[p] = <<>> THEN eye ELSE See(s, "pull", Arrived(s, "pull"))
    /\ UNCHANGED <<base, releases, gone, outq, slotq, rd, snd, cb, client, done>>

\* What the callbacks hold in the middle of a message.
BadForget(s) ==
    /\ rd' = [rd EXCEPT ![s] = [w \in Way |-> <<>>]]
    /\ UNCHANGED <<snd, eye>>

Forget(s) ==
    /\ rd' = [rd EXCEPT ![s] = [w \in Way |-> <<>>]]
    /\ snd' = [snd EXCEPT ![s] = [w \in Way |-> NULL]]
    /\ eye' = [eye EXCEPT ![s] = [w \in Way |-> "asleep"]]

\* svc_release closes the sockets: what they hold is lost, and so may be what
\* the processes had sent to them.
SvcRelease(s) ==
    /\ cb = NULL
    /\ base[s] # 0
    /\ releases < MaxReleases
    /\ releases' = releases + 1
    /\ base' = [base EXCEPT ![s] = 0]
    /\ conn' = [p \in Proc |-> IF conn[p] = s THEN NULL ELSE conn[p]]
    /\ \E lost \in SUBSET {p \in Proc : conn[p] = s /\ outq[p] # <<>>} :
         outq' = [p \in Proc |-> IF p \in lost THEN <<>> ELSE outq[p]]
    /\ dq' = [dq EXCEPT ![s] = <<>>] /\ up' = [up EXCEPT ![s] = <<>>]
    /\ sq' = [sq EXCEPT ![s] = <<>>]
    /\ Forget(s)
    /\ UNCHANGED <<gone, cb, client, done>>

\* A process exits, with what its sockets hold (zero_linger).
Exit(p) ==
    /\ p \in Mortal \ gone
    /\ gone' = gone \cup {p}
    /\ conn' = [conn EXCEPT ![p] = NULL]
    /\ outq' = [outq EXCEPT ![p] = <<>>]
    /\ inq' = [inq EXCEPT ![p] = <<>>] /\ ansq' = [ansq EXCEPT ![p] = <<>>]
    /\ hand' = [hand EXCEPT ![p] = NULL]
    /\ UNCHANGED <<base, releases, slotq, thread, done>>

-----------------------------------------------------------------------------
(* The client library.                                                     *)

\* zmq_send on the process's push socket, at its high-water mark or below.
Full(p)      == Len(outq[p]) >= HWM
Push(p, msg) ==
    /\ outq' = [outq EXCEPT ![p] = Append(@, msg)]
    /\ eye' = IF conn[p] = NULL THEN eye
              ELSE See(conn[p], "pull", Arrived(conn[p], "pull"))

\* The call fails when the queue is full.  It also reports a failure, after
\* everything was sent, when the body has no bytes.
MqSendReq(m) ==
    /\ From[m] \notin gone
    /\ result[m] = NULL
    /\ \/ /\ ~Full(From[m])
          /\ \E k \in BodyKind :
               /\ Push(From[m], ReqFrames(m, k))
               /\ result' = [result EXCEPT ![m] = IF k = "nothing" THEN "failed" ELSE "sent"]
       \/ /\ Full(From[m])
          /\ result' = [result EXCEPT ![m] = "failed"]
          /\ UNCHANGED <<outq, eye>>
    /\ UNCHANGED <<base, releases, gone, conn, slotq, rd, snd, cb, client, taken, read>>

BadAcceptable(msg) == Len(msg) = 2

\* "read from tag", "read message body": a message that lost its tag is given
\* up, and so is one whose body has no bytes.
Acceptable(msg) == Len(msg) = 2 /\ msg[2].k = "body"

BadTake(p, msg) ==
    /\ hand' = [hand EXCEPT ![p] = msg[1].v]
    /\ taken' = Append(taken, [by |-> p, tag |-> msg[1], body |-> msg[Len(msg)]])

Take(p, msg) ==
    IF Acceptable(msg)
    THEN /\ hand' = [hand EXCEPT ![p] = msg[1].v]
         /\ taken' = Append(taken, [by |-> p, tag |-> msg[1], body |-> msg[2]])
    ELSE UNCHANGED <<hand, taken>>

\* mq_recv_req in the loop of a service's process.
MqRecvReq(p) ==
    /\ hand[p] = NULL
    /\ inq[p] # <<>>
    /\ Take(p, Head(inq[p]))
    /\ inq' = [inq EXCEPT ![p] = Tail(@)]
    /\ UNCHANGED <<base, releases, gone, conn, outq, slotq, thread, ansq, result, read>>

\* mq_send_res with the tag that was received; the loop ignores its result.
MqSendRes(p) ==
    /\ hand[p] # NULL
    /\ hand' = [hand EXCEPT ![p] = NULL]
    /\ IF Full(p) THEN UNCHANGED <<outq, eye>> ELSE Push(p, ResFrames(hand[p]))
    /\ UNCHANGED <<base, releases, gone, conn, slotq, rd, snd, cb, inq, ansq, done>>

\* mq_recv_res: the topic and the body of an answer.
MqRecvRes(p) ==
    /\ ansq[p] # <<>>
    /\ read' = Append(read, [by |-> p, name |-> Head(ansq[p])[1], body |-> Head(ansq[p])[2]])
    /\ ansq' = [ansq EXCEPT ![p] = Tail(@)]
    /\ UNCHANGED <<base, releases, gone, conn, outq, slotq, thread, inq, hand, result, taken>>

-----------------------------------------------------------------------------
(* mq_relay_callback, which the service thread runs for one socket at a    *)
(* time, at most RELAY_MAX frames at once.                                 *)

Waits(s) == {p \in Proc : conn[p] = s /\ outq[p] # <<>>}

\* Where the next frame is read: what is left of a message, or else the next
\* message of the router, or of any process.
Sources(s, w) ==
    CASE rd[s][w] # <<>> -> {"left"}
      [] rd[s][w] = <<>> /\ w = "pull" -> Waits(s)
      [] OTHER -> IF dq[s] = <<>> THEN {} ELSE {"router"}

FramesAt(s, w, src) ==
    CASE src = "left" -> rd[s][w] [] src = "router" -> Head(dq[s]) [] OTHER -> Head(outq[src])

Starts(s, w) ==
    /\ cb = NULL
    /\ Sources(s, w) # {}
    /\ cb' = [svc |-> s, way |-> w, cnt |-> 0]
    /\ eye' = See(s, w, "awake")
    /\ UNCHANGED <<base, releases, gone, conn, outq, slotq, rd, snd, client, done>>

\* The descriptor was signalled, or TM_POLLING has passed.
EdgeStart(s, w)     == eye[s][w] = "ready" /\ Starts(s, w)
BadTimerStart(s, w) == eye[s][w] = "ready" /\ Starts(s, w)
TimerStart(s, w)    == Starts(s, w)

\* Most often the timer finds nothing to read.
TimerIdle(s, w) ==
    /\ cb = NULL
    /\ base[s] # 0
    /\ Sources(s, w) = {}
    /\ eye' = See(s, w, "asleep")
    /\ UNCHANGED <<base, releases, gone, conn, outq, slotq, rd, snd, cb, client, done>>

\* The callback returns: nothing is left, or it has relayed its number.
Return ==
    /\ cb # NULL
    /\ \/ /\ Sources(cb.svc, cb.way) = {}
          /\ eye' = See(cb.svc, cb.way, "asleep")
       \/ /\ Sources(cb.svc, cb.way) # {} /\ cb.cnt = RELAY_MAX
          /\ UNCHANGED eye
    /\ cb' = NULL
    /\ UNCHANGED <<base, releases, gone, conn, outq, slotq, rd, snd, client, done>>

\* Who can take a new message: the router, or a process of the service.
Takers(s, w) == IF w = "pull" THEN (IF Len(up[s]) < HWM THEN {s} ELSE {})
                ELSE {p \in Proc : conn[p] = s /\ Len(inq[p]) < HWM}

\* A message goes out with its last frame, unless the process has gone.
Deliver(s, w, to, msg) ==
    /\ up' = IF w = "pull" THEN [up EXCEPT ![s] = Append(@, msg)] ELSE up
    /\ inq' = IF w = "dealer" /\ conn[to] = s THEN [inq EXCEPT ![to] = Append(@, msg)] ELSE inq

\* zmq_send of one frame.  A message that has been begun goes on to the same
\* peer.  A frame that begins one finds a taker, or is lost.
SendFrame(s, w, f, more) ==
    LET begun == snd[s][w]
        Goes(to, msg) ==
            IF more
            THEN /\ snd' = [snd EXCEPT ![s][w] = [to |-> to, msg |-> msg]]
                 /\ UNCHANGED <<up, inq>>
            ELSE /\ snd' = [snd EXCEPT ![s][w] = NULL]
                 /\ Deliver(s, w, to, msg)
    IN \/ begun # NULL /\ Goes(begun.to, Append(begun.msg, f))
       \/ begun = NULL /\ \E to \in Takers(s, w) : Goes(to, <<f>>)
       \/ begun = NULL /\ Takers(s, w) = {} /\ UNCHANGED <<snd, up, inq>>

\* One round of the loop.  A send on the dealer may take notice of what has
\* arrived at the dealer, whose signal is then used up.
RelayFrame ==
    /\ cb # NULL
    /\ cb.cnt < RELAY_MAX
    /\ \E s \in {cb.svc}, w \in {cb.way} : \E src \in Sources(s, w) :
         LET frames == FramesAt(s, w, src) IN
         /\ rd' = [rd EXCEPT ![s][w] = Tail(frames)]
         /\ outq' = [p \in Proc |-> IF p = src THEN Tail(outq[p]) ELSE outq[p]]
         /\ dq' = IF src = "router" THEN [dq EXCEPT ![s] = Tail(@)] ELSE dq
         /\ SendFrame(s, w, Head(frames), Len(frames) > 1)
         /\ \/ UNCHANGED eye
            \/ w = "pull" /\ eye[s]["dealer"] = "ready" /\ eye' = See(s, "dealer", "awake")
    /\ cb' = [cb EXCEPT !.cnt = @ + 1]
    /\ UNCHANGED <<base, releases, gone, conn, sq, ansq, hand, done>>

-----------------------------------------------------------------------------
(* The router's thread, and the way of an answer from there.               *)

\* Names begin their own name, and those the instance says.
HearsSvc(s, t)  == s = t \/ <<s, t>> \in SvcBegins
HearsProc(p, q) == p = q \/ <<p, q>> \in ProcBegins

ReadsUp(s) ==
    /\ up[s] # <<>>
    /\ up' = [up EXCEPT ![s] = Tail(@)]
    /\ UNCHANGED <<base, releases, gone, conn, outq, rd, snd, cb, client, done>>

Is(msg, t) == msg[1] = F("type", t)

\* router_callback, relay_snd_more: to the dealer with the service's name.
RouteReq(s) ==
    /\ ReadsUp(s)
    /\ Is(Head(up[s]), "svc_req")
    /\ LET to == Head(up[s])[2].v IN
         /\ base[to] # 0 /\ Len(dq[to]) < HWM
         /\ dq' = [dq EXCEPT ![to] = Append(@, SubSeq(Head(up[s]), 3, 4))]
         /\ eye' = See(to, "dealer", Arrived(to, "dealer"))
    /\ UNCHANGED sq

\* There is no such dealer, or its queue is full.
RouteReqNowhere(s) ==
    /\ ReadsUp(s)
    /\ Is(Head(up[s]), "svc_req")
    /\ LET to == Head(up[s])[2].v IN base[to] = 0 \/ Len(dq[to]) = HWM
    /\ UNCHANGED <<dq, sq, eye>>

\* The publisher: to every slot whose subscription fits.
PublishRes(s) ==
    /\ ReadsUp(s)
    /\ Is(Head(up[s]), "svc_res")
    /\ LET msg == Tail(Head(up[s])) IN
         sq' = [t \in Svc |-> IF base[t] # 0 /\ HearsSvc(t, msg[1].v) /\ Len(sq[t]) < HWM
                              THEN Append(sq[t], msg) ELSE sq[t]]
    /\ UNCHANGED <<dq, eye>>

\* A message that has lost its first frames is of an unknown type.
UnknownType(s) ==
    /\ ReadsUp(s)
    /\ Head(up[s])[1].k # "type"
    /\ UNCHANGED <<dq, sq, eye>>

Router(s) == RouteReq(s) \/ RouteReqNowhere(s) \/ PublishRes(s) \/ UnknownType(s)

BadRelaySub(s) ==
    /\ cb = NULL
    /\ sq[s] # <<>>
    /\ sq' = [sq EXCEPT ![s] = Tail(@)]
    /\ LET msg == Tail(Head(sq[s])) IN
         ansq' = [p \in Proc |-> IF conn[p] = s /\ Len(ansq[p]) < HWM
                                THEN Append(ansq[p], msg) ELSE ansq[p]]
    /\ UNCHANGED <<base, releases, gone, conn, outq, dq, up, thread, inq, hand, done>>

\* mq_relay_callback_sub_to_pub: the first frame is thrown away, the others
\* are published to the processes whose subscription fits.
RelaySub(s) ==
    /\ cb = NULL
    /\ sq[s] # <<>>
    /\ sq' = [sq EXCEPT ![s] = Tail(@)]
    /\ LET msg == Tail(Head(sq[s])) IN
         ansq' = [p \in Proc |->
                    IF conn[p] = s /\ HearsProc(p, msg[1].v) /\ Len(ansq[p]) < HWM
                    THEN Append(ansq[p], msg) ELSE ansq[p]]
    /\ UNCHANGED <<base, releases, gone, conn, outq, dq, up, thread, inq, hand, done>>

-----------------------------------------------------------------------------
Next ==
    \/ \E s \in Svc : OpenSlot(s) \/ SvcRelease(s) \/ Router(s) \/ RelaySub(s)
    \/ \E s \in Svc, w \in Way : EdgeStart(s, w) \/ TimerStart(s, w) \/ TimerIdle(s, w)
    \/ RelayFrame \/ Return
    \/ \E p \in Proc : Connect(p) \/ Exit(p) \/ MqRecvReq(p) \/ MqSendRes(p) \/ MqRecvRes(p)
    \/ \E m \in Request : MqSendReq(m)

Spec == Init /\ [][Next]_vars

\* Every thread and process goes on.  Processes register for as long as they
\* live, so their services get slots.
Fairness ==
    /\ \A s \in Svc : WF_vars(OpenSlot(s)) /\ WF_vars(Router(s)) /\ WF_vars(RelaySub(s))
    /\ \A s \in Svc, w \in Way : WF_vars(EdgeStart(s, w)) /\ WF_vars(TimerStart(s, w))
    /\ WF_vars(RelayFrame) /\ WF_vars(Return)
    /\ \A p \in Proc : /\ WF_vars(Connect(p)) /\ WF_vars(MqRecvReq(p))
                       /\ WF_vars(MqSendRes(p)) /\ WF_vars(MqRecvRes(p))

FairSpec == Spec /\ Fairness

-----------------------------------------------------------------------------
(* Correctness.                                                            *)

\* A process that connects by tcp goes to whatever listens at the port it was
\* given.  Requests and answers arrive where they should if no such port is
\* what the slot of another service rounds its port to, as in the instances.
PortsApart == \A p, q \in Proc :
    p \notin Ipc /\ PortOf[p] = Rounded(PortOf[q]) => SvcOf[p] = SvcOf[q]

IsMsg(msg, n) == Len(msg) \in 1..n /\ \A i \in 1..Len(msg) : msg[i] \in Frame
IsQueue(q, n) == Len(q) <= HWM /\ \A i \in 1..Len(q) : IsMsg(q[i], n)

TypeOK ==
    /\ base \in [Svc -> {0} \cup {Rounded(PortOf[p]) : p \in Proc}]
    /\ releases \in 0..MaxReleases /\ gone \subseteq Proc
    /\ \A p \in Proc : conn[p] \in Svc => base[conn[p]] # 0
    /\ \A p \in Proc : IsQueue(outq[p], 4) /\ IsQueue(inq[p], 2) /\ IsQueue(ansq[p], 2)
    /\ \A s \in Svc : IsQueue(dq[s], 2) /\ IsQueue(up[s], 4) /\ IsQueue(sq[s], 3)
    /\ \A s \in Svc, w \in Way :
         /\ rd[s][w] # <<>> => IsMsg(rd[s][w], 3)
         /\ snd[s][w] # NULL => rd[s][w] # <<>> /\ IsMsg(snd[s][w].msg, 3)
         /\ eye[s][w] \in {"asleep", "ready", "awake"}
    /\ hand \in [Proc -> Request \cup {NULL}]
    /\ result \in [Request -> {NULL, "sent", "failed"}]

\* A process that serves requests gets each with its own tag, although the
\* relays cut messages: the tag says where the answer goes.
TakenWhole == \A i \in 1..Len(taken) :
    \E m \in Request : taken[i].tag = F("tag", m) /\ taken[i].body \in {F(k, m) : k \in BodyKind}

\* A request ends at one process of its service, once.
TakenOnce == \A i, j \in 1..Len(taken) :
    /\ SvcOf[taken[i].by] = To[taken[i].tag.v]
    /\ i # j => taken[i].body.v # taken[j].body.v

\* What mq_send_req reported as failed is served by no process, whether it
\* was sent or not: the caller may try again.
FailedNotTaken == \A m \in Request :
    result[m] = "failed" => \A i \in 1..Len(taken) : taken[i].body.v # m

\* A process reads an answer at most once, only one that some process gave,
\* and only one whose name its own name begins.
AnswersRight == \A i \in 1..Len(read) :
    LET m == read[i].body.v IN
    /\ read[i].name = F("name", From[m]) /\ HearsProc(read[i].by, From[m])
    /\ \E j \in 1..Len(taken) : taken[j].tag = F("tag", m)
    /\ \A j \in 1..Len(read) : i # j => read[i] # read[j]

\* The frames that are somewhere between two processes.
Waiting(m) ==
    LET In(q) == \E i \in 1..Len(q) : q[i] # <<>> /\ q[i][Len(q[i])] \in {F(k, m) : k \in BodyKind}
    IN \/ \E p \in Proc : In(outq[p]) \/ In(inq[p]) \/ In(ansq[p]) \/ hand[p] = m
       \/ \E s \in Svc : In(dq[s]) \/ In(up[s]) \/ In(sq[s]) \/ \E w \in Way : In(<<rd[s][w]>>)

\* No request or answer waits for ever in a queue, although the descriptors
\* are edge-triggered and a callback stops at RELAY_MAX frames: each is read,
\* or lost.  ("use edge-trigger ... so add more time check for safe")
NothingStuck == \A m \in Request : Waiting(m) ~> ~Waiting(m)
=============================================================================
