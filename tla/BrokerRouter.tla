----------------------------- MODULE BrokerRouter -----------------------------
(***************************************************************************)
(* The broker's router thread (router_callback and what it calls).         *)
(*                                                                         *)
(* The router socket hands over a message frame by frame.  The callback    *)
(* reads two frames, takes the first for the sender and the second for the *)
(* message type, and relays or drains the rest.  Some of its branches      *)
(* return with frames of the message unread; the next two reads then       *)
(* straddle two messages.  A message is a value of Message; its frames     *)
(* are tagged with what they hold, since the properties only ask whose     *)
(* frame is read in whose place.                                           *)
(***************************************************************************)
EXTENDS Integers, Sequences, FiniteSets

CONSTANTS
    Svc,        \* services: the identities of the dealers behind the router
    HUB,        \* the identity "inter_hub" of the hub's dealer
    PUB,        \* the broker's publisher, where responses go
    Message,    \* messages that arrive, each once
    KindOf,     \* the type frame each carries
    SrcOf,      \* the dealer it comes from: a service or HUB
    DstOf       \* the service it is addressed to

Kind == {"svc_req", "svc_res", "svc_res_interhub", "svc_log"}

ASSUME RouterAssumption ==
    /\ KindOf \in [Message -> Kind]
    /\ SrcOf \in [Message -> Svc \cup {HUB}]
    /\ DstOf \in [Message -> Svc]
    /\ HUB \notin Svc /\ PUB \notin Svc /\ PUB # HUB
    /\ \A m \in Message : SrcOf[m] = HUB => KindOf[m] \in {"svc_req", "svc_res"}

VARIABLES
    interhub,   \* TRUE iff the broker was started with a hub address
    inq,        \* messages the router socket has received
    cur,        \* frames of the message being read that are still unread
    routes,     \* dealers the router socket can reach
    out,        \* messages sent, in order: where to, and their frames
    arrived,    \* messages that ever arrived
    refused     \* messages the callback handled and could not send on

vars == <<interhub, inq, cur, routes, out, arrived, refused>>

F(k, x) == [k |-> k, v |-> x]
Type(t) == F("type", t)

\* Whether the message's tag says it came through the hub already.
Via(m) == SrcOf[m] = HUB

\* What follows the sender's identity and the type frame: mq_send_req,
\* mq_send_res, mq_send_log, and what the hub's dealer sends.
Content(m) ==
    CASE KindOf[m] = "svc_req" -> <<F("svc", DstOf[m]), F("tag", Via(m)), F("body", m)>>
      [] KindOf[m] = "svc_res" -> <<F("svc", DstOf[m]), F("name", m), F("body", m)>>
      [] KindOf[m] = "svc_res_interhub" ->
             <<F("broker", m), F("svc", DstOf[m]), F("name", m), F("body", m)>>
      [] KindOf[m] = "svc_log" -> <<F("body", m)>>

Frames(m) == <<F("id", SrcOf[m]), Type(KindOf[m])>> \o Content(m)

Init ==
    /\ interhub \in BOOLEAN
    /\ inq = <<>> /\ cur = <<>> /\ out = <<>>
    /\ routes = {} /\ arrived = {} /\ refused = {}

-----------------------------------------------------------------------------
(* The sockets: messages arrive from connected dealers, dealers come and go. *)

\* A process answers through the hub only what came to it through the hub.
Arrive(m) ==
    /\ m \notin arrived
    /\ KindOf[m] = "svc_res_interhub" => interhub
    /\ SrcOf[m] \in routes
    /\ inq' = Append(inq, m)
    /\ arrived' = arrived \cup {m}
    /\ UNCHANGED <<interhub, cur, routes, out, refused>>

Connect(d) ==
    /\ d \in Svc \/ interhub
    /\ routes' = routes \cup {d}
    /\ UNCHANGED <<interhub, inq, cur, out, arrived, refused>>

Disconnect(d) ==
    /\ routes' = routes \ {d}
    /\ UNCHANGED <<interhub, inq, cur, out, arrived, refused>>

-----------------------------------------------------------------------------
(* One round of router_callback's loop.                                    *)

\* The frames the two reads come from: what is left of the message being
\* read, and the next message when that is less than two frames.
Next2    == Len(cur) < 2 /\ inq # <<>>
Stream   == IF Next2 THEN cur \o Frames(Head(inq)) ELSE cur
TypeRead == Stream[2]
Rest     == SubSeq(Stream, 3, Len(Stream))

\* Faulty variants of a definition, which the checks substitute for it, stand
\* before it and are named Bad<Definition>.
BadRead ==
    /\ Len(Stream) >= 2
    /\ inq' = IF inq # <<>> THEN Tail(inq) ELSE inq
    /\ UNCHANGED <<interhub, routes, arrived>>

BadReadTwice ==
    /\ Len(Stream) >= 2
    /\ UNCHANGED <<interhub, inq, routes, arrived>>

Read ==
    /\ Len(Stream) >= 2
    /\ inq' = IF Next2 THEN Tail(inq) ELSE inq
    /\ UNCHANGED <<interhub, routes, arrived>>

Sent(to, frames) == out' = Append(out, [to |-> to, frames |-> frames])

\* relay_snd_more got everything across: nothing is left to read.
Relay(to, frames) ==
    /\ Sent(to, frames)
    /\ cur' = <<>>
    /\ refused' = refused

BadRefuse(remaining) ==
    /\ cur' = Stream
    /\ refused' = refused \cup {Rest[Len(Rest)].v}
    /\ out' = out

\* The message is not sent on; the frames in remaining stay unread.
Refuse(remaining) ==
    /\ cur' = remaining
    /\ refused' = refused \cup {Rest[Len(Rest)].v}
    /\ out' = out

\* The type frame never comes: the loop ends, the one frame read is gone.
ReadAlone ==
    /\ Len(Stream) = 1
    /\ cur' = <<>>
    /\ UNCHANGED <<interhub, inq, routes, out, arrived, refused>>

UnknownType ==
    /\ Read
    /\ TypeRead.k # "type"
    /\ cur' = <<>>
    /\ UNCHANGED <<out, refused>>

RelayLog ==
    /\ Read
    /\ TypeRead = Type("svc_log")
    /\ cur' = Tail(Rest)
    /\ UNCHANGED <<out, refused>>

RelayRes ==
    /\ Read
    /\ TypeRead = Type("svc_res")
    /\ Relay(PUB, Rest)

\* relay_res_to_interhub: nothing is read when the hub cannot be reached, or
\* its queue is full.
RelayResInterhub ==
    /\ Read
    /\ TypeRead = Type("svc_res_interhub")
    /\ \/ HUB \in routes /\ Relay(HUB, <<TypeRead>> \o Rest)
       \/ Refuse(Rest)

ReadsRequest == Read /\ TypeRead = Type("svc_req")
Dest         == Rest[1].v
TagRead      == Rest[2]
AfterTag     == SubSeq(Rest, 3, Len(Rest))

BadRouteReq ==
    /\ ReadsRequest
    /\ Dest \in routes
    /\ \/ Relay(Dest, Rest)
       \/ Refuse(Tail(Rest))

\* relay_snd_more finds the dealer; its queue may be full.
RouteReq ==
    /\ ReadsRequest
    /\ Dest \in routes
    /\ \/ Relay(Dest, Tail(Rest))
       \/ Refuse(Tail(Rest))

BadRelayReqToInterhub ==
    /\ ReadsRequest
    /\ Dest \notin routes
    /\ interhub
    /\ HUB \in routes
    /\ Relay(HUB, <<TypeRead, Rest[1], F("tag", TRUE)>> \o AfterTag)

\* relay_req_to_interhub on EHOSTUNREACH, with the tag read and marked.
RelayReqToInterhub ==
    /\ ReadsRequest
    /\ Dest \notin routes
    /\ interhub
    /\ ~TagRead.v
    /\ HUB \in routes
    /\ Relay(HUB, <<TypeRead, Rest[1], F("tag", TRUE)>> \o AfterTag)

\* "prevent node loop", or the hub cannot be reached or its queue is full:
\* the body stays unread.
ReqNotForHub ==
    /\ ReadsRequest
    /\ Dest \notin routes
    /\ interhub
    /\ Refuse(AfterTag)

BadDrainReq ==
    /\ ReadsRequest
    /\ Dest \notin routes
    /\ ~interhub
    /\ Refuse(AfterTag)

\* "interhub not exist drain remain part".
DrainReq ==
    /\ ReadsRequest
    /\ Dest \notin routes
    /\ ~interhub
    /\ Refuse(<<>>)

RouterStep ==
    \/ ReadAlone \/ UnknownType \/ RelayLog \/ RelayRes \/ RelayResInterhub
    \/ RouteReq \/ RelayReqToInterhub \/ ReqNotForHub \/ DrainReq

Next ==
    \/ \E m \in Message : Arrive(m)
    \/ \E d \in Svc \cup {HUB} : Connect(d) \/ Disconnect(d)
    \/ RouterStep

Spec == Init /\ [][Next]_vars

-----------------------------------------------------------------------------
(* Correctness.                                                            *)

SentBody(i) == out[i].frames[Len(out[i].frames)].v
Delivered   == {SentBody(i) : i \in 1..Len(out)}
Queued      == {inq[i] : i \in 1..Len(inq)}

\* Gone without a trace: read, not a log line, neither sent nor refused.
Swallowed ==
    {m \in arrived \ (Queued \cup Delivered \cup refused) : KindOf[m] # "svc_log"}

TypeOK ==
    /\ interhub \in BOOLEAN
    /\ inq \in Seq(Message)
    /\ Len(cur) <= 4
    /\ routes \subseteq Svc \cup {HUB}
    /\ \A i \in 1..Len(out) : out[i].to \in Svc \cup {HUB, PUB}
    /\ arrived \subseteq Message
    /\ refused \subseteq arrived

\* What each kind of message looks like where it is sent.
Form(m, to) ==
    CASE KindOf[m] = "svc_req" /\ to = DstOf[m] -> Tail(Content(m))
      [] KindOf[m] = "svc_req" /\ to = HUB ->
             <<Type("svc_req"), F("svc", DstOf[m]), F("tag", TRUE), F("body", m)>>
      [] KindOf[m] = "svc_res" /\ to = PUB -> Content(m)
      [] KindOf[m] = "svc_res_interhub" /\ to = HUB -> <<Type(KindOf[m])>> \o Content(m)
      [] OTHER -> <<>>

\* Every message the router sends is one that arrived, whole and unmixed with
\* any other, in the form its receiver reads, however the reads straddled
\* earlier messages.
SentWhole ==
    \A i \in 1..Len(out) :
        SentBody(i) \in arrived /\ out[i].frames = Form(SentBody(i), out[i].to)

\* No message is sent twice, and none that was given up is sent later.
SentOnce ==
    \A i, j \in 1..Len(out) :
        SentBody(i) \notin refused /\ (i # j => SentBody(i) # SentBody(j))

\* "prevent node loop" (relay_req_to_interhub): what came through the hub
\* never goes back to it.
NoHubLoop ==
    \A i \in 1..Len(out) : out[i].to = HUB => SrcOf[SentBody(i)] # HUB

\* A message is swallowed only by the unread body of a request before it that
\* was given up, and each such request swallows at most one.
SwallowBound ==
    Cardinality(Swallowed) <= Cardinality({m \in refused : KindOf[m] = "svc_req"})

\* A broker without a hub swallows nothing: it drains what it gives up.
AloneNothingSwallowed == ~interhub => Swallowed = {}

\* "message routing" is what the broker provides (README.md): no message
\* vanishes because of another one.
EachHandled == Swallowed = {}
=============================================================================
