-------------------------- MODULE BrokerRouterProofs --------------------------
(***************************************************************************)
(* Proofs about BrokerRouter for any services and messages.  FlowInv says  *)
(* what a round may have left unread (CurInv) and where every message that *)
(* arrived is (WaitInv, OutInv); from it StepCases derives that a round    *)
(* either drains what was left unread or handles one whole message.        *)
(* SwallowInv counts the messages that vanish against the requests that    *)
(* were given up, with the one whose body is still to do its harm.         *)
(***************************************************************************)
EXTENDS BrokerRouter, SequenceTheorems, FiniteSetTheorems, TLAPS

-----------------------------------------------------------------------------
(* Frames.                                                                 *)

Frame == [k : {"id", "type", "svc", "tag", "body", "name", "broker"},
          v : Svc \cup {HUB} \cup Kind \cup BOOLEAN \cup Message]

Body(m) == F("body", m)
Tag(m)  == F("tag", Via(m))
HubTag  == F("tag", TRUE)

LEMMA FrameType ==
    ASSUME NEW m \in Message
    PROVE  /\ F("id", SrcOf[m]) \in Frame /\ Type(KindOf[m]) \in Frame
           /\ F("svc", DstOf[m]) \in Frame /\ Tag(m) \in Frame /\ HubTag \in Frame
           /\ F("name", m) \in Frame /\ F("broker", m) \in Frame /\ Body(m) \in Frame
  BY RouterAssumption DEF F, Type, Via, Frame, Body, Tag, HubTag

\* The content of each kind of message.
LEMMA ContentValue ==
    ASSUME NEW m \in Message
    PROVE  /\ KindOf[m] \in Kind
           /\ KindOf[m] = "svc_req" =>
                 Content(m) = <<F("svc", DstOf[m]), Tag(m), Body(m)>>
           /\ KindOf[m] = "svc_res" =>
                 Content(m) = <<F("svc", DstOf[m]), F("name", m), Body(m)>>
           /\ KindOf[m] = "svc_res_interhub" =>
                 Content(m) = <<F("broker", m), F("svc", DstOf[m]), F("name", m), Body(m)>>
           /\ KindOf[m] = "svc_log" => Content(m) = <<Body(m)>>
  BY RouterAssumption DEF Content, Kind, Body, Tag

LEMMA ContentType ==
    ASSUME NEW m \in Message
    PROVE  /\ Content(m) \in Seq(Frame)
           /\ Len(Content(m)) \in {1, 3, 4}
           /\ Content(m)[Len(Content(m))] = Body(m)
  <1>1. CASE KindOf[m] = "svc_req"
    <2>1. Content(m) = <<F("svc", DstOf[m]), Tag(m), Body(m)>>
      BY <1>1, ContentValue
    <2>2. Len(<<F("svc", DstOf[m]), Tag(m), Body(m)>>) = 3
      OBVIOUS
    <2> QED
      BY <2>1, <2>2, FrameType
  <1>2. CASE KindOf[m] = "svc_res"
    <2>1. Content(m) = <<F("svc", DstOf[m]), F("name", m), Body(m)>>
      BY <1>2, ContentValue
    <2>2. Len(<<F("svc", DstOf[m]), F("name", m), Body(m)>>) = 3
      OBVIOUS
    <2> QED
      BY <2>1, <2>2, FrameType
  <1>3. CASE KindOf[m] = "svc_res_interhub"
    <2>1. Content(m) = <<F("broker", m), F("svc", DstOf[m]), F("name", m), Body(m)>>
      BY <1>3, ContentValue
    <2>2. Len(<<F("broker", m), F("svc", DstOf[m]), F("name", m), Body(m)>>) = 4
      OBVIOUS
    <2> QED
      BY <2>1, <2>2, FrameType
  <1>4. CASE KindOf[m] = "svc_log"
    <2>1. Content(m) = <<Body(m)>> /\ Len(<<Body(m)>>) = 1
      BY <1>4, ContentValue
    <2> QED
      BY <2>1, FrameType
  <1> QED
    BY <1>1, <1>2, <1>3, <1>4, ContentValue DEF Kind

\* What a request leaves when its service, or its service and its tag were read.
LEMMA RequestParts ==
    ASSUME NEW m \in Message, KindOf[m] = "svc_req"
    PROVE  /\ Len(Content(m)) = 3
           /\ Content(m)[1] = F("svc", DstOf[m]) /\ Content(m)[2] = Tag(m)
           /\ Tail(Content(m)) = <<Tag(m), Body(m)>>
           /\ SubSeq(Content(m), 3, Len(Content(m))) = <<Body(m)>>
  <1> DEFINE c == <<F("svc", DstOf[m]), Tag(m), Body(m)>>
             d == SubSeq(c, 3, 3)
  <1>1. Content(m) = c
    BY ContentValue
  <1>2. c \in Seq(Frame) /\ c # <<>> /\ Len(c) = 3
    BY FrameType
  <1>3. Tail(c) = <<Tag(m), Body(m)>>
    OBVIOUS
  <1>4. /\ d \in Seq(Frame) /\ Len(d) = 1 /\ d[1] = Body(m)
    <2>1. c[3] = Body(m) /\ Body(m) \in Frame
      BY FrameType
    <2> HIDE DEF c
    <2>2. SubSeq(c, 3, 3) \in Seq(Frame) /\ Len(SubSeq(c, 3, 3)) = 1 /\ SubSeq(c, 3, 3)[1] = c[3]
      BY <2>1, SubSeqProperties
    <2> QED
      BY <2>1, <2>2
  <1>5. d = <<Body(m)>>
    <2>1. <<Body(m)>> \in Seq(Frame) /\ Len(<<Body(m)>>) = 1 /\ <<Body(m)>>[1] = Body(m)
      BY FrameType
    <2> HIDE DEF d
    <2> QED
      BY <1>4, <2>1, SeqEqual
  <1> QED
    BY <1>1, <1>2, <1>3, <1>5

\* The two frames before the content.
LEMMA FramesParts ==
    ASSUME NEW m \in Message
    PROVE  /\ Frames(m) \in Seq(Frame)
           /\ Len(Frames(m)) = Len(Content(m)) + 2
           /\ Frames(m)[1] = F("id", SrcOf[m])
           /\ Frames(m)[2] = Type(KindOf[m])
           /\ SubSeq(Frames(m), 3, Len(Frames(m))) = Content(m)
  <1> DEFINE h == <<F("id", SrcOf[m]), Type(KindOf[m])>>
             w == Frames(m)
             r == SubSeq(w, 3, Len(w))
             n == Len(Content(m))
  <1>1. h \in Seq(Frame) /\ Len(h) = 2 /\ h[1] = F("id", SrcOf[m]) /\ h[2] = Type(KindOf[m])
    BY FrameType
  <1>2. w = h \o Content(m)
    BY DEF Frames
  <1>3. n \in {1, 3, 4} /\ Content(m) \in Seq(Frame)
    BY ContentType
  <1> HIDE DEF h, w, n
  <1>4. /\ w \in Seq(Frame) /\ Len(w) = n + 2
        /\ \A i \in 1..(n + 2) : w[i] = IF i <= 2 THEN h[i] ELSE Content(m)[i - 2]
    <2>1. /\ h \o Content(m) \in Seq(Frame)
          /\ Len(h \o Content(m)) = Len(h) + Len(Content(m))
          /\ \A i \in 1..(Len(h) + Len(Content(m))) :
                (h \o Content(m))[i] = IF i <= Len(h) THEN h[i] ELSE Content(m)[i - Len(h)]
      BY <1>1, <1>3, ConcatProperties
    <2>2. Len(h) = 2 /\ Len(Content(m)) = n /\ n \in Nat /\ 2 + n = n + 2
      BY <1>1, <1>3 DEF n
    <2> QED
      BY <1>2, <2>1, <2>2
  <1>5. /\ r \in Seq(Frame) /\ Len(r) = n /\ \A i \in 1..n : r[i] = w[i + 2]
    <2>1. \A i \in 3..Len(w) : w[i] \in Frame
      BY <1>3, <1>4, ElementOfSeq
    <2>2. 3 \in Int /\ Len(w) \in Int /\ Len(w) - 3 + 1 = n /\ 3 <= Len(w)
      BY <1>3, <1>4
    <2>3. /\ r \in Seq(Frame) /\ Len(r) = n /\ \A i \in 1..n : r[i] = w[3 + i - 1]
      BY <2>1, <2>2, SubSeqProperties
    <2> QED
      BY <1>3, <2>3
  <1>6. \A i \in 1..n : r[i] = Content(m)[i]
    BY <1>3, <1>4, <1>5
  <1> HIDE DEF r
  <1>7. r = Content(m)
    BY <1>3, <1>5, <1>6, SeqEqual DEF n
  <1> QED
    BY <1>1, <1>3, <1>4, <1>7 DEF w, n, r

\* The last frame of whatever the router sends is the message's body.
LEMMA FormBody ==
    ASSUME NEW m \in Message, NEW to, Form(m, to) # <<>>
    PROVE  /\ Form(m, to) \in Seq(Frame)
           /\ Form(m, to)[Len(Form(m, to))].v = m
  <1>1. Body(m).v = m
    BY DEF Body, F
  <1>2. CASE KindOf[m] = "svc_req" /\ to = DstOf[m]
    <2>1. Form(m, to) = <<Tag(m), Body(m)>>
      <3>1. Form(m, to) = Tail(Content(m))
        BY <1>2, RouterAssumption DEF Form
      <3> QED
        BY <1>2, <3>1, RequestParts
    <2>2. Len(<<Tag(m), Body(m)>>) = 2
      OBVIOUS
    <2> QED
      BY <1>1, <2>1, <2>2, FrameType
  <1>3. CASE KindOf[m] = "svc_req" /\ to = HUB /\ to # DstOf[m]
    <2>1. Form(m, to) = <<Type("svc_req"), F("svc", DstOf[m]), HubTag, Body(m)>>
      BY <1>3 DEF Form, HubTag, Body
    <2>2. Len(<<Type("svc_req"), F("svc", DstOf[m]), HubTag, Body(m)>>) = 4
      OBVIOUS
    <2> QED
      BY <1>1, <1>3, <2>1, <2>2, FrameType
  <1>4. CASE KindOf[m] = "svc_res" /\ to = PUB
    <2>1. Form(m, to) = Content(m)
      BY <1>4 DEF Form
    <2> QED
      BY <1>1, <2>1, ContentType
  <1>5. CASE KindOf[m] = "svc_res_interhub" /\ to = HUB
    <2> DEFINE w == <<Type(KindOf[m])>>
               c == Content(m)
    <2>1. Form(m, to) = w \o c
      BY <1>5 DEF Form
    <2>2. w \in Seq(Frame) /\ Len(w) = 1
      BY FrameType
    <2>3. c \in Seq(Frame) /\ Len(c) = 4 /\ c[4] = Body(m)
      <3>1. c = <<F("broker", m), F("svc", DstOf[m]), F("name", m), Body(m)>>
        BY <1>5, ContentValue
      <3> QED
        BY <3>1, FrameType
    <2> HIDE DEF w, c
    <2>4. /\ w \o c \in Seq(Frame)
          /\ Len(w \o c) = Len(w) + Len(c)
          /\ \A i \in 1..(Len(w) + Len(c)) : (w \o c)[i] = IF i <= Len(w) THEN w[i] ELSE c[i - Len(w)]
      BY <2>2, <2>3, ConcatProperties
    <2>5. Len(w) + Len(c) = 5 /\ 5 \in 1..5 /\ ~(5 <= Len(w)) /\ 5 - Len(w) = 4
      BY <2>2, <2>3
    <2>6. (w \o c)[5] = c[4] /\ Len(w \o c) = 5
      BY <2>4, <2>5
    <2> QED
      BY <1>1, <2>1, <2>3, <2>4, <2>6
  <1> QED
    BY <1>2, <1>3, <1>4, <1>5 DEF Form

-----------------------------------------------------------------------------
(* One round of the loop.                                                  *)

\* What a round may leave unread: nothing, a request's body, its tag and body,
\* or all of a response for the hub, always of a message that was given up.
CurInv ==
    \/ cur = <<>>
    \/ \E m \in refused :
          \/ KindOf[m] = "svc_req" /\ cur = <<Tag(m), Body(m)>>
          \/ KindOf[m] = "svc_req" /\ interhub /\ cur = <<Body(m)>>
          \/ KindOf[m] = "svc_res_interhub" /\ interhub /\ cur = Content(m)

Envelope == [to : Svc \cup {HUB, PUB}, frames : Seq(Frame)]

FlowType ==
    /\ interhub \in BOOLEAN
    /\ inq \in Seq(Message)
    /\ out \in Seq(Envelope)
    /\ routes \subseteq Svc \cup {HUB}
    /\ arrived \subseteq Message
    /\ refused \subseteq arrived
    /\ \A i \in 1..Len(inq) : inq[i] \in arrived
    /\ \A m \in arrived : KindOf[m] = "svc_res_interhub" => interhub

\* What was sent is the whole of a message that arrived and was not given up,
\* once, and not back to where it came from.
OutInv ==
    /\ \A i \in 1..Len(out) :
          /\ SentBody(i) \in arrived \ refused
          /\ out[i].frames = Form(SentBody(i), out[i].to)
          /\ out[i].to = HUB => SrcOf[SentBody(i)] # HUB
    /\ \A i, j \in 1..Len(out) : i # j => SentBody(i) # SentBody(j)

\* A message waits once, and neither was sent nor was given up.
WaitInv ==
    /\ \A i, j \in 1..Len(inq) : i # j => inq[i] # inq[j]
    /\ \A i \in 1..Len(inq) : inq[i] \notin refused /\ \A j \in 1..Len(out) : inq[i] # SentBody(j)

FlowInv == FlowType /\ CurInv /\ OutInv /\ WaitInv

\* What is left to read, by its length.
LEMMA CurCases ==
    ASSUME FlowType, CurInv
    PROVE  \/ cur = <<>>
           \/ /\ Len(cur) = 1 /\ cur \in Seq(Frame) /\ interhub
              /\ \E m \in refused : KindOf[m] = "svc_req" /\ cur = <<Body(m)>>
           \/ Len(cur) = 2 /\ cur \in Seq(Frame) /\ cur[2].k = "body"
           \/ Len(cur) = 4 /\ cur \in Seq(Frame) /\ cur[2].k = "svc"
  <1> SUFFICES ASSUME NEW m \in refused,
                      \/ KindOf[m] = "svc_req" /\ cur = <<Tag(m), Body(m)>>
                      \/ KindOf[m] = "svc_req" /\ interhub /\ cur = <<Body(m)>>
                      \/ KindOf[m] = "svc_res_interhub" /\ cur = Content(m)
               PROVE  \/ /\ Len(cur) = 1 /\ cur \in Seq(Frame) /\ interhub
                         /\ KindOf[m] = "svc_req" /\ cur = <<Body(m)>>
                      \/ Len(cur) = 2 /\ cur \in Seq(Frame) /\ cur[2].k = "body"
                      \/ Len(cur) = 4 /\ cur \in Seq(Frame) /\ cur[2].k = "svc"
    BY DEF CurInv
  <1>1. m \in Message
    BY DEF FlowType
  <1>2. CASE cur = <<Tag(m), Body(m)>>
    <2>1. Len(cur) = 2 /\ cur[2] = Body(m) /\ cur \in Seq(Frame)
      BY <1>1, <1>2, FrameType
    <2> QED
      BY <2>1 DEF Body, F
  <1>3. CASE KindOf[m] = "svc_req" /\ interhub /\ cur = <<Body(m)>>
    <2>1. Len(cur) = 1 /\ cur \in Seq(Frame)
      BY <1>1, <1>3, FrameType
    <2> QED
      BY <1>3, <2>1
  <1>4. CASE KindOf[m] = "svc_res_interhub" /\ cur = Content(m)
    <2>1. cur = <<F("broker", m), F("svc", DstOf[m]), F("name", m), Body(m)>>
      BY <1>1, <1>4, ContentValue
    <2>2. Len(cur) = 4 /\ cur[2] = F("svc", DstOf[m]) /\ cur \in Seq(Frame)
      BY <1>1, <2>1, FrameType
    <2> QED
      BY <2>2 DEF F
  <1> QED
    BY <1>2, <1>3, <1>4

LEMMA TailMessage ==
    ASSUME NEW q \in Seq(Message), q # <<>>
    PROVE  /\ Tail(q) \in Seq(Message)
           /\ Len(q) \in Nat \ {0}
           /\ Len(Tail(q)) = Len(q) - 1
           /\ \A i \in 1..Len(Tail(q)) : Tail(q)[i] = q[i + 1]
           /\ Head(q) = q[1]
           /\ Head(q) \in Message
  OBVIOUS

\* The type the callback reads is a type frame only when both reads come from
\* one message, and then it is that message's and the rest is its content.
LEMMA ReadCases ==
    ASSUME FlowType, CurInv, Len(Stream) >= 2
    PROVE  \/ /\ cur = <<>> /\ inq # <<>> /\ Next2
              /\ Head(inq) \in Message
              /\ TypeRead = Type(KindOf[Head(inq)])
              /\ Rest = Content(Head(inq))
           \/ cur # <<>> /\ TypeRead.k # "type" /\ (Next2 => Len(cur) = 1)
  <1>1. CASE cur = <<>>
    <2>1. inq # <<>>
      <3>1. SUFFICES ASSUME inq = <<>> PROVE FALSE
        OBVIOUS
      <3>2. Stream = <<>>
        BY <1>1, <3>1 DEF Stream, Next2
      <3>3. Len(<<>>) = 0
        OBVIOUS
      <3> QED
        BY <3>2, <3>3
    <2> PICK m \in Message : m = Head(inq)
      BY <2>1, TailMessage DEF FlowType
    <2>2. Next2 /\ Stream = Frames(m)
      <3>1. Len(<<>>) = 0
        OBVIOUS
      <3>2. Next2
        BY <1>1, <2>1, <3>1 DEF Next2
      <3>3. <<>> \o Frames(m) = Frames(m)
        BY FramesParts, ConcatEmptySeq
      <3> QED
        BY <1>1, <3>2, <3>3 DEF Stream
    <2> QED
      BY <1>1, <2>1, <2>2, FramesParts DEF TypeRead, Rest
  <1>2. CASE Len(cur) = 1 /\ cur \in Seq(Frame)
    <2>1. CASE Next2
      <3> PICK m \in Message : m = Head(inq)
        BY <2>1, TailMessage DEF FlowType, Next2
      <3>1. Stream = cur \o Frames(m)
        BY <2>1 DEF Stream
      <3>2. /\ Frames(m) \in Seq(Frame) /\ Frames(m)[1] = F("id", SrcOf[m])
            /\ Len(Frames(m)) \in Nat /\ Len(Frames(m)) >= 1
        BY FramesParts, ContentType
      <3>3. \A i \in 1..(Len(cur) + Len(Frames(m))) :
               (cur \o Frames(m))[i] = IF i <= Len(cur) THEN cur[i] ELSE Frames(m)[i - Len(cur)]
        BY <1>2, <3>2, ConcatProperties
      <3>4. 2 \in 1..(Len(cur) + Len(Frames(m))) /\ ~(2 <= Len(cur)) /\ 2 - Len(cur) = 1
        BY <1>2, <3>2
      <3>5. Stream[2] = Frames(m)[1]
        BY <3>1, <3>3, <3>4
      <3>6. cur # <<>>
        BY <1>2
      <3> QED
        BY <1>2, <3>2, <3>5, <3>6 DEF TypeRead, F
    <2>2. CASE ~Next2
      <3>1. Stream = cur
        BY <2>2 DEF Stream
      <3>2. Len(Stream) = 1
        BY <1>2, <3>1
      <3> QED
        BY <3>2
    <2> QED
      BY <2>1, <2>2
  <1>3. CASE Len(cur) \in {2, 4} /\ cur \in Seq(Frame) /\ cur[2].k \in {"body", "svc"}
    <2>1. ~Next2 /\ Stream = cur /\ cur # <<>>
      BY <1>3 DEF Next2, Stream
    <2> QED
      BY <1>3, <2>1 DEF TypeRead
  <1> QED
    BY <1>1, <1>2, <1>3, CurCases

\* What a round does: it drains what an earlier message left unread, with the
\* message behind a single frame, or handles the next message.
Drains ==
    /\ UNCHANGED <<out, refused>> /\ cur' = <<>>
    /\ \/ inq' = inq
       \/ Len(cur) = 1 /\ cur # <<>> /\ inq # <<>> /\ inq' = Tail(inq)

Skips(m) ==
    /\ KindOf[m] = "svc_log"
    /\ UNCHANGED <<out, refused>> /\ cur' = <<>>

Sends(m, to) ==
    /\ to \in Svc \cup {HUB, PUB}
    /\ to = HUB => SrcOf[m] # HUB
    /\ Form(m, to) # <<>>
    /\ out' = Append(out, [to |-> to, frames |-> Form(m, to)])
    /\ refused' = refused /\ cur' = <<>>

GivesUp(m) ==
    /\ out' = out /\ refused' = refused \cup {m}
    /\ \/ cur' = <<>>
       \/ KindOf[m] = "svc_req" /\ cur' = <<Tag(m), Body(m)>>
       \/ KindOf[m] = "svc_req" /\ interhub /\ cur' = <<Body(m)>>
       \/ KindOf[m] = "svc_res_interhub" /\ interhub /\ cur' = Content(m)

Handles(m) ==
    /\ inq # <<>> /\ m = Head(inq) /\ inq' = Tail(inq) /\ cur = <<>>
    /\ Skips(m) \/ (\E to : Sends(m, to)) \/ GivesUp(m)

LEMMA TypeFrame == \A t, u : Type(t) = Type(u) => t = u
  BY DEF Type, F

LEMMA LastFrame == \A m \in Message : Content(m)[Len(Content(m))].v = m
  <1>1. \A m \in Message : Body(m).v = m
    BY DEF Body, F
  <1>2. \A m \in Message : Content(m)[Len(Content(m))] = Body(m)
    BY ContentType
  <1> QED
    BY <1>1, <1>2

LEMMA StepCases ==
    ASSUME FlowType, CurInv, RouterStep
    PROVE  /\ UNCHANGED <<interhub, routes, arrived>>
           /\ Drains \/ \E m \in Message : Handles(m)
  <1>1. CASE ReadAlone
    BY <1>1 DEF ReadAlone, Drains
  <1>2. ASSUME Read PROVE UNCHANGED <<interhub, routes, arrived>>
    BY <1>2 DEF Read
  <1>3. CASE UnknownType
    <2>1. CASE cur = <<>> /\ TypeRead = Type(KindOf[Head(inq)])
      BY <1>3, <2>1 DEF UnknownType, Type, F
    <2>2. CASE cur # <<>> /\ (Next2 => Len(cur) = 1)
      BY <1>2, <1>3, <2>2 DEF UnknownType, Read, Next2, Drains
    <2> QED
      BY <1>3, <2>1, <2>2, ReadCases DEF UnknownType, Read
  <1>4. ASSUME Read, NEW t, TypeRead = Type(t)
        PROVE  \E m \in Message :
                  /\ inq # <<>> /\ m = Head(inq) /\ inq' = Tail(inq) /\ cur = <<>>
                  /\ t = KindOf[m] /\ Rest = Content(m)
                  /\ Rest[Len(Rest)].v = m
    <2>1. TypeRead.k = "type"
      BY <1>4 DEF Type, F
    <2>2. /\ cur = <<>> /\ inq # <<>> /\ Next2 /\ Head(inq) \in Message
          /\ TypeRead = Type(KindOf[Head(inq)]) /\ Rest = Content(Head(inq))
      BY <1>4, <2>1, ReadCases DEF Read
    <2> QED
      BY <1>4, <2>2, TypeFrame, LastFrame DEF Read
  <1>5. CASE RelayLog
    <2> PICK m \in Message :
          /\ inq # <<>> /\ m = Head(inq) /\ inq' = Tail(inq) /\ cur = <<>>
          /\ "svc_log" = KindOf[m] /\ Rest = Content(m)
      BY <1>4, <1>5 DEF RelayLog
    <2>1. Content(m) = <<Body(m)>>
      BY ContentValue
    <2>2. Tail(<<Body(m)>>) = <<>>
      OBVIOUS
    <2>3. Skips(m)
      BY <1>5, <2>1, <2>2 DEF RelayLog, Skips
    <2> QED
      BY <1>2, <1>5, <2>3 DEF RelayLog, Handles
  <1>6. CASE RelayRes
    <2> PICK m \in Message :
          /\ inq # <<>> /\ m = Head(inq) /\ inq' = Tail(inq) /\ cur = <<>>
          /\ "svc_res" = KindOf[m] /\ Rest = Content(m)
      BY <1>4, <1>6 DEF RelayRes
    <2>1. Form(m, PUB) = Content(m) /\ Content(m) # <<>>
      <3>1. Len(Content(m)) \in {1, 3, 4}
        BY ContentType
      <3>2. Len(<<>>) = 0
        OBVIOUS
      <3>3. Content(m) # <<>>
        BY <3>1, <3>2
      <3> QED
        BY <3>3 DEF Form
    <2>2. Sends(m, PUB)
      BY <1>6, <2>1, RouterAssumption DEF RelayRes, Relay, Sent, Sends
    <2> QED
      BY <1>2, <1>6, <2>2 DEF RelayRes, Handles
  <1>7. CASE RelayResInterhub
    <2> PICK m \in Message :
          /\ inq # <<>> /\ m = Head(inq) /\ inq' = Tail(inq) /\ cur = <<>>
          /\ "svc_res_interhub" = KindOf[m] /\ Rest = Content(m)
          /\ Rest[Len(Rest)].v = m
      BY <1>4, <1>7 DEF RelayResInterhub
    <2>1. CASE Relay(HUB, <<TypeRead>> \o Rest)
      <3>1. Form(m, HUB) = <<TypeRead>> \o Rest
        BY <1>7 DEF Form, RelayResInterhub
      <3>2. Form(m, HUB) # <<>>
        <4>1. <<TypeRead>> \in Seq(Frame) /\ <<TypeRead>> # <<>>
          BY <1>7, FrameType DEF RelayResInterhub
        <4>2. Content(m) \in Seq(Frame)
          BY ContentType
        <4> QED
          BY <3>1, <4>1, <4>2, ConcatEqualIffEmpty
      <3>3. SrcOf[m] # HUB
        BY RouterAssumption
      <3> QED
        BY <1>2, <1>7, <2>1, <3>1, <3>2, <3>3 DEF RelayResInterhub, Handles, Sends, Relay, Sent
    <2>2. CASE Refuse(Rest)
      <3>1. m \in arrived
        BY TailMessage DEF FlowType
      <3>2. GivesUp(m)
        BY <2>2, <3>1 DEF Refuse, GivesUp, FlowType
      <3> QED
        BY <1>2, <1>7, <3>2 DEF RelayResInterhub, Handles
    <2> QED
      BY <1>7, <2>1, <2>2 DEF RelayResInterhub
  <1>8. CASE RouteReq \/ RelayReqToInterhub \/ ReqNotForHub \/ DrainReq
    <2> PICK m \in Message :
          /\ inq # <<>> /\ m = Head(inq) /\ inq' = Tail(inq) /\ cur = <<>>
          /\ "svc_req" = KindOf[m] /\ Rest = Content(m)
          /\ Rest[Len(Rest)].v = m
      BY <1>4, <1>8 DEF RouteReq, RelayReqToInterhub, ReqNotForHub, DrainReq, ReadsRequest
    <2>1. /\ Dest = DstOf[m] /\ TagRead.v = Via(m) /\ Tail(Rest) = <<Tag(m), Body(m)>>
          /\ AfterTag = <<Body(m)>> /\ Rest[1] = F("svc", DstOf[m])
      <3>1. /\ Rest[1] = F("svc", DstOf[m]) /\ Rest[2] = Tag(m)
            /\ Tail(Rest) = <<Tag(m), Body(m)>> /\ SubSeq(Rest, 3, Len(Rest)) = <<Body(m)>>
        BY RequestParts
      <3>2. F("svc", DstOf[m]).v = DstOf[m]
        BY DEF F
      <3>3. Tag(m).v = Via(m)
        BY DEF Tag, F
      <3> QED
        BY <3>1, <3>2, <3>3 DEF Dest, TagRead, AfterTag
    <2>2. Form(m, DstOf[m]) = <<Tag(m), Body(m)>> /\ <<Tag(m), Body(m)>> # <<>>
      BY <2>1, RouterAssumption DEF Form
    <2>3. /\ Form(m, HUB) = <<Type("svc_req"), F("svc", DstOf[m]), HubTag, Body(m)>>
          /\ Form(m, HUB) # <<>>
      BY RouterAssumption DEF Form, HubTag, Body
    <2>4. ASSUME NEW rem, Refuse(rem),
                 \/ rem = <<>>
                 \/ rem = <<Tag(m), Body(m)>>
                 \/ interhub /\ rem = <<Body(m)>>
          PROVE  GivesUp(m)
      BY <2>4 DEF Refuse, GivesUp
    <2>5. CASE RouteReq
      <3>1. CASE Relay(Dest, Tail(Rest))
        <4>1. DstOf[m] \in Svc /\ DstOf[m] # HUB
          BY RouterAssumption
        <4>2. Sends(m, DstOf[m])
          BY <2>1, <2>2, <3>1, <4>1 DEF Relay, Sent, Sends
        <4> QED
          BY <1>2, <2>5, <4>2 DEF RouteReq, ReadsRequest, Handles
      <3>2. CASE Refuse(Tail(Rest))
        <4>1. GivesUp(m)
          BY <2>1, <2>4, <3>2
        <4> QED
          BY <1>2, <2>5, <4>1 DEF RouteReq, ReadsRequest, Handles
      <3> QED
        BY <2>5, <3>1, <3>2 DEF RouteReq
    <2>6. CASE RelayReqToInterhub
      <3>1. <<TypeRead, Rest[1], F("tag", TRUE)>> \o AfterTag = Form(m, HUB)
        <4> DEFINE h == <<Type("svc_req"), F("svc", DstOf[m]), HubTag>>
                   w == <<Type("svc_req"), F("svc", DstOf[m]), HubTag, Body(m)>>
        <4>1. /\ h \in Seq(Frame) /\ Len(h) = 3 /\ <<Body(m)>> \in Seq(Frame)
              /\ Len(<<Body(m)>>) = 1 /\ w \in Seq(Frame) /\ Len(w) = 4
              /\ h[1] = w[1] /\ h[2] = w[2] /\ h[3] = w[3] /\ <<Body(m)>>[1] = w[4]
          BY FrameType
        <4>2. <<TypeRead, Rest[1], F("tag", TRUE)>> = h
          BY <2>1, <2>6 DEF RelayReqToInterhub, ReadsRequest, HubTag
        <4> HIDE DEF h, w
        <4> DEFINE c == <<Body(m)>>
        <4>3. h \in Seq(Frame) /\ c \in Seq(Frame) /\ Len(h) = 3 /\ Len(c) = 1 /\ c[1] = w[4]
          BY <4>1
        <4> HIDE DEF c
        <4>4. /\ h \o c \in Seq(Frame)
              /\ Len(h \o c) = Len(h) + Len(c)
              /\ \A i \in 1..(Len(h) + Len(c)) : (h \o c)[i] = IF i <= Len(h) THEN h[i] ELSE c[i - Len(h)]
          BY <4>3, ConcatProperties
        <4>5. Len(h \o c) = 4 /\ \A i \in 1..4 : (h \o c)[i] = IF i <= 3 THEN h[i] ELSE c[i - 3]
          BY <4>3, <4>4
        <4>6. \A i \in 1..4 : (h \o c)[i] = w[i]
          BY <4>1, <4>3, <4>5
        <4>7. h \o c = w
          BY <4>1, <4>4, <4>5, <4>6, SeqEqual
        <4> QED
          BY <2>1, <2>3, <4>2, <4>7 DEF w, c
      <3>2. SrcOf[m] # HUB
        BY <2>1, <2>6 DEF RelayReqToInterhub, Via
      <3>3. Sends(m, HUB)
        BY <2>3, <2>6, <3>1, <3>2 DEF RelayReqToInterhub, Relay, Sent, Sends
      <3> QED
        BY <1>2, <2>6, <3>3 DEF RelayReqToInterhub, ReadsRequest, Handles
    <2>7. CASE ReqNotForHub
      BY <1>2, <2>1, <2>4, <2>7 DEF ReqNotForHub, ReadsRequest, Handles
    <2>8. CASE DrainReq
      BY <1>2, <2>4, <2>8 DEF DrainReq, ReadsRequest, Handles
    <2> QED
      BY <1>8, <2>5, <2>6, <2>7, <2>8
  <1> QED
    BY <1>1, <1>3, <1>5, <1>6, <1>7, <1>8 DEF RouterStep

-----------------------------------------------------------------------------
(* The invariant.                                                          *)

LEMMA FlowInit == Init => FlowInv
  <1>1. <<>> \in Seq(Message) /\ <<>> \in Seq(Envelope) /\ Len(<<>>) = 0
    OBVIOUS
  <1> QED
    BY <1>1 DEF Init, FlowInv, FlowType, CurInv, OutInv, WaitInv

\* A message that is sent is added to what was.
LEMMA SendOut ==
    ASSUME FlowType, NEW m \in Message, NEW to, Sends(m, to)
    PROVE  /\ out' \in Seq(Envelope) /\ Len(out') = Len(out) + 1 /\ Len(out) \in Nat
           /\ \A i \in 1..Len(out) : out'[i] = out[i] /\ SentBody(i)' = SentBody(i)
           /\ out'[Len(out) + 1] = [to |-> to, frames |-> Form(m, to)]
           /\ \A n : n = Len(out) + 1 => SentBody(n)' = m
  <1> DEFINE e == [to |-> to, frames |-> Form(m, to)]
  <1>1. e \in Envelope /\ e.frames[Len(e.frames)].v = m
    BY FormBody DEF Sends, Envelope
  <1>2. out' = Append(out, e) /\ out \in Seq(Envelope)
    BY DEF Sends, FlowType
  <1> HIDE DEF e
  <1>3. /\ out' \in Seq(Envelope) /\ Len(out') = Len(out) + 1 /\ Len(out) \in Nat
        /\ \A i \in 1..Len(out) : out'[i] = out[i]
        /\ out'[Len(out) + 1] = e
    BY <1>1, <1>2
  <1>4. \A i \in 1..Len(out) : SentBody(i)' = SentBody(i)
    BY <1>3 DEF SentBody
  <1>5. \A n : n = Len(out) + 1 => SentBody(n)' = m
    BY <1>1, <1>3 DEF SentBody
  <1> QED
    BY <1>3, <1>4, <1>5 DEF e

\* Taking the first message leaves the others as they are.
LEMMA TakeFirst ==
    ASSUME FlowType, WaitInv, inq # <<>>, inq' = Tail(inq)
    PROVE  /\ inq' \in Seq(Message) /\ Len(inq') \in Nat
           /\ Head(inq) \in arrived \ refused
           /\ \A j \in 1..Len(out) : SentBody(j) # Head(inq)
           /\ \A i \in 1..Len(inq') : /\ inq'[i] \in arrived \ refused
                                      /\ inq'[i] # Head(inq)
                                      /\ \A j \in 1..Len(out) : inq'[i] # SentBody(j)
           /\ \A i, j \in 1..Len(inq') : i # j => inq'[i] # inq'[j]
  <1>1. /\ inq' \in Seq(Message) /\ Len(inq) \in Nat \ {0} /\ Len(inq') = Len(inq) - 1
        /\ \A i \in 1..Len(inq') : inq'[i] = inq[i + 1]
        /\ Head(inq) = inq[1]
    BY TailMessage DEF FlowType
  <1>2. 1 \in 1..Len(inq) /\ \A i \in 1..Len(inq') : i + 1 \in 1..Len(inq) /\ i + 1 # 1
    BY <1>1
  <1> QED
    BY <1>1, <1>2 DEF FlowType, WaitInv

LEMMA FlowStep == FlowInv /\ [Next]_vars => FlowInv'
  <1> SUFFICES ASSUME FlowInv, [Next]_vars PROVE FlowInv'
    OBVIOUS
  <1> USE DEF FlowInv
  <1>1. ASSUME NEW m \in Message, Arrive(m) PROVE FlowInv'
    <2>1. /\ inq' \in Seq(Message) /\ Len(inq') = Len(inq) + 1 /\ Len(inq) \in Nat
          /\ \A i \in 1..Len(inq) : inq'[i] = inq[i]
          /\ inq'[Len(inq) + 1] = m
      BY <1>1 DEF Arrive, FlowType
    <2>2. /\ UNCHANGED <<interhub, cur, routes, out, refused>>
          /\ arrived' = arrived \cup {m} /\ m \notin arrived
          /\ KindOf[m] = "svc_res_interhub" => interhub
      BY <1>1 DEF Arrive
    <2>3. \A i \in 1..Len(out) : SentBody(i)' = SentBody(i)
      BY <2>2 DEF SentBody
    <2>4. FlowType'
      BY <2>1, <2>2 DEF FlowType
    <2>5. CurInv'
      BY <2>2 DEF CurInv
    <2>6. OutInv'
      BY <2>2, <2>3 DEF OutInv
    <2>7. WaitInv'
      <3>1. m \notin refused /\ \A j \in 1..Len(out) : m # SentBody(j)
        BY <2>2 DEF FlowType, OutInv
      <3>2. \A i \in 1..Len(inq) : inq[i] # m
        BY <2>2 DEF FlowType
      <3> QED
        BY <2>1, <2>2, <2>3, <3>1, <3>2 DEF WaitInv
    <2> QED
      BY <2>4, <2>5, <2>6, <2>7
  <1>2. ASSUME NEW d \in Svc \cup {HUB}, Connect(d) \/ Disconnect(d) PROVE FlowInv'
    <2>1. UNCHANGED <<interhub, inq, cur, out, arrived, refused>>
      BY <1>2 DEF Connect, Disconnect
    <2>2. FlowType'
      BY <1>2, <2>1 DEF Connect, Disconnect, FlowType
    <2> QED
      BY <2>1, <2>2 DEF CurInv, OutInv, WaitInv, SentBody
  <1>3. CASE RouterStep
    <2>1. UNCHANGED <<interhub, routes, arrived>>
      BY <1>3, StepCases
    <2>2. CASE Drains
      <3>1. /\ UNCHANGED <<out, refused>> /\ cur' = <<>>
            /\ inq' = inq \/ (inq # <<>> /\ inq' = Tail(inq))
        BY <2>2 DEF Drains
      <3>2. \A i \in 1..Len(out) : SentBody(i)' = SentBody(i)
        BY <3>1 DEF SentBody
      <3>3. FlowType' /\ WaitInv'
        <4>1. CASE inq' = inq
          BY <2>1, <3>1, <3>2, <4>1 DEF FlowType, WaitInv
        <4>2. CASE inq # <<>> /\ inq' = Tail(inq)
          BY <2>1, <3>1, <3>2, <4>2, TakeFirst DEF FlowType, WaitInv
        <4> QED
          BY <3>1, <4>1, <4>2
      <3>4. CurInv' /\ OutInv'
        BY <2>1, <3>1, <3>2 DEF CurInv, OutInv
      <3> QED
        BY <3>3, <3>4
    <2>3. ASSUME NEW m \in Message, Handles(m) PROVE FlowInv'
      <3>1. inq # <<>> /\ m = Head(inq) /\ inq' = Tail(inq)
        BY <2>3 DEF Handles
      <3>2. /\ inq' \in Seq(Message) /\ m \in arrived \ refused
            /\ \A j \in 1..Len(out) : SentBody(j) # m
            /\ \A i \in 1..Len(inq') : /\ inq'[i] \in arrived \ refused /\ inq'[i] # m
                                       /\ \A j \in 1..Len(out) : inq'[i] # SentBody(j)
            /\ \A i, j \in 1..Len(inq') : i # j => inq'[i] # inq'[j]
        BY <3>1, TakeFirst
      <3>3. CASE Skips(m)
        <4>1. UNCHANGED <<out, refused>> /\ cur' = <<>>
          BY <3>3 DEF Skips
        <4>2. \A i \in 1..Len(out) : SentBody(i)' = SentBody(i)
          BY <4>1 DEF SentBody
        <4>3. FlowType' /\ WaitInv'
          BY <2>1, <3>2, <4>1, <4>2 DEF FlowType, WaitInv
        <4> QED
          BY <2>1, <4>1, <4>2, <4>3 DEF CurInv, OutInv
      <3>4. ASSUME NEW to, Sends(m, to) PROVE FlowInv'
        <4>1. refused' = refused /\ cur' = <<>> /\ (to = HUB => SrcOf[m] # HUB)
          BY <3>4 DEF Sends
        <4> PICK n : n = Len(out) + 1
          OBVIOUS
        <4>2. /\ out' \in Seq(Envelope) /\ Len(out') = n /\ Len(out) \in Nat
              /\ \A i \in 1..Len(out) : out'[i] = out[i] /\ SentBody(i)' = SentBody(i)
              /\ out'[n].to = to /\ out'[n].frames = Form(m, to)
              /\ SentBody(n)' = m
          <5>1. /\ out' \in Seq(Envelope) /\ Len(out') = n /\ Len(out) \in Nat
                /\ \A i \in 1..Len(out) : out'[i] = out[i] /\ SentBody(i)' = SentBody(i)
                /\ SentBody(n)' = m
            BY <3>4, SendOut
          <5>2. out'[n] = [to |-> to, frames |-> Form(m, to)]
            BY <3>4, SendOut
          <5> QED
            BY <5>1, <5>2
        <4>3. \A i \in 1..Len(out') : i \in 1..Len(out) \/ i = n
          BY <4>2
        <4>4. FlowType' /\ CurInv'
          BY <2>1, <3>2, <4>1, <4>2 DEF FlowType, CurInv
        <4>5. WaitInv'
          <5>1. \A i \in 1..Len(inq') : \A j \in 1..Len(out') : inq'[i] # SentBody(j)'
            BY <3>2, <4>2, <4>3
          <5> QED
            BY <3>2, <4>1, <5>1 DEF WaitInv
        <4>6. OutInv'
          <5>1. \A i \in 1..Len(out) :
                   /\ SentBody(i)' \in arrived' \ refused'
                   /\ out'[i].frames = Form(SentBody(i)', out'[i].to)
                   /\ out'[i].to = HUB => SrcOf[SentBody(i)'] # HUB
                   /\ SentBody(i)' # m
            BY <2>1, <3>2, <4>1, <4>2 DEF OutInv
          <5>2. \A i, j \in 1..Len(out) : i # j => SentBody(i)' # SentBody(j)'
            BY <4>2 DEF OutInv
          <5>3. \A i, j \in 1..Len(out') : i # j => SentBody(i)' # SentBody(j)'
            BY <4>2, <4>3, <5>1, <5>2
          <5>4. \A i \in 1..Len(out') :
                   /\ SentBody(i)' \in arrived' \ refused'
                   /\ out'[i].frames = Form(SentBody(i)', out'[i].to)
                   /\ out'[i].to = HUB => SrcOf[SentBody(i)'] # HUB
            BY <2>1, <3>2, <4>1, <4>2, <4>3, <5>1
          <5> QED
            BY <5>3, <5>4 DEF OutInv
        <4> QED
          BY <4>4, <4>5, <4>6
      <3>5. CASE GivesUp(m)
        <4>1. out' = out /\ refused' = refused \cup {m}
          BY <3>5 DEF GivesUp
        <4>2. \A i \in 1..Len(out) : SentBody(i)' = SentBody(i)
          BY <4>1 DEF SentBody
        <4>3. FlowType' /\ WaitInv' /\ OutInv'
          <5>1. FlowType'
            BY <2>1, <3>2, <4>1 DEF FlowType
          <5>2. WaitInv'
            BY <3>2, <4>1, <4>2 DEF WaitInv
          <5>3. OutInv'
            BY <2>1, <3>2, <4>1, <4>2 DEF OutInv
          <5> QED
            BY <5>1, <5>2, <5>3
        <4>4. CurInv'
          BY <2>1, <3>5 DEF GivesUp, CurInv
        <4> QED
          BY <4>3, <4>4
      <3> QED
        BY <2>3, <3>3, <3>4, <3>5 DEF Handles
    <2> QED
      BY <1>3, <2>2, <2>3, StepCases
  <1>4. CASE UNCHANGED vars
    BY <1>4 DEF vars, FlowType, CurInv, OutInv, WaitInv, SentBody
  <1> QED
    BY <1>1, <1>2, <1>3, <1>4 DEF Next

\* What the router may have left unread, what waits and what was sent are as
\* FlowInv says.
THEOREM Flows == Spec => []FlowInv
  BY FlowInit, FlowStep, PTL DEF Spec

\* Every variable keeps its type: router_callback never has more than four
\* frames of a message before it, and sends to services, the hub and processes.
THEOREM TypeCorrect == Spec => []TypeOK
  <1>1. FlowInv => TypeOK
    <2> SUFFICES ASSUME FlowInv PROVE TypeOK
      OBVIOUS
    <2>1. Len(cur) <= 4
      <3>1. Len(<<>>) = 0
        OBVIOUS
      <3>2. cur = <<>> \/ Len(cur) = 1 \/ Len(cur) = 2 \/ Len(cur) = 4
        BY CurCases DEF FlowInv
      <3>3. Len(cur) \in {0, 1, 2, 4}
        BY <3>1, <3>2
      <3>4. \A k \in {0, 1, 2, 4} : k <= 4
        OBVIOUS
      <3> QED
        BY <3>3, <3>4
    <2>2. \A i \in 1..Len(out) : out[i].to \in Svc \cup {HUB, PUB}
      <3>1. \A i \in 1..Len(out) : out[i] \in Envelope
        BY DEF FlowInv, FlowType
      <3> QED
        BY <3>1 DEF Envelope
    <2> QED
      BY <2>1, <2>2 DEF FlowInv, FlowType, TypeOK
  <1> QED
    BY <1>1, Flows, PTL

\* Every message the router sends is one that arrived, whole and unmixed, though
\* relay_snd_more sends frame by frame and may fail at the first.
THEOREM SentAreWhole == Spec => []SentWhole
  <1>1. FlowInv => SentWhole
    BY DEF FlowInv, OutInv, SentWhole
  <1> QED
    BY <1>1, Flows, PTL

\* No message is sent twice, and none that was given up is sent later.
THEOREM SentAtMostOnce == Spec => []SentOnce
  <1>1. FlowInv => SentOnce
    BY DEF FlowInv, OutInv, SentOnce
  <1> QED
    BY <1>1, Flows, PTL

\* What came through the hub never goes back to it (relay_req_to_interhub), so
\* two brokers that both lack a service pass no request to and fro.
THEOREM NoLoopThroughHub == Spec => []NoHubLoop
  <1>1. FlowInv => NoHubLoop
    BY DEF FlowInv, OutInv, NoHubLoop
  <1> QED
    BY <1>1, Flows, PTL

-----------------------------------------------------------------------------
(* Messages that vanish.                                                   *)

\* The requests that were given up.
GivenUp == {m \in refused : KindOf[m] = "svc_req"}

\* The body of one given up with its tag read is still to swallow a message.
Pending == IF Len(cur) = 1 THEN 1 ELSE 0

SwallowInv ==
    /\ IsFiniteSet(arrived)
    /\ ~interhub => Swallowed = {}
    /\ Cardinality(Swallowed) + Pending <= Cardinality(GivenUp)

\* Neither set outgrows the messages that arrived.
LEMMA SwallowFinite ==
    ASSUME FlowType, IsFiniteSet(arrived)
    PROVE  /\ IsFiniteSet(Swallowed) /\ Cardinality(Swallowed) \in Nat
           /\ IsFiniteSet(GivenUp) /\ Cardinality(GivenUp) \in Nat
  <1>1. Swallowed \subseteq arrived /\ GivenUp \subseteq arrived
    BY DEF Swallowed, GivenUp, FlowType
  <1> QED
    BY <1>1, FS_Subset, FS_CardinalityType

LEMMA SwallowInit == Init => SwallowInv
  <1> SUFFICES ASSUME Init PROVE SwallowInv
    OBVIOUS
  <1>1. Swallowed = {} /\ GivenUp = {} /\ arrived = {}
    BY DEF Init, Swallowed, GivenUp
  <1>2. Len(<<>>) = 0
    OBVIOUS
  <1>3. Pending = 0
    BY <1>2 DEF Init, Pending
  <1> QED
    BY <1>1, <1>3, FS_EmptySet DEF SwallowInv

\* The messages that wait, or were sent, after the first one was taken.
LEMMA QueuedTail ==
    ASSUME FlowType, WaitInv, inq # <<>>, inq' = Tail(inq)
    PROVE  Queued' = Queued \ {Head(inq)} /\ Head(inq) \in Queued
  <1>1. /\ Len(inq) \in Nat \ {0} /\ Len(inq') = Len(inq) - 1
        /\ \A i \in 1..Len(inq') : inq'[i] = inq[i + 1]
        /\ Head(inq) = inq[1]
    BY TailMessage DEF FlowType
  <1>2. /\ 1 \in 1..Len(inq)
        /\ \A i \in 1..Len(inq') : i + 1 \in 1..Len(inq) /\ i + 1 # 1
        /\ \A i \in 1..Len(inq) : i # 1 => i - 1 \in 1..Len(inq') /\ (i - 1) + 1 = i
    BY <1>1
  <1>3. Queued' \subseteq Queued \ {Head(inq)}
    BY <1>1, <1>2 DEF Queued, WaitInv
  <1>4. Queued \ {Head(inq)} \subseteq Queued'
    <2> SUFFICES ASSUME NEW i \in 1..Len(inq), i # 1 PROVE inq[i] \in Queued'
      BY <1>1 DEF Queued
    <2>1. i - 1 \in 1..Len(inq') /\ inq'[i - 1] = inq[i]
      BY <1>1, <1>2
    <2> QED
      BY <2>1 DEF Queued
  <1> QED
    BY <1>1, <1>2, <1>3, <1>4 DEF Queued

LEMMA SwallowStep == FlowInv /\ SwallowInv /\ [Next]_vars => SwallowInv'
  <1> SUFFICES ASSUME FlowInv, SwallowInv, [Next]_vars PROVE SwallowInv'
    OBVIOUS
  <1> USE DEF FlowInv
  <1>0. /\ Cardinality(Swallowed) \in Nat /\ Cardinality(GivenUp) \in Nat
        /\ IsFiniteSet(Swallowed) /\ IsFiniteSet(GivenUp) /\ Pending \in {0, 1}
    BY SwallowFinite DEF SwallowInv, Pending
  <1>1. ASSUME NEW m \in Message, Arrive(m) PROVE SwallowInv'
    <2>1. /\ inq' \in Seq(Message) /\ Len(inq') = Len(inq) + 1 /\ Len(inq) \in Nat
          /\ \A i \in 1..Len(inq) : inq'[i] = inq[i]
          /\ inq'[Len(inq) + 1] = m
      BY <1>1 DEF Arrive, FlowType
    <2>2. /\ UNCHANGED <<interhub, cur, out, refused>>
          /\ m \notin arrived /\ arrived' = arrived \cup {m}
      BY <1>1 DEF Arrive
    <2>3. Queued' = Queued \cup {m}
      <3>1. \A i \in 1..Len(inq') : i \in 1..Len(inq) \/ i = Len(inq) + 1
        BY <2>1
      <3>2. Len(inq) + 1 \in 1..Len(inq') /\ \A i \in 1..Len(inq) : i \in 1..Len(inq')
        BY <2>1
      <3> QED
        BY <2>1, <3>1, <3>2 DEF Queued
    <2>4. Delivered' = Delivered
      BY <2>2 DEF Delivered, SentBody
    <2>5. Swallowed' = Swallowed /\ GivenUp' = GivenUp /\ Pending' = Pending
      BY <2>2, <2>3, <2>4 DEF Swallowed, GivenUp, Pending
    <2>6. IsFiniteSet(arrived')
      BY <2>2, FS_AddElement DEF SwallowInv
    <2> QED
      BY <2>2, <2>5, <2>6 DEF SwallowInv
  <1>2. CASE UNCHANGED <<interhub, inq, cur, out, arrived, refused>>
    <2>1. /\ Swallowed' = Swallowed /\ GivenUp' = GivenUp /\ Pending' = Pending
      BY <1>2 DEF Swallowed, Queued, Delivered, SentBody, GivenUp, Pending
    <2> QED
      BY <1>2, <2>1 DEF SwallowInv
  <1>3. CASE RouterStep /\ Drains
    <2>1. UNCHANGED <<interhub, arrived, out, refused>> /\ cur' = <<>>
      BY <1>3, StepCases DEF Drains
    <2>2. Delivered' = Delivered /\ GivenUp' = GivenUp
      BY <2>1 DEF Delivered, SentBody, GivenUp
    <2>3. Pending' = 0
      <3>1. Len(<<>>) = 0
        OBVIOUS
      <3> QED
        BY <2>1, <3>1 DEF Pending
    <2>4. CASE inq' = inq
      <3>1. Swallowed' = Swallowed
        BY <2>1, <2>2, <2>4 DEF Swallowed, Queued
      <3> QED
        BY <1>0, <2>1, <2>2, <2>3, <3>1 DEF SwallowInv
    <2>5. CASE Len(cur) = 1 /\ cur # <<>> /\ inq # <<>> /\ inq' = Tail(inq)
      <3>1. Queued' = Queued \ {Head(inq)}
        BY <2>5, QueuedTail
      <3>2. Swallowed' \subseteq Swallowed \cup {Head(inq)}
        BY <2>1, <2>2, <3>1 DEF Swallowed
      <3>3. interhub
        <4>1. Len(cur) # 2 /\ Len(cur) # 4
          BY <2>5
        <4> QED
          BY <2>5, <4>1, CurCases
      <3>4. /\ IsFiniteSet(Swallowed \cup {Head(inq)})
            /\ Cardinality(Swallowed \cup {Head(inq)}) <= Cardinality(Swallowed) + 1
        BY <1>0, FS_AddElement
      <3>5. Cardinality(Swallowed') <= Cardinality(Swallowed) + 1 /\ Cardinality(Swallowed') \in Nat
        <4>1. /\ IsFiniteSet(Swallowed')
              /\ Cardinality(Swallowed') <= Cardinality(Swallowed \cup {Head(inq)})
          BY <3>2, <3>4, FS_Subset
        <4>2. Cardinality(Swallowed') \in Nat /\ Cardinality(Swallowed \cup {Head(inq)}) \in Nat
          BY <3>4, <4>1, FS_CardinalityType
        <4> QED
          BY <1>0, <3>4, <4>1, <4>2
      <3>6. Pending = 1
        BY <2>5 DEF Pending
      <3>7. Cardinality(Swallowed') + Pending' <= Cardinality(GivenUp')
        BY <1>0, <2>2, <2>3, <3>5, <3>6 DEF SwallowInv
      <3> QED
        BY <2>1, <3>3, <3>7 DEF SwallowInv
    <2> QED
      BY <1>3, <2>4, <2>5 DEF Drains
  <1>4. ASSUME RouterStep, NEW m \in Message, Handles(m) PROVE SwallowInv'
    <2>1. /\ UNCHANGED <<interhub, arrived>>
          /\ inq # <<>> /\ m = Head(inq) /\ inq' = Tail(inq) /\ cur = <<>>
      BY <1>4, StepCases DEF Handles
    <2>2. Queued' = Queued \ {m} /\ m \in Queued /\ m \in arrived \ refused
      BY <2>1, QueuedTail, TakeFirst
    <2>3. Pending = 0
      <3>1. Len(<<>>) = 0
        OBVIOUS
      <3> QED
        BY <2>1, <3>1 DEF Pending
    <2>4. CASE Skips(m)
      <3>1. UNCHANGED <<out, refused>> /\ cur' = cur /\ KindOf[m] = "svc_log"
        BY <2>1, <2>4 DEF Skips
      <3>2. Delivered' = Delivered
        BY <3>1 DEF Delivered, SentBody
      <3>3. Swallowed' = Swallowed /\ GivenUp' = GivenUp /\ Pending' = Pending
        BY <2>1, <2>2, <3>1, <3>2 DEF Swallowed, GivenUp, Pending
      <3> QED
        BY <2>1, <3>3 DEF SwallowInv
    <2>5. ASSUME NEW to, Sends(m, to) PROVE SwallowInv'
      <3>1. refused' = refused /\ cur' = cur
        BY <2>1, <2>5 DEF Sends
      <3> PICK n : n = Len(out) + 1
        OBVIOUS
      <3>2. /\ Len(out') = n /\ Len(out) \in Nat
            /\ \A i \in 1..Len(out) : SentBody(i)' = SentBody(i)
            /\ SentBody(n)' = m
        BY <2>5, SendOut
      <3>3. /\ n \in 1..Len(out') /\ \A i \in 1..Len(out) : i \in 1..Len(out')
            /\ \A i \in 1..Len(out') : i \in 1..Len(out) \/ i = n
        BY <3>2
      <3>4. Delivered' = Delivered \cup {m}
        BY <3>2, <3>3 DEF Delivered
      <3>5. Swallowed' = Swallowed /\ GivenUp' = GivenUp /\ Pending' = Pending
        BY <2>1, <2>2, <3>1, <3>4 DEF Swallowed, GivenUp, Pending
      <3> QED
        BY <2>1, <3>5 DEF SwallowInv
    <2>6. CASE GivesUp(m)
      <3>1. out' = out /\ refused' = refused \cup {m}
        BY <2>6 DEF GivesUp
      <3>2. Delivered' = Delivered
        BY <3>1 DEF Delivered, SentBody
      <3>3. Swallowed' = Swallowed
        BY <2>1, <2>2, <3>1, <3>2 DEF Swallowed
      <3>4. CASE KindOf[m] = "svc_req"
        <4>1. GivenUp' = GivenUp \cup {m} /\ m \notin GivenUp
          BY <2>2, <3>1, <3>4 DEF GivenUp
        <4>2. Cardinality(GivenUp') = Cardinality(GivenUp) + 1
          BY <1>0, <4>1, FS_AddElement
        <4>3. Pending' \in {0, 1}
          BY DEF Pending
        <4>4. Cardinality(Swallowed') + Pending' <= Cardinality(GivenUp')
          BY <1>0, <2>3, <3>3, <4>2, <4>3 DEF SwallowInv
        <4> QED
          BY <2>1, <3>3, <4>4 DEF SwallowInv
      <3>5. CASE KindOf[m] # "svc_req"
        <4>1. GivenUp' = GivenUp
          BY <3>1, <3>5 DEF GivenUp
        <4>2. Pending' = 0
          <5>1. cur' = <<>> \/ (KindOf[m] = "svc_res_interhub" /\ cur' = Content(m))
            BY <2>6, <3>5 DEF GivesUp
          <5>2. Len(<<>>) = 0
            OBVIOUS
          <5>3. KindOf[m] = "svc_res_interhub" => Len(Content(m)) = 4
            <6>1. KindOf[m] = "svc_res_interhub" =>
                     Content(m) = <<F("broker", m), F("svc", DstOf[m]), F("name", m), Body(m)>>
              BY ContentValue
            <6>2. Len(<<F("broker", m), F("svc", DstOf[m]), F("name", m), Body(m)>>) = 4
              OBVIOUS
            <6> QED
              BY <6>1, <6>2
          <5> QED
            BY <5>1, <5>2, <5>3 DEF Pending
        <4> QED
          BY <2>1, <2>3, <3>3, <4>1, <4>2 DEF SwallowInv
      <3> QED
        BY <3>4, <3>5
    <2> QED
      BY <1>4, <2>4, <2>5, <2>6 DEF Handles
  <1> QED
    BY <1>1, <1>2, <1>3, <1>4, StepCases DEF Next, vars, Connect, Disconnect

\* A message is swallowed only by the body of a request that was given up: the
\* one frame that find-and-relay leaves unread costs at most one message.
THEOREM SwallowIsBounded == Spec => []SwallowBound
  <1>1. FlowInv /\ SwallowInv => SwallowBound
    BY SwallowFinite DEF FlowInv, SwallowInv, SwallowBound, Pending, GivenUp
  <1> QED
    BY <1>1, SwallowInit, SwallowStep, Flows, PTL DEF Spec

\* A broker without a hub swallows nothing: router_callback drains what it gives
\* up there.
THEOREM AloneSwallowsNothing == Spec => []AloneNothingSwallowed
  <1>1. SwallowInv => AloneNothingSwallowed
    BY DEF SwallowInv, AloneNothingSwallowed
  <1> QED
    BY <1>1, SwallowInit, SwallowStep, Flows, PTL DEF Spec
=============================================================================
