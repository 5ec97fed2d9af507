--------------------------- MODULE HubRoutingProofs ---------------------------
(***************************************************************************)
(* Proofs about HubRouting for any brokers, services and requests.         *)
(*                                                                         *)
(* MailInv says that wherever a queue has a type, a whole message begins   *)
(* that belongs there, wherever its reader stands: a relay acts only on a  *)
(* frame that is a type, so what was misread before costs frames but mixes *)
(* nothing.  AlignInv is about where readers stand between callbacks,      *)
(* TokenInv gives every message one place, and AgeInv weighs the age of a  *)
(* node against the brokers before it in the small tree.                   *)
(***************************************************************************)
EXTENDS HubRouting, SequenceTheorems, FiniteSetTheorems, WellFoundedInduction, TLAPS

-----------------------------------------------------------------------------
(* Messages.                                                               *)

Payload == {"svc_log", "svc_req", "svc_res", "svc_reg", "svc_req_interhub", "svc_res_interhub"}
           \cup Svc \cup Broker \cup Request \cup {NULL} \cup (Broker \X Svc)
Frame   == [k : FrameKind, v : Payload]

\* A request and a response on the way to the hub, from the hub to a thread
\* after their topic, and where a broker's router gets them.
Sort         == {"req", "res"}
Sent(r, m)   == IF r = "req" THEN ReqFrames(m) ELSE ResFrames(m, SrcOf[m])
HubReq(m)    == <<Type("svc_req_interhub"), F("svc", DstOf[m]), F("tag", SrcOf[m]), F("body", m)>>
HubRes(m)    == <<Type("svc_res_interhub"), F("svc", DstOf[m]), F("name", m), F("body", m)>>
Hubbed(r, m) == IF r = "req" THEN HubReq(m) ELSE HubRes(m)
HomeReq(m)   == <<Type("svc_req"), F("svc", DstOf[m]), F("tag", SrcOf[m]), F("body", m)>>
HomeRes(m)   == <<Type("svc_res"), F("svc", DstOf[m]), F("name", m), F("body", m)>>
Home(r, m)   == IF r = "req" THEN HomeReq(m) ELSE HomeRes(m)

\* All messages that a thread's dealer, and its subscriber, gets.
DealerMsg == {LogFrames(m) : m \in Request} \cup {Sent(r, m) : r \in Sort, m \in Request}
SubMsg    == {RegFrames(c, s) : c \in Broker, s \in Svc} \cup {Hubbed(r, m) : r \in Sort, m \in Request}

\* The message f stands in q from its i-th frame on.
Holds(q, i, f) ==
    /\ i \in 1..Len(q) /\ i + Len(f) <= Len(q) + 1
    /\ \A j \in 1..Len(f) : q[(i + j) - 1] = f[j]

\* Every type in q begins a message of M, which is there as a whole.
Begins(q, M) == \A i \in 1..Len(q) : q[i].k = "type" => \E f \in M : Holds(q, i, f)

-----------------------------------------------------------------------------
(* The invariant.                                                          *)

QueueType == dq \in [Broker -> Seq(Frame)] /\ sq \in [Broker -> Seq(Frame)]
RunType   == running \in [Broker -> {"none", "dealer", "sub"}]
             /\ dirty \in [Broker -> SUBSET {"short", "long"}]
TreeType  == /\ small \in [Broker -> Seq(Node)] /\ age \in [Broker -> [Node -> 0..MaxAge]]
             /\ swept \subseteq Broker
StateType == QueueType /\ RunType /\ TreeType

\* What comes to the dealer and the subscriber of b's thread and to b.
ToDealer(b) == {LogFrames(m) : m \in Request}
               \cup {Sent("req", m) : m \in {n \in asked : SrcOf[n] = b}}
               \cup {Sent("res", m) : m \in answered}
RegsOf(c)   == {RegFrames(c, s) : s \in Offers[c]}
Asked(b)    == {m \in asked : b # SrcOf[m] /\ DstOf[m] \in Offers[b]}
Answered(b) == {m \in answered : b = SrcOf[m]}
ToSub(b)    == (UNION {RegsOf(c) : c \in Broker})
               \cup {Hubbed("req", m) : m \in Asked(b)} \cup {Hubbed("res", m) : m \in Answered(b)}
ToBroker(b) == {Home("req", m) : m \in Asked(b)} \cup {Home("res", m) : m \in Answered(b)}

MailInv == /\ \A b \in Broker : Begins(dq[b], ToDealer(b)) /\ Begins(sq[b], ToSub(b))
           /\ at \in [Broker -> Seq(Seq(Frame))]
           /\ \A b \in Broker : \A i \in 1..Len(at[b]) : at[b][i] \in ToBroker(b)
           /\ asked \subseteq Request /\ answered \subseteq asked

\* Only the callback of a queue reads from it, until it is empty.
AlignInv == \A b \in Broker :
    /\ running[b] # "dealer" /\ dq[b] # <<>> => dq[b][1].k = "type"
    /\ running[b] # "sub" /\ sq[b] # <<>> => sq[b][1].k = "topic" \/ sq[b][1] = Type("svc_reg")

\* A small tree: every node once, a service only where it registers, and a
\* broker's services right after its node.
Distinct(q) == \A i, j \in 1..Len(q) : q[i] = q[j] => i = j
Offered(q)  == \A i \in 1..Len(q) : q[i] = <<q[i][1]>> \/ q[i][2] \in Offers[q[i][1]]
Rooted(q)   == \A i \in 1..Len(q) : \E j \in 1..i : q[j] = <<q[i][1]>>
Together(q) == \A i, j, k \in 1..Len(q) : i <= j /\ j <= k /\ q[i][1] = q[k][1] => q[j][1] = q[i][1]
TreeOK(q)   == Distinct(q) /\ Offered(q) /\ Rooted(q) /\ Together(q)
TreeInv     == \A b \in Broker : TreeOK(small[b])

\* Where each broker has one service, its node and the service's have the same
\* age; and a node that is old has no more other brokers before it than it has
\* seconds left.
Ahead(q, c) == {d \in Broker : \E i, j \in 1..Len(q) : i < j /\ q[i] = <<d>> /\ q[j] = <<c>>}
AgeInv == \A b \in Broker : \A x \in Nodes(b) :
    /\ age[b][x] = age[b][<<x[1]>>]
    /\ age[b][x] > TMCHK_BROKER_SVC =>
         age[b][x] + Cardinality(Ahead(small[b], x[1])) + (IF b \in swept THEN 1 ELSE 0)
            <= TMCHK_BROKER_SVC + Cardinality(Broker)

\* The message r of m is the i-th at x, or begins there.
Token(K, x, i, r, m) == x \in Broker /\
    \/ K = "dq" /\ Holds(dq[x], i, Sent(r, m))
    \/ K = "sq" /\ Holds(sq[x], i, Hubbed(r, m))
    \/ K = "at" /\ i \in 1..Len(at[x]) /\ at[x][i] = Home(r, m)
Seen(r)  == IF r = "req" THEN asked ELSE answered
TokenInv == \A r \in Sort, m \in Request :
    /\ \A K, x, i : Token(K, x, i, r, m) => m \in Seen(r)
    /\ \A K, x, i, L, y, j :
         Token(K, x, i, r, m) /\ Token(L, y, j, r, m) => K = L /\ x = y /\ i = j

-----------------------------------------------------------------------------
(* Sequences and frames.                                                   *)

LEMMA Smallest ==
    ASSUME NEW S \in SUBSET Nat, S # {}
    PROVE  \E i \in S : \A j \in S : i <= j
  <1> DEFINE R == OpToRel(<, Nat)
  <1>1. IsWellFoundedOn(R, Nat)
    BY NatLessThanWellFounded
  <1>2. \A i, j \in Nat : <<j, i>> \in R <=> j < i
    BY DEF OpToRel
  <1> HIDE DEF R
  <1>3. PICK i \in S : \A j \in S : <<j, i>> \notin R
    BY <1>1, WFMin
  <1>4. ASSUME NEW j \in S PROVE i <= j
    <2>1. i \in Nat /\ j \in Nat
      OBVIOUS
    <2>2. ~(j < i)
      BY <1>2, <1>3, <2>1, Zenon
    <2> QED
      BY <2>1, <2>2
  <1> QED
    BY <1>4

LEMMA Greatest ==
    ASSUME NEW n \in Nat, NEW S \in SUBSET (1..n), S # {}
    PROVE  \E i \in S : \A j \in S : j <= i
  <1> DEFINE T == {k \in 0..n : n - k \in S}
  <1>1. T \in SUBSET Nat /\ T # {}
    <2>1. PICK i \in S : TRUE
      OBVIOUS
    <2>2. n - i \in T
      OBVIOUS
    <2>3. \A k \in T : k \in Nat
      OBVIOUS
    <2> HIDE DEF T
    <2> QED
      BY <2>2, <2>3
  <1>2. PICK k \in T : \A l \in T : k <= l
    BY <1>1, Smallest
  <1>3. ASSUME NEW j \in S PROVE j <= n - k
    <2>1. n - j \in T
      OBVIOUS
    <2> QED
      BY <1>2, <2>1
  <1> QED
    BY <1>3

\* What is left of a queue when its first n elements were read.
LEMMA Dropped ==
    ASSUME NEW S, NEW q \in Seq(S), NEW n \in Nat
    PROVE  /\ Drop(q, n) \in Seq(S)
           /\ Len(Drop(q, n)) = IF n <= Len(q) THEN Len(q) - n ELSE 0
           /\ \A i \in 1..Len(Drop(q, n)) : i + n \in 1..Len(q) /\ Drop(q, n)[i] = q[i + n]
  <1>1. PICK l \in Nat : l = Len(q)
    BY LenProperties
  <1>2. \A i \in (n + 1)..l : q[i] \in S
    BY <1>1, ElementOfSeq
  <1>3. /\ SubSeq(q, n + 1, l) \in Seq(S)
        /\ Len(SubSeq(q, n + 1, l)) = IF n + 1 <= l THEN l - (n + 1) + 1 ELSE 0
        /\ \A i \in 1..(l - (n + 1) + 1) : SubSeq(q, n + 1, l)[i] = q[(n + 1) + i - 1]
    BY <1>2, SubSeqProperties
  <1>4. Drop(q, n) = SubSeq(q, n + 1, l)
    BY <1>1 DEF Drop
  <1>5. Len(Drop(q, n)) = IF n <= l THEN l - n ELSE 0
    BY <1>3, <1>4
  <1>6. ASSUME NEW i \in 1..Len(Drop(q, n))
        PROVE  i + n \in 1..l /\ Drop(q, n)[i] = q[i + n]
    <2>1. n <= l /\ i \in 1..(l - n) /\ i \in Nat
      BY <1>5
    <2>2. (n + 1) + i - 1 = i + n /\ i \in 1..(l - (n + 1) + 1)
      BY <2>1
    <2> QED
      BY <1>3, <1>4, <2>1, <2>2
  <1> QED
    BY <1>1, <1>3, <1>4, <1>5, <1>6

\* A queue with more behind it.
LEMMA Joined ==
    ASSUME NEW S, NEW q \in Seq(S), NEW g \in Seq(S)
    PROVE  /\ q \o g \in Seq(S) /\ Len(q \o g) = Len(q) + Len(g)
           /\ Len(q) \in Nat /\ Len(g) \in Nat
           /\ \A i \in 1..Len(q) : i \in 1..Len(q \o g) /\ (q \o g)[i] = q[i]
           /\ \A j \in 1..Len(g) : Len(q) + j \in 1..Len(q \o g) /\ (q \o g)[Len(q) + j] = g[j]
           /\ \A i \in 1..Len(q \o g) : i \in 1..Len(q) \/ \E j \in 1..Len(g) : i = Len(q) + j
  <1>1. PICK l \in Nat : l = Len(q)
    BY LenProperties
  <1>2. PICK k \in Nat : k = Len(g)
    BY LenProperties
  <1>3. /\ q \o g \in Seq(S) /\ Len(q \o g) = l + k
        /\ \A i \in 1..(l + k) : (q \o g)[i] = IF i <= l THEN q[i] ELSE g[i - l]
    BY <1>1, <1>2, ConcatProperties
  <1>4. ASSUME NEW j \in 1..k PROVE l + j \in 1..(l + k) /\ (q \o g)[l + j] = g[j]
    <2>1. l + j \in 1..(l + k) /\ ~(l + j <= l) /\ (l + j) - l = j
      OBVIOUS
    <2> QED
      BY <1>3, <2>1
  <1>5. ASSUME NEW i \in 1..(l + k) PROVE i \in 1..l \/ \E j \in 1..k : i = l + j
    <2>1. CASE i <= l
      BY <2>1
    <2>2. CASE ~(i <= l)
      <3>1. i - l \in 1..k /\ i = l + (i - l)
        BY <2>2
      <3> QED
        BY <3>1
    <2> QED
      BY <2>1, <2>2
  <1>6. ASSUME NEW i \in 1..l PROVE i \in 1..(l + k) /\ (q \o g)[i] = q[i]
    BY <1>3
  <1> QED
    BY <1>1, <1>2, <1>3, <1>4, <1>5, <1>6

LEMMA FrameParts == ASSUME NEW a, NEW b PROVE F(a, b).k = a /\ F(a, b).v = b
  BY DEF F

LEMMA SentParts ==
    ASSUME NEW m \in Request, NEW c \in Broker
    PROVE  /\ ReqFrames(m) \in Seq(Frame) /\ Len(ReqFrames(m)) = 4
           /\ ReqFrames(m)[1] = Type("svc_req") /\ ReqFrames(m)[2] = F("svc", DstOf[m])
           /\ ReqFrames(m)[3] = F("tag", NULL) /\ ReqFrames(m)[4] = F("body", m)
           /\ ResFrames(m, c) \in Seq(Frame) /\ Len(ResFrames(m, c)) = 5
           /\ ResFrames(m, c)[1] = Type("svc_res_interhub") /\ ResFrames(m, c)[2] = F("broker", c)
           /\ ResFrames(m, c)[3] = F("svc", DstOf[m]) /\ ResFrames(m, c)[4] = F("name", m)
           /\ ResFrames(m, c)[5] = F("body", m)
           /\ LogFrames(m) \in Seq(Frame) /\ Len(LogFrames(m)) = 2
           /\ LogFrames(m)[1] = Type("svc_log") /\ LogFrames(m)[2] = F("log", m)
  <1>1. /\ Type("svc_req") \in Frame /\ F("svc", DstOf[m]) \in Frame /\ F("tag", NULL) \in Frame
        /\ F("body", m) \in Frame /\ Type("svc_res_interhub") \in Frame /\ F("broker", c) \in Frame
        /\ F("name", m) \in Frame /\ Type("svc_log") \in Frame /\ F("log", m) \in Frame
    BY RoutingAssumption DEF F, Type, Frame, FrameKind, Payload
  <1> QED
    BY <1>1 DEF ReqFrames, ResFrames, LogFrames

LEMMA HubbedParts ==
    ASSUME NEW m \in Request
    PROVE  /\ HubReq(m) \in Seq(Frame) /\ Len(HubReq(m)) = 4
           /\ HubReq(m)[1] = Type("svc_req_interhub") /\ HubReq(m)[2] = F("svc", DstOf[m])
           /\ HubReq(m)[3] = F("tag", SrcOf[m]) /\ HubReq(m)[4] = F("body", m)
           /\ HubRes(m) \in Seq(Frame) /\ Len(HubRes(m)) = 4
           /\ HubRes(m)[1] = Type("svc_res_interhub") /\ HubRes(m)[2] = F("svc", DstOf[m])
           /\ HubRes(m)[3] = F("name", m) /\ HubRes(m)[4] = F("body", m)
  <1>1. /\ Type("svc_req_interhub") \in Frame /\ F("svc", DstOf[m]) \in Frame /\ F("name", m) \in Frame
        /\ F("body", m) \in Frame /\ Type("svc_res_interhub") \in Frame /\ F("tag", SrcOf[m]) \in Frame
    BY RoutingAssumption DEF F, Type, Frame, FrameKind, Payload
  <1> QED
    BY <1>1 DEF HubReq, HubRes

LEMMA RegParts ==
    ASSUME NEW c \in Broker, NEW s \in Svc
    PROVE  /\ RegFrames(c, s) \in Seq(Frame) /\ Len(RegFrames(c, s)) = 2
           /\ RegFrames(c, s)[1] = Type("svc_reg") /\ RegFrames(c, s)[2] = F("regi", <<c, s>>)
           /\ F("topic", c) \in Frame
  <1>1. Type("svc_reg") \in Frame /\ F("regi", <<c, s>>) \in Frame /\ F("topic", c) \in Frame
    BY DEF F, Type, Frame, FrameKind, Payload
  <1> QED
    BY <1>1 DEF RegFrames

LEMMA HomeParts ==
    ASSUME NEW m \in Request
    PROVE  /\ Home("req", m) \in Seq(Frame) /\ Home("res", m) \in Seq(Frame)
           /\ Home("req", m) = HomeReq(m) /\ Home("res", m) = HomeRes(m)
           /\ HomeReq(m)[1] = Type("svc_req") /\ HomeReq(m)[3] = F("tag", SrcOf[m])
           /\ HomeReq(m)[4] = F("body", m)
           /\ HomeRes(m)[1] = Type("svc_res") /\ HomeRes(m)[4] = F("body", m)
  <1>1. /\ Type("svc_req") \in Frame /\ F("svc", DstOf[m]) \in Frame /\ F("name", m) \in Frame
        /\ F("body", m) \in Frame /\ Type("svc_res") \in Frame /\ F("tag", SrcOf[m]) \in Frame
    BY RoutingAssumption DEF F, Type, Frame, FrameKind, Payload
  <1> QED
    BY <1>1 DEF Home, HomeReq, HomeRes

LEMMA TypeParts ==
    /\ \A t : Type(t).k = "type" /\ Type(t).v = t
    /\ \A t, u : Type(t) = Type(u) => t = u
  BY DEF Type, F

\* Messages of one kind have one length, and one type begins one kind.
Msgs(M) == /\ \A f \in M : f \in Seq(Frame) /\ Len(f) \in Nat \ {0} /\ f[1].k = "type"
           /\ \A f, g \in M : f[1] = g[1] => Len(f) = Len(g)

LEMMA DealerMsgs ==
    /\ Msgs(DealerMsg)
    /\ \A m \in Request : /\ LogFrames(m) \in DealerMsg
                          /\ Sent("req", m) = ReqFrames(m) /\ Sent("req", m) \in DealerMsg
                          /\ Sent("res", m) = ResFrames(m, SrcOf[m]) /\ Sent("res", m) \in DealerMsg
  <1>1. \A m \in Request : SrcOf[m] \in Broker
    BY RoutingAssumption
  <1>2. \A m \in Request : Sent("req", m) = ReqFrames(m) /\ Sent("res", m) = ResFrames(m, SrcOf[m])
    BY DEF Sent
  <1>3. \A f \in DealerMsg : \E m \in Request :
            f = LogFrames(m) \/ f = ReqFrames(m) \/ f = ResFrames(m, SrcOf[m])
    BY <1>2 DEF DealerMsg, Sort
  <1>4. \A f \in DealerMsg : /\ f \in Seq(Frame)
                             /\ \/ f[1] = Type("svc_log") /\ Len(f) = 2
                                \/ f[1] = Type("svc_req") /\ Len(f) = 4
                                \/ f[1] = Type("svc_res_interhub") /\ Len(f) = 5
    <2> TAKE f \in DealerMsg
    <2>1. PICK m \in Request : f = LogFrames(m) \/ f = ReqFrames(m) \/ f = ResFrames(m, SrcOf[m])
      BY <1>3
    <2>2. SrcOf[m] \in Broker
      BY <1>1
    <2>3. CASE f = LogFrames(m)
      BY <2>2, <2>3, SentParts
    <2>4. CASE f = ReqFrames(m)
      BY <2>2, <2>4, SentParts
    <2>5. CASE f = ResFrames(m, SrcOf[m])
      BY <2>2, <2>5, SentParts
    <2> QED
      BY <2>1, <2>3, <2>4, <2>5
  <1>5. Msgs(DealerMsg)
    BY <1>4, TypeParts DEF Msgs
  <1> QED
    BY <1>2, <1>5 DEF DealerMsg, Sort

LEMMA SubMsgs ==
    /\ Msgs(SubMsg)
    /\ \A c \in Broker, s \in Svc : RegFrames(c, s) \in SubMsg
    /\ \A m \in Request : /\ Hubbed("req", m) = HubReq(m) /\ Hubbed("req", m) \in SubMsg
                          /\ Hubbed("res", m) = HubRes(m) /\ Hubbed("res", m) \in SubMsg
  <1>1. \A m \in Request : Hubbed("req", m) = HubReq(m) /\ Hubbed("res", m) = HubRes(m)
    BY DEF Hubbed
  <1>2. \A f \in SubMsg : \/ \E c \in Broker, s \in Svc : f = RegFrames(c, s)
                          \/ \E m \in Request : f = HubReq(m) \/ f = HubRes(m)
    BY <1>1 DEF SubMsg, Sort
  <1>3. \A f \in SubMsg : /\ f \in Seq(Frame)
                          /\ \/ f[1] = Type("svc_reg") /\ Len(f) = 2
                             \/ f[1] = Type("svc_req_interhub") /\ Len(f) = 4
                             \/ f[1] = Type("svc_res_interhub") /\ Len(f) = 4
    <2> TAKE f \in SubMsg
    <2>1. CASE \E c \in Broker, s \in Svc : f = RegFrames(c, s)
      BY <2>1, RegParts
    <2>2. CASE \E m \in Request : f = HubReq(m) \/ f = HubRes(m)
      BY <2>2, HubbedParts
    <2> QED
      BY <1>2, <2>1, <2>2
  <1>4. Msgs(SubMsg)
    BY <1>3, TypeParts DEF Msgs
  <1> QED
    BY <1>1, <1>4 DEF SubMsg, Sort

-----------------------------------------------------------------------------
(* Messages in queues.                                                     *)

LEMMA HoldsDropped ==
    ASSUME NEW q \in Seq(Frame), NEW n \in Nat, NEW f \in Seq(Frame), NEW i,
           i \in 1..Len(Drop(q, n))
    PROVE  i \in Nat \ {0} /\ i + n \in 1..Len(q) /\ (Holds(Drop(q, n), i, f) <=> Holds(q, i + n, f))
  <1>1. PICK l \in Nat : l = Len(q)
    BY LenProperties
  <1>2. PICK k \in Nat : k = Len(f)
    BY LenProperties
  <1>3. /\ Len(Drop(q, n)) = IF n <= l THEN l - n ELSE 0
        /\ \A j \in 1..Len(Drop(q, n)) : j + n \in 1..l /\ Drop(q, n)[j] = q[j + n]
    BY <1>1, Dropped
  <1>4. n <= l /\ i \in 1..(l - n) /\ Len(Drop(q, n)) = l - n
    BY <1>3
  <1>5. i + k <= (l - n) + 1 <=> (i + n) + k <= l + 1
    BY <1>4
  <1>6. ASSUME i + k <= (l - n) + 1, NEW j \in 1..k
        PROVE  Drop(q, n)[(i + j) - 1] = q[((i + n) + j) - 1]
    <2>1. (i + j) - 1 \in 1..(l - n) /\ ((i + j) - 1) + n = ((i + n) + j) - 1
      BY <1>4, <1>6
    <2> QED
      BY <1>3, <1>4, <2>1
  <1>7. i + n \in 1..l
    BY <1>4
  <1> QED
    BY <1>1, <1>2, <1>4, <1>5, <1>6, <1>7 DEF Holds

\* Behind a queue of whole messages nothing changes what they are.
LEMMA HoldsJoined ==
    ASSUME NEW q \in Seq(Frame), NEW g \in Seq(Frame), NEW M, Msgs(M), Begins(q, M),
           NEW f \in M, NEW i \in 1..Len(q)
    PROVE  Holds(q \o g, i, f) <=> Holds(q, i, f)
  <1>1. PICK l \in Nat : l = Len(q)
    BY LenProperties
  <1>2. PICK k \in Nat \ {0} : k = Len(f)
    BY DEF Msgs
  <1>3. /\ Len(q \o g) = l + Len(g) /\ Len(g) \in Nat
        /\ \A j \in 1..l : (q \o g)[j] = q[j]
    BY <1>1, Joined
  <1>4. PICK n \in Nat : n = Len(g)
    BY <1>3
  <1>5. ASSUME i + k <= l + 1, NEW j \in 1..k PROVE (q \o g)[(i + j) - 1] = q[(i + j) - 1]
    <2>1. (i + j) - 1 \in 1..l
      BY <1>1, <1>5
    <2> QED
      BY <1>3, <2>1
  <1>6. ASSUME Holds(q, i, f) PROVE Holds(q \o g, i, f)
    <2>1. i + k <= l + 1 /\ \A j \in 1..k : q[(i + j) - 1] = f[j]
      BY <1>1, <1>2, <1>6 DEF Holds
    <2>2. i \in 1..(l + n) /\ i + k <= (l + n) + 1
      BY <1>1, <2>1
    <2> QED
      BY <1>2, <1>3, <1>4, <1>5, <2>1, <2>2 DEF Holds
  <1>7. ASSUME Holds(q \o g, i, f) PROVE Holds(q, i, f)
    <2>1. 1 \in 1..k /\ (i + 1) - 1 = i
      BY <1>1
    <2>2. (q \o g)[i] = f[1]
      BY <1>2, <1>7, <2>1 DEF Holds
    <2>3. q[i] = f[1] /\ f[1].k = "type"
      BY <1>1, <1>3, <2>2 DEF Msgs
    <2>4. PICK h \in M : Holds(q, i, h)
      BY <2>3 DEF Begins
    <2>5. 1 \in 1..Len(h)
      <3>1. Len(h) \in Nat \ {0}
        BY DEF Msgs
      <3> QED
        BY <3>1
    <2>6. h[1] = f[1]
      BY <1>1, <2>1, <2>3, <2>4, <2>5 DEF Holds
    <2>7. Len(h) = k
      BY <1>2, <2>6 DEF Msgs
    <2>8. i + k <= l + 1
      BY <1>1, <2>4, <2>7 DEF Holds
    <2>9. \A j \in 1..k : (q \o g)[(i + j) - 1] = f[j]
      BY <1>2, <1>7 DEF Holds
    <2>10. \A j \in 1..k : q[(i + j) - 1] = f[j]
      BY <1>5, <2>8, <2>9
    <2> QED
      BY <1>1, <1>2, <2>8, <2>10 DEF Holds
  <1> QED
    BY <1>6, <1>7

LEMMA HoldsBehind ==
    ASSUME NEW q \in Seq(Frame), NEW g \in Seq(Frame), NEW f \in Seq(Frame), NEW j \in 1..Len(g)
    PROVE  Holds(q \o g, Len(q) + j, f) <=> Holds(g, j, f)
  <1>1. PICK l \in Nat : l = Len(q)
    BY LenProperties
  <1>2. PICK n \in Nat : n = Len(g)
    BY LenProperties
  <1>3. PICK k \in Nat : k = Len(f)
    BY LenProperties
  <1>4. /\ Len(q \o g) = l + n
        /\ \A i \in 1..n : (q \o g)[l + i] = g[i]
    <2>1. /\ Len(q \o g) = Len(q) + Len(g)
          /\ \A i \in 1..Len(g) : (q \o g)[Len(q) + i] = g[i]
      BY Joined
    <2> QED
      BY <1>1, <1>2, <2>1
  <1>5. (l + j) + k <= (l + n) + 1 <=> j + k <= n + 1
    BY <1>2
  <1>6. l + j \in 1..(l + n)
    BY <1>2
  <1>7. ASSUME j + k <= n + 1, NEW i \in 1..k PROVE (q \o g)[((l + j) + i) - 1] = g[(j + i) - 1]
    <2>1. (j + i) - 1 \in 1..n /\ l + ((j + i) - 1) = ((l + j) + i) - 1
      BY <1>2, <1>7
    <2> QED
      BY <1>4, <2>1
  <1> QED
    BY <1>1, <1>2, <1>3, <1>4, <1>5, <1>6, <1>7 DEF Holds

LEMMA BeginsJoined ==
    ASSUME NEW q \in Seq(Frame), NEW g \in Seq(Frame), NEW M, Msgs(M), Begins(q, M), Begins(g, M)
    PROVE  Begins(q \o g, M)
  <1> SUFFICES ASSUME NEW i \in 1..Len(q \o g), (q \o g)[i].k = "type"
               PROVE  \E f \in M : Holds(q \o g, i, f)
    BY DEF Begins
  <1>1. CASE i \in 1..Len(q)
    <2>1. (q \o g)[i] = q[i]
      BY <1>1, Joined
    <2>2. PICK f \in M : Holds(q, i, f)
      BY <1>1, <2>1 DEF Begins
    <2> QED
      BY <1>1, <2>2, HoldsJoined
  <1>2. CASE \E j \in 1..Len(g) : i = Len(q) + j
    <2>1. PICK j \in 1..Len(g) : i = Len(q) + j
      BY <1>2
    <2>2. (q \o g)[i] = g[j]
      BY <2>1, Joined
    <2>3. PICK f \in M : Holds(g, j, f)
      BY <2>2 DEF Begins
    <2>4. f \in Seq(Frame)
      BY DEF Msgs
    <2> QED
      BY <2>1, <2>3, <2>4, HoldsBehind
  <1> QED
    BY <1>1, <1>2, Joined

\* The frame a before the frames of f.
Headed(g, a, f) == /\ g \in Seq(Frame) /\ Len(g) = 1 + Len(f)
                   /\ g[1] = a /\ \A i \in 1..Len(f) : g[1 + i] = f[i]

LEMMA PutFirst ==
    ASSUME NEW a \in Frame, NEW f \in Seq(Frame)
    PROVE  Headed(<<a>> \o f, a, f)
  <1>1. PICK h : h = <<a>>
    OBVIOUS
  <1>3. Len(h) = 1 /\ h[1] = a
    BY <1>1
  <1>4. h \in Seq(Frame)
    BY <1>1
  <1>2. /\ h \o f \in Seq(Frame) /\ Len(h \o f) = Len(h) + Len(f)
        /\ \A i \in 1..Len(h) : (h \o f)[i] = h[i]
        /\ \A i \in 1..Len(f) : (h \o f)[Len(h) + i] = f[i]
    BY <1>4, Joined
  <1>5. PICK g : g = h \o f
    OBVIOUS
  <1>6. Headed(g, a, f)
    <2>1. 1 \in 1..Len(h) /\ Len(g) = 1 + Len(f) /\ \A i \in 1..Len(f) : g[1 + i] = f[i]
      BY <1>2, <1>3, <1>5
    <2> QED
      BY <1>2, <1>3, <1>5, <2>1 DEF Headed
  <1> QED
    BY <1>1, <1>5, <1>6

\* What a thread publishes for another: a topic and a message.
LEMMA PublishedWhole ==
    ASSUME NEW c \in Broker, NEW f \in Seq(Frame), Len(f) = 4, f[1].k = "type",
           \A j \in 2..4 : f[j].k # "type",
           NEW g, g = <<F("topic", c)>> \o f, NEW j \in 1..Len(g)
    PROVE  /\ g \in Seq(Frame) /\ g[1].k = "topic" /\ Len(g) = 5
           /\ g[j].k = "type" => j = 2 /\ Holds(g, j, f)
  <1>1. F("topic", c) \in Frame
    BY DEF F, Frame, FrameKind, Payload
  <1>2. /\ g \in Seq(Frame) /\ Len(g) = 5
        /\ g[1] = F("topic", c) /\ \A i \in 1..4 : g[1 + i] = f[i]
    <2>1. PICK a : a = F("topic", c)
      OBVIOUS
    <2>2. g = <<a>> \o f /\ a \in Frame
      BY <1>1, <2>1
    <2>3. g \in Seq(Frame) /\ Len(g) = 1 + Len(f) /\ g[1] = a /\ \A i \in 1..Len(f) : g[1 + i] = f[i]
      <3>1. Headed(g, a, f)
        BY <2>2, PutFirst
      <3> QED
        BY <3>1 DEF Headed
    <2> QED
      BY <2>1, <2>3
  <1>3. Holds(g, 2, f)
    <2>1. \A i \in 1..4 : (2 + i) - 1 = 1 + i
      OBVIOUS
    <2> QED
      BY <1>2, <2>1 DEF Holds
  <1>4. ASSUME g[j].k = "type" PROVE j = 2
    <2>1. j = 1 \/ j = 2 \/ (j - 1 \in 2..4 /\ 1 + (j - 1) = j)
      BY <1>2
    <2>2. ASSUME j - 1 \in 2..4, 1 + (j - 1) = j PROVE FALSE
      <3>1. g[j] = f[j - 1]
        BY <1>2, <2>2
      <3> QED
        BY <1>4, <2>2, <3>1
    <2>3. j # 1
      BY <1>2, <1>4, FrameParts
    <2> QED
      BY <2>1, <2>2, <2>3
  <1> QED
    BY <1>2, <1>3, <1>4, FrameParts

-----------------------------------------------------------------------------
(* Nodes and places of a small tree.                                       *)

LEMMA NodeParts ==
    /\ \A c : <<c>>[1] = c
    /\ \A c, s : <<c, s>>[1] = c /\ <<c, s>>[2] = s /\ \A d : <<d>> # <<c, s>>
    /\ \A c \in Broker : <<c>> \in Node /\ \A s \in Svc : <<c, s>> \in Node
    /\ \A x \in Node : \/ x = <<x[1]>> /\ x[1] \in Broker
                       \/ x = <<x[1], x[2]>> /\ x[1] \in Broker /\ x[2] \in Svc
  <1>1. \A c, s, d : <<d>> # <<c, s>>
    <2>1. \A c, s, d : Len(<<d>>) = 1 /\ Len(<<c, s>>) = 2
      OBVIOUS
    <2> QED
      BY <2>1
  <1>2. \A x \in Node : \/ x = <<x[1]>> /\ x[1] \in Broker
                        \/ x = <<x[1], x[2]>> /\ x[1] \in Broker /\ x[2] \in Svc
    BY DEF Node
  <1>3. \A c \in Broker : <<c>> \in Node /\ \A s \in Svc : <<c, s>> \in Node
    BY DEF Node
  <1> QED
    BY <1>1, <1>2, <1>3

LEMMA FirstValue ==
    ASSUME NEW b \in Broker, small[b] \in Seq(Node), NEW X, X \cap Nodes(b) # {}
    PROVE  /\ FirstIn(b, X) \in 1..Len(small[b])
           /\ small[b][FirstIn(b, X)] \in X
           /\ \A j \in 1..(FirstIn(b, X) - 1) : small[b][j] \notin X
  <1> DEFINE S == {i \in 1..Len(small[b]) : small[b][i] \in X}
  <1>1. S \in SUBSET Nat /\ S # {}
    BY DEF Nodes
  <1>2. PICK i \in S : \A j \in S : i <= j
    BY <1>1, Smallest
  <1>3. PICK n \in Nat : n = Len(small[b])
    BY LenProperties
  <1>4. \A j \in 1..(i - 1) : small[b][j] \notin X
    <2> SUFFICES ASSUME NEW j \in 1..(i - 1), small[b][j] \in X PROVE FALSE
      OBVIOUS
    <2>1. i \in 1..n
      BY <1>3
    <2>2. j \in 1..n /\ ~(i <= j)
      BY <2>1
    <2>3. j \in S
      BY <1>3, <2>2
    <2> QED
      BY <1>2, <2>2, <2>3
  <1>5. \E k \in 1..Len(small[b]) : small[b][k] \in X /\ \A j \in 1..(k - 1) : small[b][j] \notin X
    BY <1>4
  <1> QED
    BY <1>5 DEF FirstIn

LEMMA LastValue ==
    ASSUME NEW q \in Seq(Node), NEW c, Places(q, c) # {}
    PROVE  LastOf(q, c) \in Places(q, c) /\ \A j \in Places(q, c) : j <= LastOf(q, c)
  <1>1. PICK n \in Nat : n = Len(q)
    BY LenProperties
  <1>2. Places(q, c) \in SUBSET (1..n)
    BY <1>1 DEF Places
  <1>3. \E i \in Places(q, c) : \A j \in Places(q, c) : j <= i
    BY <1>2, Greatest
  <1> QED
    BY <1>3 DEF LastOf

\* A node r put behind the place l of q.
Put(q, r, l) == SubSeq(q, 1, l) \o <<r>> \o Drop(q, l)

IsPut(p, q, r, l) ==
    /\ p \in Seq(Node) /\ Len(p) = Len(q) + 1 /\ p[l + 1] = r
    /\ \A i \in 1..l : p[i] = q[i]
    /\ \A i \in (l + 1)..Len(q) : p[i + 1] = q[i]

LEMMA PutBehind ==
    ASSUME NEW q \in Seq(Node), NEW r \in Node, NEW l \in 0..Len(q)
    PROVE  IsPut(Put(q, r, l), q, r, l)
  <1>0. PICK p : p = Put(q, r, l)
    OBVIOUS
  <1>1. PICK n \in Nat : n = Len(q)
    BY LenProperties
  <1>2. l \in 0..n /\ l \in Nat
    BY <1>1
  <1>3. PICK u : u = SubSeq(q, 1, l)
    OBVIOUS
  <1>4. u \in Seq(Node) /\ Len(u) = l /\ \A i \in 1..l : u[i] = q[i]
    <2>1. \A i \in 1..l : q[i] \in Node
      BY <1>1, <1>2, ElementOfSeq
    <2>2. /\ SubSeq(q, 1, l) \in Seq(Node)
          /\ Len(SubSeq(q, 1, l)) = IF 1 <= l THEN l - 1 + 1 ELSE 0
          /\ \A i \in 1..(l - 1 + 1) : SubSeq(q, 1, l)[i] = q[1 + i - 1]
      BY <1>2, <2>1, SubSeqProperties
    <2>3. l - 1 + 1 = l /\ (1 <= l \/ l = 0) /\ \A i \in 1..l : 1 + i - 1 = i
      BY <1>2
    <2> QED
      BY <1>3, <2>2, <2>3
  <1>5. PICK v : v = Drop(q, l)
    OBVIOUS
  <1>6. v \in Seq(Node) /\ Len(v) = n - l /\ \A i \in 1..(n - l) : v[i] = q[i + l]
    <2>1. /\ v \in Seq(Node) /\ Len(v) = IF l <= Len(q) THEN Len(q) - l ELSE 0
          /\ \A i \in 1..Len(v) : v[i] = q[i + l]
      BY <1>2, <1>5, Dropped
    <2>2. Len(v) = n - l
      BY <1>1, <1>2, <2>1
    <2> QED
      BY <2>1, <2>2
  <1>7. PICK w : w = u \o <<r>>
    OBVIOUS
  <1>8. w \in Seq(Node) /\ Len(w) = l + 1 /\ w[l + 1] = r /\ \A i \in 1..l : w[i] = u[i]
    <2>1. u \in Seq(Node)
      BY <1>4
    <2>2. w = Append(u, r)
      BY <1>7, <2>1, AppendIsConcat
    <2>3. /\ w \in Seq(Node) /\ Len(w) = Len(u) + 1
          /\ \A i \in 1..Len(u) : w[i] = u[i]
          /\ w[Len(u) + 1] = r
      BY <2>1, <2>2, AppendProperties
    <2> QED
      BY <1>4, <2>3
  <1>9. /\ w \o v \in Seq(Node) /\ Len(w \o v) = Len(w) + Len(v)
        /\ \A i \in 1..Len(w) : (w \o v)[i] = w[i]
        /\ \A i \in 1..Len(v) : (w \o v)[Len(w) + i] = v[i]
    <2>1. w \in Seq(Node) /\ v \in Seq(Node)
      BY <1>6, <1>8
    <2> QED
      BY <2>1, Joined
  <1>10. p = w \o v
    BY <1>0, <1>3, <1>5, <1>7 DEF Put
  <1>11. /\ p \in Seq(Node) /\ Len(p) = n + 1 /\ \A i \in 1..(l + 1) : p[i] = w[i]
         /\ \A i \in 1..(n - l) : p[(l + 1) + i] = v[i]
    <2>1. Len(p) = (l + 1) + (n - l) /\ (l + 1) + (n - l) = n + 1
      BY <1>2, <1>6, <1>8, <1>9, <1>10
    <2>2. \A i \in 1..(n - l) : p[Len(w) + i] = v[i]
      BY <1>6, <1>9, <1>10
    <2> QED
      BY <1>8, <1>9, <1>10, <2>1, <2>2
  <1>12. ASSUME NEW i \in (l + 1)..n PROVE p[i + 1] = q[i]
    <2>1. i - l \in 1..(n - l) /\ (l + 1) + (i - l) = i + 1 /\ (i - l) + l = i
      BY <1>2
    <2>2. PICK j \in 1..(n - l) : j = i - l
      BY <2>1
    <2>3. p[(l + 1) + j] = v[j] /\ v[j] = q[j + l]
      BY <1>6, <1>11
    <2> QED
      BY <2>1, <2>2, <2>3
  <1>13. p[l + 1] = r /\ \A i \in 1..l : p[i] = q[i]
    <2>1. l + 1 \in 1..(l + 1) /\ \A i \in 1..l : i \in 1..(l + 1)
      BY <1>2
    <2> QED
      BY <1>4, <1>8, <1>11, <2>1
  <1>14. IsPut(p, q, r, l)
    BY <1>1, <1>11, <1>12, <1>13 DEF IsPut
  <1> QED
    BY <1>0, <1>14

\* The nodes from f to l taken out of q.
Cut(q, f, l) == SubSeq(q, 1, f - 1) \o Drop(q, l)

IsCut(p, q, f, l) ==
    /\ p \in Seq(Node) /\ Len(p) = Len(q) - ((l - f) + 1)
    /\ \A i \in 1..(f - 1) : p[i] = q[i]
    /\ \A i \in f..Len(p) : i + ((l - f) + 1) \in (l + 1)..Len(q) /\ p[i] = q[i + ((l - f) + 1)]

LEMMA TakenOut ==
    ASSUME NEW q \in Seq(Node), NEW f \in 1..Len(q), NEW l \in f..Len(q)
    PROVE  IsCut(Cut(q, f, l), q, f, l)
  <1>0. PICK p : p = Cut(q, f, l)
    OBVIOUS
  <1>1. PICK n \in Nat : n = Len(q)
    BY LenProperties
  <1>2. f \in 1..n /\ l \in f..n /\ f - 1 \in Nat /\ l \in Nat /\ l <= n
    BY <1>1
  <1>3. PICK u : u = SubSeq(q, 1, f - 1)
    OBVIOUS
  <1>4. u \in Seq(Node) /\ Len(u) = f - 1 /\ \A i \in 1..(f - 1) : u[i] = q[i]
    <2>1. \A i \in 1..(f - 1) : q[i] \in Node
      BY <1>1, <1>2, ElementOfSeq
    <2>2. /\ SubSeq(q, 1, f - 1) \in Seq(Node)
          /\ Len(SubSeq(q, 1, f - 1)) = IF 1 <= f - 1 THEN (f - 1) - 1 + 1 ELSE 0
          /\ \A i \in 1..((f - 1) - 1 + 1) : SubSeq(q, 1, f - 1)[i] = q[1 + i - 1]
      BY <1>2, <2>1, SubSeqProperties
    <2>3. (f - 1) - 1 + 1 = f - 1 /\ (1 <= f - 1 \/ f - 1 = 0) /\ \A i \in 1..(f - 1) : 1 + i - 1 = i
      BY <1>2
    <2> QED
      BY <1>3, <2>2, <2>3
  <1>5. PICK v : v = Drop(q, l)
    OBVIOUS
  <1>6. v \in Seq(Node) /\ Len(v) = n - l /\ \A i \in 1..(n - l) : v[i] = q[i + l]
    BY <1>1, <1>2, <1>5, Dropped
  <1>7. /\ u \o v \in Seq(Node) /\ Len(u \o v) = Len(u) + Len(v)
        /\ \A i \in 1..Len(u) : (u \o v)[i] = u[i]
        /\ \A i \in 1..Len(v) : (u \o v)[Len(u) + i] = v[i]
    <2>1. u \in Seq(Node) /\ v \in Seq(Node)
      BY <1>4, <1>6
    <2> QED
      BY <2>1, Joined
  <1>8. /\ p \in Seq(Node) /\ Len(p) = (f - 1) + (n - l) /\ \A i \in 1..(f - 1) : p[i] = u[i]
        /\ \A i \in 1..(n - l) : p[(f - 1) + i] = v[i]
    <2>1. p = u \o v
      BY <1>0, <1>3, <1>5 DEF Cut
    <2> QED
      BY <1>4, <1>6, <1>7, <2>1
  <1>9. Len(p) = n - ((l - f) + 1)
    BY <1>2, <1>8
  <1>10. ASSUME NEW i \in f..Len(p)
         PROVE  i + ((l - f) + 1) \in (l + 1)..n /\ p[i] = q[i + ((l - f) + 1)]
    <2>1. i \in f..((f - 1) + (n - l))
      BY <1>8
    <2>2. /\ (i - f) + 1 \in 1..(n - l) /\ (f - 1) + ((i - f) + 1) = i
          /\ ((i - f) + 1) + l = i + ((l - f) + 1) /\ i + ((l - f) + 1) \in (l + 1)..n
      BY <1>2, <2>1
    <2>3. PICK j \in 1..(n - l) : j = (i - f) + 1
      BY <2>2
    <2>4. p[(f - 1) + j] = v[j] /\ v[j] = q[j + l]
      BY <1>6, <1>8
    <2> QED
      BY <2>2, <2>3, <2>4
  <1>11. IsCut(p, q, f, l)
    <2>1. Len(p) = Len(q) - ((l - f) + 1)
      BY <1>1, <1>9
    <2>2. \A i \in 1..(f - 1) : p[i] = q[i]
      BY <1>4, <1>8
    <2>3. \A i \in f..Len(p) : i + ((l - f) + 1) \in (l + 1)..Len(q) /\ p[i] = q[i + ((l - f) + 1)]
      BY <1>1, <1>10
    <2> QED
      BY <1>8, <2>1, <2>2, <2>3 DEF IsCut
  <1> QED
    BY <1>0, <1>11

\* The nodes of q.
In(q) == {q[i] : i \in 1..Len(q)}

LEMMA AddedTree ==
    ASSUME NEW q \in Seq(Node), TreeOK(q), NEW r \in Node,
           r = <<r[1]>> \/ (r[2] \in Offers[r[1]] /\ <<r[1]>> \in In(q))
    PROVE  /\ Added(q, r) \in Seq(Node) /\ TreeOK(Added(q, r)) /\ In(Added(q, r)) = In(q) \cup {r}
           /\ \A c : <<c>> \in In(q) => Ahead(Added(q, r), c) \subseteq Ahead(q, c)
  <1>1. PICK n \in Nat : n = Len(q)
    BY LenProperties
  <1>2. CASE r \in In(q)
    <2>1. Added(q, r) = q
      BY <1>2 DEF Added, In
    <2> QED
      BY <1>2, <2>1
  <1>3. CASE r \notin In(q) /\ Places(q, r[1]) = {}
    <2>1. PICK p : p = Append(q, r)
      OBVIOUS
    <2>2. Added(q, r) = p
      BY <1>3, <2>1 DEF Added, In
    <2>3. p \in Seq(Node) /\ Len(p) = n + 1 /\ p[n + 1] = r /\ \A i \in 1..n : p[i] = q[i]
      BY <1>1, <2>1, AppendProperties
    <2>4. \A i \in 1..n : q[i][1] # r[1] /\ q[i] # r /\ q[i] \in In(q)
      BY <1>1, <1>3 DEF Places, In
    <2>5. \A i \in 1..(n + 1) : i \in 1..n \/ i = n + 1
      OBVIOUS
    <2>6. r = <<r[1]>>
      <3>1. <<r[1]>> \notin In(q)
        BY <1>1, <2>4, NodeParts DEF In
      <3> QED
        BY <3>1
    <2>7. Distinct(p)
      BY <1>1, <2>3, <2>4, <2>5 DEF TreeOK, Distinct
    <2>8. Offered(p)
      BY <1>1, <2>3, <2>5, <2>6 DEF TreeOK, Offered
    <2>9. Rooted(p)
      <3> SUFFICES ASSUME NEW i \in 1..(n + 1) PROVE \E j \in 1..i : p[j] = <<p[i][1]>>
        BY <2>3 DEF Rooted
      <3>1. CASE i \in 1..n
        <4>1. PICK j \in 1..i : q[j] = <<q[i][1]>>
          BY <1>1, <3>1 DEF TreeOK, Rooted
        <4>2. j \in 1..n
          BY <3>1
        <4> QED
          BY <2>3, <3>1, <4>1, <4>2
      <3>2. CASE i = n + 1
        BY <2>3, <2>6, <3>2
      <3> QED
        BY <2>5, <3>1, <3>2
    <2>10. Together(p)
      <3> SUFFICES ASSUME NEW i \in 1..(n + 1), NEW j \in 1..(n + 1), NEW k \in 1..(n + 1),
                          i <= j, j <= k, p[i][1] = p[k][1]
                   PROVE  p[j][1] = p[i][1]
        BY <2>3 DEF Together
      <3>1. CASE k \in 1..n
        <4>1. i \in 1..n /\ j \in 1..n
          BY <3>1
        <4> QED
          BY <1>1, <2>3, <3>1, <4>1 DEF TreeOK, Together
      <3>2. CASE k = n + 1
        <4>1. i = n + 1
          BY <2>3, <2>4, <2>5, <3>2
        <4>2. j = i
          BY <4>1
        <4> QED
          BY <4>2
      <3> QED
        BY <2>5, <3>1, <3>2
    <2>11. In(p) = In(q) \cup {r}
      <3>1. \A x \in In(p) : x \in In(q) \cup {r}
        BY <2>3, <2>4, <2>5 DEF In
      <3>2. \A i \in 1..n : q[i] \in In(p)
        <4>1. \A i \in 1..n : i \in 1..(n + 1)
          OBVIOUS
        <4> QED
          BY <2>3, <4>1 DEF In
      <3>3. r \in In(p)
        <4>1. n + 1 \in 1..(n + 1)
          OBVIOUS
        <4> QED
          BY <2>3, <4>1 DEF In
      <3> QED
        BY <1>1, <3>1, <3>2, <3>3 DEF In
    <2>12. ASSUME NEW c, <<c>> \in In(q), NEW d \in Ahead(p, c) PROVE d \in Ahead(q, c)
      <3>1. PICK i \in 1..(n + 1), j \in 1..(n + 1) : i < j /\ p[i] = <<d>> /\ p[j] = <<c>>
        BY <2>3, <2>12 DEF Ahead
      <3>2. j # n + 1
        BY <1>3, <2>3, <2>12, <3>1
      <3>3. i \in 1..n /\ j \in 1..n
        BY <3>1, <3>2
      <3> QED
        BY <1>1, <2>3, <2>12, <3>1, <3>3 DEF Ahead
    <2> QED
      BY <2>2, <2>3, <2>7, <2>8, <2>9, <2>10, <2>11, <2>12 DEF TreeOK
  <1>4. CASE r \notin In(q) /\ Places(q, r[1]) # {}
    <2>1. PICK l : l = LastOf(q, r[1])
      OBVIOUS
    <2>2. l \in 1..n /\ q[l][1] = r[1]
      BY <1>1, <1>4, <2>1, LastValue DEF Places
    <2>3. PICK p : p = Put(q, r, l)
      OBVIOUS
    <2>4. Added(q, r) = p
      BY <1>4, <2>1, <2>3 DEF Added, In, Put
    <2>5. /\ p \in Seq(Node) /\ Len(p) = n + 1 /\ p[l + 1] = r
          /\ \A i \in 1..l : p[i] = q[i]
          /\ \A i \in (l + 1)..n : p[i + 1] = q[i]
      <3>1. l \in 0..Len(q)
        BY <1>1, <2>2
      <3>2. /\ p \in Seq(Node) /\ Len(p) = Len(q) + 1 /\ p[l + 1] = r
            /\ \A i \in 1..l : p[i] = q[i]
            /\ \A i \in (l + 1)..Len(q) : p[i + 1] = q[i]
        <4>1. IsPut(p, q, r, l)
          BY <2>3, <3>1, PutBehind
        <4> QED
          BY <4>1 DEF IsPut
      <3> QED
        BY <1>1, <3>2
    <2> DEFINE o(i) == IF i <= l THEN i ELSE i - 1
    <2>6. ASSUME NEW i \in 1..(n + 1)
          PROVE  /\ o(i) \in 1..n /\ p[i][1] = q[o(i)][1]
                 /\ i # l + 1 => p[i] = q[o(i)]
      <3>1. CASE i <= l
        BY <2>2, <2>5, <3>1
      <3>2. CASE i = l + 1
        BY <2>2, <2>5, <3>2
      <3>3. CASE i > l + 1
        <4>1. i - 1 \in (l + 1)..n /\ (i - 1) + 1 = i /\ ~(i <= l) /\ i - 1 \in 1..n
          BY <2>2, <3>3
        <4> QED
          BY <2>5, <4>1
      <3> QED
        BY <2>2, <3>1, <3>2, <3>3
    <2>7. ASSUME NEW i \in 1..(n + 1), NEW j \in 1..(n + 1)
          PROVE  /\ i <= j => o(i) <= o(j)
                 /\ i # l + 1 /\ j # l + 1 /\ o(i) = o(j) => i = j
                 /\ i # l + 1 /\ j # l + 1 /\ i < j => o(i) < o(j)
      BY <2>2
    <2>8. \A i \in 1..n : q[i] # r /\ q[i] \in In(q)
      BY <1>1, <1>4 DEF In
    <2>9. ASSUME NEW i \in 1..n PROVE \E j \in 1..(n + 1) : j # l + 1 /\ o(j) = i /\ p[j] = q[i]
      <3>1. CASE i <= l
        <4>1. i \in 1..(n + 1) /\ i # l + 1 /\ o(i) = i
          BY <2>2, <3>1
        <4> QED
          BY <2>5, <3>1, <4>1
      <3>2. CASE i > l
        <4>1. i + 1 \in 1..(n + 1) /\ i + 1 # l + 1 /\ o(i + 1) = i
          BY <2>2, <3>2
        <4>2. i \in (l + 1)..n
          BY <2>2, <3>2
        <4> QED
          BY <2>5, <4>1, <4>2
      <3> QED
        BY <2>2, <3>1, <3>2
    <2>10. \A i \in 1..(n + 1) : i # l + 1 => i >= 1
      OBVIOUS
    <2> HIDE DEF o
    <2>11. Distinct(p)
      <3> SUFFICES ASSUME NEW i \in 1..(n + 1), NEW j \in 1..(n + 1), p[i] = p[j] PROVE i = j
        BY <2>5 DEF Distinct
      <3>1. CASE i = l + 1
        BY <2>5, <2>6, <2>8, <3>1
      <3>2. CASE j = l + 1
        BY <2>5, <2>6, <2>8, <3>2
      <3>3. CASE i # l + 1 /\ j # l + 1
        <4>1. q[o(i)] = q[o(j)] /\ o(i) \in 1..n /\ o(j) \in 1..n
          BY <2>6, <3>3
        <4>2. o(i) = o(j)
          BY <1>1, <4>1 DEF TreeOK, Distinct
        <4> QED
          BY <2>7, <3>3, <4>2
      <3> QED
        BY <3>1, <3>2, <3>3
    <2>12. Offered(p)
      <3> SUFFICES ASSUME NEW i \in 1..(n + 1) PROVE p[i] = <<p[i][1]>> \/ p[i][2] \in Offers[p[i][1]]
        BY <2>5 DEF Offered
      <3>1. CASE i = l + 1
        BY <2>5, <3>1
      <3>2. CASE i # l + 1
        BY <1>1, <2>6, <3>2 DEF TreeOK, Offered
      <3> QED
        BY <3>1, <3>2
    <2>13. Rooted(p)
      <3> SUFFICES ASSUME NEW i \in 1..(n + 1) PROVE \E j \in 1..i : p[j] = <<p[i][1]>>
        BY <2>5 DEF Rooted
      <3>1. PICK k \in 1..o(i) : q[k] = <<q[o(i)][1]>>
        BY <1>1, <2>6 DEF TreeOK, Rooted
      <3>2. k \in 1..n /\ o(i) \in 1..n
        BY <2>6, <3>1
      <3>3. PICK j \in 1..(n + 1) : j # l + 1 /\ o(j) = k /\ p[j] = q[k]
        BY <2>9, <3>2
      <3>4. j <= i
        <4>1. o(j) <= o(i)
          BY <3>1, <3>2, <3>3
        <4>2. CASE i <= l
          BY <2>2, <3>3, <4>1, <4>2 DEF o
        <4>3. CASE i > l
          BY <2>2, <3>3, <4>1, <4>3 DEF o
        <4> QED
          BY <2>2, <4>2, <4>3
      <3> QED
        BY <2>6, <3>1, <3>3, <3>4
    <2>14. Together(p)
      <3> SUFFICES ASSUME NEW i \in 1..(n + 1), NEW j \in 1..(n + 1), NEW k \in 1..(n + 1),
                          i <= j, j <= k, p[i][1] = p[k][1]
                   PROVE  p[j][1] = p[i][1]
        BY <2>5 DEF Together
      <3>1. o(i) <= o(j) /\ o(j) <= o(k)
        BY <2>7
      <3> QED
        BY <1>1, <2>6, <3>1 DEF TreeOK, Together
    <2>15. In(p) = In(q) \cup {r}
      <3>1. \A x \in In(p) : x \in In(q) \cup {r}
        BY <2>5, <2>6, <2>8 DEF In
      <3>2. \A x \in In(q) : x \in In(p)
        BY <1>1, <2>5, <2>9 DEF In
      <3>3. r \in In(p)
        <4>1. l + 1 \in 1..(n + 1)
          BY <2>2
        <4> QED
          BY <2>5, <4>1 DEF In
      <3> QED
        BY <3>1, <3>2, <3>3
    <2>16. r # <<r[1]>>
      <3>1. PICK j \in 1..l : q[j] = <<q[l][1]>>
        BY <1>1, <2>2 DEF TreeOK, Rooted
      <3>2. j \in 1..n
        BY <2>2
      <3> QED
        BY <2>2, <2>8, <3>1, <3>2
    <2>17. ASSUME NEW c, <<c>> \in In(q), NEW d \in Ahead(p, c) PROVE d \in Ahead(q, c)
      <3>1. PICK i \in 1..(n + 1), j \in 1..(n + 1) : i < j /\ p[i] = <<d>> /\ p[j] = <<c>>
        BY <2>5, <2>17 DEF Ahead
      <3>2. i # l + 1 /\ j # l + 1
        BY <2>5, <2>16, <3>1, NodeParts
      <3>3. o(i) < o(j) /\ q[o(i)] = <<d>> /\ q[o(j)] = <<c>> /\ o(i) \in 1..n /\ o(j) \in 1..n
        BY <2>6, <2>7, <3>1, <3>2
      <3> QED
        BY <1>1, <2>17, <3>3 DEF Ahead
    <2> QED
      BY <2>4, <2>5, <2>11, <2>12, <2>13, <2>14, <2>15, <2>17 DEF TreeOK
  <1> QED
    BY <1>2, <1>3, <1>4

\* A node leaves with those below it.
LEMMA CutTree ==
    ASSUME NEW q \in Seq(Node), TreeOK(q), NEW f \in 1..Len(q),
           NEW p, p = Cut(q, f, LastBelow(q, f))
    PROVE  /\ p \in Seq(Node) /\ TreeOK(p) /\ In(p) \subseteq In(q) /\ q[f] \notin In(p)
           /\ \A x \in In(p) : q[f] = <<q[f][1]>> => x[1] # q[f][1]
           /\ \A c : Ahead(p, c) \subseteq Ahead(q, c)
           /\ \A c, i : /\ q[f] = <<q[f][1]>> /\ i \in 1..Len(q) /\ q[i] = <<c>> /\ f < i
                        => q[f][1] \in Ahead(q, c) \ Ahead(p, c)
  <1>0. ASSUME NEW l \in f..Len(q), p = Cut(q, f, l)
        PROVE  /\ p \in Seq(Node) /\ Len(p) = Len(q) - ((l - f) + 1)
               /\ \A i \in 1..(f - 1) : p[i] = q[i]
               /\ \A i \in f..Len(p) : /\ i + ((l - f) + 1) \in (l + 1)..Len(q)
                                        /\ p[i] = q[i + ((l - f) + 1)]
    <2>1. IsCut(p, q, f, l)
      BY <1>0, TakenOut
    <2> QED
      BY <2>1 DEF IsCut
  <1>1. PICK n \in Nat : n = Len(q)
    BY LenProperties
  <1>2. PICK l : l = LastBelow(q, f)
    OBVIOUS
  <1>3. q[f] \in Node /\ f \in 1..n
    BY <1>1, ElementOfSeq
  <1>4. q[f] = <<q[f][1]>> => l \in f..n /\ q[l][1] = q[f][1] /\ \A j \in 1..n : q[j][1] = q[f][1] => j <= l
    <2> SUFFICES ASSUME q[f] = <<q[f][1]>>
                 PROVE  l \in f..n /\ q[l][1] = q[f][1] /\ \A j \in 1..n : q[j][1] = q[f][1] => j <= l
      OBVIOUS
    <2>1. l = LastOf(q, q[f][1])
      BY <1>2 DEF LastBelow
    <2>2. f \in Places(q, q[f][1])
      BY DEF Places
    <2>3. l \in Places(q, q[f][1]) /\ \A j \in Places(q, q[f][1]) : j <= l
      BY <2>1, <2>2, LastValue
    <2> QED
      BY <1>1, <1>3, <2>2, <2>3 DEF Places
  <1>5. q[f] # <<q[f][1]>> => l = f
    BY <1>2 DEF LastBelow
  <1>6. l \in f..n
    BY <1>3, <1>4, <1>5
  <1>7. PICK d : d = (l - f) + 1
    OBVIOUS
  <1>8. d \in 1..n /\ f + d = l + 1
    BY <1>3, <1>6, <1>7
  <1>9. /\ p \in Seq(Node) /\ Len(p) = n - d
        /\ \A i \in 1..(f - 1) : p[i] = q[i]
        /\ \A i \in f..(n - d) : i + d \in (l + 1)..n /\ p[i] = q[i + d]
    <2>1. l \in f..Len(q) /\ p = Cut(q, f, l)
      BY <1>1, <1>2, <1>3, <1>6
    <2>2. /\ p \in Seq(Node) /\ Len(p) = Len(q) - ((l - f) + 1)
          /\ \A i \in 1..(f - 1) : p[i] = q[i]
          /\ \A i \in f..Len(p) : i + ((l - f) + 1) \in (l + 1)..Len(q) /\ p[i] = q[i + ((l - f) + 1)]
      BY <1>0, <2>1
    <2> QED
      BY <1>1, <1>7, <2>2
  <1>10. PICK k \in Nat : k = n - d
    BY <1>8
  <1> DEFINE o(i) == IF i < f THEN i ELSE i + d
  <1>11. ASSUME NEW i \in 1..k
         PROVE  o(i) \in 1..n /\ o(i) \notin f..l /\ p[i] = q[o(i)]
    <2>1. CASE i < f
      BY <1>3, <1>6, <1>9, <1>10, <2>1
    <2>2. CASE ~(i < f)
      <3>1. i \in f..(n - d)
        BY <1>3, <1>10, <2>2
      <3>2. i + d \in (l + 1)..n /\ p[i] = q[i + d]
        BY <1>9, <3>1
      <3>3. i + d \in 1..n /\ i + d \notin f..l
        BY <1>3, <1>6, <3>2
      <3> QED
        BY <2>2, <3>2, <3>3
    <2> QED
      BY <2>1, <2>2
  <1>12. ASSUME NEW i \in 1..k, NEW j \in 1..k
         PROVE  /\ i <= j => o(i) <= o(j)
                /\ i < j => o(i) < o(j)
                /\ o(i) <= o(j) => i <= j
                /\ o(i) = o(j) => i = j
    BY <1>3, <1>8
  <1>13. ASSUME NEW i \in 1..n, i \notin f..l PROVE \E j \in 1..k : o(j) = i
    <2>1. CASE i < f
      BY <1>3, <1>6, <1>8, <1>10, <2>1
    <2>2. CASE i > l
      <3>1. i - d \in 1..k /\ ~(i - d < f) /\ (i - d) + d = i
        BY <1>3, <1>6, <1>7, <1>8, <1>10, <2>2
      <3> QED
        BY <3>1
    <2> QED
      BY <1>3, <1>6, <1>13, <2>1, <2>2
  <1>14. Len(p) = k
    BY <1>9, <1>10
  <1> HIDE DEF o
  <1>15. ASSUME NEW i \in 1..k, NEW j \in f..l PROVE q[f] = <<q[f][1]>> => q[o(i)][1] # q[f][1]
    <2> SUFFICES ASSUME q[f] = <<q[f][1]>>, q[o(i)][1] = q[f][1] PROVE FALSE
      OBVIOUS
    <2>1. o(i) \in 1..n /\ o(i) <= l /\ o(i) \notin f..l
      BY <1>4, <1>11
    <2>2. o(i) < f
      BY <1>3, <1>6, <2>1
    <2>3. PICK h \in 1..o(i) : q[h] = <<q[o(i)][1]>>
      BY <1>1, <2>1 DEF TreeOK, Rooted
    <2>4. h \in 1..n /\ h # f
      BY <1>3, <2>1, <2>2, <2>3
    <2> QED
      BY <1>1, <1>3, <2>3, <2>4 DEF TreeOK, Distinct
  <1>16. Distinct(p)
    <2> SUFFICES ASSUME NEW i \in 1..k, NEW j \in 1..k, p[i] = p[j] PROVE i = j
      BY <1>14 DEF Distinct
    <2>1. q[o(i)] = q[o(j)] /\ o(i) \in 1..n /\ o(j) \in 1..n
      BY <1>11
    <2>2. o(i) = o(j)
      BY <1>1, <2>1 DEF TreeOK, Distinct
    <2> QED
      BY <1>12, <2>2
  <1>17. Offered(p)
    BY <1>1, <1>11, <1>14 DEF TreeOK, Offered
  <1>18. Rooted(p)
    <2> SUFFICES ASSUME NEW i \in 1..k PROVE \E j \in 1..i : p[j] = <<p[i][1]>>
      BY <1>14 DEF Rooted
    <2>1. o(i) \in 1..n /\ p[i] = q[o(i)]
      BY <1>11
    <2>2. PICK h \in 1..o(i) : q[h] = <<q[o(i)][1]>>
      BY <1>1, <2>1 DEF TreeOK, Rooted
    <2>3. h \in 1..n
      BY <2>1, <2>2
    <2>4. h \notin f..l
      <3> SUFFICES ASSUME h \in f..l PROVE FALSE
        OBVIOUS
      <3>1. CASE q[f] = <<q[f][1]>>
        <4>1. q[l][1] = q[f][1] /\ l \in 1..n
          BY <1>3, <1>4, <1>6, <3>1
        <4>2. q[h][1] = q[f][1]
          <5>1. f <= h /\ h <= l
            BY <1>3, <1>6
          <5> QED
            BY <1>1, <1>3, <2>3, <4>1, <5>1 DEF TreeOK, Together
        <4>3. q[h][1] = q[o(i)][1]
          BY <2>2, NodeParts
        <4> QED
          BY <1>15, <3>1, <4>2, <4>3
      <3>2. CASE q[f] # <<q[f][1]>>
        <4>1. h = f
          BY <1>3, <1>5, <3>2
        <4> QED
          BY <2>2, <3>2, <4>1, NodeParts
      <3> QED
        BY <3>1, <3>2
    <2>5. PICK j \in 1..k : o(j) = h
      BY <1>13, <2>3, <2>4
    <2>6. j <= i
      <3>1. o(j) <= o(i)
        BY <2>1, <2>2, <2>5
      <3> QED
        BY <1>12, <3>1
    <2>7. p[j] = <<p[i][1]>>
      BY <1>11, <2>1, <2>2, <2>5
    <2> QED
      BY <2>6, <2>7
  <1>19. Together(p)
    <2> SUFFICES ASSUME NEW i \in 1..k, NEW j \in 1..k, NEW h \in 1..k,
                        i <= j, j <= h, p[i][1] = p[h][1]
                 PROVE  p[j][1] = p[i][1]
      BY <1>14 DEF Together
    <2>1. o(i) <= o(j) /\ o(j) <= o(h)
      BY <1>12
    <2> QED
      BY <1>1, <1>11, <2>1 DEF TreeOK, Together
  <1>20. In(p) \subseteq In(q) /\ q[f] \notin In(p)
    <2> SUFFICES ASSUME NEW i \in 1..k PROVE p[i] \in In(q) /\ p[i] # q[f]
      BY <1>14 DEF In
    <2>1. o(i) \in 1..n /\ p[i] = q[o(i)] /\ o(i) # f
      BY <1>3, <1>6, <1>11
    <2> QED
      BY <1>1, <1>3, <2>1 DEF TreeOK, Distinct, In
  <1>21. \A x \in In(p) : q[f] = <<q[f][1]>> => x[1] # q[f][1]
    <2>1. f \in f..l
      BY <1>3, <1>6
    <2> QED
      BY <1>11, <1>14, <1>15, <2>1 DEF In
  <1>22. ASSUME NEW c, NEW e \in Ahead(p, c) PROVE e \in Ahead(q, c)
    <2>1. PICK i \in 1..k, j \in 1..k : i < j /\ p[i] = <<e>> /\ p[j] = <<c>>
      BY <1>14, <1>22 DEF Ahead
    <2>2. /\ o(i) < o(j) /\ q[o(i)] = <<e>> /\ q[o(j)] = <<c>>
          /\ o(i) \in 1..n /\ o(j) \in 1..n
      BY <1>11, <1>12, <2>1
    <2> QED
      BY <1>1, <1>22, <2>2 DEF Ahead
  <1>23. ASSUME NEW c, NEW i \in 1..n, q[f] = <<q[f][1]>>, q[i] = <<c>>, f < i
         PROVE  q[f][1] \in Ahead(q, c) \ Ahead(p, c)
    <2>1. q[f][1] \in Ahead(q, c)
      BY <1>1, <1>3, <1>23, NodeParts DEF Ahead
    <2>2. \A h \in 1..k : p[h] # <<q[f][1]>>
      <3>1. f \in f..l
        BY <1>3, <1>6
      <3> QED
        BY <1>11, <1>15, <1>23, <3>1, NodeParts
    <2>3. q[f][1] \notin Ahead(p, c)
      BY <1>14, <2>2 DEF Ahead
    <2> QED
      BY <2>1, <2>3
  <1> QED
    BY <1>1, <1>9, <1>16, <1>17, <1>18, <1>19, <1>20, <1>21, <1>22, <1>23 DEF TreeOK

-----------------------------------------------------------------------------
(* What a step finds and leaves.                                           *)

LEMMA BeginsDropped ==
    ASSUME NEW q \in Seq(Frame), NEW M, Msgs(M), Begins(q, M), NEW n \in Nat
    PROVE  Drop(q, n) \in Seq(Frame) /\ Begins(Drop(q, n), M)
  <1>1. Drop(q, n) \in Seq(Frame)
    BY Dropped
  <1>2. ASSUME NEW i \in 1..Len(Drop(q, n)), Drop(q, n)[i].k = "type"
        PROVE  \E f \in M : Holds(Drop(q, n), i, f)
    <2>1. i + n \in 1..Len(q) /\ Drop(q, n)[i] = q[i + n]
      BY Dropped
    <2>2. PICK f \in M : Holds(q, i + n, f)
      BY <1>2, <2>1 DEF Begins
    <2>3. f \in Seq(Frame)
      BY DEF Msgs
    <2> QED
      BY <2>2, <2>3, HoldsDropped
  <1> QED
    BY <1>1, <1>2 DEF Begins

LEMMA BeginsMore ==
    ASSUME NEW q, NEW M, NEW N, M \subseteq N, Begins(q, M)
    PROVE  Begins(q, N)
  BY DEF Begins

\* The sets of messages are made of messages, and only grow.
LEMMA MailSets ==
    ASSUME asked \subseteq Request, answered \subseteq Request, NEW b \in Broker
    PROVE  /\ ToDealer(b) \subseteq DealerMsg /\ Msgs(ToDealer(b))
           /\ ToSub(b) \subseteq SubMsg /\ Msgs(ToSub(b))
           /\ ToBroker(b) \subseteq Seq(Frame)
  <1>1. ToDealer(b) \subseteq DealerMsg
    BY DealerMsgs DEF ToDealer
  <1>2. ASSUME NEW c \in Broker, NEW s \in Offers[c] PROVE RegFrames(c, s) \in SubMsg
    <2>1. s \in Svc
      BY RoutingAssumption
    <2> QED
      BY <2>1, SubMsgs
  <1>3. ToSub(b) \subseteq SubMsg
    <2> SUFFICES ASSUME NEW f \in ToSub(b) PROVE f \in SubMsg
      OBVIOUS
    <2>1. CASE \E c \in Broker : \E s \in Offers[c] : f = RegFrames(c, s)
      BY <1>2, <2>1
    <2>2. CASE \E m \in Request : f = Hubbed("req", m) \/ f = Hubbed("res", m)
      BY <2>2, SubMsgs
    <2>3. CASE f \in UNION {RegsOf(c) : c \in Broker}
      BY <2>1, <2>3 DEF RegsOf
    <2>4. CASE f \in {Hubbed("req", m) : m \in Asked(b)}
      BY <2>2, <2>4 DEF Asked
    <2>5. CASE f \in {Hubbed("res", m) : m \in Answered(b)}
      BY <2>2, <2>5 DEF Answered
    <2> QED
      BY <2>3, <2>4, <2>5 DEF ToSub
  <1>4. ToBroker(b) \subseteq Seq(Frame)
    BY HomeParts DEF ToBroker, Asked, Answered
  <1> QED
    BY <1>1, <1>3, <1>4, DealerMsgs, SubMsgs DEF Msgs

LEMMA MailGrows ==
    ASSUME asked \subseteq asked', answered \subseteq answered', NEW b
    PROVE  ToDealer(b) \subseteq ToDealer(b)' /\ ToSub(b) \subseteq ToSub(b)' /\ ToBroker(b) \subseteq ToBroker(b)'
  <1>1. Asked(b) \subseteq Asked(b)' /\ Answered(b) \subseteq Answered(b)'
    BY DEF Asked, Answered
  <1>2. ToDealer(b) \subseteq ToDealer(b)'
    BY DEF ToDealer
  <1>3. ToSub(b) \subseteq ToSub(b)'
    BY <1>1 DEF ToSub
  <1>4. ToBroker(b) \subseteq ToBroker(b)'
    BY <1>1 DEF ToBroker
  <1> QED
    BY <1>2, <1>3, <1>4

\* What a message in a queue is, by its type.
LEMMA DealerHead ==
    ASSUME NEW b \in Broker, asked \subseteq Request, answered \subseteq Request,
           dq[b] \in Seq(Frame), dq[b] # <<>>, Begins(dq[b], ToDealer(b))
    PROVE  /\ dq[b][1] = Type("svc_req") =>
                \E m \in asked : SrcOf[m] = b /\ Holds(dq[b], 1, Sent("req", m))
           /\ dq[b][1] = Type("svc_res_interhub") =>
                \E m \in answered : Holds(dq[b], 1, Sent("res", m))
  <1>1. 1 \in 1..Len(dq[b])
    <2>1. Len(dq[b]) \in Nat /\ Len(dq[b]) # 0
      BY EmptySeq, LenProperties
    <2> QED
      BY <2>1
  <1>2. ASSUME NEW t, dq[b][1] = Type(t)
        PROVE  \E f \in ToDealer(b) : Holds(dq[b], 1, f) /\ f[1] = Type(t)
    <2>1. PICK f \in ToDealer(b) : Holds(dq[b], 1, f)
      BY <1>1, <1>2, TypeParts DEF Begins
    <2>2. 1 \in 1..Len(f) /\ (1 + 1) - 1 = 1
      <3>1. Len(f) \in Nat \ {0}
        BY MailSets DEF Msgs
      <3> QED
        BY <3>1
    <2>3. dq[b][1] = f[1]
      BY <2>1, <2>2 DEF Holds
    <2> QED
      BY <1>2, <2>1, <2>3
  <1>3. \A m \in Request : /\ LogFrames(m)[1] = Type("svc_log") /\ Sent("req", m)[1] = Type("svc_req")
                           /\ Sent("res", m)[1] = Type("svc_res_interhub")
    BY RoutingAssumption, SentParts, DealerMsgs
  <1>4. ASSUME dq[b][1] = Type("svc_req")
        PROVE  \E m \in asked : SrcOf[m] = b /\ Holds(dq[b], 1, Sent("req", m))
    <2>1. PICK f \in ToDealer(b) : Holds(dq[b], 1, f) /\ f[1] = Type("svc_req")
      BY <1>2, <1>4
    <2> QED
      BY <1>3, <2>1, TypeParts DEF ToDealer
  <1>5. ASSUME dq[b][1] = Type("svc_res_interhub")
        PROVE  \E m \in answered : Holds(dq[b], 1, Sent("res", m))
    <2>1. PICK f \in ToDealer(b) : Holds(dq[b], 1, f) /\ f[1] = Type("svc_res_interhub")
      BY <1>2, <1>5
    <2> QED
      BY <1>3, <2>1, TypeParts DEF ToDealer
  <1> QED
    BY <1>4, <1>5

LEMMA SubAt ==
    ASSUME NEW b \in Broker, asked \subseteq Request, answered \subseteq Request,
           sq[b] \in Seq(Frame), Begins(sq[b], ToSub(b)), NEW i \in 1..Len(sq[b])
    PROVE  /\ sq[b][i] = Type("svc_reg") =>
                \E c \in Broker : \E s \in Offers[c] : Holds(sq[b], i, RegFrames(c, s))
           /\ sq[b][i] = Type("svc_req_interhub") =>
                \E m \in Asked(b) : Holds(sq[b], i, Hubbed("req", m))
           /\ sq[b][i] = Type("svc_res_interhub") =>
                \E m \in Answered(b) : Holds(sq[b], i, Hubbed("res", m))
  <1>1. PICK n \in Nat : n = Len(sq[b])
    BY LenProperties
  <1>2. ASSUME NEW t, sq[b][i] = Type(t)
        PROVE  \E f \in ToSub(b) : Holds(sq[b], i, f) /\ f[1] = Type(t)
    <2>1. PICK f \in ToSub(b) : Holds(sq[b], i, f)
      BY <1>2, TypeParts DEF Begins
    <2>2. 1 \in 1..Len(f) /\ (i + 1) - 1 = i
      <3>1. Len(f) \in Nat \ {0}
        BY MailSets DEF Msgs
      <3> QED
        BY <1>1, <3>1
    <2>3. sq[b][i] = f[1]
      BY <2>1, <2>2 DEF Holds
    <2> QED
      BY <1>2, <2>1, <2>3
  <1>3. \A m \in Request : /\ Hubbed("req", m)[1] = Type("svc_req_interhub")
                           /\ Hubbed("res", m)[1] = Type("svc_res_interhub")
    BY HubbedParts, SubMsgs
  <1>4. ASSUME NEW c \in Broker, NEW s \in Offers[c] PROVE RegFrames(c, s)[1] = Type("svc_reg")
    BY DEF RegFrames
  <1>5. ASSUME NEW f \in ToSub(b)
        PROVE  \/ \E c \in Broker : \E s \in Offers[c] : f = RegFrames(c, s)
               \/ \E m \in Asked(b) : m \in Request /\ f = Hubbed("req", m)
               \/ \E m \in Answered(b) : m \in Request /\ f = Hubbed("res", m)
    <2>1. Asked(b) \subseteq Request /\ Answered(b) \subseteq Request
      BY DEF Asked, Answered
    <2>2. CASE f \in UNION {RegsOf(c) : c \in Broker}
      BY <2>2 DEF RegsOf
    <2>3. CASE f \in {Hubbed("req", m) : m \in Asked(b)}
      BY <2>1, <2>3
    <2>4. CASE f \in {Hubbed("res", m) : m \in Answered(b)}
      BY <2>1, <2>4
    <2> QED
      BY <2>2, <2>3, <2>4 DEF ToSub
  <1>6. ASSUME sq[b][i] = Type("svc_reg")
        PROVE  \E c \in Broker : \E s \in Offers[c] : Holds(sq[b], i, RegFrames(c, s))
    <2>1. PICK f \in ToSub(b) : Holds(sq[b], i, f) /\ f[1] = Type("svc_reg")
      BY <1>2, <1>6
    <2> QED
      BY <1>3, <1>5, <2>1, TypeParts
  <1>7. ASSUME sq[b][i] = Type("svc_req_interhub")
        PROVE  \E m \in Asked(b) : Holds(sq[b], i, Hubbed("req", m))
    <2>1. PICK f \in ToSub(b) : Holds(sq[b], i, f) /\ f[1] = Type("svc_req_interhub")
      BY <1>2, <1>7
    <2> QED
      BY <1>3, <1>4, <1>5, <2>1, TypeParts
  <1>8. ASSUME sq[b][i] = Type("svc_res_interhub")
        PROVE  \E m \in Answered(b) : Holds(sq[b], i, Hubbed("res", m))
    <2>1. PICK f \in ToSub(b) : Holds(sq[b], i, f) /\ f[1] = Type("svc_res_interhub")
      BY <1>2, <1>8
    <2> QED
      BY <1>3, <1>4, <1>5, <2>1, TypeParts
  <1> QED
    BY <1>6, <1>7, <1>8

LEMMA HoldsFirst ==
    ASSUME NEW q \in Seq(Frame), NEW f \in Seq(Frame)
    PROVE  /\ Holds(q, 1, f) => Len(f) <= Len(q) /\ \A j \in 1..Len(f) : q[j] = f[j]
           /\ Holds(q, 2, f) => 1 + Len(f) <= Len(q) /\ \A j \in 1..Len(f) : q[1 + j] = f[j]
  <1>1. PICK n \in Nat : n = Len(q)
    BY LenProperties
  <1>2. PICK k \in Nat : k = Len(f)
    BY LenProperties
  <1>3. \A j \in 1..k : (1 + j) - 1 = j /\ (2 + j) - 1 = 1 + j
    OBVIOUS
  <1>4. ASSUME Holds(q, 1, f) PROVE k <= n /\ \A j \in 1..k : q[j] = f[j]
    <2>1. 1 + k <= n + 1 /\ \A j \in 1..k : q[(1 + j) - 1] = f[j]
      BY <1>1, <1>2, <1>4 DEF Holds
    <2> QED
      BY <1>3, <2>1
  <1>5. ASSUME Holds(q, 2, f) PROVE 1 + k <= n /\ \A j \in 1..k : q[1 + j] = f[j]
    <2>1. 2 + k <= n + 1 /\ \A j \in 1..k : q[(2 + j) - 1] = f[j]
      BY <1>1, <1>2, <1>5 DEF Holds
    <2> QED
      BY <1>3, <2>1
  <1> QED
    BY <1>1, <1>2, <1>4, <1>5

\* A type before the last three frames of a message.
LEMMA LastThree ==
    ASSUME NEW q \in Seq(Frame), 5 <= Len(q), NEW a \in Frame
    PROVE  <<a>> \o SubSeq(q, 3, 5) = <<a, q[3], q[4], q[5]>>
  <1>1. q[3] \in Frame /\ q[4] \in Frame /\ q[5] \in Frame
    <2>1. Len(q) \in Nat
      BY LenProperties
    <2>2. 3 \in 1..Len(q) /\ 4 \in 1..Len(q) /\ 5 \in 1..Len(q)
      BY <2>1
    <2> QED
      BY <2>2, ElementOfSeq
  <1>2. PICK u : u = SubSeq(q, 3, 5)
    OBVIOUS
  <1>3. u \in Seq(Frame) /\ Len(u) = 3 /\ u[1] = q[3] /\ u[2] = q[4] /\ u[3] = q[5]
    <2>1. \A i \in 3..5 : q[i] \in Frame
      BY <1>1
    <2>2. /\ SubSeq(q, 3, 5) \in Seq(Frame)
          /\ Len(SubSeq(q, 3, 5)) = IF 3 <= 5 THEN 5 - 3 + 1 ELSE 0
          /\ \A i \in 1..(5 - 3 + 1) : SubSeq(q, 3, 5)[i] = q[3 + i - 1]
      BY <2>1, SubSeqProperties
    <2>3. u \in Seq(Frame) /\ Len(u) = 3 /\ \A i \in 1..3 : u[i] = q[3 + i - 1]
      BY <1>2, <2>2
    <2>4. u[1] = q[3 + 1 - 1] /\ u[2] = q[3 + 2 - 1] /\ u[3] = q[3 + 3 - 1]
      BY <2>3
    <2> QED
      BY <2>3, <2>4
  <1>4. PICK v, w : v = <<a>> \o u /\ w = <<a, q[3], q[4], q[5]>>
    OBVIOUS
  <1>5. v \in Seq(Frame) /\ Len(v) = 4 /\ v[1] = a /\ v[2] = q[3] /\ v[3] = q[4] /\ v[4] = q[5]
    <2>1. /\ v \in Seq(Frame) /\ Len(v) = 1 + Len(u)
          /\ v[1] = a /\ \A i \in 1..Len(u) : v[1 + i] = u[i]
      <3>1. Headed(v, a, u)
        BY <1>3, <1>4, PutFirst
      <3> QED
        BY <3>1 DEF Headed
    <2>2. v[1 + 1] = u[1] /\ v[1 + 2] = u[2] /\ v[1 + 3] = u[3]
      BY <1>3, <1>4, <2>1
    <2> QED
      BY <1>3, <1>4, <2>1, <2>2
  <1>6. w \in Seq(Frame) /\ Len(w) = 4 /\ w[1] = a /\ w[2] = q[3] /\ w[3] = q[4] /\ w[4] = q[5]
    BY <1>1, <1>4
  <1>7. \A i \in 1..Len(v) : v[i] = w[i]
    <2> SUFFICES ASSUME NEW i \in 1..Len(v) PROVE v[i] = w[i]
      OBVIOUS
    <2>1. i \in {1, 2, 3, 4}
      BY <1>5
    <2> QED
      BY <1>5, <1>6, <2>1
  <1>8. v = w
    <2>1. v \in Seq(Frame) /\ w \in Seq(Frame) /\ Len(v) = Len(w)
      BY <1>5, <1>6
    <2> QED
      BY <1>7, <2>1, SeqEqual
  <1> QED
    BY <1>2, <1>4, <1>8

-----------------------------------------------------------------------------
(* What each step does to the queues.                                      *)

LEMMA Regrouped ==
    ASSUME NEW u \in Seq(Frame), NEW v \in Seq(Frame), NEW w \in Seq(Frame)
    PROVE  (u \o v) \o w = u \o (v \o w)
  BY ConcatAssociative

Routed == StateType /\ MailInv /\ TreeInv

LEMMA AskStep ==
    ASSUME Routed, NEW m \in Request, Ask(m), NEW b, b = SrcOf[m]
    PROVE  \E g : /\ g = LogFrames(m) \o ReqFrames(m)
                  /\ b \in Broker /\ dq' = [dq EXCEPT ![b] = dq[b] \o g]
  <1>1. b \in Broker
    BY RoutingAssumption
  <1>2. dq[b] \in Seq(Frame)
    BY <1>1 DEF Routed, StateType, QueueType
  <1>3. LogFrames(m) \in Seq(Frame) /\ ReqFrames(m) \in Seq(Frame)
    BY <1>1, SentParts
  <1>4. (dq[b] \o LogFrames(m)) \o ReqFrames(m) = dq[b] \o (LogFrames(m) \o ReqFrames(m))
    BY <1>2, <1>3, Regrouped
  <1> QED
    BY <1>1, <1>4 DEF Ask

LEMMA AnswerStep ==
    ASSUME Routed, NEW b \in Broker, NEW m \in Request, Answer(b, m)
    PROVE  /\ m \in asked
           /\ dq' = [dq EXCEPT ![b] = dq[b] \o Sent("res", m)]
  <1>1. PICK i \in 1..Len(at[b]) :
          /\ at[b][i][1] = Type("svc_req") /\ at[b][i][4] = F("body", m)
          /\ dq' = [dq EXCEPT ![b] = dq[b] \o ResFrames(m, at[b][i][3].v)]
    BY DEF Answer
  <1>2. at[b][i] \in ToBroker(b)
    BY DEF Routed, MailInv
  <1>3. Asked(b) \subseteq Request /\ Answered(b) \subseteq Request /\ Asked(b) \subseteq asked
    BY DEF Routed, MailInv, Asked, Answered
  <1>4. PICK n \in Asked(b) : at[b][i] = Home("req", n)
    <2>1. \A n \in Answered(b) : at[b][i] # Home("res", n)
      <3>1. \A n \in Request : Home("res", n)[1] # Type("svc_req")
        BY HomeParts, TypeParts
      <3> QED
        BY <1>1, <1>3, <3>1
    <2> QED
      BY <1>2, <2>1 DEF ToBroker
  <1>5. at[b][i][4] = F("body", n) /\ at[b][i][3] = F("tag", SrcOf[n])
    BY <1>3, <1>4, HomeParts
  <1>6. n = m /\ at[b][i][3].v = SrcOf[n]
    BY <1>1, <1>5, FrameParts
  <1> QED
    BY <1>1, <1>3, <1>6, DealerMsgs

LEMMA RelayReqStep ==
    ASSUME Routed, NEW b \in Broker, RelayReq(b)
    PROVE  \E m \in Request, c \in Broker :
             /\ m \in asked /\ m \in Asked(c) /\ Holds(dq[b], 1, Sent("req", m))
             /\ dq' = [dq EXCEPT ![b] = Drop(dq[b], 4)]
             /\ sq' = [sq EXCEPT ![c] = sq[c] \o (<<F("topic", c)>> \o HubReq(m))]
  <1>1. /\ dq[b] # <<>> /\ dq[b][1] = Type("svc_req")
        /\ Offering(b, dq[b][2].v) # {}
        /\ dq' = [dq EXCEPT ![b] = Drop(dq[b], 4)]
    BY DEF RelayReq, ReadsType, Reads, Is
  <1>2. /\ dq[b] \in Seq(Frame) /\ asked \subseteq Request /\ answered \subseteq Request
        /\ Begins(dq[b], ToDealer(b)) /\ small[b] \in Seq(Node) /\ TreeOK(small[b])
        /\ \A c \in Broker : sq[c] \in Seq(Frame)
    BY DEF Routed, StateType, QueueType, MailInv, TreeType, TreeInv
  <1>3. PICK m \in asked : SrcOf[m] = b /\ Holds(dq[b], 1, Sent("req", m))
    BY <1>1, <1>2, DealerHead
  <1>4. m \in Request /\ DstOf[m] \in Svc
    BY <1>2, RoutingAssumption
  <1>5. dq[b][2] = F("svc", DstOf[m]) /\ dq[b][4] = F("body", m)
    <2>1. Sent("req", m) = ReqFrames(m) /\ ReqFrames(m) \in Seq(Frame)
      BY <1>4, DealerMsgs, SentParts
    <2>2. \A j \in 1..Len(ReqFrames(m)) : dq[b][j] = ReqFrames(m)[j]
      BY <1>2, <1>3, <2>1, HoldsFirst
    <2> QED
      BY <1>4, <2>2, SentParts
  <1>6. PICK s : s = DstOf[m]
    OBVIOUS
  <1>7. dq[b][2].v = s
    BY <1>5, <1>6, FrameParts
  <1>8. PICK c : c = Find(b, s)
    OBVIOUS
  <1>9. c \in Broker /\ c # b /\ s \in Offers[c]
    <2>1. PICK i : i = FirstIn(b, Offering(b, s))
      OBVIOUS
    <2>2. Offering(b, s) \cap Nodes(b) # {}
      BY <1>1, <1>7 DEF Offering
    <2>3. i \in 1..Len(small[b]) /\ small[b][i] \in Offering(b, s)
      BY <1>2, <2>1, <2>2, FirstValue
    <2>4. PICK d \in Broker \ {b} : small[b][i] = <<d, s>>
      BY <2>3 DEF Offering
    <2>5. c = d
      BY <1>8, <2>1, <2>4, NodeParts DEF Find
    <2>6. s \in Offers[d]
      <3>1. small[b][i] # <<d>> /\ small[b][i][1] = d /\ small[b][i][2] = s
        BY <2>4, NodeParts
      <3> QED
        BY <1>2, <2>3, <3>1 DEF TreeOK, Offered
    <2> QED
      BY <2>4, <2>5, <2>6
  <1>10. m \in Asked(c)
    BY <1>3, <1>6, <1>9 DEF Asked
  <1>11. sq' = [sq EXCEPT ![c] = (sq[c] \o <<F("topic", c)>>) \o HubReq(m)]
    <2>1. <<Type("svc_req_interhub"), dq[b][2], F("tag", b), dq[b][4]>> = HubReq(m)
      BY <1>3, <1>5 DEF HubReq
    <2>2. Publish(c, HubReq(m))
      BY <1>7, <1>8, <2>1 DEF RelayReq
    <2> QED
      BY <2>2 DEF Publish
  <1>12. (sq[c] \o <<F("topic", c)>>) \o HubReq(m) = sq[c] \o (<<F("topic", c)>> \o HubReq(m))
    <2>1. PICK t : t = <<F("topic", c)>>
      OBVIOUS
    <2>2. t \in Seq(Frame) /\ sq[c] \in Seq(Frame) /\ HubReq(m) \in Seq(Frame)
      <3>1. F("topic", c) \in Frame
        BY <1>9 DEF F, Frame, FrameKind, Payload
      <3> QED
        BY <1>2, <1>4, <1>9, <2>1, <3>1, HubbedParts
    <2> QED
      BY <2>1, <2>2, Regrouped
  <1> QED
    BY <1>1, <1>3, <1>4, <1>9, <1>10, <1>11, <1>12

LEMMA RelayResStep ==
    ASSUME Routed, NEW b \in Broker, RelayRes(b)
    PROVE  \E m \in Request, c \in Broker :
             /\ m \in answered /\ m \in Answered(c) /\ Holds(dq[b], 1, Sent("res", m))
             /\ dq' = [dq EXCEPT ![b] = Drop(dq[b], 5)]
             /\ sq' = [sq EXCEPT ![c] = sq[c] \o (<<F("topic", c)>> \o HubRes(m))]
  <1>1. /\ dq[b] # <<>> /\ dq[b][1] = Type("svc_res_interhub")
        /\ dq' = [dq EXCEPT ![b] = Drop(dq[b], 5)]
    BY DEF RelayRes, ReadsType, Reads, Is
  <1>2. /\ dq[b] \in Seq(Frame) /\ asked \subseteq Request /\ answered \subseteq Request
        /\ Begins(dq[b], ToDealer(b)) /\ \A c \in Broker : sq[c] \in Seq(Frame)
    BY DEF Routed, StateType, QueueType, MailInv
  <1>3. PICK m \in answered : Holds(dq[b], 1, Sent("res", m))
    BY <1>1, <1>2, DealerHead
  <1>4. PICK c \in Broker : c = SrcOf[m]
    BY <1>2, RoutingAssumption
  <1>5. m \in Request
    BY <1>2
  <1>6. /\ dq[b][2] = F("broker", c) /\ dq[b][3] = F("svc", DstOf[m])
        /\ dq[b][4] = F("name", m) /\ dq[b][5] = F("body", m) /\ 5 <= Len(dq[b])
    <2>1. Sent("res", m) = ResFrames(m, c) /\ ResFrames(m, c) \in Seq(Frame) /\ Len(ResFrames(m, c)) = 5
      BY <1>4, <1>5, DealerMsgs, SentParts
    <2>2. Len(ResFrames(m, c)) <= Len(dq[b]) /\ \A j \in 1..Len(ResFrames(m, c)) : dq[b][j] = ResFrames(m, c)[j]
      BY <1>2, <1>3, <2>1, HoldsFirst
    <2>3. /\ dq[b][2] = ResFrames(m, c)[2] /\ dq[b][3] = ResFrames(m, c)[3]
          /\ dq[b][4] = ResFrames(m, c)[4] /\ dq[b][5] = ResFrames(m, c)[5] /\ 5 <= Len(dq[b])
      BY <2>1, <2>2
    <2> QED
      BY <1>5, <2>3, SentParts
  <1>7. dq[b][2].v = c
    BY <1>6, FrameParts
  <1>8. <<Type("svc_res_interhub")>> \o SubSeq(dq[b], 3, 5) = HubRes(m)
    <2>1. Type("svc_res_interhub") \in Frame
      BY DEF Type, F, Frame, FrameKind, Payload
    <2>2. <<Type("svc_res_interhub")>> \o SubSeq(dq[b], 3, 5)
            = <<Type("svc_res_interhub"), dq[b][3], dq[b][4], dq[b][5]>>
      BY <1>2, <1>6, <2>1, LastThree
    <2> QED
      BY <1>6, <2>2 DEF HubRes
  <1>9. sq' = [sq EXCEPT ![c] = (sq[c] \o <<F("topic", c)>>) \o HubRes(m)]
    <2>1. Publish(c, HubRes(m))
      BY <1>7, <1>8 DEF RelayRes
    <2> QED
      BY <2>1 DEF Publish
  <1>10. (sq[c] \o <<F("topic", c)>>) \o HubRes(m) = sq[c] \o (<<F("topic", c)>> \o HubRes(m))
    <2>1. PICK t : t = <<F("topic", c)>>
      OBVIOUS
    <2>2. t \in Seq(Frame) /\ sq[c] \in Seq(Frame) /\ HubRes(m) \in Seq(Frame)
      <3>1. F("topic", c) \in Frame
        BY DEF F, Frame, FrameKind, Payload
      <3> QED
        BY <1>2, <1>5, <2>1, <3>1, HubbedParts
    <2> QED
      BY <2>1, <2>2, Regrouped
  <1>11. m \in Answered(c)
    BY <1>4 DEF Answered
  <1> QED
    BY <1>1, <1>3, <1>5, <1>9, <1>10, <1>11

LEMMA ToBrokerStep ==
    ASSUME Routed, NEW b \in Broker, RelayToBroker(b)
    PROVE  \E r \in Sort, m \in Request :
             /\ Holds(sq[b], 2, Hubbed(r, m)) /\ Home(r, m) \in ToBroker(b)
             /\ m \in Seen(r)
             /\ sq' = [sq EXCEPT ![b] = Drop(sq[b], 5)]
             /\ at' = [at EXCEPT ![b] = Append(at[b], Home(r, m))]
  <1>1. /\ 2 <= Len(sq[b])
        /\ sq[b][2] = Type("svc_req_interhub") \/ sq[b][2] = Type("svc_res_interhub")
        /\ sq' = [sq EXCEPT ![b] = Drop(sq[b], 5)]
        /\ at' = [at EXCEPT ![b] = Append(at[b], <<Type(AsAtHome(sq[b][2].v))>> \o SubSeq(sq[b], 3, 5))]
    BY DEF RelayToBroker, ForBroker
  <1>2. /\ sq[b] \in Seq(Frame) /\ asked \subseteq Request /\ answered \subseteq Request
        /\ Begins(sq[b], ToSub(b))
    BY DEF Routed, StateType, QueueType, MailInv
  <1>3. 2 \in 1..Len(sq[b])
    <2>1. Len(sq[b]) \in Nat
      BY <1>2, LenProperties
    <2> QED
      BY <1>1, <2>1
  <1>4. Type("svc_req") \in Frame /\ Type("svc_res") \in Frame
    BY DEF Type, F, Frame, FrameKind, Payload
  <1>5. Asked(b) \subseteq Request /\ Answered(b) \subseteq Request /\ Asked(b) \subseteq asked /\ Answered(b) \subseteq answered
    BY <1>2 DEF Asked, Answered
  <1>6. CASE sq[b][2] = Type("svc_req_interhub")
    <2>1. PICK m \in Asked(b) : Holds(sq[b], 2, Hubbed("req", m))
      BY <1>2, <1>3, <1>6, SubAt
    <2>2. m \in Request
      BY <1>5
    <2>3. Hubbed("req", m) = HubReq(m) /\ HubReq(m) \in Seq(Frame) /\ Len(HubReq(m)) = 4
      BY <2>2, SubMsgs, HubbedParts
    <2>4. 1 + Len(HubReq(m)) <= Len(sq[b]) /\ \A j \in 1..Len(HubReq(m)) : sq[b][1 + j] = HubReq(m)[j]
      BY <1>2, <2>1, <2>3, HoldsFirst
    <2>5. 5 <= Len(sq[b]) /\ sq[b][1 + 2] = HubReq(m)[2] /\ sq[b][1 + 3] = HubReq(m)[3] /\ sq[b][1 + 4] = HubReq(m)[4]
      BY <2>3, <2>4
    <2>6. sq[b][3] = F("svc", DstOf[m]) /\ sq[b][4] = F("tag", SrcOf[m]) /\ sq[b][5] = F("body", m)
      BY <2>2, <2>5, HubbedParts
    <2>7. AsAtHome(sq[b][2].v) = "svc_req"
      BY <1>6, TypeParts DEF AsAtHome
    <2>8. <<Type("svc_req")>> \o SubSeq(sq[b], 3, 5) = <<Type("svc_req"), sq[b][3], sq[b][4], sq[b][5]>>
      BY <1>2, <1>4, <2>5, LastThree
    <2>9. <<Type("svc_req")>> \o SubSeq(sq[b], 3, 5) = Home("req", m)
      BY <2>6, <2>8 DEF Home, HomeReq
    <2>10. Home("req", m) \in ToBroker(b)
      BY DEF ToBroker
    <2> QED
      BY <1>1, <1>5, <2>1, <2>2, <2>7, <2>9, <2>10 DEF Sort, Seen
  <1>7. CASE sq[b][2] = Type("svc_res_interhub")
    <2>1. PICK m \in Answered(b) : Holds(sq[b], 2, Hubbed("res", m))
      BY <1>2, <1>3, <1>7, SubAt
    <2>2. m \in Request
      BY <1>5
    <2>3. Hubbed("res", m) = HubRes(m) /\ HubRes(m) \in Seq(Frame) /\ Len(HubRes(m)) = 4
      BY <2>2, SubMsgs, HubbedParts
    <2>4. 1 + Len(HubRes(m)) <= Len(sq[b]) /\ \A j \in 1..Len(HubRes(m)) : sq[b][1 + j] = HubRes(m)[j]
      BY <1>2, <2>1, <2>3, HoldsFirst
    <2>5. 5 <= Len(sq[b]) /\ sq[b][1 + 2] = HubRes(m)[2] /\ sq[b][1 + 3] = HubRes(m)[3] /\ sq[b][1 + 4] = HubRes(m)[4]
      BY <2>3, <2>4
    <2>6. sq[b][3] = F("svc", DstOf[m]) /\ sq[b][4] = F("name", m) /\ sq[b][5] = F("body", m)
      BY <2>2, <2>5, HubbedParts
    <2>7. AsAtHome(sq[b][2].v) = "svc_res"
      BY <1>7, TypeParts DEF AsAtHome
    <2>8. <<Type("svc_res")>> \o SubSeq(sq[b], 3, 5) = <<Type("svc_res"), sq[b][3], sq[b][4], sq[b][5]>>
      BY <1>2, <1>4, <2>5, LastThree
    <2>9. <<Type("svc_res")>> \o SubSeq(sq[b], 3, 5) = Home("res", m)
      BY <2>6, <2>8 DEF Home, HomeRes
    <2>10. Home("res", m) \in ToBroker(b)
      BY DEF ToBroker
    <2> QED
      BY <1>1, <1>5, <2>1, <2>2, <2>7, <2>9, <2>10 DEF Sort, Seen
  <1> QED
    BY <1>1, <1>6, <1>7

\* A tree with a registration noted, and its ages.
Noted(q, c, s)   == Added(Added(q, <<c>>), <<c, s>>)
Renewed(a, c, s) == [a EXCEPT ![<<c>>] = 0, ![<<c, s>>] = 0]

LEMMA ChkStep ==
    ASSUME Routed, NEW b \in Broker, ChkSmallTree(b)
    PROVE  \E c \in Broker, s \in Svc :
             /\ s \in Offers[c]
             /\ small' = [small EXCEPT ![b] = Noted(small[b], c, s)]
             /\ age' = [age EXCEPT ![b] = Renewed(age[b], c, s)]
             /\ sq' = [sq EXCEPT ![b] = Drop(sq[b], 2)]
  <1>1. /\ sq[b] # <<>> /\ sq[b][1] = Type("svc_reg")
        /\ small' = [small EXCEPT ![b] = Added(Added(small[b], <<sq[b][2].v[1]>>), sq[b][2].v)]
        /\ age' = [age EXCEPT ![b] = [age[b] EXCEPT ![<<sq[b][2].v[1]>>] = 0, ![sq[b][2].v] = 0]]
        /\ sq' = [sq EXCEPT ![b] = Drop(sq[b], 2)]
    BY DEF ChkSmallTree, ReadsTopic, Reads, IsReg, Is
  <1>2. /\ sq[b] \in Seq(Frame) /\ asked \subseteq Request /\ answered \subseteq Request
        /\ Begins(sq[b], ToSub(b))
    BY DEF Routed, StateType, QueueType, MailInv
  <1>3. 1 \in 1..Len(sq[b])
    <2>1. Len(sq[b]) \in Nat \ {0}
      BY <1>1, <1>2, EmptySeq
    <2> QED
      BY <2>1
  <1>4. PICK c \in Broker : \E s \in Offers[c] : Holds(sq[b], 1, RegFrames(c, s))
    BY <1>1, <1>2, <1>3, SubAt
  <1>5. PICK s \in Offers[c] : Holds(sq[b], 1, RegFrames(c, s))
    BY <1>4
  <1>6. s \in Svc
    BY RoutingAssumption
  <1>7. RegFrames(c, s) \in Seq(Frame) /\ Len(RegFrames(c, s)) = 2 /\ RegFrames(c, s)[2] = F("regi", <<c, s>>)
    BY <1>6, RegParts
  <1>8. sq[b][2] = F("regi", <<c, s>>)
    <2>1. \A j \in 1..Len(RegFrames(c, s)) : sq[b][j] = RegFrames(c, s)[j]
      BY <1>2, <1>5, <1>7, HoldsFirst
    <2> QED
      BY <1>7, <2>1
  <1>9. sq[b][2].v = <<c, s>> /\ sq[b][2].v[1] = c
    BY <1>8, FrameParts, NodeParts
  <1> QED
    BY <1>1, <1>6, <1>9 DEF Noted, Renewed

LEMMA AskedGrows ==
    ASSUME Routed, Next
    PROVE  asked \subseteq asked' /\ answered \subseteq answered' /\ asked' \subseteq Request /\ answered' \subseteq asked'
  <1>1. asked \subseteq Request /\ answered \subseteq asked
    BY DEF Routed, MailInv
  <1>2. ASSUME NEW m \in Request, Ask(m) PROVE asked' = asked \cup {m} /\ answered' = answered
    BY <1>2 DEF Ask
  <1>3. ASSUME NEW m \in Request, NEW b \in Broker, Answer(b, m)
        PROVE  asked' = asked /\ answered' = answered \cup {m} /\ m \in asked
    BY <1>3, AnswerStep DEF Answer
  <1>4. ASSUME NEW c \in Broker, NEW s \in Svc, Register(c, s) PROVE asked' = asked /\ answered' = answered
    BY <1>4 DEF Register
  <1>5. ASSUME NEW b \in Broker, InterhubCallback(b) PROVE asked' = asked /\ answered' = answered
    BY <1>5 DEF InterhubCallback, RelayReq, RelayReqNowhere, RelayRes, ReadLog, PassOver, ReadsType
  <1>6. ASSUME NEW b \in Broker, BrokerSubCallback(b) PROVE asked' = asked /\ answered' = answered
    BY <1>6 DEF BrokerSubCallback, ChkSmallTree, RelayToBroker, BrokerFull, PassOverTwo, ForBroker, ReadsTopic
  <1>7. ASSUME NEW b \in Broker, Return(b) \/ RemoveSmallTree(b) PROVE asked' = asked /\ answered' = answered
    BY <1>7 DEF Return, RemoveSmallTree
  <1>8. ASSUME Tick PROVE asked' = asked /\ answered' = answered
    BY <1>8 DEF Tick
  <1> QED
    BY <1>1, <1>2, <1>3, <1>4, <1>5, <1>6, <1>7, <1>8 DEF Next

\* What may happen to the queues of broker b's thread.
Fits(g, M)     == g \in Seq(Frame) /\ g # <<>> /\ Begins(g, M)
IsHead(f)      == f.k = "topic" \/ f = Type("svc_reg")
Idle(b, cb)    == running[b] # cb
DealerStep(b)  ==
    \/ dq'[b] = dq[b] /\ (Idle(b, "dealer")' => Idle(b, "dealer") \/ dq[b] = <<>>)
    \/ /\ \E g : Fits(g, ToDealer(b)') /\ g[1].k = "type" /\ dq'[b] = dq[b] \o g
       /\ Idle(b, "dealer")' => Idle(b, "dealer")
    \/ (\E n \in Nat : dq'[b] = Drop(dq[b], n)) /\ ~Idle(b, "dealer")'
SubStep(b)     ==
    \/ sq'[b] = sq[b] /\ (Idle(b, "sub")' => Idle(b, "sub") \/ sq[b] = <<>>)
    \/ /\ \E g : Fits(g, ToSub(b)') /\ IsHead(g[1]) /\ sq'[b] = sq[b] \o g
       /\ Idle(b, "sub")' => Idle(b, "sub")
    \/ (\E n \in Nat : sq'[b] = Drop(sq[b], n)) /\ ~Idle(b, "sub")'
QueueStep      == /\ dq' = [b \in Broker |-> dq'[b]] /\ sq' = [b \in Broker |-> sq'[b]]
                  /\ \A b \in Broker : DealerStep(b) /\ SubStep(b)


LEMMA BeginsItself ==
    ASSUME NEW g \in Seq(Frame), g # <<>>, \A j \in 2..Len(g) : g[j].k # "type", NEW M, g \in M
    PROVE  Fits(g, M) /\ \A j \in 1..Len(g) : g[j].k = "type" => j = 1
  <1>1. PICK n \in Nat \ {0} : n = Len(g)
    BY EmptySeq
  <1>2. ASSUME NEW j \in 1..n, g[j].k = "type" PROVE j = 1
    <2>1. j = 1 \/ j \in 2..n
      OBVIOUS
    <2> QED
      BY <1>1, <1>2, <2>1
  <1>3. Holds(g, 1, g)
    <2>1. \A i \in 1..n : (1 + i) - 1 = i
      OBVIOUS
    <2> QED
      BY <1>1, <2>1 DEF Holds
  <1> QED
    BY <1>1, <1>2, <1>3 DEF Fits, Begins

\* What a broker and the registration thread send.
LEMMA Asking ==
    ASSUME NEW m \in Request, NEW M, LogFrames(m) \in M, Sent("req", m) \in M,
           NEW g, g = LogFrames(m) \o ReqFrames(m)
    PROVE  /\ Fits(g, M) /\ g[1].k = "type"
           /\ \A j \in 1..Len(g) : g[j].k = "type" =>
                (j = 1 /\ Holds(g, j, LogFrames(m))) \/ (j = 3 /\ Holds(g, j, Sent("req", m)))
  <1>1. PICK u, v : u = LogFrames(m) /\ v = ReqFrames(m)
    OBVIOUS
  <1>2. SrcOf[m] \in Broker
    BY RoutingAssumption
  <1>3. u \in Seq(Frame) /\ Len(u) = 2 /\ v \in Seq(Frame) /\ Len(v) = 4
    BY <1>1, <1>2, SentParts
  <1>4. /\ g \in Seq(Frame) /\ Len(g) = 6
        /\ \A i \in 1..2 : g[i] = u[i]
        /\ \A i \in 1..4 : g[2 + i] = v[i]
    <2>1. /\ u \o v \in Seq(Frame) /\ Len(u \o v) = Len(u) + Len(v)
          /\ \A i \in 1..Len(u) : (u \o v)[i] = u[i]
          /\ \A i \in 1..Len(v) : (u \o v)[Len(u) + i] = v[i]
      <3>1. u \in Seq(Frame) /\ v \in Seq(Frame)
        BY <1>3
      <3> QED
        BY <3>1, Joined
    <2> QED
      BY <1>1, <1>3, <2>1
  <1>5. /\ g[1] = Type("svc_log") /\ g[2] = F("log", m) /\ g[3] = Type("svc_req")
        /\ g[4] = F("svc", DstOf[m]) /\ g[5] = F("tag", NULL) /\ g[6] = F("body", m)
    <2>1. g[1] = u[1] /\ g[2] = u[2]
      BY <1>4
    <2>2. g[2 + 1] = v[1] /\ g[2 + 2] = v[2] /\ g[2 + 3] = v[3] /\ g[2 + 4] = v[4]
      BY <1>4
    <2>3. 2 + 1 = 3 /\ 2 + 2 = 4 /\ 2 + 3 = 5 /\ 2 + 4 = 6
      OBVIOUS
    <2> QED
      BY <1>1, <1>2, <2>1, <2>2, <2>3, SentParts
  <1>6. Holds(g, 1, u)
    <2>1. \A i \in 1..2 : (1 + i) - 1 = i
      OBVIOUS
    <2> QED
      BY <1>3, <1>4, <2>1 DEF Holds
  <1>7. Holds(g, 3, v)
    <2>1. \A i \in 1..4 : (3 + i) - 1 = 2 + i
      OBVIOUS
    <2> QED
      BY <1>3, <1>4, <2>1 DEF Holds
  <1>8. ASSUME NEW j \in 1..Len(g), g[j].k = "type" PROVE j = 1 \/ j = 3
    <2>1. j \in {1, 2, 3, 4, 5, 6}
      BY <1>4
    <2> QED
      BY <1>5, <1>8, <2>1, FrameParts
  <1>9. u \in M /\ v \in M /\ v = Sent("req", m)
    BY <1>1, DealerMsgs
  <1>10. Begins(g, M)
    BY <1>6, <1>7, <1>8, <1>9 DEF Begins
  <1>11. g # <<>>
    <2>1. Len(<<>>) = 0
      OBVIOUS
    <2> QED
      BY <1>4, <2>1
  <1>12. Fits(g, M)
    BY <1>4, <1>10, <1>11 DEF Fits
  <1>13. g[1].k = "type"
    BY <1>5, TypeParts
  <1>14. \A j \in 1..Len(g) : g[j].k = "type" =>
           (j = 1 /\ Holds(g, j, LogFrames(m))) \/ (j = 3 /\ Holds(g, j, Sent("req", m)))
    <2>1. Holds(g, 1, LogFrames(m)) /\ Holds(g, 3, Sent("req", m))
      BY <1>1, <1>6, <1>7, <1>9
    <2> QED
      BY <1>8, <2>1
  <1> QED
    BY <1>12, <1>13, <1>14

LEMMA Answering ==
    ASSUME NEW m \in Request, NEW M, Sent("res", m) \in M, NEW g, g = Sent("res", m)
    PROVE  Fits(g, M) /\ g[1].k = "type" /\ \A j \in 1..Len(g) : g[j].k = "type" => j = 1
  <1>1. SrcOf[m] \in Broker
    BY RoutingAssumption
  <1>2. /\ g \in Seq(Frame) /\ Len(g) = 5 /\ g[1] = Type("svc_res_interhub")
        /\ g[2] = F("broker", SrcOf[m]) /\ g[3] = F("svc", DstOf[m]) /\ g[4] = F("name", m)
        /\ g[5] = F("body", m)
    BY <1>1, SentParts, DealerMsgs
  <1>3. \A j \in 2..Len(g) : g[j].k # "type"
    <2>1. Len(g) = 5
      BY <1>2
    <2>2. ASSUME NEW j \in 2..5 PROVE g[j].k # "type"
      <3>1. j \in {2, 3, 4, 5}
        OBVIOUS
      <3> QED
        BY <1>2, <3>1, FrameParts
    <2> QED
      BY <2>1, <2>2
  <1>4. g # <<>>
    <2>1. Len(<<>>) = 0
      OBVIOUS
    <2> QED
      BY <1>2, <2>1
  <1> QED
    BY <1>2, <1>3, <1>4, BeginsItself, TypeParts

LEMMA Registering ==
    ASSUME NEW c \in Broker, NEW s \in Svc, NEW M, RegFrames(c, s) \in M, NEW g, g = RegFrames(c, s)
    PROVE  Fits(g, M) /\ g[1] = Type("svc_reg") /\ \A j \in 1..Len(g) : g[j].k = "type" => j = 1
  <1>1. g \in Seq(Frame) /\ Len(g) = 2 /\ g[1] = Type("svc_reg") /\ g[2] = F("regi", <<c, s>>)
    BY RegParts
  <1>2. ASSUME NEW j \in 2..Len(g) PROVE g[j].k # "type"
    <2>1. j = 2
      BY <1>1
    <2> QED
      BY <1>1, <2>1, FrameParts
  <1>3. g # <<>>
    <2>1. Len(<<>>) = 0
      OBVIOUS
    <2> QED
      BY <1>1, <2>1
  <1> QED
    BY <1>1, <1>2, <1>3, BeginsItself

\* Messages of M, and f is the only one, behind a topic.
Published(g, M, f) ==
    /\ Fits(g, M) /\ g[1].k = "topic" /\ Len(g) = 5
    /\ \A j \in 1..Len(g) : g[j].k = "type" => j = 2 /\ Holds(g, j, f)

LEMMA Publishing ==
    ASSUME NEW c \in Broker, NEW m \in Request, NEW r \in Sort, NEW M, Hubbed(r, m) \in M,
           NEW g, g = <<F("topic", c)>> \o Hubbed(r, m)
    PROVE  Published(g, M, Hubbed(r, m))
  <1>1. PICK f : f = Hubbed(r, m)
    OBVIOUS
  <1>2. f \in Seq(Frame) /\ Len(f) = 4 /\ f[1].k = "type"
    <2>1. f = HubReq(m) \/ f = HubRes(m)
      BY <1>1 DEF Hubbed
    <2> QED
      BY <2>1, HubbedParts, TypeParts
  <1>3. \A j \in 2..4 : f[j].k # "type"
    <2> SUFFICES ASSUME NEW j \in 2..4 PROVE f[j].k # "type"
      OBVIOUS
    <2>1. j \in {2, 3, 4}
      OBVIOUS
    <2>2. f = HubReq(m) \/ f = HubRes(m)
      BY <1>1 DEF Hubbed
    <2> QED
      BY <2>1, <2>2, HubbedParts, FrameParts
  <1>4. ASSUME NEW j \in 1..Len(g)
        PROVE  /\ g \in Seq(Frame) /\ g[1].k = "topic" /\ Len(g) = 5
               /\ g[j].k = "type" => j = 2 /\ Holds(g, j, f)
    <2>1. g = <<F("topic", c)>> \o f
      BY <1>1
    <2> QED
      BY <1>2, <1>3, <2>1, PublishedWhole, Zenon
  <1>5. Len(g) = 5
    <2>1. Len(g) = 1 + Len(f)
      <3>1. F("topic", c) \in Frame
        BY DEF F, Frame, FrameKind, Payload
      <3>2. PICK a : a = F("topic", c)
        OBVIOUS
      <3>3. Headed(g, a, f)
        BY <1>1, <1>2, <3>1, <3>2, PutFirst
      <3> QED
        BY <3>3 DEF Headed
    <2> QED
      BY <1>2, <2>1
  <1>6. 1 \in 1..Len(g)
    BY <1>5
  <1>7. g # <<>>
    <2>1. Len(<<>>) = 0
      OBVIOUS
    <2> QED
      BY <1>5, <2>1
  <1>8. Begins(g, M)
    BY <1>1, <1>4 DEF Begins
  <1> QED
    BY <1>1, <1>4, <1>5, <1>6, <1>7, <1>8 DEF Fits, Published

\* One callback takes n frames off its queue.
LEMMA DealerReads ==
    ASSUME StateType, NEW b \in Broker, NEW n \in Nat, Reads(b, "dealer", dq[b]),
           dq' = [dq EXCEPT ![b] = Drop(dq[b], n)]
    PROVE  /\ dq' = [x \in Broker |-> dq'[x]]
           /\ \A x \in Broker : DealerStep(x) /\ (Idle(x, "sub")' => Idle(x, "sub"))
  <1>1. /\ running' = [running EXCEPT ![b] = "dealer"] /\ running[b] \in {"none", "dealer"}
        /\ running \in [Broker -> {"none", "dealer", "sub"}] /\ dq \in [Broker -> Seq(Frame)]
    BY DEF Reads, StateType, RunType, QueueType
  <1>2. DealerStep(b) /\ Idle(b, "sub")
    BY <1>1 DEF DealerStep, Idle
  <1>3. ASSUME NEW x \in Broker, x # b PROVE DealerStep(x) /\ (Idle(x, "sub")' => Idle(x, "sub"))
    BY <1>1, <1>3 DEF DealerStep, Idle
  <1> QED
    BY <1>1, <1>2, <1>3

LEMMA SubReads ==
    ASSUME StateType, NEW b \in Broker, NEW n \in Nat, Reads(b, "sub", sq[b]),
           sq' = [sq EXCEPT ![b] = Drop(sq[b], n)]
    PROVE  /\ sq' = [x \in Broker |-> sq'[x]]
           /\ \A x \in Broker : SubStep(x) /\ (Idle(x, "dealer")' => Idle(x, "dealer"))
  <1>1. /\ running' = [running EXCEPT ![b] = "sub"] /\ running[b] \in {"none", "sub"}
        /\ running \in [Broker -> {"none", "dealer", "sub"}] /\ sq \in [Broker -> Seq(Frame)]
    BY DEF Reads, StateType, RunType, QueueType
  <1>2. SubStep(b) /\ Idle(b, "dealer")
    BY <1>1 DEF SubStep, Idle
  <1>3. ASSUME NEW x \in Broker, x # b PROVE SubStep(x) /\ (Idle(x, "dealer")' => Idle(x, "dealer"))
    BY <1>1, <1>3 DEF SubStep, Idle
  <1> QED
    BY <1>1, <1>2, <1>3

\* A message comes to one queue.
LEMMA DealerGets ==
    ASSUME StateType, NEW b \in Broker, NEW g, Fits(g, ToDealer(b)'), g[1].k = "type",
           dq' = [dq EXCEPT ![b] = dq[b] \o g], UNCHANGED running
    PROVE  dq' = [x \in Broker |-> dq'[x]] /\ \A x \in Broker : DealerStep(x)
  <1>1. dq \in [Broker -> Seq(Frame)]
    BY DEF StateType, QueueType
  <1>2. DealerStep(b)
    BY <1>1 DEF DealerStep, Idle
  <1>3. ASSUME NEW x \in Broker, x # b PROVE DealerStep(x)
    BY <1>1, <1>3 DEF DealerStep, Idle
  <1> QED
    BY <1>1, <1>2, <1>3

LEMMA SubGets ==
    ASSUME StateType, NEW b \in Broker, NEW g, Fits(g, ToSub(b)'), IsHead(g[1]),
           sq' = [sq EXCEPT ![b] = sq[b] \o g],
           \A x \in Broker : Idle(x, "sub")' => Idle(x, "sub")
    PROVE  sq' = [x \in Broker |-> sq'[x]] /\ \A x \in Broker : SubStep(x)
  <1>1. sq \in [Broker -> Seq(Frame)]
    BY DEF StateType, QueueType
  <1>2. SubStep(b)
    BY <1>1 DEF SubStep
  <1>3. ASSUME NEW x \in Broker, x # b PROVE SubStep(x)
    BY <1>1, <1>3 DEF SubStep
  <1> QED
    BY <1>1, <1>2, <1>3

LEMMA StillQueues ==
    ASSUME StateType, \A x \in Broker : Idle(x, "dealer")' => Idle(x, "dealer") \/ dq[x] = <<>>,
           UNCHANGED dq
    PROVE  dq' = [x \in Broker |-> dq'[x]] /\ \A x \in Broker : DealerStep(x)
  BY DEF StateType, QueueType, DealerStep

LEMMA StillSubs ==
    ASSUME StateType, \A x \in Broker : Idle(x, "sub")' => Idle(x, "sub") \/ sq[x] = <<>>,
           UNCHANGED sq
    PROVE  sq' = [x \in Broker |-> sq'[x]] /\ \A x \in Broker : SubStep(x)
  BY DEF StateType, QueueType, SubStep

LEMMA QueueSteps ==
    ASSUME Routed, Next
    PROVE  QueueStep
  <1>1. StateType
    BY DEF Routed
  <1>2. /\ asked \subseteq asked' /\ answered \subseteq answered' /\ asked' \subseteq Request
        /\ answered' \subseteq asked'
    BY AskedGrows
  <1>3. running \in [Broker -> {"none", "dealer", "sub"}] /\ \A b \in Broker : dq[b] \in Seq(Frame)
    BY <1>1 DEF StateType, RunType, QueueType
  <1>4. ASSUME NEW m \in Request, Ask(m) PROVE QueueStep
    <2>1. PICK b, g : /\ b = SrcOf[m] /\ g = LogFrames(m) \o ReqFrames(m)
                      /\ b \in Broker /\ dq' = [dq EXCEPT ![b] = dq[b] \o g]
      BY <1>4, AskStep
    <2>2. UNCHANGED <<running, sq>> /\ m \in asked'
      BY <1>4 DEF Ask
    <2>3. LogFrames(m) \in ToDealer(b)' /\ Sent("req", m) \in ToDealer(b)'
      BY <2>1, <2>2 DEF ToDealer
    <2>4. Fits(g, ToDealer(b)') /\ g[1].k = "type"
      BY <2>1, <2>3, Asking
    <2>5. dq' = [x \in Broker |-> dq'[x]] /\ \A x \in Broker : DealerStep(x)
      BY <1>1, <2>1, <2>2, <2>4, DealerGets
    <2>6. sq' = [x \in Broker |-> sq'[x]] /\ \A x \in Broker : SubStep(x)
      BY <1>1, <2>2, StillSubs DEF Idle
    <2> QED
      BY <2>5, <2>6 DEF QueueStep
  <1>5. ASSUME NEW b \in Broker, NEW m \in Request, Answer(b, m) PROVE QueueStep
    <2>1. PICK g : g = Sent("res", m)
      OBVIOUS
    <2>2. dq' = [dq EXCEPT ![b] = dq[b] \o g]
      BY <1>5, <2>1, AnswerStep
    <2>3. UNCHANGED <<running, sq>> /\ m \in answered'
      BY <1>5 DEF Answer
    <2>4. Sent("res", m) \in ToDealer(b)'
      BY <2>3 DEF ToDealer
    <2>5. Fits(g, ToDealer(b)') /\ g[1].k = "type"
      BY <2>1, <2>4, Answering
    <2>6. dq' = [x \in Broker |-> dq'[x]] /\ \A x \in Broker : DealerStep(x)
      BY <1>1, <2>2, <2>3, <2>5, DealerGets
    <2>7. sq' = [x \in Broker |-> sq'[x]] /\ \A x \in Broker : SubStep(x)
      BY <1>1, <2>3, StillSubs DEF Idle
    <2> QED
      BY <2>6, <2>7 DEF QueueStep
  <1>6. ASSUME NEW c \in Broker, NEW s \in Svc, Register(c, s) PROVE QueueStep
    <2>1. PICK g : g = RegFrames(c, s)
      OBVIOUS
    <2>2. UNCHANGED <<running, dq>> /\ s \in Offers[c] /\ sq' = [b \in Broker |-> sq[b] \o g]
      BY <1>6, <2>1 DEF Register
    <2>3. ASSUME NEW b \in Broker PROVE SubStep(b)
      <3>1. g \in RegsOf(c)
        BY <2>1, <2>2 DEF RegsOf
      <3>2. g \in ToSub(b)'
        <4>1. g \in UNION {RegsOf(d) : d \in Broker}
          BY <3>1
        <4> QED
          BY <4>1 DEF ToSub
      <3>3. Fits(g, ToSub(b)') /\ IsHead(g[1])
        BY <2>1, <3>2, Registering DEF IsHead
      <3>4. sq'[b] = sq[b] \o g
        BY <2>2
      <3> QED
        BY <2>2, <3>3, <3>4 DEF SubStep, Idle
    <2>4. dq' = [x \in Broker |-> dq'[x]] /\ \A x \in Broker : DealerStep(x)
      BY <1>1, <2>2, StillQueues DEF Idle
    <2> QED
      BY <2>2, <2>3, <2>4 DEF QueueStep
  <1>7. ASSUME NEW b \in Broker, NEW n \in Nat, ReadsType(b), UNCHANGED sq,
               dq' = [dq EXCEPT ![b] = Drop(dq[b], n)]
        PROVE  QueueStep
    <2>1. Reads(b, "dealer", dq[b])
      BY <1>7 DEF ReadsType
    <2>2. /\ dq' = [x \in Broker |-> dq'[x]]
          /\ \A x \in Broker : DealerStep(x) /\ (Idle(x, "sub")' => Idle(x, "sub"))
      BY <1>1, <1>7, <2>1, DealerReads
    <2>3. sq' = [x \in Broker |-> sq'[x]] /\ \A x \in Broker : SubStep(x)
      BY <1>1, <1>7, <2>2, StillSubs
    <2> QED
      BY <2>2, <2>3 DEF QueueStep
  <1>8. ASSUME NEW b \in Broker, NEW n \in Nat, ReadsType(b), NEW c \in Broker, NEW m \in Request,
               NEW r \in Sort, Hubbed(r, m) \in ToSub(c)',
               sq' = [sq EXCEPT ![c] = sq[c] \o (<<F("topic", c)>> \o Hubbed(r, m))],
               dq' = [dq EXCEPT ![b] = Drop(dq[b], n)]
        PROVE  QueueStep
    <2>1. Reads(b, "dealer", dq[b])
      BY <1>8 DEF ReadsType
    <2>2. /\ dq' = [x \in Broker |-> dq'[x]]
          /\ \A x \in Broker : DealerStep(x) /\ (Idle(x, "sub")' => Idle(x, "sub"))
      BY <1>1, <1>8, <2>1, DealerReads
    <2>3. PICK g : g = <<F("topic", c)>> \o Hubbed(r, m)
      OBVIOUS
    <2>4. Fits(g, ToSub(c)') /\ IsHead(g[1])
      <3>1. PICK M : M = ToSub(c)'
        OBVIOUS
      <3>2. Published(g, M, Hubbed(r, m))
        BY <1>8, <2>3, <3>1, Publishing
      <3> QED
        BY <3>1, <3>2 DEF IsHead, Published
    <2>5. sq' = [x \in Broker |-> sq'[x]] /\ \A x \in Broker : SubStep(x)
      BY <1>1, <1>8, <2>2, <2>3, <2>4, SubGets
    <2> QED
      BY <2>2, <2>5 DEF QueueStep
  <1>9. ASSUME NEW b \in Broker, InterhubCallback(b) PROVE QueueStep
    <2>1. CASE RelayReq(b)
      <3>1. PICK m \in Request, c \in Broker :
             /\ m \in asked /\ m \in Asked(c) /\ Holds(dq[b], 1, Sent("req", m))
             /\ dq' = [dq EXCEPT ![b] = Drop(dq[b], 4)]
             /\ sq' = [sq EXCEPT ![c] = sq[c] \o (<<F("topic", c)>> \o HubReq(m))]
        BY <2>1, RelayReqStep
      <3>2. HubReq(m) = Hubbed("req", m) /\ ReadsType(b)
        BY <2>1, SubMsgs DEF RelayReq
      <3>3. Hubbed("req", m) \in ToSub(c)
        BY <3>1 DEF ToSub
      <3>4. Hubbed("req", m) \in ToSub(c)'
        BY <1>2, <3>3, MailGrows
      <3>5. "req" \in Sort /\ 4 \in Nat
        BY DEF Sort
      <3> QED
        BY <1>8, <3>1, <3>2, <3>4, <3>5
    <2>2. CASE RelayRes(b)
      <3>1. PICK m \in Request, c \in Broker :
             /\ m \in answered /\ m \in Answered(c) /\ Holds(dq[b], 1, Sent("res", m))
             /\ dq' = [dq EXCEPT ![b] = Drop(dq[b], 5)]
             /\ sq' = [sq EXCEPT ![c] = sq[c] \o (<<F("topic", c)>> \o HubRes(m))]
        BY <2>2, RelayResStep
      <3>2. HubRes(m) = Hubbed("res", m) /\ ReadsType(b)
        BY <2>2, SubMsgs DEF RelayRes
      <3>3. Hubbed("res", m) \in ToSub(c)
        BY <3>1 DEF ToSub
      <3>4. Hubbed("res", m) \in ToSub(c)'
        BY <1>2, <3>3, MailGrows
      <3>5. "res" \in Sort /\ 5 \in Nat
        BY DEF Sort
      <3> QED
        BY <1>8, <3>1, <3>2, <3>4, <3>5
    <2>3. CASE RelayReqNowhere(b)
      BY <1>7, <2>3 DEF RelayReqNowhere
    <2>4. CASE ReadLog(b)
      BY <1>7, <2>4 DEF ReadLog
    <2>5. CASE PassOver(b)
      BY <1>7, <2>5 DEF PassOver
    <2> QED
      BY <1>9, <2>1, <2>2, <2>3, <2>4, <2>5 DEF InterhubCallback
  <1>10. ASSUME NEW b \in Broker, BrokerSubCallback(b) PROVE QueueStep
    <2>1. UNCHANGED dq /\ Reads(b, "sub", sq[b])
      BY <1>10 DEF BrokerSubCallback, ChkSmallTree, RelayToBroker, BrokerFull, PassOverTwo, ForBroker, ReadsTopic
    <2>2. \E n \in Nat : sq' = [sq EXCEPT ![b] = Drop(sq[b], n)]
      BY <1>10 DEF BrokerSubCallback, ChkSmallTree, RelayToBroker, BrokerFull, PassOverTwo
    <2>3. /\ sq' = [x \in Broker |-> sq'[x]]
          /\ \A x \in Broker : SubStep(x) /\ (Idle(x, "dealer")' => Idle(x, "dealer"))
      BY <1>1, <2>1, <2>2, SubReads
    <2>4. dq' = [x \in Broker |-> dq'[x]] /\ \A x \in Broker : DealerStep(x)
      BY <1>1, <2>1, <2>3, StillQueues
    <2> QED
      BY <2>3, <2>4 DEF QueueStep
  <1>11. ASSUME UNCHANGED queues,
                \A x \in Broker : Idle(x, "dealer")' => Idle(x, "dealer") \/ dq[x] = <<>>,
                \A x \in Broker : Idle(x, "sub")' => Idle(x, "sub") \/ sq[x] = <<>>
         PROVE  QueueStep
    BY <1>1, <1>11, StillQueues, StillSubs DEF QueueStep, queues
  <1>12. ASSUME NEW b \in Broker, Return(b) PROVE QueueStep
    <2>1. /\ running' = [running EXCEPT ![b] = "none"] /\ UNCHANGED queues
          /\ running[b] = "dealer" => dq[b] = <<>>
          /\ running[b] = "sub" => sq[b] = <<>>
      BY <1>12 DEF Return
    <2> QED
      BY <1>3, <1>11, <2>1 DEF Idle
  <1>13. ASSUME UNCHANGED <<queues, running>> PROVE QueueStep
    BY <1>11, <1>13 DEF Idle
  <1>14. ASSUME NEW b \in Broker, RemoveSmallTree(b) PROVE QueueStep
    BY <1>13, <1>14 DEF RemoveSmallTree
  <1>15. ASSUME Tick PROVE QueueStep
    BY <1>13, <1>15 DEF Tick
  <1> QED
    BY <1>4, <1>5, <1>6, <1>9, <1>10, <1>12, <1>14, <1>15 DEF Next

LEMMA QueueMail ==
    ASSUME Routed, Next
    PROVE  QueueType' /\ \A b \in Broker : Begins(dq[b], ToDealer(b))' /\ Begins(sq[b], ToSub(b))'
  <1>1. QueueStep
    BY QueueSteps
  <1>2. /\ asked \subseteq asked' /\ answered \subseteq answered'
        /\ asked \subseteq Request /\ answered \subseteq Request
    BY AskedGrows DEF Routed, MailInv
  <1>3. asked' \subseteq Request /\ answered' \subseteq Request
    BY AskedGrows
  <1>4. ASSUME NEW b \in Broker
        PROVE  dq'[b] \in Seq(Frame) /\ Begins(dq'[b], ToDealer(b)')
    <2>1. dq[b] \in Seq(Frame) /\ Begins(dq[b], ToDealer(b))
      BY DEF Routed, StateType, QueueType, MailInv
    <2>2. PICK M, N : M = ToDealer(b) /\ N = ToDealer(b)'
      OBVIOUS
    <2>3. M \subseteq N
      BY <1>2, <2>2, MailGrows
    <2>4. Msgs(M)
      BY <1>2, <2>2, MailSets
    <2>5. Msgs(N)
      <3>1. \A f \in N : f \in DealerMsg
        BY <1>3, <2>2, DealerMsgs DEF ToDealer
      <3> QED
        BY <3>1, DealerMsgs DEF Msgs
    <2>6. Begins(dq[b], N)
      BY <2>1, <2>2, <2>3, BeginsMore
    <2>7. CASE dq'[b] = dq[b]
      BY <2>1, <2>2, <2>6, <2>7
    <2>8. CASE \E g : Fits(g, ToDealer(b)') /\ dq'[b] = dq[b] \o g
      <3>1. PICK g : g \in Seq(Frame) /\ Begins(g, N) /\ dq'[b] = dq[b] \o g
        BY <2>2, <2>8 DEF Fits
      <3>2. dq[b] \o g \in Seq(Frame)
        BY <2>1, <3>1, Joined
      <3>3. Begins(dq[b] \o g, N)
        BY <2>1, <2>5, <2>6, <3>1, BeginsJoined
      <3> QED
        BY <2>2, <3>1, <3>2, <3>3
    <2>9. CASE \E n \in Nat : dq'[b] = Drop(dq[b], n)
      BY <2>1, <2>2, <2>5, <2>6, <2>9, BeginsDropped
    <2> QED
      BY <1>1, <2>7, <2>8, <2>9 DEF QueueStep, DealerStep
  <1>5. ASSUME NEW b \in Broker
        PROVE  sq'[b] \in Seq(Frame) /\ Begins(sq'[b], ToSub(b)')
    <2>1. sq[b] \in Seq(Frame) /\ Begins(sq[b], ToSub(b))
      BY DEF Routed, StateType, QueueType, MailInv
    <2>2. PICK M, N : M = ToSub(b) /\ N = ToSub(b)'
      OBVIOUS
    <2>3. M \subseteq N
      BY <1>2, <2>2, MailGrows
    <2>4. Msgs(N)
      <3>1. ASSUME NEW f \in N PROVE f \in SubMsg
        <4>1. ASSUME NEW c \in Broker, NEW s \in Offers[c] PROVE RegFrames(c, s) \in SubMsg
          <5>1. s \in Svc
            BY RoutingAssumption
          <5> QED
            BY <5>1, SubMsgs
        <4>2. CASE f \in UNION {RegsOf(c) : c \in Broker}
          BY <4>1, <4>2 DEF RegsOf
        <4>3. CASE f \in {Hubbed("req", m) : m \in Asked(b)'}
          BY <1>3, <4>3, SubMsgs DEF Asked
        <4>4. CASE f \in {Hubbed("res", m) : m \in Answered(b)'}
          BY <1>3, <4>4, SubMsgs DEF Answered
        <4> QED
          BY <2>2, <4>2, <4>3, <4>4 DEF ToSub
      <3> QED
        BY <3>1, SubMsgs DEF Msgs
    <2>5. Begins(sq[b], N)
      BY <2>1, <2>2, <2>3, BeginsMore
    <2>6. CASE sq'[b] = sq[b]
      BY <2>1, <2>2, <2>5, <2>6
    <2>7. CASE \E g : Fits(g, ToSub(b)') /\ sq'[b] = sq[b] \o g
      <3>1. PICK g : g \in Seq(Frame) /\ Begins(g, N) /\ sq'[b] = sq[b] \o g
        BY <2>2, <2>7 DEF Fits
      <3>2. sq[b] \o g \in Seq(Frame)
        BY <2>1, <3>1, Joined
      <3>3. Begins(sq[b] \o g, N)
        BY <2>1, <2>4, <2>5, <3>1, BeginsJoined
      <3> QED
        BY <2>2, <3>1, <3>2, <3>3
    <2>8. CASE \E n \in Nat : sq'[b] = Drop(sq[b], n)
      BY <2>1, <2>2, <2>4, <2>5, <2>8, BeginsDropped
    <2> QED
      BY <1>1, <2>6, <2>7, <2>8 DEF QueueStep, SubStep
  <1>6. QueueType'
    BY <1>1, <1>4, <1>5 DEF QueueType, QueueStep
  <1> QED
    BY <1>4, <1>5, <1>6

LEMMA MailStep ==
    ASSUME Routed, Next
    PROVE  MailInv'
  <1>1. /\ asked \subseteq asked' /\ answered \subseteq answered'
        /\ asked' \subseteq Request /\ answered' \subseteq asked'
    BY AskedGrows
  <1>2. /\ at \in [Broker -> Seq(Seq(Frame))]
        /\ \A b \in Broker : \A i \in 1..Len(at[b]) : at[b][i] \in ToBroker(b)
        /\ asked \subseteq Request /\ answered \subseteq Request
    BY DEF Routed, MailInv
  <1>3. \A b \in Broker : ToBroker(b) \subseteq ToBroker(b)'
    BY <1>1, MailGrows
  <1> DEFINE Good == /\ at' \in [Broker -> Seq(Seq(Frame))]
                     /\ \A b \in Broker : \A i \in 1..Len(at'[b]) : at'[b][i] \in ToBroker(b)'
  <1>4. ASSUME UNCHANGED at PROVE Good
    BY <1>2, <1>3, <1>4
  <1>5. ASSUME NEW b \in Broker, RelayToBroker(b) PROVE Good
    <2>1. PICK r \in Sort, m \in Request :
            Home(r, m) \in ToBroker(b) /\ at' = [at EXCEPT ![b] = Append(at[b], Home(r, m))]
      BY <1>5, ToBrokerStep
    <2>2. PICK f : f = Home(r, m)
      OBVIOUS
    <2>3. f \in ToBroker(b) /\ f \in Seq(Frame)
      BY <1>2, <2>1, <2>2, MailSets
    <2>4. at[b] \in Seq(Seq(Frame))
      BY <1>2
    <2>5. /\ Append(at[b], f) \in Seq(Seq(Frame)) /\ Len(Append(at[b], f)) = Len(at[b]) + 1
          /\ \A i \in 1..Len(at[b]) : Append(at[b], f)[i] = at[b][i]
          /\ Append(at[b], f)[Len(at[b]) + 1] = f
      BY <2>3, <2>4, AppendProperties
    <2>6. PICK l \in Nat : l = Len(at[b])
      BY <2>4, LenProperties
    <2>7. \A i \in 1..(l + 1) : i \in 1..l \/ i = l + 1
      OBVIOUS
    <2>8. at'[b] = Append(at[b], f) /\ \A c \in Broker : c # b => at'[c] = at[c]
      BY <1>2, <2>1, <2>2
    <2>9. \A i \in 1..Len(at'[b]) : at'[b][i] \in ToBroker(b)
      BY <1>2, <2>3, <2>5, <2>6, <2>7, <2>8
    <2>10. at' \in [Broker -> Seq(Seq(Frame))]
      BY <1>2, <2>1, <2>2, <2>5
    <2>11. \A c \in Broker : \A i \in 1..Len(at'[c]) : at'[c][i] \in ToBroker(c)
      BY <1>2, <2>8, <2>9
    <2> QED
      BY <1>3, <2>10, <2>11
  <1>6. Good
    <2>1. ASSUME NEW m \in Request, Ask(m) \/ \E b \in Broker : Answer(b, m) PROVE UNCHANGED at
      BY <2>1 DEF Ask, Answer
    <2>2. ASSUME NEW c \in Broker, NEW s \in Svc, Register(c, s) PROVE UNCHANGED at
      BY <2>2 DEF Register
    <2>3. ASSUME NEW b \in Broker, InterhubCallback(b) PROVE UNCHANGED at
      BY <2>3 DEF InterhubCallback, RelayReq, RelayReqNowhere, RelayRes, ReadLog, PassOver, ReadsType
    <2>4. ASSUME NEW b \in Broker, BrokerSubCallback(b) PROVE UNCHANGED at \/ RelayToBroker(b)
      BY <2>4 DEF BrokerSubCallback, ChkSmallTree, BrokerFull, PassOverTwo
    <2>5. ASSUME NEW b \in Broker, Return(b) \/ RemoveSmallTree(b) PROVE UNCHANGED at
      BY <2>5 DEF Return, RemoveSmallTree
    <2>6. ASSUME Tick PROVE UNCHANGED at
      BY <2>6 DEF Tick
    <2> HIDE DEF Good
    <2> QED
      BY <1>4, <1>5, <2>1, <2>2, <2>3, <2>4, <2>5, <2>6 DEF Next
  <1> QED
    BY <1>1, <1>6, QueueMail DEF MailInv

LEMMA AlignStep ==
    ASSUME Routed, AlignInv, Next
    PROVE  AlignInv'
  <1>1. QueueStep
    BY QueueSteps
  <1>2. \A b \in Broker : dq[b] \in Seq(Frame) /\ sq[b] \in Seq(Frame)
    BY DEF Routed, StateType, QueueType
  <1>3. ASSUME NEW q \in Seq(Frame), NEW g \in Seq(Frame), g # <<>>
        PROVE  (q \o g)[1] = IF q = <<>> THEN g[1] ELSE q[1]
    <2>1. CASE q = <<>>
      <3>1. q \o g = g
        BY <2>1, ConcatEmptySeq
      <3> QED
        BY <2>1, <3>1
    <2>2. CASE q # <<>>
      <3>1. 1 \in 1..Len(q)
        <4>1. Len(q) \in Nat \ {0}
          BY <2>2, EmptySeq
        <4> QED
          BY <4>1
      <3> QED
        BY <2>2, <3>1, Joined
    <2> QED
      BY <2>1, <2>2
  <1>4. ASSUME NEW b \in Broker, Idle(b, "dealer")', dq'[b] # <<>> PROVE dq'[b][1].k = "type"
    <2>1. Idle(b, "dealer") /\ dq[b] # <<>> => dq[b][1].k = "type"
      BY DEF AlignInv, Idle
    <2>2. CASE dq'[b] = dq[b] /\ (Idle(b, "dealer") \/ dq[b] = <<>>)
      BY <1>4, <2>1, <2>2
    <2>3. CASE Idle(b, "dealer") /\ \E g : Fits(g, ToDealer(b)') /\ g[1].k = "type" /\ dq'[b] = dq[b] \o g
      <3>1. PICK g : Fits(g, ToDealer(b)') /\ g[1].k = "type" /\ dq'[b] = dq[b] \o g
        BY <2>3
      <3>2. g \in Seq(Frame) /\ g # <<>>
        BY <3>1 DEF Fits
      <3>3. dq'[b][1] = IF dq[b] = <<>> THEN g[1] ELSE dq[b][1]
        BY <1>2, <1>3, <3>1, <3>2
      <3> QED
        BY <2>1, <2>3, <3>1, <3>3
    <2> QED
      BY <1>1, <1>4, <2>2, <2>3 DEF QueueStep, DealerStep
  <1>5. ASSUME NEW b \in Broker, Idle(b, "sub")', sq'[b] # <<>> PROVE IsHead(sq'[b][1])
    <2>1. Idle(b, "sub") /\ sq[b] # <<>> => IsHead(sq[b][1])
      BY DEF AlignInv, Idle, IsHead
    <2>2. CASE sq'[b] = sq[b] /\ (Idle(b, "sub") \/ sq[b] = <<>>)
      BY <1>5, <2>1, <2>2
    <2>3. CASE Idle(b, "sub") /\ \E g : Fits(g, ToSub(b)') /\ IsHead(g[1]) /\ sq'[b] = sq[b] \o g
      <3>1. PICK g : Fits(g, ToSub(b)') /\ IsHead(g[1]) /\ sq'[b] = sq[b] \o g
        BY <2>3
      <3>2. g \in Seq(Frame) /\ g # <<>>
        BY <3>1 DEF Fits
      <3>3. sq'[b][1] = IF sq[b] = <<>> THEN g[1] ELSE sq[b][1]
        BY <1>2, <1>3, <3>1, <3>2
      <3> QED
        BY <2>1, <2>3, <3>1, <3>3
    <2> QED
      BY <1>1, <1>5, <2>2, <2>3 DEF QueueStep, SubStep
  <1> QED
    BY <1>4, <1>5 DEF AlignInv, Idle, IsHead

-----------------------------------------------------------------------------
(* Callbacks and small trees.                                              *)

LEMMA WipeType ==
    ASSUME NEW d \in SUBSET {"short", "long"}, NEW f \in Frame
    PROVE  Wipe(d, f) \in SUBSET {"short", "long"}
  <1>1. f.k \in FrameKind
    BY DEF Frame
  <1> QED
    BY <1>1 DEF Wipe, FrameKind

LEMMA ReadsRun ==
    ASSUME RunType, NEW b \in Broker, NEW q \in Seq(Frame), NEW cb \in {"dealer", "sub"}, Reads(b, cb, q)
    PROVE  RunType'
  <1>1. q[1] \in Frame
    <2>1. q # <<>>
      BY DEF Reads
    <2>2. 1 \in 1..Len(q)
      <3>1. Len(q) \in Nat \ {0}
        BY <2>1, EmptySeq
      <3> QED
        BY <3>1
    <2> QED
      BY <2>2, ElementOfSeq
  <1>2. Wipe(dirty[b], q[1]) \in SUBSET {"short", "long"}
    BY <1>1, WipeType DEF RunType
  <1> QED
    BY <1>2 DEF Reads, RunType

LEMMA RunStep ==
    ASSUME Routed, Next
    PROVE  RunType'
  <1>1. RunType /\ \A b \in Broker : dq[b] \in Seq(Frame) /\ sq[b] \in Seq(Frame)
    BY DEF Routed, StateType, QueueType
  <1>2. ASSUME UNCHANGED <<running, dirty>> PROVE RunType'
    BY <1>1, <1>2 DEF RunType
  <1>3. ASSUME NEW m \in Request, Ask(m) \/ \E b \in Broker : Answer(b, m) PROVE RunType'
    BY <1>2, <1>3 DEF Ask, Answer
  <1>4. ASSUME NEW c \in Broker, NEW s \in Svc, Register(c, s) PROVE RunType'
    BY <1>2, <1>4 DEF Register
  <1>5. ASSUME NEW b \in Broker, InterhubCallback(b) PROVE RunType'
    <2>1. Reads(b, "dealer", dq[b])
      BY <1>5 DEF InterhubCallback, RelayReq, RelayReqNowhere, RelayRes, ReadLog, PassOver, ReadsType
    <2> QED
      BY <1>1, <2>1, ReadsRun
  <1>6. ASSUME NEW b \in Broker, BrokerSubCallback(b) PROVE RunType'
    <2>1. Reads(b, "sub", sq[b])
      BY <1>6 DEF BrokerSubCallback, ChkSmallTree, RelayToBroker, BrokerFull, PassOverTwo, ForBroker, ReadsTopic
    <2> QED
      BY <1>1, <2>1, ReadsRun
  <1>7. ASSUME NEW b \in Broker, Return(b) PROVE RunType'
    BY <1>1, <1>7 DEF Return, RunType
  <1>8. ASSUME NEW b \in Broker, RemoveSmallTree(b) PROVE RunType'
    BY <1>2, <1>8 DEF RemoveSmallTree
  <1>9. ASSUME Tick PROVE RunType'
    BY <1>2, <1>9 DEF Tick
  <1> QED
    BY <1>3, <1>4, <1>5, <1>6, <1>7, <1>8, <1>9 DEF Next

LEMMA MaxAgeType == MaxAge \in Nat /\ TMCHK_BROKER_SVC + Cardinality(Broker) \in 0..MaxAge /\ Cardinality(Broker) \in Nat
  <1>1. Cardinality(Broker) \in Nat
    BY RoutingAssumption, FS_CardinalityType
  <1>2. PICK n \in Nat : n = Cardinality(Broker)
    BY <1>1
  <1> QED
    BY <1>2, RoutingAssumption DEF MaxAge

\* The trees only change when a thread notes a registration, removes a node or
\* a second passes.
LEMMA TreeCases ==
    ASSUME Next
    PROVE  \/ UNCHANGED trees
           \/ \E b \in Broker : ChkSmallTree(b) \/ RemoveSmallTree(b)
           \/ Tick
  <1>1. ASSUME NEW m \in Request, Ask(m) \/ \E b \in Broker : Answer(b, m) PROVE UNCHANGED trees
    BY <1>1 DEF Ask, Answer
  <1>2. ASSUME NEW c \in Broker, NEW s \in Svc, Register(c, s) PROVE UNCHANGED trees
    BY <1>2 DEF Register
  <1>3. ASSUME NEW b \in Broker, InterhubCallback(b) PROVE UNCHANGED trees
    BY <1>3 DEF InterhubCallback, RelayReq, RelayReqNowhere, RelayRes, ReadLog, PassOver, ReadsType
  <1>4. ASSUME NEW b \in Broker, BrokerSubCallback(b) PROVE UNCHANGED trees \/ ChkSmallTree(b)
    BY <1>4 DEF BrokerSubCallback, RelayToBroker, BrokerFull, PassOverTwo, ForBroker, ReadsTopic, trees
  <1>5. ASSUME NEW b \in Broker, Return(b) PROVE UNCHANGED trees
    BY <1>5 DEF Return
  <1> QED
    BY <1>1, <1>2, <1>3, <1>4, <1>5 DEF Next

\* Noting a registration.
LEMMA NoteTree ==
    ASSUME NEW q \in Seq(Node), TreeOK(q), NEW c \in Broker, NEW s \in Offers[c],
           NEW p, p = Noted(q, c, s)
    PROVE  /\ p \in Seq(Node) /\ TreeOK(p) /\ In(p) = In(q) \cup {<<c>>, <<c, s>>}
           /\ \A d : <<d>> \in In(q) => Ahead(p, d) \subseteq Ahead(q, d)
  <1>1. s \in Svc
    BY RoutingAssumption
  <1>2. PICK x, y : x = <<c>> /\ y = <<c, s>>
    OBVIOUS
  <1>3. x \in Node /\ y \in Node /\ x = <<x[1]>> /\ x[1] = c /\ y[1] = c /\ y[2] = s
    BY <1>1, <1>2, NodeParts
  <1>4. PICK r : r = Added(q, x)
    OBVIOUS
  <1>5. /\ r \in Seq(Node) /\ TreeOK(r) /\ In(r) = In(q) \cup {x}
        /\ \A d : <<d>> \in In(q) => Ahead(r, d) \subseteq Ahead(q, d)
    BY <1>3, <1>4, AddedTree
  <1>6. y[2] \in Offers[y[1]] /\ <<y[1]>> \in In(r)
    BY <1>2, <1>3, <1>5
  <1>7. p = Added(r, y)
    BY <1>2, <1>4 DEF Noted
  <1>8. /\ p \in Seq(Node) /\ TreeOK(p) /\ In(p) = In(r) \cup {y}
        /\ \A d : <<d>> \in In(r) => Ahead(p, d) \subseteq Ahead(r, d)
    <2>1. y \in Node /\ r \in Seq(Node) /\ TreeOK(r)
      BY <1>3, <1>5
    <2>2. Added(r, y) \in Seq(Node) /\ TreeOK(Added(r, y)) /\ In(Added(r, y)) = In(r) \cup {y}
      BY <1>6, <2>1, AddedTree
    <2>3. \A d : <<d>> \in In(r) => Ahead(Added(r, y), d) \subseteq Ahead(r, d)
      BY <1>6, <2>1, AddedTree
    <2> QED
      BY <1>7, <2>2, <2>3
  <1>9. \A d : <<d>> \in In(q) => Ahead(p, d) \subseteq Ahead(q, d)
    BY <1>5, <1>8
  <1> QED
    BY <1>2, <1>5, <1>8, <1>9

LEMMA RemoveStep ==
    ASSUME Routed, NEW b \in Broker, RemoveSmallTree(b)
    PROVE  \E f \in 1..Len(small[b]) :
             /\ f = FirstIn(b, Old(b)) /\ small[b][f] \in Old(b)
             /\ \A j \in 1..(f - 1) : small[b][j] \notin Old(b)
             /\ small' = [small EXCEPT ![b] = Cut(small[b], f, LastBelow(small[b], f))]
             /\ age' = [age EXCEPT ![b] = [x \in Node |-> IF x \in Nodes(b) \ Nodes(b)' THEN 0 ELSE age[b][x]]]
             /\ b \notin swept /\ swept' = swept \cup {b}
  <1>1. small[b] \in Seq(Node)
    BY DEF Routed, StateType, TreeType
  <1>2. Old(b) \cap Nodes(b) # {}
    BY DEF RemoveSmallTree, Old
  <1>3. PICK f : f = FirstIn(b, Old(b))
    OBVIOUS
  <1>4. /\ f \in 1..Len(small[b]) /\ small[b][f] \in Old(b)
        /\ \A j \in 1..(f - 1) : small[b][j] \notin Old(b)
    BY <1>1, <1>2, <1>3, FirstValue
  <1>5. small' = [small EXCEPT ![b] = Cut(small[b], f, LastBelow(small[b], f))]
    BY <1>3 DEF RemoveSmallTree, Cut
  <1>6. age' = [age EXCEPT ![b] = [x \in Node |-> IF x \in Nodes(b) \ Nodes(b)' THEN 0 ELSE age[b][x]]]
    BY DEF RemoveSmallTree
  <1> QED
    BY <1>3, <1>4, <1>5, <1>6 DEF RemoveSmallTree

LEMMA TreeStep ==
    ASSUME Routed, Next
    PROVE  TreeType' /\ TreeInv'
  <1>1. /\ small \in [Broker -> Seq(Node)] /\ age \in [Broker -> [Node -> 0..MaxAge]]
        /\ swept \subseteq Broker /\ \A b \in Broker : TreeOK(small[b])
    BY DEF Routed, StateType, TreeType, TreeInv
  <1>2. MaxAge \in Nat
    BY MaxAgeType
  <1>3. CASE UNCHANGED trees
    <2>1. small' = small /\ age' = age /\ swept' = swept
      BY <1>3 DEF trees
    <2>2. \A b \in Broker : TreeOK(small'[b])
      BY <1>1, <2>1
    <2> QED
      BY <1>1, <2>1, <2>2 DEF TreeType, TreeInv
  <1>4. ASSUME NEW b \in Broker, NEW p \in Seq(Node), TreeOK(p), small' = [small EXCEPT ![b] = p]
        PROVE  small' \in [Broker -> Seq(Node)] /\ TreeInv'
    <2>1. \A c \in Broker : small'[c] = IF c = b THEN p ELSE small[c]
      BY <1>1, <1>4
    <2>2. \A c \in Broker : TreeOK(small'[c])
      BY <1>1, <1>4, <2>1
    <2> QED
      BY <1>1, <1>4, <2>2 DEF TreeInv
  <1>5. ASSUME NEW b \in Broker, ChkSmallTree(b) PROVE TreeType' /\ TreeInv'
    <2>1. PICK c \in Broker, s \in Svc :
             /\ s \in Offers[c]
             /\ small' = [small EXCEPT ![b] = Noted(small[b], c, s)]
             /\ age' = [age EXCEPT ![b] = Renewed(age[b], c, s)]
      BY <1>5, ChkStep
    <2>3. PICK p : p = Noted(small[b], c, s)
      OBVIOUS
    <2>4. p \in Seq(Node) /\ TreeOK(p)
      BY <1>1, <2>1, <2>3, NoteTree
    <2>5. small' \in [Broker -> Seq(Node)] /\ TreeInv'
      BY <1>4, <2>1, <2>3, <2>4
    <2>6. age' \in [Broker -> [Node -> 0..MaxAge]]
      <3>1. 0 \in 0..MaxAge
        BY <1>2
      <3> QED
        BY <1>1, <2>1, <3>1 DEF Renewed
    <2>7. swept' = swept
      BY <1>5 DEF ChkSmallTree, ReadsTopic
    <2> QED
      BY <1>1, <2>5, <2>6, <2>7 DEF TreeType
  <1>6. ASSUME NEW b \in Broker, RemoveSmallTree(b) PROVE TreeType' /\ TreeInv'
    <2>1. PICK f \in 1..Len(small[b]) :
             /\ small' = [small EXCEPT ![b] = Cut(small[b], f, LastBelow(small[b], f))]
             /\ age' = [age EXCEPT ![b] = [x \in Node |-> IF x \in Nodes(b) \ Nodes(b)' THEN 0 ELSE age[b][x]]]
             /\ swept' = swept \cup {b}
      BY <1>6, RemoveStep
    <2>2. PICK p : p = Cut(small[b], f, LastBelow(small[b], f))
      OBVIOUS
    <2>3. p \in Seq(Node) /\ TreeOK(p)
      BY <1>1, <2>2, CutTree
    <2>4. small' \in [Broker -> Seq(Node)] /\ TreeInv'
      BY <1>4, <2>1, <2>2, <2>3
    <2>5. age' \in [Broker -> [Node -> 0..MaxAge]]
      <3>1. 0 \in 0..MaxAge
        BY <1>2
      <3>2. [x \in Node |-> IF x \in Nodes(b) \ Nodes(b)' THEN 0 ELSE age[b][x]] \in [Node -> 0..MaxAge]
        BY <1>1, <3>1
      <3> QED
        BY <1>1, <2>1, <3>2
    <2> QED
      BY <1>1, <2>1, <2>4, <2>5 DEF TreeType
  <1>7. ASSUME Tick PROVE TreeType' /\ TreeInv'
    <2>1. small' = small /\ swept' = {}
      BY <1>7 DEF Tick
    <2>2. TreeInv'
      <3>1. \A b \in Broker : TreeOK(small'[b])
        BY <1>1, <2>1
      <3> QED
        BY <3>1 DEF TreeInv
    <2>3. age' \in [Broker -> [Node -> 0..MaxAge]]
      <3>1. \A b \in Broker : \A x \in Node :
              (IF x \in Nodes(b) /\ age[b][x] < MaxAge THEN age[b][x] + 1 ELSE age[b][x]) \in 0..MaxAge
        <4> TAKE b \in Broker
        <4> TAKE x \in Node
        <4>1. age[b][x] \in 0..MaxAge
          BY <1>1
        <4> QED
          BY <1>2, <4>1
      <3>2. age' = [b \in Broker |-> [x \in Node |->
                      IF x \in Nodes(b) /\ age[b][x] < MaxAge THEN age[b][x] + 1 ELSE age[b][x]]]
        BY <1>7 DEF Tick
      <3> QED
        BY <3>1, <3>2
    <2> QED
      BY <1>1, <2>1, <2>2, <2>3 DEF TreeType
  <1> QED
    BY <1>3, <1>5, <1>6, <1>7, TreeCases

-----------------------------------------------------------------------------
(* Ages.                                                                   *)

LEMMA Fewer ==
    ASSUME NEW U \in SUBSET Broker, NEW S \in SUBSET U
    PROVE  /\ Cardinality(S) \in Nat /\ Cardinality(U) \in Nat /\ Cardinality(S) <= Cardinality(U)
           /\ \A e \in U \ S : Cardinality(S) + 1 <= Cardinality(U)
  <1>1. IsFiniteSet(U)
    BY RoutingAssumption, FS_Subset
  <1>2. IsFiniteSet(S) /\ Cardinality(S) <= Cardinality(U)
    BY <1>1, FS_Subset
  <1>3. Cardinality(S) \in Nat /\ Cardinality(U) \in Nat
    BY <1>1, <1>2, FS_CardinalityType
  <1>4. ASSUME NEW e \in U \ S PROVE Cardinality(S) + 1 <= Cardinality(U)
    <2>1. IsFiniteSet(U \ {e}) /\ Cardinality(U \ {e}) = Cardinality(U) - 1
      BY <1>1, FS_RemoveElement
    <2>2. S \in SUBSET (U \ {e})
      OBVIOUS
    <2>3. Cardinality(S) <= Cardinality(U \ {e})
      BY <2>1, <2>2, FS_Subset
    <2> QED
      BY <1>3, <2>1, <2>3
  <1> QED
    BY <1>2, <1>3, <1>4

LEMMA AheadLess ==
    ASSUME NEW q \in Seq(Node), TreeOK(q), NEW c \in Broker
    PROVE  /\ Ahead(q, c) \in SUBSET Broker /\ Cardinality(Ahead(q, c)) \in Nat
           /\ Cardinality(Ahead(q, c)) + 1 <= Cardinality(Broker)
  <1>1. Ahead(q, c) \in SUBSET Broker
    BY DEF Ahead
  <1>2. PICK n \in Nat : n = Len(q)
    BY LenProperties
  <1>3. c \notin Ahead(q, c)
    <2> SUFFICES ASSUME NEW i \in 1..n, NEW j \in 1..n, i < j, q[i] = <<c>>, q[j] = <<c>> PROVE FALSE
      BY <1>2 DEF Ahead
    <2>1. i = j
      BY <1>2 DEF TreeOK, Distinct
    <2> QED
      BY <2>1
  <1> QED
    BY <1>1, <1>3, Fewer

\* A broker's node comes first, and below it is at most its one service.
LEMMA NodesOf ==
    ASSUME OneEach, NEW q \in Seq(Node), TreeOK(q), NEW x \in In(q)
    PROVE  /\ x \in Node /\ x[1] \in Broker /\ <<x[1]>> \in In(q)
           /\ \A c \in Broker : \A s \in Offers[c] : x[1] = c => x = <<c>> \/ x = <<c, s>>
  <1>1. PICK i \in 1..Len(q) : x = q[i]
    BY DEF In
  <1>2. x \in Node
    BY <1>1, ElementOfSeq
  <1>3. x[1] \in Broker
    BY <1>2, NodeParts
  <1>4. <<x[1]>> \in In(q)
    <2>1. PICK n \in Nat : n = Len(q)
      BY LenProperties
    <2>2. PICK j \in 1..i : q[j] = <<x[1]>>
      BY <1>1 DEF TreeOK, Rooted
    <2>3. j \in 1..n
      BY <1>1, <2>1
    <2> QED
      BY <2>1, <2>2, <2>3 DEF In
  <1>5. ASSUME NEW c \in Broker, NEW s \in Offers[c], x[1] = c PROVE x = <<c>> \/ x = <<c, s>>
    <2>1. CASE x = <<x[1]>>
      BY <1>5, <2>1
    <2>2. CASE x # <<x[1]>>
      <3>1. x[2] \in Offers[c]
        BY <1>1, <1>5, <2>2 DEF TreeOK, Offered
      <3>2. x[2] = s
        BY <3>1 DEF OneEach
      <3>3. x = <<x[1], x[2]>>
        BY <1>2, <2>2, NodeParts
      <3> QED
        BY <1>5, <3>2, <3>3
    <2> QED
      BY <2>1, <2>2
  <1> QED
    BY <1>2, <1>3, <1>4, <1>5

\* The ages of b's tree q, the nodes with age a, and whether b has removed one.
Aged(q, a, w) == \A x \in In(q) :
    /\ a[x] = a[<<x[1]>>]
    /\ a[x] > TMCHK_BROKER_SVC =>
         a[x] + Cardinality(Ahead(q, x[1])) + w <= TMCHK_BROKER_SVC + Cardinality(Broker)
Once(b) == IF b \in swept THEN 1 ELSE 0

LEMMA AgedTrees == AgeInv <=> \A b \in Broker : Aged(small[b], age[b], Once(b))
  BY DEF AgeInv, Aged, Once, Nodes, In

LEMMA NoteAge ==
    ASSUME OneEach, NEW q \in Seq(Node), TreeOK(q), NEW c \in Broker, NEW s \in Offers[c],
           NEW a \in [Node -> 0..MaxAge], NEW w \in 0..1, Aged(q, a, w),
           NEW p, p = Noted(q, c, s), NEW d, d = Renewed(a, c, s)
    PROVE  Aged(p, d, w)
  <1>1. PICK T, C : T = TMCHK_BROKER_SVC /\ C = Cardinality(Broker)
    OBVIOUS
  <1>2. T \in Nat /\ C \in Nat /\ MaxAge \in Nat
    BY <1>1, MaxAgeType, RoutingAssumption
  <1>3. s \in Svc
    BY RoutingAssumption
  <1>4. PICK u, v : u = <<c>> /\ v = <<c, s>>
    OBVIOUS
  <1>5. u \in Node /\ v \in Node /\ u # v /\ u[1] = c /\ v[1] = c
    BY <1>3, <1>4, NodeParts
  <1>6. /\ p \in Seq(Node) /\ TreeOK(p) /\ In(p) = In(q) \cup {u, v}
        /\ \A e : <<e>> \in In(q) => Ahead(p, e) \subseteq Ahead(q, e)
    BY <1>4, NoteTree
  <1>7. \A x \in Node : d[x] = IF x = u \/ x = v THEN 0 ELSE a[x]
    BY <1>4, <1>5 DEF Renewed
  <1>8. ASSUME NEW x \in In(p)
        PROVE  d[x] = d[<<x[1]>>]
               /\ (d[x] > T => d[x] + Cardinality(Ahead(p, x[1])) + w <= T + C)
    <2>1. CASE x = u \/ x = v
      <3>1. <<x[1]>> = u
        BY <1>4, <1>5, <2>1
      <3>2. d[x] = 0 /\ d[u] = 0
        BY <1>5, <1>7, <2>1
      <3>3. ~(0 > T)
        BY <1>2
      <3> QED
        BY <3>1, <3>2, <3>3
    <2>2. CASE x # u /\ x # v
      <3>1. x \in In(q)
        BY <1>6, <2>2
      <3>2. x \in Node /\ x[1] \in Broker /\ <<x[1]>> \in In(q) /\ x[1] # c
        BY <1>4, <2>2, <3>1, NodesOf
      <3>3. <<x[1]>> \in Node /\ <<x[1]>> # u /\ <<x[1]>> # v
        BY <1>4, <3>2, NodeParts
      <3>4. d[x] = a[x] /\ d[<<x[1]>>] = a[<<x[1]>>]
        BY <1>7, <2>2, <3>2, <3>3
      <3>5. a[x] = a[<<x[1]>>] /\ (a[x] > T => a[x] + Cardinality(Ahead(q, x[1])) + w <= T + C)
        BY <1>1, <3>1 DEF Aged
      <3>6. PICK e : e = x[1]
        OBVIOUS
      <3>7. Ahead(p, e) \subseteq Ahead(q, e) /\ Ahead(q, e) \in SUBSET Broker
        BY <1>6, <3>2, <3>6, AheadLess
      <3>8. /\ Cardinality(Ahead(p, e)) \in Nat /\ Cardinality(Ahead(q, e)) \in Nat
            /\ Cardinality(Ahead(p, e)) <= Cardinality(Ahead(q, e))
        BY <3>7, Fewer
      <3>9. PICK g, h : g = Cardinality(Ahead(p, e)) /\ h = Cardinality(Ahead(q, e))
        OBVIOUS
      <3>10. a[x] \in 0..MaxAge /\ w \in 0..1
        BY <3>2
      <3>11. g \in Nat /\ h \in Nat /\ g <= h
        BY <3>8, <3>9
      <3>12. a[x] > T => a[x] + h + w <= T + C
        BY <3>5, <3>6, <3>9
      <3>13. a[x] > T => a[x] + g + w <= T + C
        BY <1>2, <3>10, <3>11, <3>12
      <3> QED
        BY <3>4, <3>5, <3>6, <3>9, <3>13
    <2> QED
      BY <2>1, <2>2
  <1> QED
    BY <1>1, <1>8 DEF Aged

\* The first old node is a broker's, so whoever is old behind it moves up.
LEMMA CutAge ==
    ASSUME OneEach, NEW q \in Seq(Node), TreeOK(q), NEW f \in 1..Len(q),
           NEW a \in [Node -> 0..MaxAge], Aged(q, a, 0), a[q[f]] > TMCHK_BROKER_SVC,
           \A j \in 1..(f - 1) : ~(a[q[j]] > TMCHK_BROKER_SVC),
           NEW p, p = Cut(q, f, LastBelow(q, f)),
           NEW d, \A x \in In(p) : d[x] = a[x]
    PROVE  Aged(p, d, 1)
  <1>1. PICK T, C : T = TMCHK_BROKER_SVC /\ C = Cardinality(Broker)
    OBVIOUS
  <1>2. T \in Nat /\ C \in Nat /\ MaxAge \in Nat
    BY <1>1, MaxAgeType, RoutingAssumption
  <1>3. PICK n \in Nat : n = Len(q)
    BY LenProperties
  <1>4. f \in 1..n /\ \A j \in 1..n : q[j] \in In(q)
    BY <1>3 DEF In
  <1>5. q[f] = <<q[f][1]>>
    <2>1. PICK j \in 1..f : q[j] = <<q[f][1]>>
      BY DEF TreeOK, Rooted
    <2>2. j \in 1..n
      BY <1>4
    <2>3. a[q[j]] > T
      BY <1>1, <1>4, <2>1 DEF Aged
    <2>4. j = f
      <3>1. j \notin 1..(f - 1)
        BY <1>1, <2>3
      <3> QED
        BY <1>4, <3>1
    <2> QED
      BY <2>1, <2>4
  <1>6. PICK e : e = q[f][1]
    OBVIOUS
  <1>7. p \in Seq(Node) /\ TreeOK(p) /\ In(p) \subseteq In(q)
    BY CutTree
  <1>8. \A c : Ahead(p, c) \subseteq Ahead(q, c)
    BY CutTree
  <1>9. \A x \in In(p) : x[1] # e
    BY <1>5, <1>6, CutTree
  <1>10. ASSUME NEW c, NEW i \in 1..Len(q), q[i] = <<c>>, f < i PROVE e \in Ahead(q, c) \ Ahead(p, c)
    <2>1. \A b, j : /\ q[f] = <<q[f][1]>> /\ j \in 1..Len(q) /\ q[j] = <<b>> /\ f < j
                   => q[f][1] \in Ahead(q, b) \ Ahead(p, b)
      BY CutTree
    <2> QED
      BY <1>5, <1>6, <1>10, <2>1, Zenon
  <1>11. ASSUME NEW x \in In(p)
         PROVE  d[x] = d[<<x[1]>>]
                /\ (d[x] > T => d[x] + Cardinality(Ahead(p, x[1])) + 1 <= T + C)
    <2>1. PICK c : c = x[1]
      OBVIOUS
    <2>2. x \in In(q) /\ x \in Node /\ c \in Broker /\ <<c>> \in In(p) /\ <<c>> \in In(q) /\ c # e
      BY <1>7, <1>9, <2>1, NodesOf
    <2>3. a[x] = a[<<c>>] /\ (a[x] > T => a[x] + Cardinality(Ahead(q, c)) + 0 <= T + C)
      BY <1>1, <2>1, <2>2 DEF Aged
    <2>4. d[x] = a[x] /\ d[<<c>>] = a[<<c>>]
      BY <2>2
    <2>5. ASSUME a[x] > T PROVE a[x] + Cardinality(Ahead(p, c)) + 1 <= T + C
      <3>1. PICK i \in 1..n : q[i] = <<c>>
        BY <1>3, <2>2 DEF In
      <3>2. i # f
        BY <1>6, <2>2, <3>1, NodeParts
      <3>3. i \notin 1..(f - 1)
        BY <1>1, <2>3, <2>5, <3>1
      <3>4. f < i
        BY <1>4, <3>2, <3>3
      <3>5. e \in Ahead(q, c) \ Ahead(p, c)
        BY <1>3, <1>10, <3>1, <3>4
      <3>6. Ahead(p, c) \subseteq Ahead(q, c) /\ Ahead(q, c) \in SUBSET Broker
        BY <1>8, <2>2, AheadLess
      <3>7. /\ Cardinality(Ahead(p, c)) \in Nat /\ Cardinality(Ahead(q, c)) \in Nat
            /\ Cardinality(Ahead(p, c)) + 1 <= Cardinality(Ahead(q, c))
        BY <3>5, <3>6, Fewer
      <3>8. PICK g, h : g = Cardinality(Ahead(p, c)) /\ h = Cardinality(Ahead(q, c))
        OBVIOUS
      <3>9. g \in Nat /\ h \in Nat /\ g + 1 <= h /\ a[x] + h + 0 <= T + C
        BY <2>3, <2>5, <3>7, <3>8
      <3>10. a[x] \in 0..MaxAge
        BY <2>2
      <3>11. a[x] + g + 1 <= T + C
        BY <1>2, <3>9, <3>10
      <3> QED
        BY <3>8, <3>11
    <2> QED
      BY <2>1, <2>3, <2>4, <2>5
  <1> QED
    BY <1>1, <1>11 DEF Aged

LEMMA TickAge ==
    ASSUME OneEach, NEW q \in Seq(Node), TreeOK(q), NEW a \in [Node -> 0..MaxAge], NEW w \in 0..1,
           Aged(q, a, w), w = 1 \/ \A x \in In(q) : ~(a[x] > TMCHK_BROKER_SVC),
           NEW d, \A x \in In(q) : d[x] = IF a[x] < MaxAge THEN a[x] + 1 ELSE a[x]
    PROVE  Aged(q, d, 0)
  <1>1. PICK T, C : T = TMCHK_BROKER_SVC /\ C = Cardinality(Broker)
    OBVIOUS
  <1>2. T \in Nat /\ C \in Nat /\ MaxAge = T + C + 1
    BY <1>1, MaxAgeType, RoutingAssumption DEF MaxAge
  <1>3. ASSUME NEW x \in In(q)
        PROVE  d[x] = d[<<x[1]>>]
               /\ (d[x] > T => d[x] + Cardinality(Ahead(q, x[1])) + 0 <= T + C)
    <2>1. PICK c : c = x[1]
      OBVIOUS
    <2>2. x \in Node /\ c \in Broker /\ <<c>> \in In(q)
      BY <2>1, NodesOf
    <2>3. a[x] = a[<<c>>] /\ (a[x] > T => a[x] + Cardinality(Ahead(q, c)) + w <= T + C)
      BY <1>1, <2>1 DEF Aged
    <2>4. /\ d[x] = IF a[x] < MaxAge THEN a[x] + 1 ELSE a[x]
          /\ d[<<c>>] = IF a[<<c>>] < MaxAge THEN a[<<c>>] + 1 ELSE a[<<c>>]
      BY <2>2
    <2>5. d[x] = d[<<c>>]
      BY <2>3, <2>4
    <2>6. PICK h, k, l : h = Cardinality(Ahead(q, c)) /\ k = a[x] /\ l = d[x]
      OBVIOUS
    <2>7. h \in Nat /\ h + 1 <= C
      BY <1>1, <2>2, <2>6, AheadLess
    <2>8. k \in 0..(T + C + 1) /\ l = (IF k < T + C + 1 THEN k + 1 ELSE k)
      BY <1>2, <2>2, <2>4, <2>6
    <2>9. (k > T => k + h + w <= T + C) /\ (w = 1 \/ ~(k > T))
      BY <1>1, <2>3, <2>6
    <2>10. l > T => l + h + 0 <= T + C
      BY <1>2, <2>7, <2>8, <2>9
    <2> QED
      BY <2>1, <2>5, <2>6, <2>10
  <1> QED
    BY <1>1, <1>3 DEF Aged

LEMMA AgeStep ==
    ASSUME OneEach, Routed, AgeInv, Next
    PROVE  AgeInv'
  <1>1. /\ small \in [Broker -> Seq(Node)] /\ age \in [Broker -> [Node -> 0..MaxAge]]
        /\ swept \subseteq Broker
    BY DEF Routed, StateType, TreeType
  <1>2. \A b \in Broker : TreeOK(small[b])
    BY DEF Routed, TreeInv
  <1>3. \A b \in Broker : Aged(small[b], age[b], Once(b)) /\ Once(b) \in 0..1
    BY AgedTrees DEF Once
  <1> DEFINE After == \A b \in Broker : Aged(small'[b], age'[b], Once(b)')
  <1>4. ASSUME UNCHANGED trees PROVE After
    <2>1. small' = small /\ age' = age /\ swept' = swept
      BY <1>4 DEF trees
    <2>2. \A b \in Broker : Once(b)' = Once(b)
      BY <2>1 DEF Once
    <2> QED
      BY <1>3, <2>1, <2>2
  <1>5. ASSUME NEW b \in Broker, ChkSmallTree(b) PROVE After
    <2>1. PICK c \in Broker, s \in Svc :
             /\ s \in Offers[c]
             /\ small' = [small EXCEPT ![b] = Noted(small[b], c, s)]
             /\ age' = [age EXCEPT ![b] = Renewed(age[b], c, s)]
      BY <1>5, ChkStep
    <2>2. swept' = swept
      BY <1>5 DEF ChkSmallTree, ReadsTopic
    <2>3. \A x \in Broker : Once(x)' = Once(x)
      BY <2>2 DEF Once
    <2>4. PICK p, d, q, a, w : /\ p = Noted(q, c, s) /\ d = Renewed(a, c, s)
                               /\ q = small[b] /\ a = age[b] /\ w = Once(b)
      OBVIOUS
    <2>5. /\ q \in Seq(Node) /\ TreeOK(q) /\ a \in [Node -> 0..MaxAge] /\ w \in 0..1
          /\ Aged(q, a, w)
      BY <1>1, <1>2, <1>3, <2>4
    <2>6. Aged(p, d, w)
      BY <2>1, <2>4, <2>5, NoteAge
    <2>7. small'[b] = p /\ age'[b] = d /\ \A x \in Broker : x # b => small'[x] = small[x] /\ age'[x] = age[x]
      BY <1>1, <2>1, <2>4
    <2>8. Aged(small'[b], age'[b], Once(b)')
      BY <2>3, <2>4, <2>6, <2>7
    <2>9. ASSUME NEW x \in Broker, x # b PROVE Aged(small'[x], age'[x], Once(x)')
      BY <1>3, <2>3, <2>7, <2>9
    <2> QED
      BY <2>8, <2>9
  <1>6. ASSUME NEW b \in Broker, RemoveSmallTree(b) PROVE After
    <2>1. PICK f \in 1..Len(small[b]) :
             /\ small[b][f] \in Old(b) /\ \A j \in 1..(f - 1) : small[b][j] \notin Old(b)
             /\ small' = [small EXCEPT ![b] = Cut(small[b], f, LastBelow(small[b], f))]
             /\ age' = [age EXCEPT ![b] = [x \in Node |-> IF x \in Nodes(b) \ Nodes(b)' THEN 0 ELSE age[b][x]]]
             /\ b \notin swept /\ swept' = swept \cup {b}
      BY <1>6, RemoveStep
    <2>2. PICK p, q, a, d : /\ p = Cut(q, f, LastBelow(q, f)) /\ q = small[b] /\ a = age[b] /\ d = age'[b]
      OBVIOUS
    <2>3. q \in Seq(Node) /\ TreeOK(q) /\ a \in [Node -> 0..MaxAge] /\ f \in 1..Len(q)
      BY <1>1, <1>2, <2>2
    <2>4. Aged(q, a, 0)
      BY <1>3, <2>1, <2>2 DEF Once
    <2>5. a[q[f]] > TMCHK_BROKER_SVC
      BY <2>1, <2>2 DEF Old
    <2>6. \A j \in 1..(f - 1) : ~(a[q[j]] > TMCHK_BROKER_SVC)
      <3> SUFFICES ASSUME NEW j \in 1..(f - 1), a[q[j]] > TMCHK_BROKER_SVC PROVE FALSE
        OBVIOUS
      <3>1. PICK n \in Nat : n = Len(q)
        BY <2>3, LenProperties
      <3>2. j \in 1..n
        BY <2>3, <3>1
      <3>3. q[j] \in Nodes(b)
        BY <2>2, <3>1, <3>2 DEF Nodes
      <3> QED
        BY <2>1, <2>2, <3>3 DEF Old
    <2>7. small'[b] = p
      BY <1>1, <2>1, <2>2
    <2>8. p \in Seq(Node)
      BY <2>2, <2>3, CutTree
    <2>9. ASSUME NEW x \in In(p) PROVE d[x] = a[x]
      <3>1. x \in Nodes(b)'
        BY <2>7, <2>9 DEF Nodes, In
      <3>2. x \in Node
        BY <2>8, <2>9, ElementOfSeq DEF In
      <3> QED
        BY <1>1, <2>1, <2>2, <3>1, <3>2
    <2>10. Aged(p, d, 1)
      <3>1. p = Cut(q, f, LastBelow(q, f)) /\ \A x \in In(p) : d[x] = a[x]
        BY <2>2, <2>9
      <3> QED
        BY <2>3, <2>4, <2>5, <2>6, <3>1, CutAge, Zenon
    <2>11. Once(b)' = 1 /\ \A x \in Broker : x # b => Once(x)' = Once(x)
      BY <2>1 DEF Once
    <2>12. \A x \in Broker : x # b => small'[x] = small[x] /\ age'[x] = age[x]
      BY <1>1, <2>1
    <2>13. Aged(small'[b], age'[b], Once(b)')
      BY <2>2, <2>7, <2>10, <2>11
    <2>14. ASSUME NEW x \in Broker, x # b PROVE Aged(small'[x], age'[x], Once(x)')
      BY <1>3, <2>11, <2>12, <2>14
    <2> QED
      BY <2>13, <2>14
  <1>7. ASSUME Tick PROVE After
    <2> SUFFICES ASSUME NEW b \in Broker PROVE Aged(small'[b], age'[b], Once(b)')
      OBVIOUS
    <2>1. PICK q, a, w, d : q = small[b] /\ a = age[b] /\ w = Once(b) /\ d = age'[b]
      OBVIOUS
    <2>2. /\ q \in Seq(Node) /\ TreeOK(q) /\ a \in [Node -> 0..MaxAge] /\ w \in 0..1
          /\ Aged(q, a, w)
      BY <1>1, <1>2, <1>3, <2>1
    <2>3. b \in swept \/ Old(b) = {}
      BY <1>7 DEF Tick
    <2>4. w = 1 \/ \A x \in In(q) : ~(a[x] > TMCHK_BROKER_SVC)
      BY <2>1, <2>3 DEF Once, Old, Nodes, In
    <2>5. ASSUME NEW x \in In(q) PROVE d[x] = IF a[x] < MaxAge THEN a[x] + 1 ELSE a[x]
      <3>1. x \in Node
        BY <2>2, <2>5, ElementOfSeq DEF In
      <3>2. x \in Nodes(b)
        BY <2>1, <2>5 DEF Nodes, In
      <3>3. age'[b] = [y \in Node |-> IF y \in Nodes(b) /\ age[b][y] < MaxAge THEN age[b][y] + 1 ELSE age[b][y]]
        BY <1>7 DEF Tick
      <3> QED
        BY <2>1, <3>1, <3>2, <3>3
    <2>6. Aged(q, d, 0)
      BY <2>2, <2>4, <2>5, TickAge
    <2>7. small' = small /\ Once(b)' = 0
      BY <1>7 DEF Tick, Once
    <2> QED
      BY <2>1, <2>6, <2>7
  <1>8. After
    <2> HIDE DEF After
    <2> QED
      BY <1>4, <1>5, <1>6, <1>7, TreeCases
  <1> QED
    BY <1>8 DEF AgeInv, Aged, Once, Nodes, In

-----------------------------------------------------------------------------
(* Messages travel.                                                        *)

LEMMA SameSent ==
    ASSUME NEW g, NEW j, NEW r \in Sort, NEW s \in Sort, NEW m \in Request, NEW n \in Request,
           Holds(g, j, Sent(r, m)), Holds(g, j, Sent(s, n))
    PROVE  r = s /\ m = n
  <1>1. SrcOf[m] \in Broker /\ SrcOf[n] \in Broker
    BY RoutingAssumption
  <1>2. ASSUME NEW t \in Sort, NEW p \in Request
        PROVE  /\ t = "req" => /\ Len(Sent(t, p)) = 4 /\ Sent(t, p)[1] = Type("svc_req")
                               /\ Sent(t, p)[4] = F("body", p)
               /\ t = "res" => /\ Len(Sent(t, p)) = 5 /\ Sent(t, p)[1] = Type("svc_res_interhub")
                               /\ Sent(t, p)[5] = F("body", p)
    <2>1. SrcOf[p] \in Broker
      BY RoutingAssumption
    <2> QED
      BY <2>1, SentParts, DealerMsgs
  <1>3. r \in {"req", "res"} /\ s \in {"req", "res"}
    BY DEF Sort
  <1>4. g[(j + 1) - 1] = Sent(r, m)[1] /\ g[(j + 1) - 1] = Sent(s, n)[1]
    <2>1. 1 \in 1..Len(Sent(r, m)) /\ 1 \in 1..Len(Sent(s, n))
      BY <1>2, <1>3
    <2> QED
      BY <2>1 DEF Holds
  <1>5. r = s
    <2>1. Sent(r, m)[1] = IF r = "req" THEN Type("svc_req") ELSE Type("svc_res_interhub")
      BY <1>2, <1>3
    <2>2. Sent(s, n)[1] = IF s = "req" THEN Type("svc_req") ELSE Type("svc_res_interhub")
      BY <1>2, <1>3
    <2> QED
      BY <1>3, <1>4, <2>1, <2>2, TypeParts
  <1>6. CASE r = "req"
    <2>1. 4 \in 1..Len(Sent(r, m)) /\ 4 \in 1..Len(Sent(s, n))
      BY <1>2, <1>5, <1>6
    <2>2. g[(j + 4) - 1] = Sent(r, m)[4] /\ g[(j + 4) - 1] = Sent(s, n)[4]
      BY <2>1 DEF Holds
    <2>3. F("body", m) = F("body", n)
      BY <1>2, <1>5, <1>6, <2>2
    <2> QED
      BY <1>5, <2>3, FrameParts
  <1>7. CASE r = "res"
    <2>1. 5 \in 1..Len(Sent(r, m)) /\ 5 \in 1..Len(Sent(s, n))
      BY <1>2, <1>5, <1>7
    <2>2. g[(j + 5) - 1] = Sent(r, m)[5] /\ g[(j + 5) - 1] = Sent(s, n)[5]
      BY <2>1 DEF Holds
    <2>3. F("body", m) = F("body", n)
      BY <1>2, <1>5, <1>7, <2>2
    <2> QED
      BY <1>5, <2>3, FrameParts
  <1> QED
    BY <1>3, <1>6, <1>7

LEMMA SameHubbed ==
    ASSUME NEW g, NEW j, NEW r \in Sort, NEW s \in Sort, NEW m \in Request, NEW n \in Request,
           Holds(g, j, Hubbed(r, m)), Holds(g, j, Hubbed(s, n))
    PROVE  r = s /\ m = n
  <1>1. ASSUME NEW t \in Sort, NEW p \in Request
        PROVE  /\ Len(Hubbed(t, p)) = 4 /\ Hubbed(t, p)[4] = F("body", p)
               /\ t = "req" => Hubbed(t, p)[1] = Type("svc_req_interhub")
               /\ t = "res" => Hubbed(t, p)[1] = Type("svc_res_interhub")
    BY HubbedParts, SubMsgs DEF Sort
  <1>2. /\ 1 \in 1..Len(Hubbed(r, m)) /\ 1 \in 1..Len(Hubbed(s, n))
        /\ 4 \in 1..Len(Hubbed(r, m)) /\ 4 \in 1..Len(Hubbed(s, n))
    BY <1>1
  <1>3. /\ g[(j + 1) - 1] = Hubbed(r, m)[1] /\ g[(j + 1) - 1] = Hubbed(s, n)[1]
        /\ g[(j + 4) - 1] = Hubbed(r, m)[4] /\ g[(j + 4) - 1] = Hubbed(s, n)[4]
    BY <1>2 DEF Holds
  <1>4. r = s
    <2>1. Hubbed(r, m)[1] = Hubbed(s, n)[1] /\ Type("svc_req_interhub") # Type("svc_res_interhub")
      BY <1>3, TypeParts
    <2> QED
      BY <1>1, <2>1 DEF Sort
  <1>5. F("body", m) = F("body", n)
    BY <1>1, <1>3
  <1> QED
    BY <1>4, <1>5, FrameParts

LEMMA SameHome ==
    ASSUME NEW r \in Sort, NEW s \in Sort, NEW m \in Request, NEW n \in Request, Home(r, m) = Home(s, n)
    PROVE  r = s /\ m = n
  <1>1. ASSUME NEW t \in Sort, NEW p \in Request
        PROVE  /\ Home(t, p)[4] = F("body", p)
               /\ t = "req" => Home(t, p)[1] = Type("svc_req")
               /\ t = "res" => Home(t, p)[1] = Type("svc_res")
    BY HomeParts DEF Sort
  <1>2. r = s
    BY <1>1, TypeParts DEF Sort
  <1>3. F("body", m) = F("body", n)
    BY <1>1
  <1> QED
    BY <1>2, <1>3, FrameParts

\* Where a message of a queue was before.
LEMMA KeptDropped ==
    ASSUME NEW q \in Seq(Frame), NEW n \in Nat, NEW f \in Seq(Frame), NEW i, Holds(Drop(q, n), i, f)
    PROVE  i \in Nat \ {0} /\ Holds(q, i + n, f)
  <1>1. i \in 1..Len(Drop(q, n))
    BY DEF Holds
  <1> QED
    BY <1>1, HoldsDropped

LEMMA KeptJoined ==
    ASSUME NEW q \in Seq(Frame), NEW g \in Seq(Frame), NEW M, Msgs(M), Begins(q, M), NEW f \in M,
           NEW i, Holds(q \o g, i, f)
    PROVE  \/ i \in Nat \ {0} /\ Holds(q, i, f)
           \/ \E j \in 1..Len(g) : i = Len(q) + j /\ Holds(g, j, f)
  <1>1. i \in 1..Len(q \o g) /\ f \in Seq(Frame)
    BY DEF Holds, Msgs
  <1>2. CASE i \in 1..Len(q)
    <2>1. Holds(q, i, f)
      BY <1>2, HoldsJoined
    <2>2. i \in Nat \ {0}
      <3>1. PICK n \in Nat : n = Len(q)
        BY LenProperties
      <3> QED
        BY <1>2, <3>1
    <2> QED
      BY <2>1, <2>2
  <1>3. CASE \E j \in 1..Len(g) : i = Len(q) + j
    <2>1. PICK j \in 1..Len(g) : i = Len(q) + j
      BY <1>3
    <2>2. Holds(g, j, f)
      BY <1>1, <2>1, HoldsBehind
    <2> QED
      BY <2>1, <2>2
  <1> QED
    BY <1>1, <1>2, <1>3, Joined

\* No message is moved twice, none is made twice.
Place == {"dq", "sq", "at"} \X Broker

Moves(d, A, h, B, l) ==
    \A r \in Sort, m \in Request : \A K, x, i : Token(K, x, i, r, m)' =>
        \/ <<K, x>> \in Place /\ i \in Nat \ {0} /\ Token(K, x, i + d[<<K, x>>], r, m)
        \/ <<K, x>> = B /\ i = l /\ h <= d[A] /\ Token(A[1], A[2], h, r, m)
Begun(s, n, B, l) ==
    \A r \in Sort, m \in Request : \A K, x, i : Token(K, x, i, r, m)' =>
        \/ Token(K, x, i, r, m)
        \/ <<K, x>> = B /\ i = l /\ r = s /\ m = n

LEMMA TokenMoved ==
    ASSUME TokenInv, asked \subseteq asked', answered \subseteq answered',
           NEW d \in [Place -> Nat], NEW A \in Place, NEW h \in Nat, NEW B, NEW l,
           Moves(d, A, h, B, l)
    PROVE  TokenInv'
  <1> SUFFICES ASSUME NEW r \in Sort, NEW m \in Request
               PROVE  /\ \A K, x, i : Token(K, x, i, r, m)' => m \in Seen(r)'
                      /\ \A K, x, i, L, y, j : Token(K, x, i, r, m)' /\ Token(L, y, j, r, m)'
                            => K = L /\ x = y /\ i = j
    BY DEF TokenInv
  <1> DEFINE Kept(K, x, i)  == /\ <<K, x>> \in Place /\ i \in Nat \ {0}
                              /\ Token(K, x, i + d[<<K, x>>], r, m)
             Moved(K, x, i) == /\ <<K, x>> = B /\ i = l /\ h <= d[A]
                              /\ Token(A[1], A[2], h, r, m)
  <1>1. \A K, x, i : Token(K, x, i, r, m)' => Kept(K, x, i) \/ Moved(K, x, i)
    BY DEF Moves
  <1>2. /\ \A K, x, i : Token(K, x, i, r, m) => m \in Seen(r)
        /\ \A K, x, i, L, y, j : Token(K, x, i, r, m) /\ Token(L, y, j, r, m) => K = L /\ x = y /\ i = j
    BY DEF TokenInv
  <1>3. ASSUME NEW K, NEW x, NEW i, Kept(K, x, i), NEW L, NEW y, NEW j, Moved(L, y, j) PROVE FALSE
    <2>1. K = A[1] /\ x = A[2] /\ i + d[<<K, x>>] = h
      BY <1>2, <1>3
    <2>2. <<K, x>> = A
      BY <2>1 DEF Place
    <2>3. d[A] \in Nat /\ i \in Nat \ {0} /\ h <= d[A] /\ i + d[A] = h
      BY <1>3, <2>1, <2>2
    <2> QED
      BY <2>3
  <1>4. ASSUME NEW K, NEW x, NEW i, Kept(K, x, i), NEW L, NEW y, NEW j, Kept(L, y, j)
        PROVE  K = L /\ x = y /\ i = j
    <2>1. K = L /\ x = y /\ i + d[<<K, x>>] = j + d[<<L, y>>]
      BY <1>2, <1>4
    <2>2. d[<<K, x>>] \in Nat /\ i \in Nat /\ j \in Nat /\ i + d[<<K, x>>] = j + d[<<K, x>>]
      BY <1>4, <2>1
    <2> QED
      BY <2>1, <2>2
  <1>5. ASSUME NEW K, NEW x, NEW i, Moved(K, x, i), NEW L, NEW y, NEW j, Moved(L, y, j)
        PROVE  K = L /\ x = y /\ i = j
    <2>1. <<K, x>> = <<L, y>> /\ i = j
      BY <1>5
    <2> QED
      BY <2>1
  <1>6. \A K, x, i : Kept(K, x, i) \/ Moved(K, x, i) => m \in Seen(r)
    BY <1>2
  <1>7. Seen(r) \subseteq Seen(r)'
    BY DEF Seen
  <1> HIDE DEF Kept, Moved
  <1>8. \A K, x, i : Token(K, x, i, r, m)' => m \in Seen(r)'
    BY <1>1, <1>6, <1>7
  <1>9. ASSUME NEW K, NEW x, NEW i, Token(K, x, i, r, m)', NEW L, NEW y, NEW j, Token(L, y, j, r, m)'
        PROVE  K = L /\ x = y /\ i = j
    <2>1. (Kept(K, x, i) \/ Moved(K, x, i)) /\ (Kept(L, y, j) \/ Moved(L, y, j))
      BY <1>1, <1>9
    <2> QED
      BY <1>3, <1>4, <1>5, <2>1
  <1> QED
    BY <1>8, <1>9

LEMMA TokenMade ==
    ASSUME TokenInv, asked \subseteq asked', answered \subseteq answered',
           NEW s \in Sort, NEW n \in Request, n \notin Seen(s), n \in Seen(s)', NEW B, NEW l,
           Begun(s, n, B, l)
    PROVE  TokenInv'
  <1> SUFFICES ASSUME NEW r \in Sort, NEW m \in Request
               PROVE  /\ \A K, x, i : Token(K, x, i, r, m)' => m \in Seen(r)'
                      /\ \A K, x, i, L, y, j : Token(K, x, i, r, m)' /\ Token(L, y, j, r, m)'
                            => K = L /\ x = y /\ i = j
    BY DEF TokenInv
  <1>1. /\ \A K, x, i : Token(K, x, i, r, m) => m \in Seen(r)
        /\ \A K, x, i, L, y, j : Token(K, x, i, r, m) /\ Token(L, y, j, r, m) => K = L /\ x = y /\ i = j
    BY DEF TokenInv
  <1>2. Seen(r) \subseteq Seen(r)'
    BY DEF Seen
  <1>3. CASE r = s /\ m = n
    <2>1. \A K, x, i : ~Token(K, x, i, r, m)
      BY <1>1, <1>3
    <2>2. \A K, x, i : Token(K, x, i, r, m)' => <<K, x>> = B /\ i = l
      BY <2>1 DEF Begun
    <2>3. ASSUME NEW K, NEW x, NEW i, Token(K, x, i, r, m)', NEW L, NEW y, NEW j, Token(L, y, j, r, m)'
          PROVE  K = L /\ x = y /\ i = j
      <3>1. <<K, x>> = <<L, y>> /\ i = j
        BY <2>2, <2>3
      <3> QED
        BY <3>1
    <2>4. m \in Seen(r)'
      BY <1>3
    <2> QED
      BY <2>3, <2>4
  <1>4. CASE ~(r = s /\ m = n)
    <2>1. \A K, x, i : Token(K, x, i, r, m)' => Token(K, x, i, r, m)
      BY <1>4 DEF Begun
    <2> QED
      BY <1>1, <1>2, <2>1
  <1> QED
    BY <1>3, <1>4

\* Every queue but some as it was, or shorter in front.
LEMMA TokenShifted ==
    ASSUME Routed, NEW d \in [Place -> Nat], NEW K, NEW x \in Broker, NEW i, NEW r \in Sort, NEW m \in Request,
           Token(K, x, i, r, m)',
           \/ K = "dq" /\ (dq'[x] = Drop(dq[x], d[<<K, x>>]) \/ (dq'[x] = dq[x] /\ d[<<K, x>>] = 0))
           \/ K = "sq" /\ (sq'[x] = Drop(sq[x], d[<<K, x>>]) \/ (sq'[x] = sq[x] /\ d[<<K, x>>] = 0))
           \/ K = "at" /\ at'[x] = at[x] /\ d[<<K, x>>] = 0
    PROVE  <<K, x>> \in Place /\ i \in Nat \ {0} /\ Token(K, x, i + d[<<K, x>>], r, m)
  <1>1. <<K, x>> \in Place
    BY DEF Place
  <1>2. PICK n \in Nat : n = d[<<K, x>>]
    BY <1>1
  <1>3. dq[x] \in Seq(Frame) /\ sq[x] \in Seq(Frame) /\ at[x] \in Seq(Seq(Frame))
    BY DEF Routed, StateType, QueueType, MailInv
  <1>4. Sent(r, m) \in Seq(Frame) /\ Hubbed(r, m) \in Seq(Frame)
    BY DealerMsgs, SubMsgs DEF Msgs, Sort
  <1>5. ASSUME NEW q \in Seq(Frame), NEW p, NEW f \in Seq(Frame), Holds(p, i, f),
               p = Drop(q, n) \/ (p = q /\ n = 0)
        PROVE  i \in Nat \ {0} /\ Holds(q, i + n, f)
    <2>1. CASE p = Drop(q, n)
      BY <1>5, <2>1, KeptDropped
    <2>2. CASE p = q /\ n = 0
      <3>1. PICK l \in Nat : l = Len(q)
        BY LenProperties
      <3>2. i \in 1..l
        BY <1>5, <2>2, <3>1 DEF Holds
      <3>3. i \in Nat \ {0} /\ i + n = i
        BY <2>2, <3>2
      <3> QED
        BY <1>5, <2>2, <3>3
    <2> QED
      BY <1>5, <2>1, <2>2
  <1>6. CASE K = "dq"
    <2>1. Holds(dq'[x], i, Sent(r, m))
      BY <1>6 DEF Token
    <2>2. dq'[x] = Drop(dq[x], n) \/ (dq'[x] = dq[x] /\ n = 0)
      BY <1>2, <1>6
    <2>3. i \in Nat \ {0} /\ Holds(dq[x], i + n, Sent(r, m))
      BY <1>3, <1>4, <1>5, <2>1, <2>2
    <2> QED
      BY <1>1, <1>2, <1>6, <2>3 DEF Token
  <1>7. CASE K = "sq"
    <2>1. Holds(sq'[x], i, Hubbed(r, m))
      BY <1>7 DEF Token
    <2>2. sq'[x] = Drop(sq[x], n) \/ (sq'[x] = sq[x] /\ n = 0)
      BY <1>2, <1>7
    <2>3. i \in Nat \ {0} /\ Holds(sq[x], i + n, Hubbed(r, m))
      BY <1>3, <1>4, <1>5, <2>1, <2>2
    <2> QED
      BY <1>1, <1>2, <1>7, <2>3 DEF Token
  <1>8. CASE K = "at"
    <2>1. i \in 1..Len(at[x]) /\ at[x][i] = Home(r, m) /\ n = 0
      BY <1>2, <1>8 DEF Token
    <2>2. PICK l \in Nat : l = Len(at[x])
      BY <1>3, LenProperties
    <2>3. i \in Nat \ {0} /\ i + n = i
      BY <2>1, <2>2
    <2> QED
      BY <1>1, <1>2, <1>8, <2>1, <2>3 DEF Token
  <1> QED
    BY <1>6, <1>7, <1>8

\* Nothing moves: every token is one that was there.
LEMMA TokenStays ==
    ASSUME Routed, NEW d \in [Place -> Nat], NEW r \in Sort, NEW m \in Request,
           NEW K, NEW x, NEW i, Token(K, x, i, r, m)',
           \A y \in Broker :
             /\ dq'[y] = Drop(dq[y], d[<<"dq", y>>]) \/ (dq'[y] = dq[y] /\ d[<<"dq", y>>] = 0)
             /\ sq'[y] = Drop(sq[y], d[<<"sq", y>>]) \/ (sq'[y] = sq[y] /\ d[<<"sq", y>>] = 0)
             /\ at'[y] = at[y] /\ d[<<"at", y>>] = 0
    PROVE  <<K, x>> \in Place /\ i \in Nat \ {0} /\ Token(K, x, i + d[<<K, x>>], r, m)
  <1>1. x \in Broker /\ (K = "dq" \/ K = "sq" \/ K = "at")
    BY DEF Token
  <1>2. CASE K = "dq"
    BY <1>1, <1>2, TokenShifted
  <1>3. CASE K = "sq"
    BY <1>1, <1>3, TokenShifted
  <1>4. CASE K = "at"
    BY <1>1, <1>4, TokenShifted
  <1> QED
    BY <1>1, <1>2, <1>3, <1>4

\* Something comes to a queue.
LEMMA DealerJoined ==
    ASSUME Routed, NEW x \in Broker, NEW g \in Seq(Frame), dq'[x] = dq[x] \o g,
           NEW i, NEW r \in Sort, NEW m \in Request, Token("dq", x, i, r, m)'
    PROVE  \/ i \in Nat \ {0} /\ Token("dq", x, i, r, m)
           \/ \E j \in 1..Len(g) : i = Len(dq[x]) + j /\ Holds(g, j, Sent(r, m))
  <1>1. dq[x] \in Seq(Frame) /\ Begins(dq[x], ToDealer(x)) /\ asked \subseteq Request /\ answered \subseteq Request
    BY DEF Routed, StateType, QueueType, MailInv
  <1>2. Begins(dq[x], DealerMsg)
    BY <1>1, MailSets, BeginsMore
  <1>3. Sent(r, m) \in DealerMsg /\ Msgs(DealerMsg)
    BY DealerMsgs DEF Sort
  <1>4. Holds(dq[x] \o g, i, Sent(r, m))
    BY DEF Token
  <1>5. \/ i \in Nat \ {0} /\ Holds(dq[x], i, Sent(r, m))
        \/ \E j \in 1..Len(g) : i = Len(dq[x]) + j /\ Holds(g, j, Sent(r, m))
    BY <1>1, <1>2, <1>3, <1>4, KeptJoined
  <1> QED
    BY <1>5 DEF Token

LEMMA SubJoined ==
    ASSUME Routed, NEW x \in Broker, NEW g \in Seq(Frame), sq'[x] = sq[x] \o g,
           NEW i, NEW r \in Sort, NEW m \in Request, Token("sq", x, i, r, m)'
    PROVE  \/ i \in Nat \ {0} /\ Token("sq", x, i, r, m)
           \/ \E j \in 1..Len(g) : i = Len(sq[x]) + j /\ Holds(g, j, Hubbed(r, m))
  <1>1. sq[x] \in Seq(Frame) /\ Begins(sq[x], ToSub(x)) /\ asked \subseteq Request /\ answered \subseteq Request
    BY DEF Routed, StateType, QueueType, MailInv
  <1>2. Begins(sq[x], SubMsg)
    BY <1>1, MailSets, BeginsMore
  <1>3. Hubbed(r, m) \in SubMsg /\ Msgs(SubMsg)
    BY SubMsgs DEF Sort
  <1>4. Holds(sq[x] \o g, i, Hubbed(r, m))
    BY DEF Token
  <1>5. \/ i \in Nat \ {0} /\ Holds(sq[x], i, Hubbed(r, m))
        \/ \E j \in 1..Len(g) : i = Len(sq[x]) + j /\ Holds(g, j, Hubbed(r, m))
    BY <1>1, <1>2, <1>3, <1>4, KeptJoined
  <1> QED
    BY <1>5 DEF Token

\* A message that begins at j shows its type there.
LEMMA SentShown ==
    ASSUME NEW g, NEW j \in Nat, NEW r \in Sort, NEW m \in Request, Holds(g, j, Sent(r, m))
    PROVE  g[j].k = "type" /\ (g[j] = Type("svc_req") \/ g[j] = Type("svc_res_interhub"))
  <1>1. SrcOf[m] \in Broker
    BY RoutingAssumption
  <1>2. /\ Len(Sent(r, m)) \in Nat \ {0}
        /\ Sent(r, m)[1] = Type("svc_req") \/ Sent(r, m)[1] = Type("svc_res_interhub")
    <2>1. CASE r = "req"
      <3>1. Sent(r, m) = ReqFrames(m)
        BY <2>1, DealerMsgs
      <3> QED
        BY <1>1, <3>1, SentParts
    <2>2. CASE r = "res"
      <3>1. PICK c \in Broker : Sent(r, m) = ResFrames(m, c)
        BY <1>1, <2>2, DealerMsgs
      <3>2. /\ ResFrames(m, c)[1] = Type("svc_res_interhub")
            /\ Len(ResFrames(m, c)) = 5
        BY SentParts
      <3> QED
        BY <3>1, <3>2
    <2> QED
      BY <2>1, <2>2 DEF Sort
  <1>3. 1 \in 1..Len(Sent(r, m)) /\ (j + 1) - 1 = j
    BY <1>2
  <1>4. g[j] = Sent(r, m)[1]
    BY <1>3 DEF Holds
  <1> QED
    BY <1>2, <1>4, TypeParts

LEMMA HubbedShown ==
    ASSUME NEW g, NEW j \in Nat, NEW r \in Sort, NEW m \in Request, Holds(g, j, Hubbed(r, m))
    PROVE  g[j].k = "type" /\ (g[j] = Type("svc_req_interhub") \/ g[j] = Type("svc_res_interhub"))
  <1>1. /\ Len(Hubbed(r, m)) \in Nat \ {0}
        /\ \/ Hubbed(r, m)[1] = Type("svc_req_interhub")
           \/ Hubbed(r, m)[1] = Type("svc_res_interhub")
    <2>1. CASE r = "req"
      BY <2>1, HubbedParts, SubMsgs
    <2>2. CASE r = "res"
      BY <2>2, HubbedParts, SubMsgs
    <2> QED
      BY <2>1, <2>2 DEF Sort
  <1>2. 1 \in 1..Len(Hubbed(r, m)) /\ (j + 1) - 1 = j
    BY <1>1
  <1>3. g[j] = Hubbed(r, m)[1]
    BY <1>2 DEF Holds
  <1> QED
    BY <1>1, <1>3, TypeParts

\* The message s of p is the only one in g that is counted, at h.
Alone(g, h, s, p) == \A r \in Sort, m \in Request : \A j \in 1..Len(g) :
                        Holds(g, j, Sent(r, m)) => j = h /\ r = s /\ m = p

LEMMA TokenStep ==
    ASSUME Routed, TokenInv, Next
    PROVE  TokenInv'
  <1>1. /\ asked \subseteq asked' /\ answered \subseteq answered'
        /\ asked' \subseteq Request /\ answered' \subseteq asked'
    BY AskedGrows
  <1>2. /\ dq \in [Broker -> Seq(Frame)] /\ sq \in [Broker -> Seq(Frame)]
        /\ at \in [Broker -> Seq(Seq(Frame))]
    BY DEF Routed, StateType, QueueType, MailInv
  \* Queues that only get shorter.
  <1>3. ASSUME NEW d \in [Place -> Nat],
               \A y \in Broker :
                 /\ dq'[y] = Drop(dq[y], d[<<"dq", y>>]) \/ (dq'[y] = dq[y] /\ d[<<"dq", y>>] = 0)
                 /\ sq'[y] = Drop(sq[y], d[<<"sq", y>>]) \/ (sq'[y] = sq[y] /\ d[<<"sq", y>>] = 0)
                 /\ at'[y] = at[y] /\ d[<<"at", y>>] = 0,
               NEW b \in Broker
        PROVE  TokenInv'
    <2>1. PICK A, h : A = <<"at", b>> /\ h = 1
      OBVIOUS
    <2>2. A \in Place /\ h \in Nat
      BY <2>1 DEF Place
    <2>3. \A r \in Sort, m \in Request : \A K, x, i : Token(K, x, i, r, m)' =>
            <<K, x>> \in Place /\ i \in Nat \ {0} /\ Token(K, x, i + d[<<K, x>>], r, m)
      BY <1>3, TokenStays
    <2>4. \E B, l : Moves(d, A, h, B, l)
      BY <2>3, Zenon DEF Moves
    <2> QED
      BY <1>1, <2>2, <2>4, TokenMoved
  <1>4. ASSUME NEW b \in Broker, NEW n \in Nat, UNCHANGED <<sq, at>>,
               dq' = [dq EXCEPT ![b] = Drop(dq[b], n)]
        PROVE  TokenInv'
    <2>1. PICK d : d = [p \in Place |-> IF p = <<"dq", b>> THEN n ELSE 0]
      OBVIOUS
    <2>2. d \in [Place -> Nat]
      BY <2>1
    <2>3. \A y \in Broker : /\ d[<<"dq", y>>] = IF y = b THEN n ELSE 0
                            /\ d[<<"sq", y>>] = 0 /\ d[<<"at", y>>] = 0
      BY <2>1 DEF Place
    <2> QED
      BY <1>2, <1>3, <1>4, <2>2, <2>3
  <1>5. ASSUME NEW b \in Broker, NEW n \in Nat, UNCHANGED <<dq, at>>,
               sq' = [sq EXCEPT ![b] = Drop(sq[b], n)]
        PROVE  TokenInv'
    <2>1. PICK d : d = [p \in Place |-> IF p = <<"sq", b>> THEN n ELSE 0]
      OBVIOUS
    <2>2. d \in [Place -> Nat]
      BY <2>1
    <2>3. \A y \in Broker : /\ d[<<"sq", y>>] = IF y = b THEN n ELSE 0
                            /\ d[<<"dq", y>>] = 0 /\ d[<<"at", y>>] = 0
      BY <2>1 DEF Place
    <2> QED
      BY <1>2, <1>3, <1>5, <2>2, <2>3
  <1>6. ASSUME UNCHANGED <<queues, at>>
        PROVE  TokenInv'
    <2>1. UNCHANGED <<dq, sq, at>>
      BY <1>6 DEF queues
    <2>2. \A r \in Sort, m \in Request : \A K, x, i : Token(K, x, i, r, m)' <=> Token(K, x, i, r, m)
      BY <2>1 DEF Token
    <2>3. \A r \in Sort : Seen(r) \subseteq Seen(r)'
      BY <1>1 DEF Seen
    <2> QED
      BY <2>2, <2>3 DEF TokenInv
  \* A message goes from the front of b's queue to the end of c's.
  <1>7. ASSUME NEW b \in Broker, NEW c \in Broker, NEW n \in Nat, 1 <= n,
               NEW s \in Sort, NEW p \in Request, Holds(dq[b], 1, Sent(s, p)),
               NEW g, g = <<F("topic", c)>> \o Hubbed(s, p),
               sq' = [sq EXCEPT ![c] = sq[c] \o g], dq' = [dq EXCEPT ![b] = Drop(dq[b], n)],
               UNCHANGED at
        PROVE  TokenInv'
    <2>1. PICK d : d = [q \in Place |-> IF q = <<"dq", b>> THEN n ELSE 0]
      OBVIOUS
    <2>2. d \in [Place -> Nat]
      BY <2>1
    <2>3. \A y \in Broker : /\ d[<<"dq", y>>] = IF y = b THEN n ELSE 0
                            /\ d[<<"sq", y>>] = 0 /\ d[<<"at", y>>] = 0
      BY <2>1 DEF Place
    <2>4. PICK A, B, l : A = <<"dq", b>> /\ B = <<"sq", c>> /\ l = Len(sq[c]) + 2
      OBVIOUS
    <2>5. A \in Place /\ 1 <= d[A] /\ A[1] = "dq" /\ A[2] = b
      BY <1>7, <2>3, <2>4 DEF Place
    <2>6. Token(A[1], A[2], 1, s, p)
      BY <1>7, <2>5 DEF Token
    <2>7. /\ g \in Seq(Frame)
          /\ \A j \in 1..Len(g) : g[j].k = "type" => j = 2 /\ Holds(g, j, Hubbed(s, p))
      <3>1. Fits(g, {Hubbed(s, p)}) /\ \A j \in 1..Len(g) : g[j].k = "type" => j = 2 /\ Holds(g, j, Hubbed(s, p))
        <4>1. PICK M : M = {Hubbed(s, p)}
          OBVIOUS
        <4>2. Hubbed(s, p) \in M
          BY <4>1
        <4>3. Fits(g, M) /\ \A j \in 1..Len(g) : g[j].k = "type" => j = 2 /\ Holds(g, j, Hubbed(s, p))
          <5>1. Published(g, M, Hubbed(s, p))
            BY <1>7, <4>2, Publishing
          <5> QED
            BY <5>1 DEF Published
        <4> QED
          BY <4>1, <4>3
      <3> QED
        BY <3>1 DEF Fits
    <2>8. ASSUME NEW r \in Sort, NEW m \in Request, NEW K, NEW x, NEW i, Token(K, x, i, r, m)'
          PROVE  \/ <<K, x>> \in Place /\ i \in Nat \ {0} /\ Token(K, x, i + d[<<K, x>>], r, m)
                 \/ <<K, x>> = B /\ i = l /\ 1 <= d[A] /\ Token(A[1], A[2], 1, r, m)
      <3>1. x \in Broker /\ (K = "dq" \/ K = "sq" \/ K = "at")
        BY <2>8 DEF Token
      <3>2. CASE K = "dq"
        <4>1. dq'[x] = Drop(dq[x], d[<<K, x>>]) \/ (dq'[x] = dq[x] /\ d[<<K, x>>] = 0)
          BY <1>2, <1>7, <2>3, <3>1, <3>2
        <4> QED
          BY <2>2, <2>8, <3>1, <3>2, <4>1, TokenShifted
      <3>3. CASE K = "at" \/ (K = "sq" /\ x # c)
        <4>1. \/ K = "sq" /\ sq'[x] = sq[x] /\ d[<<K, x>>] = 0
              \/ K = "at" /\ at'[x] = at[x] /\ d[<<K, x>>] = 0
          BY <1>2, <1>7, <2>3, <3>1, <3>3
        <4> QED
          BY <2>2, <2>8, <3>1, <4>1, TokenShifted
      <3>4. CASE K = "sq" /\ x = c
        <4>1. sq'[c] = sq[c] \o g
          BY <1>2, <1>7
        <4>2. \/ i \in Nat \ {0} /\ Token("sq", c, i, r, m)
              \/ \E j \in 1..Len(g) : i = Len(sq[c]) + j /\ Holds(g, j, Hubbed(r, m))
          BY <2>7, <2>8, <3>4, <4>1, SubJoined
        <4>3. CASE i \in Nat \ {0} /\ Token("sq", c, i, r, m)
          <5>1. d[<<K, x>>] = 0 /\ <<K, x>> \in Place
            BY <2>3, <3>4 DEF Place
          <5>2. i + 0 = i
            BY <4>3
          <5> QED
            BY <3>4, <4>3, <5>1, <5>2
        <4>4. CASE \E j \in 1..Len(g) : i = Len(sq[c]) + j /\ Holds(g, j, Hubbed(r, m))
          <5>1. PICK j \in 1..Len(g) : i = Len(sq[c]) + j /\ Holds(g, j, Hubbed(r, m))
            BY <4>4
          <5>2. j \in Nat
            OBVIOUS
          <5>3. j = 2 /\ Holds(g, j, Hubbed(s, p))
            BY <2>7, <5>1, <5>2, HubbedShown
          <5>4. r = s /\ m = p
            BY <5>1, <5>3, SameHubbed
          <5> QED
            BY <2>4, <2>5, <2>6, <3>4, <5>1, <5>3, <5>4
        <4> QED
          BY <4>2, <4>3, <4>4
      <3> QED
        BY <3>1, <3>2, <3>3, <3>4
    <2>9. PICK h : h = 1
      OBVIOUS
    <2>10. h \in Nat /\ Moves(d, A, h, B, l)
      BY <2>8, <2>9 DEF Moves
    <2> QED
      BY <1>1, <2>2, <2>5, <2>10, TokenMoved
  \* A message goes from the front of b's queue to b.
  <1>8. ASSUME NEW b \in Broker, RelayToBroker(b) PROVE TokenInv'
    <2>1. PICK s \in Sort, p \in Request :
             /\ Holds(sq[b], 2, Hubbed(s, p))
             /\ sq' = [sq EXCEPT ![b] = Drop(sq[b], 5)]
             /\ at' = [at EXCEPT ![b] = Append(at[b], Home(s, p))]
      BY <1>8, ToBrokerStep
    <2>2. dq' = dq
      BY <1>8 DEF RelayToBroker, ForBroker, ReadsTopic
    <2>3. PICK d : d = [q \in Place |-> IF q = <<"sq", b>> THEN 5 ELSE 0]
      OBVIOUS
    <2>4. d \in [Place -> Nat]
      BY <2>3
    <2>5. \A y \in Broker : /\ d[<<"sq", y>>] = IF y = b THEN 5 ELSE 0
                            /\ d[<<"dq", y>>] = 0 /\ d[<<"at", y>>] = 0
      BY <2>3 DEF Place
    <2>6. PICK A, B, l : A = <<"sq", b>> /\ B = <<"at", b>> /\ l = Len(at[b]) + 1
      OBVIOUS
    <2>7. A \in Place /\ 2 <= d[A] /\ A[1] = "sq" /\ A[2] = b
      <3>1. d[A] = 5
        BY <2>5, <2>6
      <3> QED
        BY <2>6, <3>1 DEF Place
    <2>8. Token(A[1], A[2], 2, s, p)
      BY <2>1, <2>7 DEF Token
    <2>9. PICK f : f = Home(s, p)
      OBVIOUS
    <2>10. /\ Len(at'[b]) = Len(at[b]) + 1 /\ Len(at[b]) \in Nat
           /\ \A i \in 1..Len(at[b]) : at'[b][i] = at[b][i]
           /\ at'[b][Len(at[b]) + 1] = f
      <3>1. f \in Seq(Frame) /\ at[b] \in Seq(Seq(Frame))
        BY <1>2, <2>9, HomeParts DEF Sort
      <3>2. at'[b] = Append(at[b], f)
        BY <1>2, <2>1, <2>9
      <3> QED
        BY <3>1, <3>2, AppendProperties, LenProperties
    <2>11. ASSUME NEW r \in Sort, NEW m \in Request, NEW K, NEW x, NEW i, Token(K, x, i, r, m)'
           PROVE  \/ <<K, x>> \in Place /\ i \in Nat \ {0} /\ Token(K, x, i + d[<<K, x>>], r, m)
                  \/ <<K, x>> = B /\ i = l /\ 2 <= d[A] /\ Token(A[1], A[2], 2, r, m)
      <3>1. x \in Broker /\ (K = "dq" \/ K = "sq" \/ K = "at")
        BY <2>11 DEF Token
      <3>2. CASE K = "sq"
        <4>1. sq'[x] = Drop(sq[x], d[<<K, x>>]) \/ (sq'[x] = sq[x] /\ d[<<K, x>>] = 0)
          BY <1>2, <2>1, <2>5, <3>1, <3>2
        <4> QED
          BY <2>4, <2>11, <3>1, <3>2, <4>1, TokenShifted
      <3>3. CASE K = "dq" \/ (K = "at" /\ x # b)
        <4>1. \/ K = "dq" /\ dq'[x] = dq[x] /\ d[<<K, x>>] = 0
              \/ K = "at" /\ at'[x] = at[x] /\ d[<<K, x>>] = 0
          BY <1>2, <2>1, <2>2, <2>5, <3>1, <3>3
        <4> QED
          BY <2>4, <2>11, <3>1, <4>1, TokenShifted
      <3>4. CASE K = "at" /\ x = b
        <4>1. i \in 1..Len(at'[b]) /\ at'[b][i] = Home(r, m)
          BY <2>11, <3>4 DEF Token
        <4>2. PICK n \in Nat : n = Len(at[b])
          BY <2>10
        <4>3. i \in 1..n \/ i = n + 1
          BY <2>10, <4>1, <4>2
        <4>4. CASE i \in 1..n
          <5>1. at[b][i] = Home(r, m) /\ i \in 1..Len(at[b])
            BY <2>10, <4>1, <4>2, <4>4
          <5>2. d[<<K, x>>] = 0 /\ <<K, x>> \in Place
            BY <2>5, <3>4 DEF Place
          <5>3. Token("at", b, i, r, m)
            BY <5>1 DEF Token
          <5>4. i \in Nat \ {0} /\ i + 0 = i
            BY <4>4
          <5> QED
            BY <3>4, <5>2, <5>3, <5>4
        <4>5. CASE i = n + 1
          <5>1. Home(r, m) = Home(s, p)
            BY <2>9, <2>10, <4>1, <4>2, <4>5
          <5>2. r = s /\ m = p
            BY <5>1, SameHome
          <5> QED
            BY <2>6, <2>7, <2>8, <3>4, <4>2, <4>5, <5>2
        <4> QED
          BY <4>3, <4>4, <4>5
      <3> QED
        BY <3>1, <3>2, <3>3, <3>4
    <2>12. PICK h : h = 2
      OBVIOUS
    <2>13. h \in Nat /\ Moves(d, A, h, B, l)
      BY <2>11, <2>12 DEF Moves
    <2> QED
      BY <1>1, <2>4, <2>7, <2>13, TokenMoved
  \* A message begins to travel at the end of b's queue.
  <1>9. ASSUME NEW b \in Broker, NEW s \in Sort, NEW p \in Request, p \notin Seen(s), p \in Seen(s)',
               NEW g \in Seq(Frame), dq' = [dq EXCEPT ![b] = dq[b] \o g], UNCHANGED <<sq, at>>, NEW h,
               Alone(g, h, s, p)
        PROVE  TokenInv'
    <2>1. PICK B, l : B = <<"dq", b>> /\ l = Len(dq[b]) + h
      OBVIOUS
    <2>2. ASSUME NEW r \in Sort, NEW m \in Request, NEW K, NEW x, NEW i, Token(K, x, i, r, m)'
          PROVE  Token(K, x, i, r, m) \/ (<<K, x>> = B /\ i = l /\ r = s /\ m = p)
      <3>1. CASE K = "dq" /\ x = b
        <4>1. dq'[b] = dq[b] \o g
          BY <1>2, <1>9
        <4>2. \/ Token("dq", b, i, r, m)
              \/ \E j \in 1..Len(g) : i = Len(dq[b]) + j /\ Holds(g, j, Sent(r, m))
          BY <1>9, <2>2, <3>1, <4>1, DealerJoined
        <4> QED
          BY <1>9, <2>1, <2>2, <3>1, <4>2 DEF Alone
      <3>2. CASE ~(K = "dq" /\ x = b)
        BY <1>2, <1>9, <2>2, <3>2 DEF Token
      <3> QED
        BY <3>1, <3>2
    <2>3. Begun(s, p, B, l)
      BY <2>2 DEF Begun
    <2> QED
      BY <1>1, <1>9, <2>3, TokenMade
  <1>10. ASSUME NEW m \in Request, Ask(m) PROVE TokenInv'
    <2>1. PICK g, b : /\ g = LogFrames(m) \o ReqFrames(m) /\ b \in Broker
                      /\ dq' = [dq EXCEPT ![b] = dq[b] \o g]
      BY <1>10, AskStep
    <2>2. UNCHANGED <<sq, at>> /\ m \notin Seen("req") /\ m \in Seen("req")' /\ "req" \in Sort
      BY <1>10 DEF Ask, Seen, Sort
    <2>3. g \in Seq(Frame) /\ \A j \in 1..Len(g) : g[j].k = "type" =>
            (j = 1 /\ Holds(g, j, LogFrames(m))) \/ (j = 3 /\ Holds(g, j, Sent("req", m)))
      <3>1. PICK M : M = {LogFrames(m), Sent("req", m)}
        OBVIOUS
      <3>2. LogFrames(m) \in M /\ Sent("req", m) \in M
        BY <3>1
      <3>3. Fits(g, M)
        BY <2>1, <3>2, Asking
      <3> QED
        BY <2>1, <3>2, <3>3, Asking DEF Fits
    <2>4. ASSUME NEW r \in Sort, NEW n \in Request, NEW j \in 1..Len(g), Holds(g, j, Sent(r, n))
          PROVE  j = 3 /\ r = "req" /\ n = m
      <3>1. j \in Nat
        OBVIOUS
      <3>2. g[j].k = "type" /\ (g[j] = Type("svc_req") \/ g[j] = Type("svc_res_interhub"))
        BY <2>4, <3>1, SentShown
      <3>3. CASE j = 1 /\ Holds(g, j, LogFrames(m))
        <4>1. SrcOf[m] \in Broker
          BY RoutingAssumption
        <4>2. 1 \in 1..Len(LogFrames(m)) /\ LogFrames(m)[1] = Type("svc_log") /\ (1 + 1) - 1 = 1
          BY <4>1, SentParts
        <4>3. g[j] = Type("svc_log")
          BY <3>3, <4>2 DEF Holds
        <4> QED
          BY <3>2, <4>3, TypeParts
      <3>4. CASE j = 3 /\ Holds(g, j, Sent("req", m))
        BY <2>2, <2>4, <3>4, SameSent
      <3> QED
        BY <2>3, <3>2, <3>3, <3>4
    <2>5. PICK h, s : h = 3 /\ s = "req"
      OBVIOUS
    <2>6. Alone(g, h, s, m)
      BY <2>4, <2>5 DEF Alone
    <2> QED
      BY <1>9, <2>1, <2>2, <2>3, <2>5, <2>6
  <1>11. ASSUME NEW b \in Broker, NEW m \in Request, Answer(b, m) PROVE TokenInv'
    <2>1. PICK g : g = Sent("res", m)
      OBVIOUS
    <2>2. dq' = [dq EXCEPT ![b] = dq[b] \o g]
      BY <1>11, <2>1, AnswerStep
    <2>3. UNCHANGED <<sq, at>> /\ m \notin Seen("res") /\ m \in Seen("res")' /\ "res" \in Sort
      BY <1>11 DEF Answer, Seen, Sort
    <2>4. g \in Seq(Frame) /\ \A j \in 1..Len(g) : g[j].k = "type" => j = 1
      <3>1. Sent("res", m) \in {Sent("res", m)}
        OBVIOUS
      <3> QED
        BY <2>1, <3>1, Answering DEF Fits
    <2>5. ASSUME NEW r \in Sort, NEW n \in Request, NEW j \in 1..Len(g), Holds(g, j, Sent(r, n))
          PROVE  j = 1 /\ r = "res" /\ n = m
      <3>1. j \in Nat
        OBVIOUS
      <3>2. j = 1
        BY <2>4, <2>5, <3>1, SentShown
      <3>3. Holds(g, 1, Sent("res", m))
        <4>1. \A i \in 1..Len(g) : (1 + i) - 1 = i
          OBVIOUS
        <4>2. Len(g) \in Nat \ {0}
          <5>1. Len(g) \in Nat
            BY <2>4, LenProperties
          <5> QED
            BY <5>1
        <4> QED
          BY <2>1, <4>1, <4>2 DEF Holds
      <3> QED
        BY <2>3, <2>5, <3>2, <3>3, SameSent
    <2>6. PICK h, s : h = 1 /\ s = "res"
      OBVIOUS
    <2>7. Alone(g, h, s, m)
      BY <2>5, <2>6 DEF Alone
    <2> QED
      BY <1>9, <2>2, <2>3, <2>4, <2>6, <2>7
  <1>12. ASSUME NEW c \in Broker, NEW s \in Svc, Register(c, s) PROVE TokenInv'
    <2>1. PICK g : g = RegFrames(c, s)
      OBVIOUS
    <2>2. UNCHANGED <<dq, at>> /\ sq' = [b \in Broker |-> sq[b] \o g]
      BY <1>12, <2>1 DEF Register
    <2>3. /\ g \in Seq(Frame) /\ g[1] = Type("svc_reg")
          /\ \A j \in 1..Len(g) : g[j].k = "type" => j = 1
      <3>1. RegFrames(c, s) \in {RegFrames(c, s)}
        OBVIOUS
      <3> QED
        BY <2>1, <3>1, Registering DEF Fits
    <2>4. ASSUME NEW r \in Sort, NEW m \in Request, NEW j \in 1..Len(g), Holds(g, j, Hubbed(r, m))
          PROVE  FALSE
      <3>1. j \in Nat
        OBVIOUS
      <3>2. g[j].k = "type" /\ (g[j] = Type("svc_req_interhub") \/ g[j] = Type("svc_res_interhub"))
        BY <2>4, <3>1, HubbedShown
      <3> QED
        BY <2>3, <3>2, TypeParts
    <2>5. ASSUME NEW r \in Sort, NEW m \in Request, NEW K, NEW x, NEW i, Token(K, x, i, r, m)'
          PROVE  Token(K, x, i, r, m)
      <3>1. CASE K = "sq"
        <4>1. x \in Broker /\ sq'[x] = sq[x] \o g
          BY <2>2, <2>5 DEF Token
        <4> QED
          BY <2>3, <2>4, <2>5, <3>1, <4>1, SubJoined
      <3>2. CASE K # "sq"
        BY <2>2, <2>5, <3>2 DEF Token
      <3> QED
        BY <3>1, <3>2
    <2>6. \A r \in Sort : Seen(r) \subseteq Seen(r)'
      BY <1>1 DEF Seen
    <2> QED
      BY <2>5, <2>6 DEF TokenInv
  <1>13. ASSUME NEW b \in Broker, InterhubCallback(b) PROVE TokenInv'
    <2>1. UNCHANGED at
      BY <1>13 DEF InterhubCallback, RelayReq, RelayReqNowhere, RelayRes, ReadLog, PassOver, ReadsType
    <2>2. CASE RelayReq(b)
      <3>1. PICK m \in Request, c \in Broker :
             /\ Holds(dq[b], 1, Sent("req", m))
             /\ dq' = [dq EXCEPT ![b] = Drop(dq[b], 4)]
             /\ sq' = [sq EXCEPT ![c] = sq[c] \o (<<F("topic", c)>> \o HubReq(m))]
        BY <2>2, RelayReqStep
      <3>2. PICK g : g = <<F("topic", c)>> \o Hubbed("req", m)
        OBVIOUS
      <3>3. sq' = [sq EXCEPT ![c] = sq[c] \o g]
        BY <3>1, <3>2, SubMsgs
      <3>4. PICK n, s : n = 4 /\ s = "req"
        OBVIOUS
      <3>5. n \in Nat /\ 1 <= n /\ s \in Sort /\ g = <<F("topic", c)>> \o Hubbed(s, m)
        BY <3>2, <3>4 DEF Sort
      <3>6. Holds(dq[b], 1, Sent(s, m)) /\ dq' = [dq EXCEPT ![b] = Drop(dq[b], n)]
        BY <3>1, <3>4
      <3> QED
        BY <1>7, <2>1, <3>3, <3>5, <3>6
    <2>3. CASE RelayRes(b)
      <3>1. PICK m \in Request, c \in Broker :
             /\ Holds(dq[b], 1, Sent("res", m))
             /\ dq' = [dq EXCEPT ![b] = Drop(dq[b], 5)]
             /\ sq' = [sq EXCEPT ![c] = sq[c] \o (<<F("topic", c)>> \o HubRes(m))]
        BY <2>3, RelayResStep
      <3>2. PICK g : g = <<F("topic", c)>> \o Hubbed("res", m)
        OBVIOUS
      <3>3. sq' = [sq EXCEPT ![c] = sq[c] \o g]
        BY <3>1, <3>2, SubMsgs
      <3>4. PICK n, s : n = 5 /\ s = "res"
        OBVIOUS
      <3>5. n \in Nat /\ 1 <= n /\ s \in Sort /\ g = <<F("topic", c)>> \o Hubbed(s, m)
        BY <3>2, <3>4 DEF Sort
      <3>6. Holds(dq[b], 1, Sent(s, m)) /\ dq' = [dq EXCEPT ![b] = Drop(dq[b], n)]
        BY <3>1, <3>4
      <3> QED
        BY <1>7, <2>1, <3>3, <3>5, <3>6
    <2>4. CASE RelayReqNowhere(b)
      BY <1>4, <2>1, <2>4 DEF RelayReqNowhere
    <2>5. CASE ReadLog(b)
      BY <1>4, <2>1, <2>5 DEF ReadLog
    <2>6. CASE PassOver(b)
      BY <1>4, <2>1, <2>6 DEF PassOver
    <2> QED
      BY <1>13, <2>2, <2>3, <2>4, <2>5, <2>6 DEF InterhubCallback
  <1>14. ASSUME NEW b \in Broker, BrokerSubCallback(b) PROVE TokenInv'
    <2>1. UNCHANGED dq
      BY <1>14 DEF BrokerSubCallback, ChkSmallTree, RelayToBroker, BrokerFull, PassOverTwo, ForBroker, ReadsTopic
    <2>2. CASE RelayToBroker(b)
      BY <1>8, <2>2
    <2>3. CASE ChkSmallTree(b)
      BY <1>5, <2>1, <2>3 DEF ChkSmallTree
    <2>4. CASE BrokerFull(b)
      BY <1>5, <2>1, <2>4 DEF BrokerFull
    <2>5. CASE PassOverTwo(b)
      BY <1>5, <2>1, <2>5 DEF PassOverTwo
    <2> QED
      BY <1>14, <2>2, <2>3, <2>4, <2>5 DEF BrokerSubCallback
  <1>15. ASSUME NEW b \in Broker, Return(b) \/ RemoveSmallTree(b) PROVE TokenInv'
    BY <1>6, <1>15 DEF Return, RemoveSmallTree
  <1>16. ASSUME Tick PROVE TokenInv'
    BY <1>6, <1>16 DEF Tick
  <1> QED
    BY <1>10, <1>11, <1>12, <1>13, <1>14, <1>15, <1>16 DEF Next

-----------------------------------------------------------------------------
(* The theorems.                                                           *)

LEMMA NothingYet ==
    /\ \A S : <<>> \in Seq(S)
    /\ Len(<<>>) = 0 /\ \A i : i \notin 1..0
  OBVIOUS

LEMMA Start ==
    ASSUME Init
    PROVE  Routed /\ AlignInv /\ AgeInv /\ TokenInv
  <1>1. /\ \A b \in Broker : dq[b] = <<>> /\ sq[b] = <<>> /\ small[b] = <<>> /\ at[b] = <<>>
        /\ \A b \in Broker : \A i : /\ i \notin 1..Len(dq[b]) /\ i \notin 1..Len(sq[b])
                                    /\ i \notin 1..Len(small[b]) /\ i \notin 1..Len(at[b])
    <2>1. \A b \in Broker : dq[b] = <<>> /\ sq[b] = <<>> /\ small[b] = <<>> /\ at[b] = <<>>
      BY DEF Init
    <2> QED
      BY <2>1, NothingYet
  <1>2. QueueType /\ at \in [Broker -> Seq(Seq(Frame))]
    BY NothingYet DEF Init, QueueType
  <1>3. RunType
    BY DEF Init, RunType
  <1>4. TreeType
    <2>1. 0 \in 0..MaxAge
      BY MaxAgeType
    <2> QED
      BY <2>1, NothingYet DEF Init, TreeType
  <1>5. MailInv
    <2>1. \A b \in Broker : Begins(dq[b], ToDealer(b)) /\ Begins(sq[b], ToSub(b))
      BY <1>1 DEF Begins
    <2>2. asked \subseteq Request /\ answered \subseteq asked
      BY DEF Init
    <2> QED
      BY <1>1, <1>2, <2>1, <2>2 DEF MailInv
  <1>6. TreeInv
    <2>1. \A b \in Broker : TreeOK(small[b])
      BY <1>1 DEF TreeOK, Distinct, Offered, Rooted, Together
    <2> QED
      BY <2>1 DEF TreeInv
  <1>7. AlignInv
    BY <1>1 DEF AlignInv
  <1>8. AgeInv
    BY <1>1 DEF AgeInv, Nodes
  <1>9. TokenInv
    <2>1. \A r, m, K, x, i : ~Token(K, x, i, r, m)
      BY <1>1 DEF Token, Holds
    <2> QED
      BY <2>1 DEF TokenInv
  <1> QED
    BY <1>2, <1>3, <1>4, <1>5, <1>6, <1>7, <1>8, <1>9 DEF Routed, StateType

\* Nothing changes.
LEMMA RoutedStays == ASSUME Routed, UNCHANGED vars PROVE Routed'
  <1>1. UNCHANGED <<dq, sq, running, dirty, small, age, swept, asked, at, answered>>
    BY DEF vars, queues, trees
  <1>2. StateType'
    BY <1>1 DEF Routed, StateType, QueueType, RunType, TreeType
  <1>3. MailInv'
    <2>1. \A b : /\ ToDealer(b)' = ToDealer(b) /\ ToSub(b)' = ToSub(b) /\ ToBroker(b)' = ToBroker(b)
      BY <1>1 DEF ToDealer, ToSub, ToBroker, Asked, Answered
    <2> QED
      BY <1>1, <2>1 DEF Routed, MailInv
  <1>4. TreeInv'
    <2>1. \A b \in Broker : TreeOK(small'[b])
      BY <1>1 DEF Routed, TreeInv
    <2> QED
      BY <2>1 DEF TreeInv
  <1> QED
    BY <1>2, <1>3, <1>4 DEF Routed

LEMMA AlignStays == ASSUME AlignInv, UNCHANGED vars PROVE AlignInv'
  BY DEF vars, queues, AlignInv

LEMMA AgeStays == ASSUME AgeInv, UNCHANGED vars PROVE AgeInv'
  <1>1. UNCHANGED <<small, age, swept>>
    BY DEF vars, trees
  <1>2. \A b : Nodes(b)' = Nodes(b)
    BY <1>1 DEF Nodes
  <1>3. \A b \in Broker : \A c : Ahead(small'[b], c) = Ahead(small[b], c)
    BY <1>1
  <1> QED
    BY <1>1, <1>2, <1>3 DEF AgeInv

LEMMA TokenKept == ASSUME TokenInv, UNCHANGED vars PROVE TokenInv'
  <1>1. UNCHANGED <<dq, sq, asked, at, answered>>
    BY DEF vars, queues
  <1>2. \A r, m, K, x, i : Token(K, x, i, r, m)' <=> Token(K, x, i, r, m)
    BY <1>1 DEF Token
  <1>3. \A r : Seen(r)' = Seen(r)
    BY <1>1 DEF Seen
  <1> QED
    BY <1>2, <1>3 DEF TokenInv

\* Every queue holds whole messages that belong there, every router got what it
\* should, and every small tree is a tree: the invariant the others rest on.
THEOREM Routing == Spec => []Routed
  <1>1. Init => Routed
    BY Start
  <1>2. ASSUME Routed, [Next]_vars PROVE Routed'
    <2>1. CASE Next
      <3>1. QueueType' /\ RunType' /\ TreeType' /\ TreeInv' /\ MailInv'
        BY <1>2, <2>1, QueueMail, RunStep, TreeStep, MailStep
      <3> QED
        BY <3>1 DEF Routed, StateType
    <2>2. CASE UNCHANGED vars
      BY <1>2, <2>2, RoutedStays
    <2> QED
      BY <1>2, <2>1, <2>2
  <1> QED
    BY <1>1, <1>2, PTL DEF Spec

\* A tree without repetition is as long as it has nodes.
LEMMA TreeSize ==
    ASSUME NEW q \in Seq(Node), Distinct(q)
    PROVE  Len(q) = Cardinality({q[i] : i \in 1..Len(q)})
  <1>1. PICK n \in Nat : n = Len(q)
    BY LenProperties
  <1> DEFINE S == {q[i] : i \in 1..n}
             f == [i \in 1..n |-> q[i]]
  <1>2. f \in Bijection(1..n, S)
    <2>1. f \in [1..n -> S]
      OBVIOUS
    <2>2. \A i, j \in 1..n : f[i] = f[j] => i = j
      BY <1>1 DEF Distinct
    <2>3. \A y \in S : \E i \in 1..n : f[i] = y
      OBVIOUS
    <2> HIDE DEF f, S
    <2> QED
      <3>1. f \in Injection(1..n, S)
        BY <2>1, <2>2 DEF Injection, IsInjective
      <3>2. f \in Surjection(1..n, S)
        BY <2>1, <2>3 DEF Surjection
      <3> QED
        BY <3>1, <3>2 DEF Bijection
  <1>3. Cardinality(S) = n
    <2>1. ExistsBijection(1..n, S)
      BY <1>2 DEF ExistsBijection
    <2> HIDE DEF S
    <2> QED
      BY <2>1, FS_CountingElements
  <1> QED
    BY <1>1, <1>3

\* Every state is of the types that TypeOK states: queues of frames the threads
\* know, small trees without repetition in which every service has its broker's
\* node (chk_small_tree, remove_smalltree_callback), ages within their bound,
\* and no answer to a request that was not sent.
THEOREM TypeCorrect == Spec => []TypeOK
  <1>1. ASSUME Routed PROVE TypeOK
    <2>1. \A q \in Seq(Frame) : WellFormed(q)
      <3> SUFFICES ASSUME NEW q \in Seq(Frame), NEW i \in 1..Len(q) PROVE q[i].k \in FrameKind
        BY DEF WellFormed
      <3>1. q[i] \in Frame
        BY ElementOfSeq
      <3> QED
        BY <3>1 DEF Frame
    <2>2. \A b \in Broker : WellFormed(dq[b]) /\ WellFormed(sq[b])
      BY <1>1, <2>1 DEF Routed, StateType, QueueType
    <2>3. ASSUME NEW b \in Broker PROVE Nodes(b) \subseteq Node /\ Len(small[b]) = Cardinality(Nodes(b))
      <3>1. small[b] \in Seq(Node) /\ Distinct(small[b])
        BY <1>1 DEF Routed, StateType, TreeType, TreeInv, TreeOK
      <3>2. \A i \in 1..Len(small[b]) : small[b][i] \in Node
        BY <3>1, ElementOfSeq
      <3>3. PICK q : q = small[b]
        OBVIOUS
      <3>4. Len(q) = Cardinality({q[i] : i \in 1..Len(q)})
        BY <3>1, <3>3, TreeSize
      <3> QED
        BY <3>2, <3>3, <3>4 DEF Nodes
    <2>4. ASSUME NEW b \in Broker, NEW x \in Nodes(b) PROVE <<x[1]>> \in Nodes(b)
      <3>1. PICK i \in 1..Len(small[b]) : x = small[b][i]
        BY <2>4 DEF Nodes
      <3>2. PICK j \in 1..i : small[b][j] = <<x[1]>>
        BY <1>1, <3>1 DEF Routed, TreeInv, TreeOK, Rooted
      <3>3. j \in 1..Len(small[b])
        <4>1. PICK n \in Nat : n = Len(small[b])
          BY <1>1, LenProperties DEF Routed, StateType, TreeType
        <4> QED
          BY <4>1
      <3> QED
        BY <3>2, <3>3 DEF Nodes
    <2> QED
      BY <1>1, <2>2, <2>3, <2>4 DEF TypeOK, Routed, StateType, RunType, TreeType, MailInv
  <1> QED
    BY <1>1, Routing, PTL

\* Requests and responses that cross the hub arrive whole and at the right
\* broker (find_svc_and_relay, find_broker_and_relay, relay_to_broker): a
\* request at another broker that offers its service, with its own broker in
\* the tag; a response at the broker its request came from.
THEOREM RoutedAreRight == Spec => []RoutedRight
  <1>1. ASSUME Routed, NEW b \in Broker, NEW i \in 1..Len(at[b]) PROVE RightPlace(b, at[b][i])
    <2>1. at[b][i] \in ToBroker(b) /\ asked \subseteq Request /\ answered \subseteq asked
      BY <1>1 DEF Routed, MailInv
    <2>2. PICK f : f = at[b][i]
      OBVIOUS
    <2>3. CASE \E m \in Asked(b) : f = Home("req", m)
      <3>1. PICK m \in Asked(b) : f = Home("req", m)
        BY <2>3
      <3>2. m \in Request
        BY <2>1 DEF Asked
      <3>3. f = HomeReq(m) /\ f[4].v = m
        BY <3>1, <3>2, HomeParts, FrameParts
      <3> QED
        BY <2>2, <3>3 DEF RightPlace, HomeReq, Asked
    <2>4. CASE \E m \in Answered(b) : f = Home("res", m)
      <3>1. PICK m \in Answered(b) : f = Home("res", m)
        BY <2>4
      <3>2. m \in Request
        BY <2>1 DEF Answered
      <3>3. f = HomeRes(m) /\ f[4].v = m
        BY <3>1, <3>2, HomeParts, FrameParts
      <3> QED
        BY <2>2, <3>3 DEF RightPlace, HomeRes, Answered
    <2> QED
      BY <2>1, <2>2, <2>3, <2>4 DEF ToBroker
  <1>2. Routed => RoutedRight
    BY <1>1 DEF RoutedRight
  <1> QED
    BY <1>2, Routing, PTL

\* No request and no response reaches brokers twice, however the callbacks'
\* reads of one buffer interleave (interhub_callback, broker_sub_callback).
THEOREM RoutedAtMostOnce == Spec => []RoutedOnce
  <1>1. Init => TokenInv
    BY Start
  <1>2. ASSUME TokenInv, Routed, [Next]_vars PROVE TokenInv'
    BY <1>2, TokenStep, TokenKept
  <1>3. ASSUME Routed, TokenInv PROVE RoutedOnce
    <2> SUFFICES ASSUME NEW b \in Broker, NEW c \in Broker, NEW i \in 1..Len(at[b]), NEW j \in 1..Len(at[c]),
                        <<b, i>> # <<c, j>>, at[b][i] = at[c][j]
                 PROVE  FALSE
      BY DEF RoutedOnce
    <2>1. at[b][i] \in ToBroker(b) /\ asked \subseteq Request /\ answered \subseteq asked
      BY <1>3 DEF Routed, MailInv
    <2>2. PICK r \in Sort, m \in Request : at[b][i] = Home(r, m)
      BY <2>1 DEF ToBroker, Asked, Answered, Sort
    <2>3. Token("at", b, i, r, m) /\ Token("at", c, j, r, m)
      BY <2>2 DEF Token
    <2>4. b = c /\ i = j
      BY <1>3, <2>3 DEF TokenInv
    <2> QED
      BY <2>4
  <1> QED
    BY <1>1, <1>2, <1>3, Routing, PTL DEF Spec

\* A callback never returns in the middle of a message, whatever it passed over
\* and though it never clears its buffer between frames: the next one starts
\* with a type, or a topic, where it expects one.
THEOREM StaysAligned == Spec => []Aligned
  <1>1. Init => AlignInv
    BY Start
  <1>2. ASSUME AlignInv, Routed, [Next]_vars PROVE AlignInv'
    BY <1>2, AlignStep, AlignStays
  <1>3. AlignInv => Aligned
    BY DEF AlignInv, Aligned
  <1> QED
    BY <1>1, <1>2, <1>3, Routing, PTL DEF Spec

\* Where every broker has at most one service, no route is kept longer than its
\* lease and a second for every broker: remove_smalltree_callback removes one
\* old node a second, the first, but then all of its broker's.
THEOREM RoutesAreLeased ==
    ASSUME OneEach
    PROVE  Spec => []RouteLease
  <1>1. Init => AgeInv
    BY Start
  <1>2. ASSUME AgeInv, Routed, [Next]_vars PROVE AgeInv'
    BY <1>2, AgeStep, AgeStays
  <1>3. ASSUME AgeInv, Routed PROVE RouteLease
    <2> SUFFICES ASSUME NEW b \in Broker, NEW x \in Nodes(b)
                 PROVE  age[b][x] <= TMCHK_BROKER_SVC + Cardinality(Broker)
      BY DEF RouteLease
    <2>1. PICK t \in Nat, n \in Nat : t = TMCHK_BROKER_SVC /\ n = Cardinality(Broker)
      BY MaxAgeType, RoutingAssumption
    <2>2. age[b][x] \in Nat
      <3>1. x \in Node
        <4>1. PICK i \in 1..Len(small[b]) : x = small[b][i]
          BY DEF Nodes
        <4> QED
          BY <1>3, <4>1, ElementOfSeq DEF Routed, StateType, TreeType
      <3>2. age[b][x] \in 0..MaxAge
        BY <1>3, <3>1 DEF Routed, StateType, TreeType
      <3> QED
        BY <3>2, MaxAgeType
    <2>3. CASE age[b][x] <= TMCHK_BROKER_SVC
      BY <2>1, <2>2, <2>3
    <2>4. CASE age[b][x] > TMCHK_BROKER_SVC
      <3>1. PICK a : a = Cardinality(Ahead(small[b], x[1]))
        OBVIOUS
      <3>2. a \in Nat
        <4>1. IsFiniteSet(Broker) /\ Ahead(small[b], x[1]) \subseteq Broker
          BY RoutingAssumption DEF Ahead
        <4> QED
          BY <3>1, <4>1, FS_Subset, FS_CardinalityType
      <3>3. age[b][x] + a + (IF b \in swept THEN 1 ELSE 0) <= t + n
        BY <1>3, <2>1, <2>4, <3>1 DEF AgeInv
      <3> QED
        BY <2>1, <2>2, <3>2, <3>3
    <2> QED
      BY <2>1, <2>2, <2>3, <2>4
  <1> QED
    BY <1>1, <1>2, <1>3, Routing, PTL DEF Spec
===============================================================================
