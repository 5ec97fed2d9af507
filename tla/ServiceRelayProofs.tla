------------------------- MODULE ServiceRelayProofs -------------------------
(***************************************************************************)
(* Proofs about ServiceRelay for any services, processes and requests.     *)
(*                                                                         *)
(* StateType says of every queue which ends of which messages it may hold, *)
(* PartsOK what a relay has read and begun to send of one.  UpAt and       *)
(* DownAt are the places of a message before and after the router: ReqInv  *)
(* says that a request is at no two of them, ResInv the same of an answer, *)
(* and WayInv for whom a place is.                                         *)
(***************************************************************************)
EXTENDS ServiceRelay, SequenceTheorems, TLAPS

-----------------------------------------------------------------------------
(* Messages.                                                               *)

\* What a request is when its service was reached, what an answer is when its
\* service's slot, and when the process itself was reached.
Ask(m, k) == <<F("tag", m), F(k, m)>>
Note(m)   == <<F("svc", SvcOf[From[m]]), F("name", From[m]), F("body", m)>>
Answer(m) == <<F("name", From[m]), F("body", m)>>

Asked(M) == {Ask(m, k) : m \in M, k \in BodyKind}
Sent     == {ReqFrames(m, k) : m \in Request, k \in BodyKind} \cup {ResFrames(m) : m \in Request}

LEMMA FrameParts == ASSUME NEW a, NEW b PROVE F(a, b).k = a /\ F(a, b).v = b
  BY DEF F

LEMMA FrameType ==
    ASSUME NEW m \in Request
    PROVE  /\ F("type", "svc_req") \in Frame /\ F("type", "svc_res") \in Frame
           /\ F("svc", To[m]) \in Frame /\ F("svc", SvcOf[From[m]]) \in Frame
           /\ F("tag", m) \in Frame /\ F("name", From[m]) \in Frame
           /\ \A k \in BodyKind : F(k, m) \in Frame
           /\ F("body", m) \in Frame
  <1>1. /\ To[m] \in Svc /\ From[m] \in Proc /\ SvcOf[From[m]] \in Svc
    BY RelayAssumption
  <1>2. F("type", "svc_req") \in Frame /\ F("type", "svc_res") \in Frame
    BY DEF Frame
  <1>3. F("svc", To[m]) \in Frame /\ F("svc", SvcOf[From[m]]) \in Frame
    BY <1>1 DEF Frame
  <1>4. F("name", From[m]) \in Frame
    BY <1>1 DEF Frame
  <1>5. F("tag", m) \in Frame /\ \A k \in BodyKind : F(k, m) \in Frame
    BY DEF Frame
  <1>6. "body" \in BodyKind
    BY DEF BodyKind
  <1> QED
    BY <1>2, <1>3, <1>4, <1>5, <1>6

\* A request is four frames, and what its service gets are the last two.
LEMMA ReqValue ==
    ASSUME NEW m \in Request, NEW k \in BodyKind
    PROVE  /\ ReqFrames(m, k) \in Seq(Frame) /\ Len(ReqFrames(m, k)) = 4
           /\ ReqFrames(m, k)[1] = F("type", "svc_req")
           /\ ReqFrames(m, k)[2] = F("svc", To[m])
           /\ ReqFrames(m, k)[3] = F("tag", m) /\ ReqFrames(m, k)[4] = F(k, m)
           /\ SubSeq(ReqFrames(m, k), 3, 4) = Ask(m, k)
  <1> DEFINE x == ReqFrames(m, k)
             c == <<F("type", "svc_req"), F("svc", To[m]), F("tag", m), F(k, m)>>
  <1>0. c \in Seq(Frame) /\ Len(c) = 4
    BY FrameType
  <1>1. /\ x \in Seq(Frame) /\ Len(x) = 4
        /\ x[1] = F("type", "svc_req") /\ x[2] = F("svc", To[m])
        /\ x[3] = F("tag", m) /\ x[4] = F(k, m)
    BY <1>0 DEF ReqFrames
  <1>2. F("tag", m) \in Frame /\ F(k, m) \in Frame
    BY FrameType
  <1> HIDE DEF x
  <1>3. /\ SubSeq(x, 3, 4) \in Seq(Frame) /\ Len(SubSeq(x, 3, 4)) = 2
        /\ SubSeq(x, 3, 4)[1] = x[3] /\ SubSeq(x, 3, 4)[2] = x[4]
    <2>1. \A i \in 3..4 : x[i] \in Frame
      <3>1. \A i \in 3..4 : i \in 1..Len(x)
        BY <1>1
      <3> QED
        BY <1>1, <3>1, ElementOfSeq
    <2>2. /\ SubSeq(x, 3, 4) \in Seq(Frame)
          /\ Len(SubSeq(x, 3, 4)) = IF 3 <= 4 THEN 4 - 3 + 1 ELSE 0
          /\ \A i \in 1..(4 - 3 + 1) : SubSeq(x, 3, 4)[i] = x[3 + i - 1]
      BY <2>1, SubSeqProperties
    <2> QED
      BY <2>2
  <1>4. /\ Ask(m, k) \in Seq(Frame) /\ Len(Ask(m, k)) = 2
        /\ Ask(m, k)[1] = F("tag", m) /\ Ask(m, k)[2] = F(k, m)
    BY <1>2 DEF Ask
  <1>5. SubSeq(x, 3, 4) = Ask(m, k)
    <2> DEFINE y == SubSeq(x, 3, 4)
               z == Ask(m, k)
    <2>1. /\ y \in Seq(Frame) /\ z \in Seq(Frame) /\ Len(y) = 2 /\ Len(z) = 2
          /\ y[1] = z[1] /\ y[2] = z[2]
      BY <1>1, <1>3, <1>4
    <2> HIDE DEF y, z
    <2>2. \A i \in 1..Len(y) : y[i] = z[i]
      BY <2>1
    <2>3. y = z
      BY <2>1, <2>2, SeqEqual
    <2> QED
      BY <2>3 DEF y, z
  <1> QED
    BY <1>1, <1>5 DEF x

LEMMA ResValue ==
    ASSUME NEW m \in Request
    PROVE  /\ ResFrames(m) \in Seq(Frame) /\ Len(ResFrames(m)) = 4
           /\ ResFrames(m)[1] = F("type", "svc_res")
           /\ ResFrames(m)[2] = F("svc", SvcOf[From[m]])
           /\ ResFrames(m)[3] = F("name", From[m]) /\ ResFrames(m)[4] = F("body", m)
           /\ Tail(ResFrames(m)) = Note(m) /\ Tail(Note(m)) = Answer(m)
           /\ Note(m) \in Seq(Frame) /\ Len(Note(m)) = 3 /\ Note(m)[1] = F("svc", SvcOf[From[m]])
           /\ Answer(m) \in Seq(Frame) /\ Len(Answer(m)) = 2
           /\ Answer(m)[1] = F("name", From[m]) /\ Answer(m)[2] = F("body", m)
  <1>1. <<F("type", "svc_res"), F("svc", SvcOf[From[m]]), F("name", From[m]), F("body", m)>>
           \in Seq(Frame)
    BY FrameType
  <1>2. /\ Note(m) \in Seq(Frame) /\ Len(Note(m)) = 3 /\ Note(m)[1] = F("svc", SvcOf[From[m]])
    BY FrameType DEF Note
  <1>3. /\ Answer(m) \in Seq(Frame) /\ Len(Answer(m)) = 2
        /\ Answer(m)[1] = F("name", From[m]) /\ Answer(m)[2] = F("body", m)
    BY FrameType DEF Answer
  <1>4. Tail(Note(m)) = Answer(m)
    BY DEF Note, Answer
  <1>5. Tail(ResFrames(m)) = Note(m)
    BY DEF Note, ResFrames
  <1> QED
    BY <1>1, <1>2, <1>3, <1>4, <1>5 DEF ResFrames

LEMMA AskValue ==
    ASSUME NEW m \in Request, NEW k \in BodyKind
    PROVE  /\ Ask(m, k) \in Seq(Frame) /\ Len(Ask(m, k)) = 2
           /\ Ask(m, k)[1] = F("tag", m) /\ Ask(m, k)[2] = F(k, m)
  BY FrameType DEF Ask

LEMMA SentValue ==
    ASSUME NEW x \in Sent
    PROVE  /\ x \in Seq(Frame) /\ Len(x) = 4 /\ x # <<>>
           /\ x[1].k = "type" /\ \A i \in 2..4 : x[i].k # "type"
           /\ x[1] = F("type", "svc_req") => \E m \in Request, k \in BodyKind : x = ReqFrames(m, k)
           /\ x[1] = F("type", "svc_res") => \E m \in Request : x = ResFrames(m)
  <1>0. \A i \in 2..4 : i = 2 \/ i = 3 \/ i = 4
    OBVIOUS
  <1>00. F("type", "svc_req") # F("type", "svc_res")
    BY DEF F
  <1>1. ASSUME NEW m \in Request, NEW k \in BodyKind, x = ReqFrames(m, k)
        PROVE  /\ x \in Seq(Frame) /\ Len(x) = 4 /\ x # <<>>
               /\ x[1] = F("type", "svc_req") /\ \A i \in 2..4 : x[i].k # "type"
    <2>1. /\ x[2].k = "svc" /\ x[3].k = "tag" /\ x[4].k = k
      <3>1. x[2] = F("svc", To[m]) /\ x[3] = F("tag", m) /\ x[4] = F(k, m)
        BY <1>1, ReqValue
      <3> QED
        BY <3>1, FrameParts
    <2>2. k # "type"
      BY DEF BodyKind
    <2>3. x # <<>>
      <3>1. Len(<<>>) = 0
        OBVIOUS
      <3> QED
        BY <1>1, <3>1, ReqValue
    <2> QED
      BY <1>0, <1>1, <2>1, <2>2, <2>3, ReqValue
  <1>2. ASSUME NEW m \in Request, x = ResFrames(m)
        PROVE  /\ x \in Seq(Frame) /\ Len(x) = 4 /\ x # <<>>
               /\ x[1] = F("type", "svc_res") /\ \A i \in 2..4 : x[i].k # "type"
    <2>1. /\ x[2].k = "svc" /\ x[3].k = "name" /\ x[4].k = "body"
      <3>1. x[2] = F("svc", SvcOf[From[m]]) /\ x[3] = F("name", From[m]) /\ x[4] = F("body", m)
        BY <1>2, ResValue
      <3> QED
        BY <3>1, FrameParts
    <2>3. x # <<>>
      <3>1. Len(<<>>) = 0
        OBVIOUS
      <3> QED
        BY <1>2, <3>1, ResValue
    <2> QED
      BY <1>0, <1>2, <2>1, <2>3, ResValue
  <1>3. F("type", "svc_req").k = "type" /\ F("type", "svc_res").k = "type"
    BY DEF F
  <1>4. CASE \E m \in Request, k \in BodyKind : x = ReqFrames(m, k)
    BY <1>00, <1>1, <1>3, <1>4
  <1>5. CASE \E m \in Request : x = ResFrames(m)
    BY <1>00, <1>2, <1>3, <1>5
  <1> QED
    BY <1>4, <1>5 DEF Sent

LEMMA AskedValue ==
    ASSUME NEW M \in SUBSET Request, NEW x \in Asked(M)
    PROVE  /\ x \in Seq(Frame) /\ Len(x) = 2 /\ x # <<>>
           /\ \E m \in M, k \in BodyKind : x = Ask(m, k)
  <1>1. PICK m \in M, k \in BodyKind : x = Ask(m, k)
    BY DEF Asked
  <1>2. Len(<<>>) = 0
    OBVIOUS
  <1> QED
    BY <1>1, <1>2, AskValue

-----------------------------------------------------------------------------
(* Parts of messages.                                                      *)

\* A queue without its first element.
LEMMA QueueTail ==
    ASSUME NEW S, NEW q \in Seq(S), q # <<>>
    PROVE  /\ Tail(q) \in Seq(S) /\ Len(q) \in Nat \ {0} /\ Len(Tail(q)) = Len(q) - 1
           /\ \A i \in 1..Len(Tail(q)) : Tail(q)[i] = q[i + 1]
           /\ Head(q) = q[1] /\ q[1] \in S
  <1>1. Len(q) \in Nat \ {0}
    BY EmptySeq
  <1>2. q[1] \in S
    BY <1>1, ElementOfSeq
  <1> QED
    BY <1>1, <1>2, HeadTailProperties

\* What is left of the messages in X when their first frames were lost, and
\* what is left of them when their first frames were read.
Ends(X)  == {q \in Seq(Frame) : q # <<>> /\ \E x \in X, h \in Seq(Frame) : h \o q = x}
Rests(X) == {q \in Seq(Frame) : q # <<>> /\ \E x \in X, h \in Seq(Frame) : h # <<>> /\ h \o q = x}

\* A frame moves from what is left of a message to what was read of it.
LEMMA MoveFrame ==
    ASSUME NEW u \in Seq(Frame), NEW w \in Seq(Frame), w # <<>>
    PROVE  /\ Head(w) \in Frame /\ Tail(w) \in Seq(Frame)
           /\ Append(u, Head(w)) \in Seq(Frame) /\ Append(u, Head(w)) # <<>>
           /\ Append(u, Head(w)) \o Tail(w) = u \o w
  <1>1. Head(w) \in Frame /\ Tail(w) \in Seq(Frame)
    BY HeadTailProperties
  <1>2. Append(u, Head(w)) = u \o <<Head(w)>>
    BY <1>1, AppendIsConcat
  <1>3. w = <<Head(w)>> \o Tail(w)
    <2>1. Len(w) \in Nat \ {0}
      BY EmptySeq
    <2>2. SubSeq(w, 1, Len(w)) = <<w[1]>> \o SubSeq(w, 1 + 1, Len(w))
      BY <2>1, SubSeqRecursiveFirst
    <2>3. SubSeq(w, 1, Len(w)) = w /\ Tail(w) = SubSeq(w, 1 + 1, Len(w))
      BY SubSeqFull, TailIsSubSeq
    <2>4. Head(w) = w[1]
      BY QueueTail
    <2> QED
      BY <2>2, <2>3, <2>4
  <1>4. <<Head(w)>> \in Seq(Frame)
    BY <1>1
  <1>5. (u \o <<Head(w)>>) \o Tail(w) = u \o (<<Head(w)>> \o Tail(w))
    BY <1>1, <1>4, ConcatAssociative
  <1>6. Append(u, Head(w)) \in Seq(Frame) /\ Append(u, Head(w)) # <<>>
    BY <1>1, AppendProperties
  <1> QED
    BY <1>1, <1>2, <1>3, <1>5, <1>6

\* The same when nothing was read: one frame begins the message.
LEMMA FirstFrame ==
    ASSUME NEW w \in Seq(Frame), w # <<>>
    PROVE  /\ <<Head(w)>> \in Seq(Frame) /\ <<Head(w)>> # <<>>
           /\ <<Head(w)>> \o Tail(w) = w
           /\ Len(w) = 1 => <<Head(w)>> = w
           /\ Len(w) \in Nat \ {0} /\ Len(<<Head(w)>>) = 1
           /\ Len(w) <= 1 <=> Tail(w) = <<>>
  <1>1. Head(w) \in Frame /\ Tail(w) \in Seq(Frame) /\ Len(Tail(w)) = Len(w) - 1
    BY HeadTailProperties
  <1>2. Len(w) \in Nat \ {0} /\ Head(w) = w[1]
    BY QueueTail
  <1>3. <<Head(w)>> \in Seq(Frame) /\ Len(<<Head(w)>>) = 1 /\ <<Head(w)>>[1] = Head(w)
    BY <1>1
  <1>4. <<Head(w)>> \o Tail(w) = w
    <2>2. SubSeq(w, 1, Len(w)) = <<w[1]>> \o SubSeq(w, 1 + 1, Len(w))
      BY <1>2, SubSeqRecursiveFirst
    <2>3. SubSeq(w, 1, Len(w)) = w /\ Tail(w) = SubSeq(w, 1 + 1, Len(w))
      BY SubSeqFull, TailIsSubSeq
    <2> QED
      BY <1>2, <2>2, <2>3
  <1>5. Len(w) <= 1 <=> Tail(w) = <<>>
    <2>1. Tail(w) = <<>> <=> Len(Tail(w)) = 0
      <3>1. Len(<<>>) = 0
        OBVIOUS
      <3> QED
        BY <1>1, <3>1, EmptySeq
    <2> QED
      BY <1>1, <1>2, <2>1
  <1>6. Len(w) = 1 => <<Head(w)>> = w
    <2> SUFFICES ASSUME Len(w) = 1 PROVE <<Head(w)>> = w
      OBVIOUS
    <2>1. <<Head(w)>> \o <<>> = w
      BY <1>4, <1>5
    <2> QED
      BY <1>3, <2>1, ConcatEmptySeq
  <1>7. <<Head(w)>> # <<>>
    <2>1. Len(<<>>) = 0
      OBVIOUS
    <2> QED
      BY <1>3, <2>1
  <1> QED
    BY <1>2, <1>3, <1>4, <1>5, <1>6, <1>7

\* The length of what is left.
LEMMA EndLength ==
    ASSUME NEW h \in Seq(Frame), NEW q \in Seq(Frame), NEW x, h \o q = x
    PROVE  /\ x \in Seq(Frame) /\ Len(x) = Len(h) + Len(q)
           /\ Len(h) \in Nat /\ Len(q) \in Nat /\ Len(q) <= Len(x)
           /\ h = <<>> => q = x
           /\ h # <<>> => Len(h) >= 1 /\ Len(q) < Len(x)
           /\ Len(q) = Len(x) => q = x
           /\ \A i \in 1..Len(q) : q[i] = x[Len(h) + i] /\ Len(h) + i \in 1..Len(x)
  <1>1. /\ h \o q \in Seq(Frame) /\ Len(h \o q) = Len(h) + Len(q)
        /\ \A i \in 1..(Len(h) + Len(q)) :
              (h \o q)[i] = IF i <= Len(h) THEN h[i] ELSE q[i - Len(h)]
    BY ConcatProperties
  <1>2. Len(h) \in Nat /\ Len(q) \in Nat
    BY LenProperties
  <1>3. h = <<>> => q = x
    BY ConcatEmptySeq
  <1>4. h # <<>> => Len(h) \in Nat \ {0}
    BY EmptySeq
  <1>5. \A i \in 1..Len(q) : q[i] = x[Len(h) + i] /\ Len(h) + i \in 1..Len(x)
    <2> TAKE i \in 1..Len(q)
    <2>1. PICK j : j = Len(h) + i
      OBVIOUS
    <2>2. j \in 1..(Len(h) + Len(q)) /\ ~(j <= Len(h)) /\ j - Len(h) = i
      BY <1>2, <2>1
    <2> QED
      BY <1>1, <2>1, <2>2
  <1> QED
    BY <1>1, <1>2, <1>3, <1>4, <1>5

LEMMA EndsOf ==
    ASSUME NEW X, X \subseteq Seq(Frame) \ {<<>>}
    PROVE  /\ X \subseteq Ends(X) /\ Rests(X) \subseteq Ends(X)
           /\ \A q \in Ends(X) : Tail(q) \in Seq(Frame) /\ (Tail(q) # <<>> => Tail(q) \in Rests(X))
  <1>1. <<>> \in Seq(Frame)
    OBVIOUS
  <1>2. X \subseteq Ends(X)
    <2> SUFFICES ASSUME NEW x \in X PROVE x \in Ends(X)
      OBVIOUS
    <2>1. <<>> \o x = x
      BY ConcatEmptySeq
    <2> QED
      BY <1>1, <2>1 DEF Ends
  <1>3. Rests(X) \subseteq Ends(X)
    BY DEF Ends, Rests
  <1>4. ASSUME NEW q \in Ends(X) PROVE Tail(q) \in Seq(Frame) /\ (Tail(q) # <<>> => Tail(q) \in Rests(X))
    <2>1. PICK x \in X, h \in Seq(Frame) : h \o q = x
      BY <1>4 DEF Ends
    <2>2. q \in Seq(Frame) /\ q # <<>>
      BY <1>4 DEF Ends
    <2>3. /\ Tail(q) \in Seq(Frame) /\ Append(h, Head(q)) \in Seq(Frame) /\ Append(h, Head(q)) # <<>>
          /\ Append(h, Head(q)) \o Tail(q) = x
      BY <2>1, <2>2, MoveFrame
    <2> QED
      BY <2>3 DEF Rests
  <1> QED
    BY <1>2, <1>3, <1>4

LEMMA EndsMonotonic == ASSUME NEW X, NEW Y, X \subseteq Y PROVE Ends(X) \subseteq Ends(Y)
  BY DEF Ends

\* An end of a message of n frames has n frames at most, and is the message if
\* it has so many.
LEMMA EndSize ==
    ASSUME NEW X, NEW n \in Nat, \A x \in X : Len(x) = n, NEW q \in Ends(X)
    PROVE  q \in Seq(Frame) /\ q # <<>> /\ Len(q) \in 1..n /\ (Len(q) = n => q \in X)
  <1>1. PICK x \in X, h \in Seq(Frame) : h \o q = x
    BY DEF Ends
  <1>2. q \in Seq(Frame) /\ q # <<>>
    BY DEF Ends
  <1>3. /\ Len(q) \in Nat /\ Len(q) <= Len(x)
        /\ Len(q) = Len(x) => q = x
    BY <1>1, <1>2, EndLength
  <1>4. Len(q) # 0 /\ Len(x) = n
    BY <1>2, EmptySeq
  <1> QED
    BY <1>1, <1>2, <1>3, <1>4

LEMMA RestSize ==
    ASSUME NEW X, NEW n \in Nat, \A x \in X : Len(x) = n, NEW q \in Rests(X)
    PROVE  Len(q) \in 1..n /\ Len(q) < n
  <1>1. PICK x \in X, h \in Seq(Frame) : h # <<>> /\ h \o q = x
    BY DEF Rests
  <1>2. q \in Seq(Frame) /\ q # <<>>
    BY DEF Rests
  <1>3. /\ Len(q) \in Nat /\ Len(q) < Len(x)
    BY <1>1, <1>2, EndLength
  <1>4. Len(q) # 0
    BY <1>2, EmptySeq
  <1> QED
    BY <1>3, <1>4

\* An end that begins with a type is a whole message.
LEMMA TypedEnd ==
    ASSUME NEW q \in Ends(Sent), q[1].k = "type"
    PROVE  q \in Sent
  <1>1. PICK x \in Sent, h \in Seq(Frame) : h \o q = x
    BY DEF Ends
  <1>2. q \in Seq(Frame) /\ q # <<>>
    BY DEF Ends
  <1>3. /\ Len(x) = Len(h) + Len(q)
        /\ Len(h) \in Nat /\ Len(q) \in Nat
        /\ h = <<>> => q = x
        /\ h # <<>> => Len(h) >= 1
    BY <1>1, <1>2, EndLength
  <1>4. \A i \in 1..Len(q) : q[i] = x[Len(h) + i]
    BY <1>1, <1>2, EndLength
  <1>5. Len(q) # 0 /\ Len(x) = 4
    BY <1>2, EmptySeq, SentValue
  <1>6. CASE h # <<>>
    <2>1. PICK j : j = Len(h) + 1
      OBVIOUS
    <2>2. j \in 2..4 /\ 1 \in 1..Len(q)
      <3>1. PICK a \in Nat, b \in Nat : a = Len(h) /\ b = Len(q)
        BY <1>3
      <3>2. a + b = 4 /\ b # 0 /\ a >= 1
        BY <1>3, <1>5, <1>6, <3>1
      <3> QED
        BY <2>1, <3>1, <3>2
    <2>3. q[1] = x[j]
      BY <1>4, <2>1, <2>2
    <2> QED
      BY <2>2, <2>3, SentValue
  <1> QED
    BY <1>1, <1>3, <1>6

\* The requests for a service, and the messages a relay reads.
For(s)      == {m \in Request : To[m] = s}
Whole(s, w) == IF w = "pull" THEN Sent ELSE Asked(For(s))

LEMMA WholeValue ==
    ASSUME NEW s \in Svc, NEW w \in Way
    PROVE  /\ Whole(s, w) \subseteq Seq(Frame) \ {<<>>}
           /\ \A x \in Whole(s, w) : Len(x) = IF w = "pull" THEN 4 ELSE 2
  <1>1. For(s) \in SUBSET Request
    BY DEF For
  <1> QED
    BY <1>1, SentValue, AskedValue DEF Whole

-----------------------------------------------------------------------------
(* Types.                                                                  *)

Answers == {Answer(m) : m \in Request}
Notes   == {Note(m) : m \in Request}
Takes   == {[by |-> p, tag |-> F("tag", m), body |-> F("body", m)] : p \in Proc, m \in Request}
Reads   == {[by |-> p, name |-> F("name", From[m]), body |-> F("body", m)] : p \in Proc, m \in Request}

SlotType ==
    /\ base \in [Svc -> {0} \cup {Rounded(PortOf[p]) : p \in Proc}]
    /\ releases \in 0..MaxReleases
    /\ gone \subseteq Proc
    /\ conn \in [Proc -> Svc \cup {NULL}]
    /\ \A p \in Proc : conn[p] # NULL => base[conn[p]] # 0
    /\ \A p \in gone : conn[p] = NULL

ThreadType ==
    /\ eye \in [Svc -> [Way -> {"asleep", "ready", "awake"}]]
    /\ cb \in Relay \cup {NULL}

\* What is left of the message a callback reads, and what it has begun to send:
\* the two together are an end of a message.
PartsOK(s, w) ==
    /\ rd[s][w] # <<>> => rd[s][w] \in Rests(Whole(s, w))
    /\ snd[s][w] # NULL => /\ rd[s][w] # <<>> /\ snd[s][w].msg # <<>>
                           /\ snd[s][w].msg \o rd[s][w] \in Ends(Whole(s, w))

RelayType ==
    /\ rd \in [Svc -> [Way -> Seq(Frame)]]
    /\ snd \in [Svc -> [Way -> Begun \cup {NULL}]]
    /\ \A s \in Svc, w \in Way : PartsOK(s, w)

\* The peer of a message that was begun keeps room for it.
BegunUp(s)   == snd[s]["pull"] # NULL => Len(up[s]) < HWM
BegunPush(s) == snd[s]["dealer"] # NULL =>
    LET to == snd[s]["dealer"].to IN
    /\ to \in Proc
    /\ conn[to] = s \/ to \in gone
    /\ conn[to] = s => Len(inq[to]) < HWM
RoomInv == \A s \in Svc : BegunUp(s) /\ BegunPush(s)

OutType  == outq \in [Proc -> Seq(Sent)] /\ \A p \in Proc : Len(outq[p]) <= HWM
UpType   == up \in [Svc -> Seq(Ends(Sent))] /\ \A s \in Svc : Len(up[s]) <= HWM
DqType   == /\ dq \in [Svc -> Seq(Asked(Request))]
            /\ \A s \in Svc : dq[s] \in Seq(Asked(For(s))) /\ Len(dq[s]) <= HWM
InType   == inq \in [Proc -> Seq(Ends(Asked(Request)))] /\ \A p \in Proc : Len(inq[p]) <= HWM
SqType   == sq \in [Svc -> Seq(Notes)] /\ \A s \in Svc : Len(sq[s]) <= HWM
AnsType  == ansq \in [Proc -> Seq(Answers)] /\ \A p \in Proc : Len(ansq[p]) <= HWM
DoneType == /\ hand \in [Proc -> Request \cup {NULL}]
            /\ result \in [Request -> {NULL, "sent", "failed"}]
            /\ taken \in Seq(Takes)
            /\ read \in Seq(Reads)

StateType == /\ SlotType /\ ThreadType /\ RelayType /\ RoomInv /\ OutType /\ UpType /\ DqType
             /\ InType /\ SqType /\ AnsType /\ DoneType

-----------------------------------------------------------------------------
(* The relay.                                                              *)

\* Where RelayFrame reads the frames fr from.
ReadsLeft(s, w, fr) == rd[s][w] # <<>> /\ fr = rd[s][w] /\ UNCHANGED <<outq, dq>>
ReadsProc(s, w, fr, p) ==
    /\ w = "pull" /\ rd[s][w] = <<>> /\ conn[p] = s /\ outq[p] # <<>> /\ fr = outq[p][1]
    /\ outq' = [outq EXCEPT ![p] = Tail(outq[p])]
    /\ UNCHANGED dq
ReadsRouter(s, w, fr) ==
    /\ w = "dealer" /\ rd[s][w] = <<>> /\ dq[s] # <<>> /\ fr = dq[s][1]
    /\ dq' = [dq EXCEPT ![s] = Tail(dq[s])]
    /\ UNCHANGED outq
ReadsFrames(s, w, fr) ==
    ReadsLeft(s, w, fr) \/ (\E p \in Proc : ReadsProc(s, w, fr, p)) \/ ReadsRouter(s, w, fr)

LEMMA ReadsValue ==
    ASSUME StateType, RelayFrame
    PROVE  \E s \in Svc, w \in Way, fr \in Seq(Frame) :
             /\ cb # NULL /\ cb.svc = s /\ cb.way = w /\ cb.cnt < RELAY_MAX
             /\ ReadsFrames(s, w, fr)
             /\ fr \in Ends(Whole(s, w)) /\ fr # <<>>
             /\ rd' = [rd EXCEPT ![s][w] = Tail(fr)]
             /\ SendFrame(s, w, Head(fr), Len(fr) > 1)
             /\ \/ UNCHANGED eye
                \/ eye' = See(s, "dealer", "awake")
             /\ cb' = [cb EXCEPT !.cnt = @ + 1]
             /\ UNCHANGED <<base, releases, gone, conn, sq, ansq, hand, done>>
  <1>1. PICK s \in {cb.svc}, w \in {cb.way} : \E src \in Sources(s, w) :
           LET frames == FramesAt(s, w, src) IN
           /\ rd' = [rd EXCEPT ![s][w] = Tail(frames)]
           /\ outq' = [p \in Proc |-> IF p = src THEN Tail(outq[p]) ELSE outq[p]]
           /\ dq' = IF src = "router" THEN [dq EXCEPT ![s] = Tail(@)] ELSE dq
           /\ SendFrame(s, w, Head(frames), Len(frames) > 1)
           /\ \/ UNCHANGED eye
              \/ w = "pull" /\ eye[s]["dealer"] = "ready" /\ eye' = See(s, "dealer", "awake")
    BY DEF RelayFrame
  <1>2. PICK src \in Sources(s, w) :
           /\ rd' = [rd EXCEPT ![s][w] = Tail(FramesAt(s, w, src))]
           /\ outq' = [p \in Proc |-> IF p = src THEN Tail(outq[p]) ELSE outq[p]]
           /\ dq' = IF src = "router" THEN [dq EXCEPT ![s] = Tail(@)] ELSE dq
           /\ SendFrame(s, w, Head(FramesAt(s, w, src)), Len(FramesAt(s, w, src)) > 1)
           /\ UNCHANGED eye \/ eye' = See(s, "dealer", "awake")
    BY <1>1
  <1>3. /\ cb # NULL /\ cb.svc = s /\ cb.way = w /\ cb.cnt < RELAY_MAX
        /\ cb' = [cb EXCEPT !.cnt = @ + 1]
        /\ UNCHANGED <<base, releases, gone, conn, sq, ansq, hand, done>>
    BY DEF RelayFrame
  <1>4. s \in Svc /\ w \in Way
    BY <1>3 DEF StateType, ThreadType, Relay
  <1>5. /\ "left" \notin Proc /\ "router" \notin Proc
    BY RelayAssumption
  <1>6. Whole(s, w) \subseteq Ends(Whole(s, w)) /\ Rests(Whole(s, w)) \subseteq Ends(Whole(s, w))
    BY <1>4, WholeValue, EndsOf
  <1>7. outq \in [Proc -> Seq(Sent)] /\ dq \in [Svc -> Seq(Asked(Request))]
    BY DEF StateType, OutType, DqType
  <1>8. CASE rd[s][w] # <<>>
    <2>1. src = "left"
      BY <1>8 DEF Sources
    <2>2. FramesAt(s, w, src) = rd[s][w]
      BY <2>1 DEF FramesAt
    <2>3. UNCHANGED <<outq, dq>>
      BY <1>2, <1>5, <1>7, <2>1
    <2>4. rd[s][w] \in Seq(Frame) /\ rd[s][w] \in Ends(Whole(s, w))
      BY <1>4, <1>6, <1>8 DEF StateType, RelayType, PartsOK
    <2> QED
      BY <1>2, <1>3, <1>4, <1>8, <2>2, <2>3, <2>4 DEF ReadsFrames, ReadsLeft
  <1>9. CASE rd[s][w] = <<>> /\ w = "pull"
    <2>1. src \in Proc /\ conn[src] = s /\ outq[src] # <<>>
      BY <1>9 DEF Sources, Waits
    <2>2. FramesAt(s, w, src) = Head(outq[src])
      BY <1>5, <2>1 DEF FramesAt
    <2>3. Head(outq[src]) = outq[src][1] /\ outq[src][1] \in Sent
      BY <1>7, <2>1, QueueTail
    <2>4. outq' = [outq EXCEPT ![src] = Tail(outq[src])] /\ dq' = dq
      BY <1>2, <1>5, <1>7, <2>1
    <2>5. outq[src][1] \in Seq(Frame) /\ outq[src][1] # <<>> /\ outq[src][1] \in Ends(Whole(s, w))
      BY <1>6, <1>9, <2>3, SentValue DEF Whole
    <2> QED
      BY <1>2, <1>3, <1>4, <1>9, <2>1, <2>2, <2>3, <2>4, <2>5 DEF ReadsFrames, ReadsProc
  <1>10. CASE rd[s][w] = <<>> /\ w = "dealer"
    <2>1. src = "router" /\ dq[s] # <<>>
      BY <1>10 DEF Sources
    <2>2. FramesAt(s, w, src) = Head(dq[s])
      BY <2>1 DEF FramesAt
    <2>3. Head(dq[s]) = dq[s][1] /\ dq[s][1] \in Asked(For(s))
      BY <1>4, <2>1, QueueTail DEF StateType, DqType
    <2>4. dq' = [dq EXCEPT ![s] = Tail(dq[s])] /\ outq' = outq
      BY <1>2, <1>5, <1>7, <2>1
    <2>5. For(s) \in SUBSET Request
      BY DEF For
    <2>6. dq[s][1] \in Seq(Frame) /\ dq[s][1] # <<>> /\ dq[s][1] \in Ends(Whole(s, w))
      BY <1>6, <1>10, <2>3, <2>5, AskedValue DEF Whole
    <2> QED
      BY <1>2, <1>3, <1>4, <1>10, <2>1, <2>2, <2>3, <2>4, <2>6 DEF ReadsFrames, ReadsRouter
  <1> QED
    BY <1>4, <1>8, <1>9, <1>10 DEF Way

\* The frame goes on to peer to, which then has msg of the message.
Goes(s, w, fr, to, msg) ==
    IF Tail(fr) # <<>>
    THEN snd' = [snd EXCEPT ![s][w] = [to |-> to, msg |-> msg]] /\ UNCHANGED <<up, inq>>
    ELSE snd' = [snd EXCEPT ![s][w] = NULL] /\ Deliver(s, w, to, msg)

Begins(s, w, fr, to, msg) ==
    snd[s][w] = NULL /\ to \in Takers(s, w) /\ msg = <<Head(fr)>> /\ msg \o Tail(fr) = fr
Continues(s, w, fr, to, msg) ==
    /\ snd[s][w] # NULL /\ to = snd[s][w].to /\ fr = rd[s][w]
    /\ msg \o Tail(fr) = snd[s][w].msg \o rd[s][w]
SendsFrame(s, w, fr, to, msg) ==
    /\ msg # <<>> /\ msg \o Tail(fr) \in Ends(Whole(s, w))
    /\ Tail(fr) = <<>> => msg = msg \o Tail(fr)
    /\ Begins(s, w, fr, to, msg) \/ Continues(s, w, fr, to, msg)
    /\ Goes(s, w, fr, to, msg)
LosesFrame(s, w) == snd[s][w] = NULL /\ Takers(s, w) = {} /\ UNCHANGED <<snd, up, inq>>

LEMMA SendsValue ==
    ASSUME StateType, NEW s \in Svc, NEW w \in Way, NEW fr \in Ends(Whole(s, w)),
           ReadsFrames(s, w, fr), SendFrame(s, w, Head(fr), Len(fr) > 1)
    PROVE  LosesFrame(s, w) \/ \E to \in Svc \cup Proc, msg \in Seq(Frame) : SendsFrame(s, w, fr, to, msg)
  <1>1. fr \in Seq(Frame) /\ fr # <<>>
    BY DEF Ends
  <1>2. (Len(fr) > 1) <=> Tail(fr) # <<>>
    BY <1>1, FirstFrame
  <1>3. Tail(fr) \in Seq(Frame)
    BY <1>1, MoveFrame
  <1>4. CASE snd[s][w] # NULL /\ LET b == snd[s][w] IN Goes(s, w, fr, b.to, Append(b.msg, Head(fr)))
    <2>1. PICK b : b = snd[s][w]
      OBVIOUS
    <2>2. b \in Begun /\ rd[s][w] # <<>> /\ b.msg \o rd[s][w] \in Ends(Whole(s, w))
      BY <1>4, <2>1 DEF StateType, RelayType, PartsOK
    <2>3. fr = rd[s][w]
      BY <2>2 DEF ReadsFrames, ReadsLeft, ReadsProc, ReadsRouter
    <2> DEFINE msg == Append(b.msg, Head(fr))
    <2>4. b.msg \in Seq(Frame)
      BY <2>2 DEF Begun
    <2>5. msg \in Seq(Frame) /\ msg # <<>> /\ msg \o Tail(fr) = b.msg \o fr
      BY <1>1, <2>4, MoveFrame
    <2>6. Tail(fr) = <<>> => msg = msg \o Tail(fr)
      BY <2>5, ConcatEmptySeq
    <2>7. Goes(s, w, fr, b.to, msg)
      BY <1>4, <2>1
    <2> HIDE DEF msg
    <2>8. SendsFrame(s, w, fr, b.to, msg)
      BY <1>4, <2>1, <2>2, <2>3, <2>5, <2>6, <2>7 DEF SendsFrame, Continues
    <2>9. b.to \in Svc \cup Proc
      BY <2>2 DEF Begun
    <2> QED
      BY <2>5, <2>8, <2>9
  <1>5. CASE snd[s][w] = NULL /\ \E to \in Takers(s, w) : Goes(s, w, fr, to, <<Head(fr)>>)
    <2>1. PICK to \in Takers(s, w) : Goes(s, w, fr, to, <<Head(fr)>>)
      BY <1>5
    <2> DEFINE msg == <<Head(fr)>>
    <2>2. msg \in Seq(Frame) /\ msg # <<>> /\ msg \o Tail(fr) = fr
      BY <1>1, FirstFrame
    <2>3. Tail(fr) = <<>> => msg = msg \o Tail(fr)
      BY <2>2, ConcatEmptySeq
    <2>4. SendsFrame(s, w, fr, to, msg)
      BY <1>5, <2>1, <2>2, <2>3 DEF SendsFrame, Begins
    <2>5. to \in Svc \cup Proc
      BY <2>1 DEF Takers
    <2> QED
      BY <2>2, <2>4, <2>5
  <1>6. CASE snd[s][w] = NULL /\ Takers(s, w) = {} /\ UNCHANGED <<snd, up, inq>>
    BY <1>6 DEF LosesFrame
  <1> QED
    BY <1>2, <1>4, <1>5, <1>6 DEF SendFrame, Goes

\* The whole step.
LEMMA RelayValue ==
    ASSUME StateType, RelayFrame
    PROVE  \E s \in Svc, w \in Way, fr \in Seq(Frame) :
             /\ cb # NULL /\ cb.svc = s /\ cb.way = w /\ cb.cnt < RELAY_MAX
             /\ fr \in Ends(Whole(s, w)) /\ ReadsFrames(s, w, fr)
             /\ rd' = [rd EXCEPT ![s][w] = Tail(fr)] /\ Tail(fr) \in Seq(Frame)
             /\ Tail(fr) # <<>> => Tail(fr) \in Rests(Whole(s, w))
             /\ LosesFrame(s, w) \/ \E to \in Svc \cup Proc, msg \in Seq(Frame) : SendsFrame(s, w, fr, to, msg)
             /\ UNCHANGED eye \/ eye' = See(s, "dealer", "awake")
             /\ cb' = [cb EXCEPT !.cnt = @ + 1]
             /\ UNCHANGED <<base, releases, gone, conn, sq, ansq, hand, done>>
  <1>1. PICK s \in Svc, w \in Way, fr \in Seq(Frame) :
             /\ cb # NULL /\ cb.svc = s /\ cb.way = w /\ cb.cnt < RELAY_MAX
             /\ ReadsFrames(s, w, fr)
             /\ fr \in Ends(Whole(s, w)) /\ fr # <<>>
             /\ rd' = [rd EXCEPT ![s][w] = Tail(fr)]
             /\ SendFrame(s, w, Head(fr), Len(fr) > 1)
             /\ UNCHANGED eye \/ eye' = See(s, "dealer", "awake")
             /\ cb' = [cb EXCEPT !.cnt = @ + 1]
             /\ UNCHANGED <<base, releases, gone, conn, sq, ansq, hand, done>>
    BY ReadsValue
  <1>2. LosesFrame(s, w) \/ \E to \in Svc \cup Proc, msg \in Seq(Frame) : SendsFrame(s, w, fr, to, msg)
    BY <1>1, SendsValue
  <1>3. Tail(fr) \in Seq(Frame) /\ (Tail(fr) # <<>> => Tail(fr) \in Rests(Whole(s, w)))
    BY <1>1, WholeValue, EndsOf
  <1> QED
    BY <1>1, <1>2, <1>3

-----------------------------------------------------------------------------
(* The other handlers of messages.                                         *)

\* The router gives a request to the slot of the service it is for.
LEMMA RouteValue ==
    ASSUME StateType, NEW s \in Svc, RouteReq(s)
    PROVE  \E m \in Request, k \in BodyKind :
             /\ To[m] \in Svc /\ up[s] # <<>> /\ up[s][1] = ReqFrames(m, k)
             /\ Len(dq[To[m]]) < HWM
             /\ dq' = [dq EXCEPT ![To[m]] = Append(dq[To[m]], Ask(m, k))]
             /\ eye' = See(To[m], "dealer", Arrived(To[m], "dealer"))
             /\ UNCHANGED sq
  <1>1. up[s] # <<>> /\ Head(up[s])[1] = F("type", "svc_req") /\ UNCHANGED sq
    BY DEF RouteReq, ReadsUp, Is
  <1>2. Head(up[s]) = up[s][1] /\ up[s][1] \in Ends(Sent)
    BY <1>1, QueueTail DEF StateType, UpType
  <1>3. up[s][1] \in Sent
    BY <1>1, <1>2, TypedEnd, FrameParts
  <1>4. PICK m \in Request, k \in BodyKind : up[s][1] = ReqFrames(m, k)
    BY <1>1, <1>2, <1>3, SentValue
  <1>5. PICK to : /\ to = Head(up[s])[2].v /\ Len(dq[to]) < HWM
                  /\ dq' = [dq EXCEPT ![to] = Append(@, SubSeq(Head(up[s]), 3, 4))]
                  /\ eye' = See(to, "dealer", Arrived(to, "dealer"))
    BY DEF RouteReq
  <1>6. to = To[m] /\ SubSeq(Head(up[s]), 3, 4) = Ask(m, k)
    <2>1. Head(up[s]) = ReqFrames(m, k)
      BY <1>2, <1>4
    <2>2. Head(up[s])[2] = F("svc", To[m]) /\ SubSeq(Head(up[s]), 3, 4) = Ask(m, k)
      BY <2>1, ReqValue
    <2>3. F("svc", To[m]).v = To[m]
      BY FrameParts
    <2>4. to = To[m]
      BY <1>5, <2>2, <2>3
    <2> QED
      BY <2>2, <2>4
  <1>7. To[m] \in Svc
    BY RelayAssumption
  <1> QED
    BY <1>1, <1>4, <1>5, <1>6, <1>7

\* The router publishes an answer to the slots whose names fit.
LEMMA PublishValue ==
    ASSUME StateType, NEW s \in Svc, PublishRes(s)
    PROVE  \E m \in Request :
             /\ up[s] # <<>> /\ up[s][1] = ResFrames(m)
             /\ sq' = [t \in Svc |-> IF base[t] # 0 /\ HearsSvc(t, SvcOf[From[m]]) /\ Len(sq[t]) < HWM
                                     THEN Append(sq[t], Note(m)) ELSE sq[t]]
             /\ UNCHANGED <<dq, eye>>
  <1>1. up[s] # <<>> /\ Head(up[s])[1] = F("type", "svc_res") /\ UNCHANGED <<dq, eye>>
    BY DEF PublishRes, ReadsUp, Is
  <1>2. Head(up[s]) = up[s][1] /\ up[s][1] \in Ends(Sent)
    BY <1>1, QueueTail DEF StateType, UpType
  <1>3. up[s][1] \in Sent
    BY <1>1, <1>2, TypedEnd, FrameParts
  <1>4. PICK m \in Request : up[s][1] = ResFrames(m)
    BY <1>1, <1>2, <1>3, SentValue
  <1>5. PICK msg : /\ msg = Tail(Head(up[s]))
                   /\ sq' = [t \in Svc |-> IF base[t] # 0 /\ HearsSvc(t, msg[1].v) /\ Len(sq[t]) < HWM
                                           THEN Append(sq[t], msg) ELSE sq[t]]
    BY DEF PublishRes
  <1>6. msg = Note(m) /\ msg[1].v = SvcOf[From[m]]
    BY <1>2, <1>4, <1>5, ResValue, FrameParts
  <1> QED
    BY <1>1, <1>4, <1>5, <1>6

LEMMA RouterSteps ==
    ASSUME NEW s \in Svc, Router(s)
    PROVE  /\ up[s] # <<>> /\ up' = [up EXCEPT ![s] = Tail(@)]
           /\ UNCHANGED <<base, releases, gone, conn, outq, rd, snd, cb, client, done>>
           /\ RouteReq(s) \/ PublishRes(s) \/ UNCHANGED <<dq, sq, eye>>
  BY DEF Router, RouteReq, RouteReqNowhere, PublishRes, UnknownType, ReadsUp

\* A slot publishes an answer to the processes whose names fit.
LEMMA RelaySubValue ==
    ASSUME StateType, NEW s \in Svc, RelaySub(s)
    PROVE  \E m \in Request :
             /\ sq[s] # <<>> /\ sq[s][1] = Note(m) /\ sq' = [sq EXCEPT ![s] = Tail(@)]
             /\ ansq' = [p \in Proc |->
                           IF conn[p] = s /\ HearsProc(p, From[m]) /\ Len(ansq[p]) < HWM
                           THEN Append(ansq[p], Answer(m)) ELSE ansq[p]]
             /\ UNCHANGED <<base, releases, gone, conn, outq, dq, up, thread, inq, hand, done>>
  <1>1. /\ sq[s] # <<>> /\ sq' = [sq EXCEPT ![s] = Tail(@)]
        /\ UNCHANGED <<base, releases, gone, conn, outq, dq, up, thread, inq, hand, done>>
    BY DEF RelaySub
  <1>2. Head(sq[s]) = sq[s][1] /\ sq[s][1] \in Notes
    BY <1>1, QueueTail DEF StateType, SqType
  <1>3. PICK m \in Request : sq[s][1] = Note(m)
    BY <1>2 DEF Notes
  <1>4. PICK msg : /\ msg = Tail(Head(sq[s]))
                   /\ ansq' = [p \in Proc |->
                                 IF conn[p] = s /\ HearsProc(p, msg[1].v) /\ Len(ansq[p]) < HWM
                                 THEN Append(ansq[p], msg) ELSE ansq[p]]
    BY DEF RelaySub
  <1>5. msg = Answer(m)
    <2>1. Head(sq[s]) = Note(m)
      BY <1>2, <1>3
    <2>2. Tail(Note(m)) = Answer(m)
      BY ResValue
    <2> QED
      BY <1>4, <2>1, <2>2
  <1>6. msg[1].v = From[m]
    <2>1. Answer(m)[1] = F("name", From[m])
      BY ResValue
    <2> QED
      BY <1>5, <2>1, FrameParts
  <1> QED
    BY <1>1, <1>3, <1>4, <1>5, <1>6

\* mq_recv_req returns a whole request, or gives it up.
LEMMA RecvReqValue ==
    ASSUME StateType, NEW p \in Proc, MqRecvReq(p)
    PROVE  /\ hand[p] = NULL /\ inq[p] # <<>> /\ inq' = [inq EXCEPT ![p] = Tail(@)]
           /\ UNCHANGED <<base, releases, gone, conn, outq, slotq, thread, ansq, result, read>>
           /\ \/ UNCHANGED <<hand, taken>>
              \/ \E m \in Request :
                   /\ inq[p][1] = Ask(m, "body")
                   /\ hand' = [hand EXCEPT ![p] = m]
                   /\ taken' = Append(taken, [by |-> p, tag |-> F("tag", m), body |-> F("body", m)])
  <1>1. /\ hand[p] = NULL /\ inq[p] # <<>> /\ inq' = [inq EXCEPT ![p] = Tail(@)]
        /\ UNCHANGED <<base, releases, gone, conn, outq, slotq, thread, ansq, result, read>>
        /\ Take(p, Head(inq[p]))
    BY DEF MqRecvReq
  <1>2. Head(inq[p]) = inq[p][1] /\ inq[p][1] \in Ends(Asked(Request))
    BY <1>1, QueueTail DEF StateType, InType
  <1>3. CASE Acceptable(inq[p][1])
    <2>1. PICK n \in Nat : n = 2
      OBVIOUS
    <2>2. \A x \in Asked(Request) : Len(x) = n
      BY <2>1, AskedValue
    <2>3. Len(inq[p][1]) = n /\ inq[p][1][2].k = "body"
      BY <1>3, <2>1 DEF Acceptable
    <2>4. inq[p][1] \in Asked(Request)
      BY <1>2, <2>2, <2>3, EndSize
    <2>5. PICK m \in Request, k \in BodyKind : inq[p][1] = Ask(m, k)
      BY <2>4 DEF Asked
    <2>6. inq[p][1][1] = F("tag", m) /\ inq[p][1][2] = F(k, m)
      BY <2>5, AskValue
    <2>7. k = "body" /\ inq[p][1][1].v = m
      BY <2>3, <2>6, FrameParts
    <2>8. /\ hand' = [hand EXCEPT ![p] = m]
          /\ taken' = Append(taken, [by |-> p, tag |-> F("tag", m), body |-> F("body", m)])
      BY <1>1, <1>2, <1>3, <2>6, <2>7 DEF Take
    <2> QED
      BY <1>1, <2>5, <2>7, <2>8
  <1>4. CASE ~Acceptable(inq[p][1])
    BY <1>1, <1>2, <1>4 DEF Take
  <1> QED
    BY <1>3, <1>4

\* mq_recv_res returns a name and a body.
LEMMA RecvResValue ==
    ASSUME StateType, NEW p \in Proc, MqRecvRes(p)
    PROVE  /\ ansq[p] # <<>> /\ ansq' = [ansq EXCEPT ![p] = Tail(@)]
           /\ UNCHANGED <<base, releases, gone, conn, outq, slotq, thread, inq, hand, result, taken>>
           /\ \E m \in Request :
                /\ ansq[p][1] = Answer(m)
                /\ read' = Append(read, [by |-> p, name |-> F("name", From[m]), body |-> F("body", m)])
  <1>1. /\ ansq[p] # <<>> /\ ansq' = [ansq EXCEPT ![p] = Tail(@)]
        /\ UNCHANGED <<base, releases, gone, conn, outq, slotq, thread, inq, hand, result, taken>>
        /\ read' = Append(read, [by |-> p, name |-> Head(ansq[p])[1], body |-> Head(ansq[p])[2]])
    BY DEF MqRecvRes
  <1>2. Head(ansq[p]) = ansq[p][1] /\ ansq[p][1] \in Answers
    BY <1>1, QueueTail DEF StateType, AnsType
  <1>3. PICK m \in Request : ansq[p][1] = Answer(m)
    BY <1>2 DEF Answers
  <1> QED
    BY <1>1, <1>2, <1>3, ResValue

-----------------------------------------------------------------------------
(* Every step keeps the types.                                             *)

LEMMA NullType == NULL \notin Svc /\ NULL \notin Proc /\ NULL \notin Request
                    /\ NULL \notin {"sent", "failed"} /\ NULL \notin Begun /\ NULL \notin Relay
  BY RelayAssumption

LEMMA NextSlotType == ASSUME StateType, [Next]_vars PROVE SlotType'
  <1> USE DEF StateType
  <1>1. ASSUME UNCHANGED <<base, releases, gone, conn>> PROVE SlotType'
    BY <1>1 DEF SlotType
  <1>2. ASSUME NEW s \in Svc, OpenSlot(s) PROVE SlotType'
    <2>1. PICK p \in Proc : base' = [base EXCEPT ![s] = Rounded(PortOf[p])]
      BY <1>2 DEF OpenSlot
    <2>2. base[s] = 0 /\ UNCHANGED <<releases, gone, conn>>
      BY <1>2 DEF OpenSlot
    <2>3. base' \in [Svc -> {0} \cup {Rounded(PortOf[q]) : q \in Proc}]
      BY <2>1 DEF SlotType
    <2>4. \A q \in Proc : conn[q] # NULL => base'[conn[q]] # 0
      BY <2>1, <2>2 DEF SlotType
    <2> QED
      BY <2>2, <2>3, <2>4 DEF SlotType
  <1>3. ASSUME NEW s \in Svc, SvcRelease(s) PROVE SlotType'
    <2>1. /\ releases < MaxReleases /\ releases' = releases + 1
          /\ base' = [base EXCEPT ![s] = 0]
          /\ conn' = [p \in Proc |-> IF conn[p] = s THEN NULL ELSE conn[p]]
          /\ UNCHANGED gone
      BY <1>3 DEF SvcRelease
    <2>2. releases' \in 0..MaxReleases
      BY <2>1, RelayAssumption DEF SlotType
    <2> QED
      BY <2>1, <2>2 DEF SlotType
  <1>4. ASSUME NEW p \in Proc, Connect(p) PROVE SlotType'
    <2>1. PICK s \in Svc : Meets(p, s) /\ conn' = [conn EXCEPT ![p] = s]
      BY <1>4 DEF Connect
    <2>2. base[s] # 0 /\ p \notin gone /\ UNCHANGED <<base, releases, gone>>
      BY <1>4, <2>1 DEF Connect, Meets
    <2> QED
      BY <2>1, <2>2 DEF SlotType
  <1>5. ASSUME NEW p \in Proc, Exit(p) PROVE SlotType'
    BY <1>5 DEF Exit, SlotType
  <1>6. CASE \E s \in Svc : Router(s) \/ RelaySub(s)
    BY <1>1, <1>6 DEF Router, RouteReq, RouteReqNowhere, PublishRes, UnknownType, ReadsUp, RelaySub
  <1>7. CASE \E s \in Svc, w \in Way : EdgeStart(s, w) \/ TimerStart(s, w) \/ TimerIdle(s, w)
    BY <1>1, <1>7 DEF EdgeStart, TimerStart, Starts, TimerIdle
  <1>8. CASE RelayFrame \/ Return
    BY <1>1, <1>8 DEF RelayFrame, Return
  <1>9. CASE \E p \in Proc : MqRecvReq(p) \/ MqSendRes(p) \/ MqRecvRes(p)
    BY <1>1, <1>9 DEF MqRecvReq, MqSendRes, MqRecvRes
  <1>10. CASE \E m \in Request : MqSendReq(m)
    BY <1>1, <1>10 DEF MqSendReq
  <1>11. CASE UNCHANGED vars
    BY <1>1, <1>11 DEF vars
  <1> QED
    BY <1>2, <1>3, <1>4, <1>5, <1>6, <1>7, <1>8, <1>9, <1>10, <1>11 DEF Next

LEMMA SeeType ==
    ASSUME ThreadType, NEW s \in Svc, NEW w \in Way, NEW x \in {"asleep", "ready", "awake"}
    PROVE  See(s, w, x) \in [Svc -> [Way -> {"asleep", "ready", "awake"}]]
  BY DEF See, ThreadType

LEMMA NextThreadType == ASSUME StateType, [Next]_vars PROVE ThreadType'
  <1> DEFINE Eye == [Svc -> [Way -> {"asleep", "ready", "awake"}]]
  <1>0. ThreadType /\ eye \in Eye /\ cb \in Relay \cup {NULL}
    BY DEF StateType, ThreadType
  <1>00. /\ \A s \in Svc, w \in Way : See(s, w, "asleep") \in Eye
         /\ \A s \in Svc, w \in Way : See(s, w, "awake") \in Eye
         /\ \A s \in Svc, w \in Way : See(s, w, Arrived(s, w)) \in Eye
         /\ "pull" \in Way /\ "dealer" \in Way
    <2>1. \A s \in Svc, w \in Way : Arrived(s, w) \in {"asleep", "ready", "awake"}
      BY <1>0 DEF Arrived
    <2> QED
      BY <1>0, <2>1, SeeType DEF Way
  <1> HIDE DEF Eye
  <1>1. ASSUME eye' \in Eye, cb' \in Relay \cup {NULL} PROVE ThreadType'
    BY <1>1 DEF ThreadType, Eye
  <1>2. CASE \E s \in Svc : OpenSlot(s)
    BY <1>0, <1>1, <1>2 DEF OpenSlot, thread
  <1>3. ASSUME NEW s \in Svc, SvcRelease(s) PROVE ThreadType'
    <2>1. eye' = [eye EXCEPT ![s] = [w \in Way |-> "asleep"]] /\ cb' = cb
      BY <1>3 DEF SvcRelease, Forget
    <2> QED
      BY <1>0, <1>1, <2>1 DEF Eye
  <1>4. ASSUME NEW p \in Proc, Connect(p) PROVE ThreadType'
    <2>1. PICK s \in Svc : eye' = IF outq[p] = <<>> THEN eye ELSE See(s, "pull", Arrived(s, "pull"))
      BY <1>4 DEF Connect
    <2>2. eye' \in Eye
      BY <1>0, <1>00, <2>1
    <2> QED
      BY <1>0, <1>1, <1>4, <2>2 DEF Connect
  <1>5. ASSUME NEW p \in Proc, Exit(p) PROVE ThreadType'
    BY <1>0, <1>1, <1>5 DEF Exit, thread
  <1>6. ASSUME NEW s \in Svc, Router(s) PROVE ThreadType'
    <2>1. cb' = cb
      BY <1>6 DEF Router, RouteReq, RouteReqNowhere, PublishRes, UnknownType, ReadsUp
    <2>2. ASSUME RouteReq(s) PROVE eye' \in Eye
      <3>1. PICK m \in Request : /\ To[m] \in Svc
                                 /\ eye' = See(To[m], "dealer", Arrived(To[m], "dealer"))
        BY <2>2, RouteValue
      <3> QED
        BY <1>00, <3>1
    <2>3. CASE RouteReqNowhere(s) \/ PublishRes(s) \/ UnknownType(s)
      BY <1>0, <1>1, <2>1, <2>3 DEF RouteReqNowhere, PublishRes, UnknownType
    <2> QED
      BY <1>0, <1>1, <1>6, <2>1, <2>2, <2>3 DEF Router
  <1>7. CASE \E s \in Svc : RelaySub(s)
    BY <1>0, <1>1, <1>7 DEF RelaySub, thread
  <1>8. ASSUME NEW s \in Svc, NEW w \in Way, Starts(s, w) PROVE ThreadType'
    <2>1. cb' = [svc |-> s, way |-> w, cnt |-> 0] /\ eye' = See(s, w, "awake")
      BY <1>8 DEF Starts
    <2>2. 0 \in 0..RELAY_MAX
      BY RelayAssumption
    <2>3. cb' \in Relay
      BY <2>1, <2>2 DEF Relay
    <2> QED
      BY <1>00, <1>1, <2>1, <2>3
  <1>9. ASSUME NEW s \in Svc, NEW w \in Way, TimerIdle(s, w) PROVE ThreadType'
    BY <1>0, <1>00, <1>1, <1>9 DEF TimerIdle
  <1>10. ASSUME RelayFrame PROVE ThreadType'
    <2>1. PICK s \in Svc : /\ cb # NULL /\ cb.cnt < RELAY_MAX /\ cb' = [cb EXCEPT !.cnt = @ + 1]
                           /\ UNCHANGED eye \/ eye' = See(s, "dealer", "awake")
      BY <1>10, RelayValue
    <2>2. cb \in Relay /\ RELAY_MAX \in Nat
      BY <1>0, <2>1, RelayAssumption
    <2>3. cb' \in Relay
      <3>1. PICK n : n = cb.cnt + 1
        OBVIOUS
      <3>2. n \in 0..RELAY_MAX
        BY <2>1, <2>2, <3>1 DEF Relay
      <3> QED
        BY <2>1, <2>2, <3>1, <3>2 DEF Relay
    <2>4. eye' \in Eye
      BY <1>0, <1>00, <2>1
    <2> QED
      BY <1>1, <2>3, <2>4
  <1>11. ASSUME Return PROVE ThreadType'
    <2>1. cb # NULL /\ cb' = NULL /\ (eye' = eye \/ eye' = See(cb.svc, cb.way, "asleep"))
      BY <1>11 DEF Return
    <2>2. cb.svc \in Svc /\ cb.way \in Way
      BY <1>0, <2>1 DEF Relay
    <2> QED
      BY <1>0, <1>00, <1>1, <2>1, <2>2
  <1>12. CASE \E p \in Proc : MqRecvReq(p) \/ MqRecvRes(p)
    BY <1>0, <1>1, <1>12 DEF MqRecvReq, MqRecvRes, thread
  <1>13. ASSUME NEW p \in Proc, NEW x, Push(p, x) PROVE eye' \in Eye
    <2>1. CASE conn[p] = NULL
      BY <1>0, <1>13, <2>1 DEF Push
    <2>2. CASE conn[p] # NULL
      <3>1. conn[p] \in Svc
        BY <2>2 DEF StateType, SlotType
      <3> QED
        BY <1>00, <1>13, <2>2, <3>1 DEF Push
    <2> QED
      BY <2>1, <2>2
  <1>14. ASSUME NEW p \in Proc, MqSendRes(p) PROVE ThreadType'
    <2>1. cb' = cb /\ (eye' = eye \/ Push(p, ResFrames(hand[p])))
      BY <1>14 DEF MqSendRes
    <2> QED
      BY <1>0, <1>1, <1>13, <2>1
  <1>15. ASSUME NEW m \in Request, MqSendReq(m) PROVE ThreadType'
    <2>1. cb' = cb /\ (eye' = eye \/ \E k \in BodyKind : Push(From[m], ReqFrames(m, k)))
      BY <1>15 DEF MqSendReq
    <2>2. From[m] \in Proc
      BY RelayAssumption
    <2> QED
      BY <1>0, <1>1, <1>13, <2>1, <2>2
  <1>16. CASE UNCHANGED vars
    BY <1>0, <1>1, <1>16 DEF vars, thread
  <1> QED
    BY <1>2, <1>3, <1>4, <1>5, <1>6, <1>7, <1>8, <1>9, <1>10, <1>11, <1>12, <1>14, <1>15, <1>16
       DEF Next, EdgeStart, TimerStart

LEMMA NextOutType == ASSUME StateType, [Next]_vars PROVE OutType'
  <1> USE DEF StateType
  <1>1. ASSUME UNCHANGED outq PROVE OutType'
    BY <1>1 DEF OutType
  <1>2. ASSUME NEW p \in Proc, NEW x \in Sent, Push(p, x), ~Full(p) PROVE OutType'
    <2>1. outq' = [outq EXCEPT ![p] = Append(outq[p], x)] /\ outq[p] \in Seq(Sent)
      BY <1>2 DEF Push, OutType
    <2>2. Append(outq[p], x) \in Seq(Sent) /\ Len(Append(outq[p], x)) = Len(outq[p]) + 1
      BY <2>1, AppendProperties
    <2>3. Len(outq[p]) + 1 <= HWM
      BY <1>2, <2>1, RelayAssumption, LenProperties DEF Full
    <2> QED
      BY <2>1, <2>2, <2>3 DEF OutType
  <1>3. ASSUME NEW s \in Svc, SvcRelease(s) PROVE OutType'
    <2>1. PICK lost : outq' = [p \in Proc |-> IF p \in lost THEN <<>> ELSE outq[p]]
      BY <1>3 DEF SvcRelease
    <2>2. <<>> \in Seq(Sent) /\ Len(<<>>) = 0 /\ 0 <= HWM
      <3>1. Len(<<>>) = 0 /\ <<>> \in Seq(Sent)
        OBVIOUS
      <3> QED
        BY <3>1, RelayAssumption
    <2> QED
      BY <2>1, <2>2 DEF OutType
  <1>4. ASSUME NEW p \in Proc, Exit(p) PROVE OutType'
    <2>1. outq' = [outq EXCEPT ![p] = <<>>]
      BY <1>4 DEF Exit
    <2>2. <<>> \in Seq(Sent) /\ Len(<<>>) = 0 /\ 0 <= HWM
      <3>1. Len(<<>>) = 0 /\ <<>> \in Seq(Sent)
        OBVIOUS
      <3> QED
        BY <3>1, RelayAssumption
    <2> QED
      BY <2>1, <2>2 DEF OutType
  <1>5. ASSUME NEW m \in Request, MqSendReq(m) PROVE OutType'
    <2>1. From[m] \in Proc
      BY RelayAssumption
    <2>2. \A k \in BodyKind : ReqFrames(m, k) \in Sent
      BY DEF Sent
    <2>3. \/ UNCHANGED outq
          \/ ~Full(From[m]) /\ \E k \in BodyKind : Push(From[m], ReqFrames(m, k))
      BY <1>5 DEF MqSendReq
    <2> QED
      BY <1>1, <1>2, <2>1, <2>2, <2>3
  <1>6. ASSUME NEW p \in Proc, MqSendRes(p) PROVE OutType'
    <2>1. ResFrames(hand[p]) \in Sent
      BY <1>6 DEF MqSendRes, DoneType, Sent
    <2>2. UNCHANGED outq \/ (~Full(p) /\ Push(p, ResFrames(hand[p])))
      BY <1>6 DEF MqSendRes
    <2> QED
      BY <1>1, <1>2, <2>1, <2>2
  <1>7. ASSUME RelayFrame PROVE OutType'
    <2>1. PICK s, w, fr : ReadsFrames(s, w, fr)
      BY <1>7, RelayValue
    <2>2. CASE UNCHANGED outq
      BY <1>1, <2>2
    <2>3. ASSUME NEW p \in Proc, ReadsProc(s, w, fr, p) PROVE OutType'
      <3>1. outq[p] # <<>> /\ outq' = [outq EXCEPT ![p] = Tail(outq[p])] /\ outq[p] \in Seq(Sent)
        BY <2>3 DEF ReadsProc, OutType
      <3>2. Tail(outq[p]) \in Seq(Sent) /\ Len(Tail(outq[p])) = Len(outq[p]) - 1 /\ Len(outq[p]) \in Nat
        BY <3>1, QueueTail
      <3>3. Len(Tail(outq[p])) <= HWM
        BY <3>2, RelayAssumption DEF OutType
      <3> QED
        BY <3>1, <3>2, <3>3 DEF OutType
    <2> QED
      BY <2>1, <2>2, <2>3 DEF ReadsFrames, ReadsLeft, ReadsRouter
  <1>8. CASE \E s \in Svc : OpenSlot(s) \/ Router(s) \/ RelaySub(s)
    BY <1>1, <1>8, RouterSteps DEF OpenSlot, RelaySub
  <1>9. CASE \E s \in Svc, w \in Way : EdgeStart(s, w) \/ TimerStart(s, w) \/ TimerIdle(s, w)
    BY <1>1, <1>9 DEF EdgeStart, TimerStart, Starts, TimerIdle
  <1>10. CASE Return
    BY <1>1, <1>10 DEF Return
  <1>11. CASE \E p \in Proc : Connect(p) \/ MqRecvReq(p) \/ MqRecvRes(p)
    BY <1>1, <1>11 DEF Connect, MqRecvReq, MqRecvRes
  <1>12. CASE UNCHANGED vars
    BY <1>1, <1>12 DEF vars
  <1> QED
    BY <1>3, <1>4, <1>5, <1>6, <1>7, <1>8, <1>9, <1>10, <1>11, <1>12 DEF Next

\* What a frame that goes on changes.
LEMMA SendEffects ==
    ASSUME StateType, NEW s \in Svc, NEW w \in Way, NEW fr, NEW to, NEW msg \in Seq(Frame),
           SendsFrame(s, w, fr, to, msg)
    PROVE  /\ Tail(fr) = <<>> => msg \in Ends(Whole(s, w))
           /\ snd' = [snd EXCEPT ![s][w] = IF Tail(fr) # <<>> THEN [to |-> to, msg |-> msg] ELSE NULL]
           /\ w = "pull" => /\ Len(up[s]) < HWM /\ inq' = inq
                            /\ up' = IF Tail(fr) # <<>> THEN up ELSE [up EXCEPT ![s] = Append(up[s], msg)]
           /\ w = "dealer" => /\ to \in Proc /\ up' = up
                              /\ conn[to] = s \/ to \in gone
                              /\ conn[to] = s => Len(inq[to]) < HWM
                              /\ inq' = IF Tail(fr) = <<>> /\ conn[to] = s
                                        THEN [inq EXCEPT ![to] = Append(inq[to], msg)] ELSE inq
  <1>1. /\ Tail(fr) = <<>> => msg \in Ends(Whole(s, w))
        /\ Begins(s, w, fr, to, msg) \/ Continues(s, w, fr, to, msg)
        /\ Goes(s, w, fr, to, msg)
    BY DEF SendsFrame
  <1>2. snd' = [snd EXCEPT ![s][w] = IF Tail(fr) # <<>> THEN [to |-> to, msg |-> msg] ELSE NULL]
    BY <1>1 DEF Goes
  <1>3. BegunUp(s) /\ BegunPush(s)
    BY DEF StateType, RoomInv
  <1>4. CASE w = "pull"
    <2>1. Len(up[s]) < HWM
      <3>1. Begins(s, w, fr, to, msg) => Len(up[s]) < HWM
        BY <1>4 DEF Begins, Takers
      <3>2. Continues(s, w, fr, to, msg) => Len(up[s]) < HWM
        BY <1>3, <1>4 DEF Continues, BegunUp
      <3> QED
        BY <1>1, <3>1, <3>2
    <2>2. inq' = inq /\ up' = IF Tail(fr) # <<>> THEN up ELSE [up EXCEPT ![s] = Append(up[s], msg)]
      BY <1>1, <1>4 DEF Goes, Deliver
    <2> QED
      BY <1>1, <1>2, <1>4, <2>1, <2>2
  <1>5. CASE w = "dealer"
    <2>1. /\ to \in Proc
          /\ conn[to] = s \/ to \in gone
          /\ conn[to] = s => Len(inq[to]) < HWM
      <3>1. CASE Begins(s, w, fr, to, msg)
        BY <1>5, <3>1 DEF Begins, Takers
      <3>2. CASE Continues(s, w, fr, to, msg)
        BY <1>3, <1>5, <3>2 DEF Continues, BegunPush
      <3> QED
        BY <1>1, <3>1, <3>2
    <2>2. up' = up /\ inq' = IF Tail(fr) = <<>> /\ conn[to] = s
                             THEN [inq EXCEPT ![to] = Append(inq[to], msg)] ELSE inq
      BY <1>1, <1>5 DEF Goes, Deliver
    <2> QED
      BY <1>1, <1>2, <1>5, <2>1, <2>2
  <1> QED
    BY <1>4, <1>5 DEF Way

LEMMA QueueAppend ==
    ASSUME NEW S, NEW q \in Seq(S), NEW x \in S, Len(q) < HWM
    PROVE  Append(q, x) \in Seq(S) /\ Len(Append(q, x)) <= HWM
  <1>1. Len(q) \in Nat /\ HWM \in Nat
    BY LenProperties, RelayAssumption
  <1> QED
    BY <1>1, AppendProperties

LEMMA QueueRest ==
    ASSUME NEW S, NEW q \in Seq(S), q # <<>>, Len(q) <= HWM
    PROVE  Tail(q) \in Seq(S) /\ Len(Tail(q)) < HWM /\ Len(Tail(q)) <= HWM
  <1>1. HWM \in Nat
    BY RelayAssumption
  <1> QED
    BY <1>1, QueueTail

LEMMA QueueEmpty == \A S : <<>> \in Seq(S) /\ Len(<<>>) = 0 /\ 0 <= HWM /\ 0 < HWM
  <1>1. HWM \in Nat \ {0}
    BY RelayAssumption
  <1>2. \A S : <<>> \in Seq(S) /\ Len(<<>>) = 0
    OBVIOUS
  <1> QED
    BY <1>1, <1>2

\* A slot's queue to the router, and its room for a message that was begun.
LEMMA NextUpType == ASSUME StateType, [Next]_vars PROVE UpType'
  <1>0. UpType
    BY DEF StateType
  <1>1. ASSUME UNCHANGED up PROVE UpType'
    BY <1>0, <1>1 DEF UpType
  <1>2. ASSUME NEW s \in Svc, SvcRelease(s) PROVE UpType'
    <2>1. up' = [up EXCEPT ![s] = <<>>]
      BY <1>2 DEF SvcRelease
    <2> QED
      BY <1>0, <2>1, QueueEmpty DEF UpType
  <1>3. ASSUME NEW s \in Svc, Router(s) PROVE UpType'
    <2>1. up[s] # <<>> /\ up' = [up EXCEPT ![s] = Tail(up[s])]
      BY <1>3, RouterSteps
    <2>2. Tail(up[s]) \in Seq(Ends(Sent)) /\ Len(Tail(up[s])) <= HWM
      BY <1>0, <2>1, QueueRest DEF UpType
    <2> QED
      BY <1>0, <2>1, <2>2 DEF UpType
  <1>4. ASSUME RelayFrame PROVE UpType'
    <2>1. PICK s \in Svc, w \in Way, fr \in Seq(Frame) :
             LosesFrame(s, w) \/ \E to \in Svc \cup Proc, msg \in Seq(Frame) : SendsFrame(s, w, fr, to, msg)
      BY <1>4, RelayValue
    <2>2. CASE LosesFrame(s, w)
      BY <1>1, <2>2 DEF LosesFrame
    <2>3. ASSUME NEW to, NEW msg \in Seq(Frame), SendsFrame(s, w, fr, to, msg) PROVE UpType'
      <3>1. CASE up' = up
        BY <1>1, <3>1
      <3>2. CASE w = "pull" /\ Tail(fr) = <<>>
        <4>1. Len(up[s]) < HWM /\ up' = [up EXCEPT ![s] = Append(up[s], msg)] /\ msg \in Ends(Whole(s, w))
          BY <2>3, <3>2, SendEffects
        <4>2. msg \in Ends(Sent)
          BY <3>2, <4>1 DEF Whole
        <4>3. Append(up[s], msg) \in Seq(Ends(Sent)) /\ Len(Append(up[s], msg)) <= HWM
          BY <1>0, <4>1, <4>2, QueueAppend DEF UpType
        <4> QED
          BY <1>0, <4>1, <4>3 DEF UpType
      <3>3. CASE w = "pull" /\ Tail(fr) # <<>>
        BY <1>1, <2>3, <3>3, SendEffects
      <3>4. CASE w = "dealer"
        BY <1>1, <2>3, <3>4, SendEffects
      <3> QED
        BY <3>2, <3>3, <3>4 DEF Way
    <2> QED
      BY <2>1, <2>2, <2>3
  <1>5. CASE \E s \in Svc : OpenSlot(s) \/ RelaySub(s)
    BY <1>1, <1>5 DEF OpenSlot, RelaySub, slotq
  <1>6. CASE \E s \in Svc, w \in Way : EdgeStart(s, w) \/ TimerStart(s, w) \/ TimerIdle(s, w)
    BY <1>1, <1>6 DEF EdgeStart, TimerStart, Starts, TimerIdle, slotq
  <1>7. CASE Return
    BY <1>1, <1>7 DEF Return, slotq
  <1>8. CASE \E p \in Proc : Connect(p) \/ Exit(p) \/ MqRecvReq(p) \/ MqSendRes(p) \/ MqRecvRes(p)
    BY <1>1, <1>8 DEF Connect, Exit, MqRecvReq, MqSendRes, MqRecvRes, slotq
  <1>9. CASE \E m \in Request : MqSendReq(m)
    BY <1>1, <1>9 DEF MqSendReq, slotq
  <1>10. CASE UNCHANGED vars
    BY <1>1, <1>10 DEF vars, slotq
  <1> QED
    BY <1>2, <1>3, <1>4, <1>5, <1>6, <1>7, <1>8, <1>9, <1>10 DEF Next

LEMMA NextInType == ASSUME StateType, [Next]_vars PROVE InType'
  <1>0. InType
    BY DEF StateType
  <1>1. ASSUME UNCHANGED inq PROVE InType'
    BY <1>0, <1>1 DEF InType
  <1>2. ASSUME NEW p \in Proc, Exit(p) PROVE InType'
    <2>1. inq' = [inq EXCEPT ![p] = <<>>]
      BY <1>2 DEF Exit
    <2> QED
      BY <1>0, <2>1, QueueEmpty DEF InType
  <1>3. ASSUME NEW p \in Proc, MqRecvReq(p) PROVE InType'
    <2>1. inq[p] # <<>> /\ inq' = [inq EXCEPT ![p] = Tail(inq[p])]
      BY <1>3 DEF MqRecvReq
    <2>2. Tail(inq[p]) \in Seq(Ends(Asked(Request))) /\ Len(Tail(inq[p])) <= HWM
      BY <1>0, <2>1, QueueRest DEF InType
    <2> QED
      BY <1>0, <2>1, <2>2 DEF InType
  <1>4. ASSUME RelayFrame PROVE InType'
    <2>1. PICK s \in Svc, w \in Way, fr \in Seq(Frame) :
             LosesFrame(s, w) \/ \E to \in Svc \cup Proc, msg \in Seq(Frame) : SendsFrame(s, w, fr, to, msg)
      BY <1>4, RelayValue
    <2>2. CASE LosesFrame(s, w)
      BY <1>1, <2>2 DEF LosesFrame
    <2>3. ASSUME NEW to, NEW msg \in Seq(Frame), SendsFrame(s, w, fr, to, msg) PROVE InType'
      <3>1. CASE w = "pull"
        BY <1>1, <2>3, <3>1, SendEffects
      <3>2. CASE w = "dealer" /\ ~(Tail(fr) = <<>> /\ conn[to] = s)
        BY <1>1, <2>3, <3>2, SendEffects
      <3>3. CASE w = "dealer" /\ Tail(fr) = <<>> /\ conn[to] = s
        <4>1. /\ Len(inq[to]) < HWM /\ inq' = [inq EXCEPT ![to] = Append(inq[to], msg)] /\ to \in Proc
              /\ msg \in Ends(Whole(s, w))
          BY <2>3, <3>3, SendEffects
        <4>2. msg \in Ends(Asked(Request))
          <5>1. Asked(For(s)) \subseteq Asked(Request)
            BY DEF Asked, For
          <5>2. Ends(Asked(For(s))) \subseteq Ends(Asked(Request))
            BY <5>1, EndsMonotonic
          <5>3. Whole(s, w) = Asked(For(s))
            BY <3>3 DEF Whole
          <5> QED
            BY <4>1, <5>2, <5>3
        <4>3. Append(inq[to], msg) \in Seq(Ends(Asked(Request))) /\ Len(Append(inq[to], msg)) <= HWM
          BY <1>0, <4>1, <4>2, QueueAppend DEF InType
        <4> QED
          BY <1>0, <4>1, <4>3 DEF InType
      <3> QED
        BY <3>1, <3>2, <3>3 DEF Way
    <2> QED
      BY <2>1, <2>2, <2>3
  <1>5. CASE \E s \in Svc : OpenSlot(s) \/ SvcRelease(s) \/ Router(s) \/ RelaySub(s)
    BY <1>1, <1>5, RouterSteps DEF OpenSlot, SvcRelease, RelaySub, client
  <1>6. CASE \E s \in Svc, w \in Way : EdgeStart(s, w) \/ TimerStart(s, w) \/ TimerIdle(s, w)
    BY <1>1, <1>6 DEF EdgeStart, TimerStart, Starts, TimerIdle, client
  <1>7. CASE Return
    BY <1>1, <1>7 DEF Return, client
  <1>8. CASE \E p \in Proc : Connect(p) \/ MqSendRes(p) \/ MqRecvRes(p)
    BY <1>1, <1>8 DEF Connect, MqSendRes, MqRecvRes, client
  <1>9. CASE \E m \in Request : MqSendReq(m)
    BY <1>1, <1>9 DEF MqSendReq, client
  <1>10. CASE UNCHANGED vars
    BY <1>1, <1>10 DEF vars, client
  <1> QED
    BY <1>2, <1>3, <1>4, <1>5, <1>6, <1>7, <1>8, <1>9, <1>10 DEF Next

\* What is left of the messages, and what has begun to go on.
LEMMA NextRelayType == ASSUME StateType, [Next]_vars PROVE RelayType'
  <1>0. RelayType
    BY DEF StateType
  <1>1. ASSUME UNCHANGED <<rd, snd>> PROVE RelayType'
    BY <1>0, <1>1 DEF RelayType, PartsOK
  <1>2. ASSUME NEW s \in Svc, SvcRelease(s) PROVE RelayType'
    <2>1. /\ rd' = [rd EXCEPT ![s] = [w \in Way |-> <<>>]]
          /\ snd' = [snd EXCEPT ![s] = [w \in Way |-> NULL]]
      BY <1>2 DEF SvcRelease, Forget
    <2>2. rd' \in [Svc -> [Way -> Seq(Frame)]]
      BY <1>0, <2>1, QueueEmpty DEF RelayType
    <2>3. snd' \in [Svc -> [Way -> Begun \cup {NULL}]]
      BY <1>0, <2>1 DEF RelayType
    <2>4. \A x \in Svc, w \in Way : PartsOK(x, w)'
      BY <1>0, <2>1 DEF RelayType, PartsOK
    <2> QED
      BY <2>2, <2>3, <2>4 DEF RelayType
  <1>3. ASSUME RelayFrame PROVE RelayType'
    <2>1. PICK s \in Svc, w \in Way, fr \in Seq(Frame) :
             /\ ReadsFrames(s, w, fr)
             /\ rd' = [rd EXCEPT ![s][w] = Tail(fr)] /\ Tail(fr) \in Seq(Frame)
             /\ Tail(fr) # <<>> => Tail(fr) \in Rests(Whole(s, w))
             /\ LosesFrame(s, w) \/ \E to \in Svc \cup Proc, msg \in Seq(Frame) : SendsFrame(s, w, fr, to, msg)
      BY <1>3, RelayValue
    <2>2. rd' \in [Svc -> [Way -> Seq(Frame)]]
      BY <1>0, <2>1 DEF RelayType
    <2>3. rd'[s][w] = Tail(fr) /\ \A x \in Svc, v \in Way : x # s \/ v # w => rd'[x][v] = rd[x][v]
      BY <1>0, <2>1 DEF RelayType
    <2>4. CASE LosesFrame(s, w)
      <3>1. snd' = snd /\ snd[s][w] = NULL
        BY <2>4 DEF LosesFrame
      <3>2. \A x \in Svc, v \in Way : PartsOK(x, v)'
        BY <1>0, <2>1, <2>3, <3>1 DEF RelayType, PartsOK
      <3> QED
        BY <1>0, <2>2, <3>1, <3>2 DEF RelayType
    <2>5. ASSUME NEW to \in Svc \cup Proc, NEW msg \in Seq(Frame), SendsFrame(s, w, fr, to, msg)
          PROVE  RelayType'
      <3>1. PICK b : b = [to |-> to, msg |-> msg]
        OBVIOUS
      <3>2. snd' = [snd EXCEPT ![s][w] = IF Tail(fr) # <<>> THEN b ELSE NULL]
        BY <2>5, <3>1, SendEffects
      <3>3. b \in Begun /\ b.msg = msg /\ msg # <<>> /\ msg \o Tail(fr) \in Ends(Whole(s, w))
        BY <2>5, <3>1 DEF Begun, SendsFrame
      <3>4. snd' \in [Svc -> [Way -> Begun \cup {NULL}]]
        BY <1>0, <3>2, <3>3 DEF RelayType
      <3>5. /\ snd'[s][w] = IF Tail(fr) # <<>> THEN b ELSE NULL
            /\ \A x \in Svc, v \in Way : x # s \/ v # w => snd'[x][v] = snd[x][v]
        BY <1>0, <3>2 DEF RelayType
      <3>6. PartsOK(s, w)'
        BY <2>1, <2>3, <3>3, <3>5 DEF PartsOK
      <3>7. ASSUME NEW x \in Svc, NEW v \in Way, x # s \/ v # w PROVE PartsOK(x, v)'
        <4>1. rd'[x][v] = rd[x][v] /\ snd'[x][v] = snd[x][v] /\ PartsOK(x, v)
          BY <1>0, <2>3, <3>5, <3>7 DEF RelayType
        <4> QED
          BY <4>1 DEF PartsOK
      <3> QED
        BY <2>2, <3>4, <3>6, <3>7 DEF RelayType
    <2> QED
      BY <2>1, <2>4, <2>5
  <1>4. CASE \E s \in Svc : OpenSlot(s) \/ Router(s) \/ RelaySub(s)
    BY <1>1, <1>4, RouterSteps DEF OpenSlot, RelaySub, thread
  <1>5. CASE \E s \in Svc, w \in Way : EdgeStart(s, w) \/ TimerStart(s, w) \/ TimerIdle(s, w)
    BY <1>1, <1>5 DEF EdgeStart, TimerStart, Starts, TimerIdle
  <1>6. CASE Return
    BY <1>1, <1>6 DEF Return
  <1>7. CASE \E p \in Proc : Connect(p) \/ Exit(p) \/ MqRecvReq(p) \/ MqSendRes(p) \/ MqRecvRes(p)
    BY <1>1, <1>7 DEF Connect, Exit, MqRecvReq, MqSendRes, MqRecvRes, thread
  <1>8. CASE \E m \in Request : MqSendReq(m)
    BY <1>1, <1>8 DEF MqSendReq
  <1>9. CASE UNCHANGED vars
    BY <1>1, <1>9 DEF vars, thread
  <1> QED
    BY <1>2, <1>3, <1>4, <1>5, <1>6, <1>7, <1>8, <1>9 DEF Next

\* The room for a message that was begun stays.
LEMMA NextRoomInv == ASSUME StateType, [Next]_vars PROVE RoomInv'
  <1>0. /\ RoomInv
        /\ snd \in [Svc -> [Way -> Begun \cup {NULL}]]
        /\ inq \in [Proc -> Seq(Ends(Asked(Request)))] /\ up \in [Svc -> Seq(Ends(Sent))]
        /\ conn \in [Proc -> Svc \cup {NULL}] /\ "pull" \in Way /\ "dealer" \in Way
    BY DEF StateType, RelayType, InType, UpType, SlotType, Way
  <1>1. ASSUME UNCHANGED <<snd, up, inq, conn, gone>> PROVE RoomInv'
    BY <1>0, <1>1 DEF RoomInv, BegunUp, BegunPush
  <1>2. ASSUME NEW s \in Svc, SvcRelease(s) PROVE RoomInv'
    <2>1. /\ snd' = [snd EXCEPT ![s] = [w \in Way |-> NULL]]
          /\ conn' = [p \in Proc |-> IF conn[p] = s THEN NULL ELSE conn[p]]
          /\ up' = [up EXCEPT ![s] = <<>>]
          /\ UNCHANGED <<gone, inq>>
      BY <1>2 DEF SvcRelease, Forget, client
    <2>2. \A x \in Svc : BegunUp(x)'
      BY <1>0, <2>1 DEF RoomInv, BegunUp
    <2>3. ASSUME NEW x \in Svc PROVE BegunPush(x)'
      <3>1. CASE x = s
        BY <1>0, <2>1, <3>1 DEF BegunPush
      <3>2. CASE x # s
        <4>1. snd'[x] = snd[x] /\ BegunPush(x) /\ x # NULL
          BY <1>0, <2>1, <3>2, NullType DEF RoomInv
        <4> QED
          BY <1>0, <2>1, <3>2, <4>1 DEF BegunPush
      <3> QED
        BY <3>1, <3>2
    <2> QED
      BY <2>2, <2>3 DEF RoomInv
  <1>3. ASSUME NEW p \in Proc, Exit(p) PROVE RoomInv'
    <2>1. /\ gone' = gone \cup {p} /\ conn' = [conn EXCEPT ![p] = NULL]
          /\ inq' = [inq EXCEPT ![p] = <<>>] /\ UNCHANGED <<snd, up>>
      BY <1>3 DEF Exit, thread, slotq
    <2>2. \A x \in Svc : BegunUp(x)'
      BY <1>0, <2>1 DEF RoomInv, BegunUp
    <2>3. ASSUME NEW x \in Svc PROVE BegunPush(x)'
      <3>1. BegunPush(x) /\ x # NULL
        BY <1>0, NullType DEF RoomInv
      <3> QED
        BY <1>0, <2>1, <3>1 DEF BegunPush
    <2> QED
      BY <2>2, <2>3 DEF RoomInv
  <1>4. ASSUME NEW p \in Proc, Connect(p) PROVE RoomInv'
    <2>1. PICK t \in Svc : conn' = [conn EXCEPT ![p] = t]
      BY <1>4 DEF Connect
    <2>2. p \notin gone /\ conn[p] = NULL /\ UNCHANGED <<snd, up, inq, gone>>
      BY <1>4 DEF Connect, slotq, client
    <2>3. \A x \in Svc : BegunUp(x)'
      BY <1>0, <2>2 DEF RoomInv, BegunUp
    <2>4. ASSUME NEW x \in Svc PROVE BegunPush(x)'
      <3>1. BegunPush(x) /\ x # NULL
        BY <1>0, NullType DEF RoomInv
      <3>2. CASE snd[x]["dealer"] = NULL
        BY <2>2, <3>2 DEF BegunPush
      <3>3. CASE snd[x]["dealer"] # NULL
        <4>1. PICK to : to = snd[x]["dealer"].to
          OBVIOUS
        <4>2. to \in Proc /\ (conn[to] = x \/ to \in gone) /\ (conn[to] = x => Len(inq[to]) < HWM)
          BY <3>1, <3>3, <4>1 DEF BegunPush
        <4>3. to # p
          BY <2>2, <3>1, <4>2
        <4>4. conn'[to] = conn[to]
          BY <1>0, <2>1, <4>2, <4>3
        <4> QED
          BY <2>2, <3>3, <4>1, <4>2, <4>4 DEF BegunPush
      <3> QED
        BY <3>2, <3>3
    <2> QED
      BY <2>3, <2>4 DEF RoomInv
  <1>5. ASSUME NEW p \in Proc, MqRecvReq(p) PROVE RoomInv'
    <2>1. inq[p] # <<>> /\ inq' = [inq EXCEPT ![p] = Tail(inq[p])] /\ UNCHANGED <<snd, up, conn, gone>>
      BY <1>5 DEF MqRecvReq, slotq, thread
    <2>2. Len(inq[p]) <= HWM /\ Len(Tail(inq[p])) < HWM
      BY <1>0, <2>1, QueueRest DEF StateType, InType
    <2>3. \A x \in Svc : BegunUp(x)'
      BY <1>0, <2>1 DEF RoomInv, BegunUp
    <2>4. ASSUME NEW x \in Svc PROVE BegunPush(x)'
      <3>1. BegunPush(x)
        BY <1>0 DEF RoomInv
      <3> QED
        BY <1>0, <2>1, <2>2, <3>1 DEF BegunPush
    <2> QED
      BY <2>3, <2>4 DEF RoomInv
  <1>6. ASSUME NEW s \in Svc, Router(s) PROVE RoomInv'
    <2>1. up[s] # <<>> /\ up' = [up EXCEPT ![s] = Tail(up[s])] /\ UNCHANGED <<snd, inq, conn, gone>>
      BY <1>6, RouterSteps DEF client
    <2>2. Len(Tail(up[s])) < HWM
      BY <1>0, <2>1, QueueRest DEF StateType, UpType
    <2>3. \A x \in Svc : BegunUp(x)'
      BY <1>0, <2>1, <2>2 DEF RoomInv, BegunUp
    <2>4. \A x \in Svc : BegunPush(x)'
      BY <1>0, <2>1 DEF RoomInv, BegunPush
    <2> QED
      BY <2>3, <2>4 DEF RoomInv
  <1>7. ASSUME RelayFrame PROVE RoomInv'
    <2>1. PICK s \in Svc, w \in Way, fr \in Seq(Frame) :
             /\ LosesFrame(s, w) \/ \E to \in Svc \cup Proc, msg \in Seq(Frame) : SendsFrame(s, w, fr, to, msg)
             /\ UNCHANGED <<gone, conn>>
      BY <1>7, RelayValue
    <2>2. CASE LosesFrame(s, w)
      BY <1>1, <2>1, <2>2 DEF LosesFrame
    <2>3. ASSUME NEW to, NEW msg \in Seq(Frame), SendsFrame(s, w, fr, to, msg) PROVE RoomInv'
      <3>1. PICK b : b = [to |-> to, msg |-> msg]
        OBVIOUS
      <3>2. b.to = to
        BY <3>1
      <3>3. /\ snd' = [snd EXCEPT ![s][w] = IF Tail(fr) # <<>> THEN b ELSE NULL]
            /\ w = "pull" => /\ Len(up[s]) < HWM /\ inq' = inq
                             /\ Tail(fr) # <<>> => up' = up
                             /\ Tail(fr) = <<>> => up' = [up EXCEPT ![s] = Append(up[s], msg)]
            /\ w = "dealer" => /\ to \in Proc /\ up' = up
                               /\ conn[to] = s \/ to \in gone
                               /\ conn[to] = s => Len(inq[to]) < HWM
                               /\ inq' = IF Tail(fr) = <<>> /\ conn[to] = s
                                         THEN [inq EXCEPT ![to] = Append(inq[to], msg)] ELSE inq
        BY <2>3, <3>1, SendEffects
      <3>4. /\ snd'[s][w] = IF Tail(fr) # <<>> THEN b ELSE NULL
            /\ \A x \in Svc, v \in Way : x # s \/ v # w => snd'[x][v] = snd[x][v]
        BY <1>0, <3>3
      <3>5. ASSUME NEW x \in Svc PROVE BegunUp(x)'
        <4>1. BegunUp(x)
          BY <1>0 DEF RoomInv
        <4>2. CASE w = "pull" /\ x = s
          BY <3>3, <3>4, <4>2 DEF BegunUp
        <4>3. CASE w = "dealer" \/ x # s
          <5>1. snd'[x]["pull"] = snd[x]["pull"]
            BY <1>0, <3>4, <4>3
          <5>2. up'[x] = up[x]
            BY <1>0, <3>3, <4>3 DEF Way
          <5> QED
            BY <4>1, <5>1, <5>2 DEF BegunUp
        <4> QED
          BY <4>2, <4>3 DEF Way
      <3>6. ASSUME NEW x \in Svc PROVE BegunPush(x)'
        <4>1. BegunPush(x)
          BY <1>0 DEF RoomInv
        <4>2. CASE w = "pull"
          <5>1. snd'[x]["dealer"] = snd[x]["dealer"] /\ inq' = inq
            BY <1>0, <3>3, <3>4, <4>2
          <5> QED
            BY <2>1, <4>1, <5>1 DEF BegunPush
        <4>3. CASE w = "dealer" /\ x = s
          <5>1. CASE Tail(fr) = <<>>
            BY <3>4, <4>3, <5>1 DEF BegunPush
          <5>2. CASE Tail(fr) # <<>>
            BY <2>1, <3>2, <3>3, <3>4, <4>3, <5>2 DEF BegunPush
          <5> QED
            BY <5>1, <5>2
        <4>4. CASE w = "dealer" /\ x # s
          <5>1. snd'[x]["dealer"] = snd[x]["dealer"]
            BY <1>0, <3>4, <4>4
          <5>2. \A q \in Proc : conn[q] = x => inq'[q] = inq[q]
            BY <1>0, <3>3, <4>4
          <5> QED
            BY <2>1, <4>1, <5>1, <5>2 DEF BegunPush
        <4> QED
          BY <4>2, <4>3, <4>4 DEF Way
      <3> QED
        BY <3>5, <3>6 DEF RoomInv
    <2> QED
      BY <2>1, <2>2, <2>3
  <1>8. CASE \E s \in Svc : OpenSlot(s) \/ RelaySub(s)
    BY <1>1, <1>8 DEF OpenSlot, RelaySub, slotq, client, thread
  <1>9. CASE \E s \in Svc, w \in Way : EdgeStart(s, w) \/ TimerStart(s, w) \/ TimerIdle(s, w)
    BY <1>1, <1>9 DEF EdgeStart, TimerStart, Starts, TimerIdle, slotq, client
  <1>10. CASE Return
    BY <1>1, <1>10 DEF Return, slotq, client
  <1>11. CASE \E p \in Proc : MqSendRes(p) \/ MqRecvRes(p)
    BY <1>1, <1>11 DEF MqSendRes, MqRecvRes, slotq, thread
  <1>12. CASE \E m \in Request : MqSendReq(m)
    BY <1>1, <1>12 DEF MqSendReq, slotq, client
  <1>13. CASE UNCHANGED vars
    BY <1>1, <1>13 DEF vars, slotq, client, thread
  <1> QED
    BY <1>2, <1>3, <1>4, <1>5, <1>6, <1>7, <1>8, <1>9, <1>10, <1>11, <1>12, <1>13 DEF Next

LEMMA NextDqType == ASSUME StateType, [Next]_vars PROVE DqType'
  <1>0. DqType
    BY DEF StateType
  <1>1. ASSUME UNCHANGED dq PROVE DqType'
    BY <1>0, <1>1 DEF DqType
  <1>2. ASSUME NEW s \in Svc, NEW q, dq' = [dq EXCEPT ![s] = q], q \in Seq(Asked(For(s))), Len(q) <= HWM
        PROVE  DqType'
    <2>1. Seq(Asked(For(s))) \subseteq Seq(Asked(Request))
      <3>1. Asked(For(s)) \subseteq Asked(Request)
        BY DEF Asked, For
      <3> QED
        BY <3>1
    <2>2. dq' \in [Svc -> Seq(Asked(Request))]
      BY <1>0, <1>2, <2>1 DEF DqType
    <2>3. \A x \in Svc : dq'[x] \in Seq(Asked(For(x))) /\ Len(dq'[x]) <= HWM
      BY <1>0, <1>2 DEF DqType
    <2> QED
      BY <2>2, <2>3 DEF DqType
  <1>3. ASSUME NEW s \in Svc, SvcRelease(s) PROVE DqType'
    <2>1. dq' = [dq EXCEPT ![s] = <<>>]
      BY <1>3 DEF SvcRelease
    <2> QED
      BY <1>2, <2>1, QueueEmpty
  <1>4. ASSUME NEW s \in Svc, RouteReq(s) PROVE DqType'
    <2>1. PICK m \in Request, k \in BodyKind :
             /\ To[m] \in Svc /\ Len(dq[To[m]]) < HWM
             /\ dq' = [dq EXCEPT ![To[m]] = Append(dq[To[m]], Ask(m, k))]
      BY <1>4, RouteValue
    <2>2. Ask(m, k) \in Asked(For(To[m]))
      BY DEF Asked, For
    <2>3. dq[To[m]] \in Seq(Asked(For(To[m])))
      BY <1>0, <2>1 DEF DqType
    <2>4. Append(dq[To[m]], Ask(m, k)) \in Seq(Asked(For(To[m]))) /\ Len(Append(dq[To[m]], Ask(m, k))) <= HWM
      BY <2>1, <2>2, <2>3, QueueAppend
    <2> QED
      BY <1>2, <2>1, <2>4
  <1>5. ASSUME RelayFrame PROVE DqType'
    <2>0. PICK fr : \E s \in Svc, w \in Way : ReadsFrames(s, w, fr)
      BY <1>5, RelayValue
    <2>1. PICK s \in Svc, w \in Way : ReadsFrames(s, w, fr)
      BY <2>0
    <2>2. CASE UNCHANGED dq
      BY <1>1, <2>2
    <2>3. CASE ReadsRouter(s, w, fr)
      <3>1. dq[s] # <<>> /\ dq' = [dq EXCEPT ![s] = Tail(dq[s])] /\ dq[s] \in Seq(Asked(For(s)))
        BY <1>0, <2>3 DEF ReadsRouter, DqType
      <3>2. Tail(dq[s]) \in Seq(Asked(For(s))) /\ Len(Tail(dq[s])) <= HWM
        BY <1>0, <3>1, QueueRest DEF DqType
      <3> QED
        BY <1>2, <3>1, <3>2
    <2> QED
      BY <2>1, <2>2, <2>3 DEF ReadsFrames, ReadsLeft, ReadsProc
  <1>6. ASSUME NEW s \in Svc, Router(s), ~RouteReq(s) PROVE DqType'
    BY <1>1, <1>6, RouterSteps DEF PublishRes
  <1>7. CASE \E s \in Svc : OpenSlot(s) \/ RelaySub(s)
    BY <1>1, <1>7 DEF OpenSlot, RelaySub, slotq
  <1>8. CASE \E s \in Svc, w \in Way : EdgeStart(s, w) \/ TimerStart(s, w) \/ TimerIdle(s, w)
    BY <1>1, <1>8 DEF EdgeStart, TimerStart, Starts, TimerIdle, slotq
  <1>9. CASE Return
    BY <1>1, <1>9 DEF Return, slotq
  <1>10. CASE \E p \in Proc : Connect(p) \/ Exit(p) \/ MqRecvReq(p) \/ MqSendRes(p) \/ MqRecvRes(p)
    BY <1>1, <1>10 DEF Connect, Exit, MqRecvReq, MqSendRes, MqRecvRes, slotq
  <1>11. CASE \E m \in Request : MqSendReq(m)
    BY <1>1, <1>11 DEF MqSendReq, slotq
  <1>12. CASE UNCHANGED vars
    BY <1>1, <1>12 DEF vars, slotq
  <1> QED
    BY <1>3, <1>4, <1>5, <1>6, <1>7, <1>8, <1>9, <1>10, <1>11, <1>12 DEF Next

\* The ways of the answers.
LEMMA NextSqType == ASSUME StateType, [Next]_vars PROVE SqType'
  <1>0. SqType
    BY DEF StateType
  <1>1. ASSUME UNCHANGED sq PROVE SqType'
    BY <1>0, <1>1 DEF SqType
  <1>2. ASSUME NEW s \in Svc, SvcRelease(s) PROVE SqType'
    <2>1. sq' = [sq EXCEPT ![s] = <<>>]
      BY <1>2 DEF SvcRelease
    <2> QED
      BY <1>0, <2>1, QueueEmpty DEF SqType
  <1>3. ASSUME NEW s \in Svc, PublishRes(s) PROVE SqType'
    <2>1. PICK m \in Request :
             sq' = [t \in Svc |-> IF base[t] # 0 /\ HearsSvc(t, SvcOf[From[m]]) /\ Len(sq[t]) < HWM
                                  THEN Append(sq[t], Note(m)) ELSE sq[t]]
      BY <1>3, PublishValue
    <2>2. Note(m) \in Notes
      BY DEF Notes
    <2>3. \A t \in Svc : Len(sq[t]) < HWM =>
             Append(sq[t], Note(m)) \in Seq(Notes) /\ Len(Append(sq[t], Note(m))) <= HWM
      BY <1>0, <2>2, QueueAppend DEF SqType
    <2>4. \A t \in Svc : sq[t] \in Seq(Notes) /\ Len(sq[t]) <= HWM
      BY <1>0 DEF SqType
    <2>5. \A t \in Svc : (sq'[t] = Append(sq[t], Note(m)) /\ Len(sq[t]) < HWM) \/ sq'[t] = sq[t]
      BY <2>1
    <2>6. \A t \in Svc : sq'[t] \in Seq(Notes) /\ Len(sq'[t]) <= HWM
      BY <2>3, <2>4, <2>5
    <2>7. sq' = [t \in Svc |-> sq'[t]]
      BY <2>1
    <2> QED
      BY <2>6, <2>7 DEF SqType
  <1>4. ASSUME NEW s \in Svc, RelaySub(s) PROVE SqType'
    <2>1. sq[s] # <<>> /\ sq' = [sq EXCEPT ![s] = Tail(sq[s])]
      BY <1>4 DEF RelaySub
    <2>2. Tail(sq[s]) \in Seq(Notes) /\ Len(Tail(sq[s])) <= HWM
      BY <1>0, <2>1, QueueRest DEF SqType
    <2> QED
      BY <1>0, <2>1, <2>2 DEF SqType
  <1>5. ASSUME NEW s \in Svc, Router(s), ~PublishRes(s) PROVE SqType'
    BY <1>1, <1>5, RouterSteps DEF RouteReq
  <1>6. CASE RelayFrame
    BY <1>1, <1>6 DEF RelayFrame
  <1>7. CASE \E s \in Svc : OpenSlot(s)
    BY <1>1, <1>7 DEF OpenSlot, slotq
  <1>8. CASE \E s \in Svc, w \in Way : EdgeStart(s, w) \/ TimerStart(s, w) \/ TimerIdle(s, w)
    BY <1>1, <1>8 DEF EdgeStart, TimerStart, Starts, TimerIdle, slotq
  <1>9. CASE Return
    BY <1>1, <1>9 DEF Return, slotq
  <1>10. CASE \E p \in Proc : Connect(p) \/ Exit(p) \/ MqRecvReq(p) \/ MqSendRes(p) \/ MqRecvRes(p)
    BY <1>1, <1>10 DEF Connect, Exit, MqRecvReq, MqSendRes, MqRecvRes, slotq
  <1>11. CASE \E m \in Request : MqSendReq(m)
    BY <1>1, <1>11 DEF MqSendReq, slotq
  <1>12. CASE UNCHANGED vars
    BY <1>1, <1>12 DEF vars, slotq
  <1> QED
    BY <1>2, <1>3, <1>4, <1>5, <1>6, <1>7, <1>8, <1>9, <1>10, <1>11, <1>12 DEF Next

LEMMA NextAnsType == ASSUME StateType, [Next]_vars PROVE AnsType'
  <1>0. AnsType
    BY DEF StateType
  <1>1. ASSUME UNCHANGED ansq PROVE AnsType'
    BY <1>0, <1>1 DEF AnsType
  <1>2. ASSUME NEW p \in Proc, Exit(p) PROVE AnsType'
    <2>1. ansq' = [ansq EXCEPT ![p] = <<>>]
      BY <1>2 DEF Exit
    <2> QED
      BY <1>0, <2>1, QueueEmpty DEF AnsType
  <1>3. ASSUME NEW s \in Svc, RelaySub(s) PROVE AnsType'
    <2>1. PICK m \in Request :
             ansq' = [p \in Proc |-> IF conn[p] = s /\ HearsProc(p, From[m]) /\ Len(ansq[p]) < HWM
                                     THEN Append(ansq[p], Answer(m)) ELSE ansq[p]]
      BY <1>3, RelaySubValue
    <2>2. Answer(m) \in Answers
      BY DEF Answers
    <2>3. \A p \in Proc : Len(ansq[p]) < HWM =>
             Append(ansq[p], Answer(m)) \in Seq(Answers) /\ Len(Append(ansq[p], Answer(m))) <= HWM
      BY <1>0, <2>2, QueueAppend DEF AnsType
    <2>4. \A p \in Proc : ansq[p] \in Seq(Answers) /\ Len(ansq[p]) <= HWM
      BY <1>0 DEF AnsType
    <2>5. \A p \in Proc : (ansq'[p] = Append(ansq[p], Answer(m)) /\ Len(ansq[p]) < HWM) \/ ansq'[p] = ansq[p]
      BY <2>1
    <2>6. \A p \in Proc : ansq'[p] \in Seq(Answers) /\ Len(ansq'[p]) <= HWM
      BY <2>3, <2>4, <2>5
    <2>7. ansq' = [p \in Proc |-> ansq'[p]]
      BY <2>1
    <2> QED
      BY <2>6, <2>7 DEF AnsType
  <1>4. ASSUME NEW p \in Proc, MqRecvRes(p) PROVE AnsType'
    <2>1. ansq[p] # <<>> /\ ansq' = [ansq EXCEPT ![p] = Tail(ansq[p])]
      BY <1>4 DEF MqRecvRes
    <2>2. Tail(ansq[p]) \in Seq(Answers) /\ Len(Tail(ansq[p])) <= HWM
      BY <1>0, <2>1, QueueRest DEF AnsType
    <2> QED
      BY <1>0, <2>1, <2>2 DEF AnsType
  <1>5. CASE \E s \in Svc : OpenSlot(s) \/ SvcRelease(s) \/ Router(s)
    BY <1>1, <1>5, RouterSteps DEF OpenSlot, SvcRelease, client
  <1>6. CASE \E s \in Svc, w \in Way : EdgeStart(s, w) \/ TimerStart(s, w) \/ TimerIdle(s, w)
    BY <1>1, <1>6 DEF EdgeStart, TimerStart, Starts, TimerIdle, client
  <1>7. CASE RelayFrame \/ Return
    BY <1>1, <1>7 DEF RelayFrame, Return, client
  <1>8. CASE \E p \in Proc : Connect(p) \/ MqRecvReq(p) \/ MqSendRes(p)
    BY <1>1, <1>8 DEF Connect, MqRecvReq, MqSendRes, client
  <1>9. CASE \E m \in Request : MqSendReq(m)
    BY <1>1, <1>9 DEF MqSendReq, client
  <1>10. CASE UNCHANGED vars
    BY <1>1, <1>10 DEF vars, client
  <1> QED
    BY <1>2, <1>3, <1>4, <1>5, <1>6, <1>7, <1>8, <1>9, <1>10 DEF Next

\* What the processes hold and have.
LEMMA NextDoneType == ASSUME StateType, [Next]_vars PROVE DoneType'
  <1>0. DoneType
    BY DEF StateType
  <1>1. ASSUME UNCHANGED <<hand, result, taken, read>> PROVE DoneType'
    BY <1>0, <1>1 DEF DoneType
  <1>2. ASSUME NEW p \in Proc, Exit(p) PROVE DoneType'
    <2>1. hand' = [hand EXCEPT ![p] = NULL] /\ UNCHANGED <<result, taken, read>>
      BY <1>2 DEF Exit, done
    <2> QED
      BY <1>0, <2>1 DEF DoneType
  <1>3. ASSUME NEW p \in Proc, MqSendRes(p) PROVE DoneType'
    <2>1. hand' = [hand EXCEPT ![p] = NULL] /\ UNCHANGED <<result, taken, read>>
      BY <1>3 DEF MqSendRes, done
    <2> QED
      BY <1>0, <2>1 DEF DoneType
  <1>4. ASSUME NEW p \in Proc, MqRecvReq(p) PROVE DoneType'
    <2>1. UNCHANGED <<result, read>>
      BY <1>4 DEF MqRecvReq
    <2>2. CASE UNCHANGED <<hand, taken>>
      BY <1>1, <2>1, <2>2
    <2>3. ASSUME NEW m \in Request, hand' = [hand EXCEPT ![p] = m],
                 taken' = Append(taken, [by |-> p, tag |-> F("tag", m), body |-> F("body", m)])
          PROVE  DoneType'
      <3>1. hand' \in [Proc -> Request \cup {NULL}]
        BY <1>0, <2>3 DEF DoneType
      <3>2. taken' \in Seq(Takes)
        <4>1. [by |-> p, tag |-> F("tag", m), body |-> F("body", m)] \in Takes
          BY DEF Takes
        <4> QED
          BY <1>0, <2>3, <4>1, AppendProperties DEF DoneType
      <3> QED
        BY <1>0, <2>1, <3>1, <3>2 DEF DoneType
    <2> QED
      BY <1>4, <2>2, <2>3, RecvReqValue
  <1>5. ASSUME NEW p \in Proc, MqRecvRes(p) PROVE DoneType'
    <2>1. PICK m \in Request :
             read' = Append(read, [by |-> p, name |-> F("name", From[m]), body |-> F("body", m)])
      BY <1>5, RecvResValue
    <2>2. UNCHANGED <<hand, result, taken>>
      BY <1>5 DEF MqRecvRes
    <2>3. read' \in Seq(Reads)
      <3>1. [by |-> p, name |-> F("name", From[m]), body |-> F("body", m)] \in Reads
        BY DEF Reads
      <3> QED
        BY <1>0, <2>1, <3>1, AppendProperties DEF DoneType
    <2> QED
      BY <1>0, <2>2, <2>3 DEF DoneType
  <1>6. ASSUME NEW m \in Request, MqSendReq(m) PROVE DoneType'
    <2>1. UNCHANGED <<hand, taken, read>>
      BY <1>6 DEF MqSendReq, client
    <2>2. \E x \in {"sent", "failed"} : result' = [result EXCEPT ![m] = x]
      BY <1>6 DEF MqSendReq
    <2>3. result' \in [Request -> {NULL, "sent", "failed"}]
      BY <1>0, <2>2 DEF DoneType
    <2> QED
      BY <1>0, <2>1, <2>3 DEF DoneType
  <1>7. CASE \E s \in Svc : OpenSlot(s) \/ SvcRelease(s) \/ Router(s) \/ RelaySub(s)
    BY <1>1, <1>7, RouterSteps DEF OpenSlot, SvcRelease, RelaySub, client, done
  <1>8. CASE \E s \in Svc, w \in Way : EdgeStart(s, w) \/ TimerStart(s, w) \/ TimerIdle(s, w)
    BY <1>1, <1>8 DEF EdgeStart, TimerStart, Starts, TimerIdle, client, done
  <1>9. CASE RelayFrame \/ Return
    BY <1>1, <1>9 DEF RelayFrame, Return, client, done
  <1>10. CASE \E p \in Proc : Connect(p)
    BY <1>1, <1>10 DEF Connect, client, done
  <1>11. CASE UNCHANGED vars
    BY <1>1, <1>11 DEF vars, client, done
  <1> QED
    BY <1>2, <1>3, <1>4, <1>5, <1>6, <1>7, <1>8, <1>9, <1>10, <1>11 DEF Next

\* Every state has these types.
LEMMA StateTyped == Spec => []StateType
  <1>1. Init => StateType
    <2> SUFFICES ASSUME Init PROVE StateType
      OBVIOUS
    <2>1. SlotType
      BY RelayAssumption DEF Init, SlotType
    <2>2. ThreadType
      BY DEF Init, ThreadType
    <2>3. RelayType
      BY QueueEmpty DEF Init, RelayType, PartsOK
    <2>4. RoomInv
      BY DEF Init, RoomInv, BegunUp, BegunPush, Way
    <2>5. OutType /\ UpType /\ DqType
      BY QueueEmpty DEF Init, OutType, UpType, DqType
    <2>6. InType /\ SqType /\ AnsType
      BY QueueEmpty DEF Init, InType, SqType, AnsType
    <2>7. DoneType
      BY QueueEmpty DEF Init, DoneType
    <2> QED
      BY <2>1, <2>2, <2>3, <2>4, <2>5, <2>6, <2>7 DEF StateType
  <1>2. StateType /\ [Next]_vars => StateType'
    BY NextSlotType, NextThreadType, NextRelayType, NextRoomInv, NextOutType, NextUpType, NextDqType,
       NextInType, NextSqType, NextAnsType, NextDoneType DEF StateType
  <1> QED
    BY <1>1, <1>2, PTL DEF Spec

-----------------------------------------------------------------------------
(* Type correctness, and whole requests.                                   *)

LEMMA MsgOf ==
    ASSUME NEW n \in Nat, NEW x \in Seq(Frame), Len(x) \in 1..n
    PROVE  IsMsg(x, n)
  BY ElementOfSeq DEF IsMsg

LEMMA QueueOf ==
    ASSUME NEW n \in Nat, NEW S, \A x \in S : x \in Seq(Frame) /\ Len(x) \in 1..n,
           NEW q \in Seq(S), Len(q) <= HWM
    PROVE  IsQueue(q, n)
  <1>1. \A i \in 1..Len(q) : q[i] \in S
    BY ElementOfSeq
  <1>2. \A i \in 1..Len(q) : IsMsg(q[i], n)
    BY <1>1, MsgOf
  <1> QED
    BY <1>2 DEF IsQueue

LEMMA TypeFollows == ASSUME StateType PROVE TypeOK
  <1>1. /\ \A x \in Sent : x \in Seq(Frame) /\ Len(x) \in 1..4
        /\ \A x \in Answers : x \in Seq(Frame) /\ Len(x) \in 1..2
        /\ \A x \in Notes : x \in Seq(Frame) /\ Len(x) \in 1..3
        /\ \A x \in Asked(Request) : x \in Seq(Frame) /\ Len(x) \in 1..2
    BY SentValue, ResValue, AskedValue DEF Answers, Notes
  <1>2. \A x \in Ends(Sent) : x \in Seq(Frame) /\ Len(x) \in 1..4
    BY SentValue, EndSize
  <1>3. \A x \in Ends(Asked(Request)) : x \in Seq(Frame) /\ Len(x) \in 1..2
    BY AskedValue, EndSize
  <1>4. \A p \in Proc : IsQueue(outq[p], 4) /\ IsQueue(inq[p], 2) /\ IsQueue(ansq[p], 2)
    BY <1>1, <1>3, QueueOf DEF StateType, OutType, InType, AnsType
  <1>5. \A s \in Svc : IsQueue(dq[s], 2) /\ IsQueue(up[s], 4) /\ IsQueue(sq[s], 3)
    BY <1>1, <1>2, QueueOf DEF StateType, DqType, UpType, SqType
  <1>6. ASSUME NEW s \in Svc, NEW w \in Way
        PROVE  /\ rd[s][w] # <<>> => IsMsg(rd[s][w], 3)
               /\ snd[s][w] # NULL => rd[s][w] # <<>> /\ IsMsg(snd[s][w].msg, 3)
               /\ eye[s][w] \in {"asleep", "ready", "awake"}
    <2>1. PICK n \in Nat : n = IF w = "pull" THEN 4 ELSE 2
      OBVIOUS
    <2>2. /\ \A x \in Whole(s, w) : Len(x) = n
          /\ n = 4 \/ n = 2
      BY <2>1, WholeValue
    <2>3. rd[s][w] \in Seq(Frame) /\ snd[s][w] \in Begun \cup {NULL} /\ PartsOK(s, w)
      BY DEF StateType, RelayType
    <2>4. rd[s][w] # <<>> => IsMsg(rd[s][w], 3)
      <3> SUFFICES ASSUME rd[s][w] # <<>> PROVE IsMsg(rd[s][w], 3)
        OBVIOUS
      <3>0. rd[s][w] \in Rests(Whole(s, w))
        BY <2>3 DEF PartsOK
      <3>1. PICK l : l = Len(rd[s][w])
        OBVIOUS
      <3>2. l \in 1..n /\ l < n
        BY <2>2, <3>0, <3>1, RestSize
      <3>3. l \in 1..3
        BY <2>2, <3>2
      <3> QED
        BY <2>3, <3>1, <3>3, MsgOf
    <2>5. snd[s][w] # NULL => rd[s][w] # <<>> /\ IsMsg(snd[s][w].msg, 3)
      <3> SUFFICES ASSUME snd[s][w] # NULL PROVE rd[s][w] # <<>> /\ IsMsg(snd[s][w].msg, 3)
        OBVIOUS
      <3>1. PICK h : h = snd[s][w].msg
        OBVIOUS
      <3>2. PICK r : r = rd[s][w]
        OBVIOUS
      <3>3. h \in Seq(Frame) /\ h # <<>> /\ r \in Seq(Frame) /\ r # <<>> /\ h \o r \in Ends(Whole(s, w))
        BY <2>3, <3>1, <3>2 DEF PartsOK, Begun
      <3>4. Len(h \o r) \in 1..n
        BY <2>2, <3>3, EndSize
      <3>5. PICK a \in Nat, b \in Nat : a = Len(h) /\ b = Len(r)
        BY <3>3, LenProperties
      <3>6. a # 0 /\ b # 0
        BY <3>3, <3>5, EmptySeq
      <3>7. Len(h \o r) = a + b
        BY <3>3, <3>5, ConcatProperties
      <3>8. Len(h) \in 1..3
        BY <2>2, <3>4, <3>5, <3>6, <3>7
      <3> QED
        BY <3>1, <3>2, <3>3, <3>8, MsgOf
    <2>6. eye[s][w] \in {"asleep", "ready", "awake"}
      BY DEF StateType, ThreadType
    <2> QED
      BY <2>4, <2>5, <2>6
  <1>7. \A p \in Proc : conn[p] \in Svc => base[conn[p]] # 0
    BY NullType DEF StateType, SlotType
  <1> QED
    BY <1>4, <1>5, <1>6, <1>7 DEF TypeOK, StateType, SlotType, DoneType

\* TypeOK for any services, processes and requests: no queue gets longer than
\* its high-water mark, and what a relay holds of a message is never all of it.
THEOREM TypeCorrect == Spec => []TypeOK
  BY StateTyped, TypeFollows, PTL

\* A process that serves requests gets each with its own tag, whatever the
\* relays cut off the messages.
THEOREM TakenAreWhole == Spec => []TakenWhole
  <1>1. StateType => TakenWhole
    <2> SUFFICES ASSUME StateType, NEW i \in 1..Len(taken)
                 PROVE  \E m \in Request : /\ taken[i].tag = F("tag", m)
                                           /\ taken[i].body \in {F(k, m) : k \in BodyKind}
      BY DEF TakenWhole
    <2>1. taken[i] \in Takes
      BY ElementOfSeq DEF StateType, DoneType
    <2>2. PICK p \in Proc, m \in Request : taken[i] = [by |-> p, tag |-> F("tag", m), body |-> F("body", m)]
      BY <2>1 DEF Takes
    <2>3. "body" \in BodyKind
      BY DEF BodyKind
    <2> QED
      BY <2>2, <2>3
  <1> QED
    BY <1>1, StateTyped, PTL

-----------------------------------------------------------------------------
(* Where a request and an answer are.  Each is in one place at a time: no   *)
(* relay doubles it, and a process sends it once.                          *)

LEMMA SameFrames ==
    ASSUME NEW m \in Request, NEW n \in Request, NEW k \in BodyKind, NEW l \in BodyKind
    PROVE  /\ ReqFrames(m, k) = ReqFrames(n, l) => m = n /\ k = l
           /\ Ask(m, k) = Ask(n, l) => m = n /\ k = l
           /\ ResFrames(m) = ResFrames(n) => m = n
           /\ Note(m) = Note(n) => m = n
           /\ Answer(m) = Answer(n) => m = n
           /\ ReqFrames(m, k) # ResFrames(n)
           /\ F(k, m) = F(l, n) => m = n /\ k = l
  <1>1. F(k, m) = F(l, n) => m = n /\ k = l
    BY DEF F
  <1>2. F("body", m) = F("body", n) => m = n
    BY DEF F
  <1>3. F("type", "svc_req") # F("type", "svc_res")
    BY DEF F
  <1>4. ReqFrames(m, k) = ReqFrames(n, l) => F(k, m) = F(l, n)
    BY ReqValue
  <1>5. Ask(m, k) = Ask(n, l) => F(k, m) = F(l, n)
    BY AskValue
  <1>6. ResFrames(m) = ResFrames(n) => F("body", m) = F("body", n)
    BY ResValue
  <1>7. Answer(m) = Answer(n) => F("body", m) = F("body", n)
    BY ResValue
  <1>8. Note(m) = Note(n) => Answer(m) = Answer(n)
    BY ResValue
  <1>9. ReqFrames(m, k) # ResFrames(n)
    BY <1>3, ReqValue, ResValue
  <1> QED
    BY <1>1, <1>2, <1>4, <1>5, <1>6, <1>7, <1>8, <1>9

LEMMA Shifts ==
    ASSUME NEW S, NEW q \in Seq(S), q # <<>>, NEW i \in 1..Len(Tail(q))
    PROVE  i \in Nat \ {0} /\ i + 1 \in 1..Len(q) /\ Tail(q)[i] = q[i + 1] /\ 1 \in 1..Len(q)
  <1>1. Len(q) \in Nat \ {0} /\ Len(Tail(q)) = Len(q) - 1 /\ Tail(q)[i] = q[i + 1]
    BY QueueTail
  <1>2. PICK n \in Nat : n = Len(q)
    BY <1>1
  <1>3. i \in Nat \ {0} /\ i + 1 \in 1..n /\ 1 \in 1..n
    BY <1>1, <1>2
  <1> QED
    BY <1>1, <1>2, <1>3

LEMMA Grows ==
    ASSUME NEW S, NEW q \in Seq(S), NEW x \in S, NEW i \in 1..Len(Append(q, x))
    PROVE  \/ i \in 1..Len(q) /\ Append(q, x)[i] = q[i] /\ i # Len(q) + 1
           \/ i = Len(q) + 1 /\ Append(q, x)[i] = x
  <1>1. /\ Len(Append(q, x)) = Len(q) + 1
        /\ \A j \in 1..Len(q) : Append(q, x)[j] = q[j]
        /\ Append(q, x)[Len(q) + 1] = x
    BY AppendProperties
  <1>2. PICK n \in Nat : n = Len(q)
    BY LenProperties
  <1>3. (i \in 1..n /\ i # n + 1) \/ i = n + 1
    BY <1>1, <1>2
  <1> QED
    BY <1>1, <1>2, <1>3

\* The callback of s holds the message v: it has begun to send it from its
\* first frame on.
Holds(s, w, v) == snd[s][w] # NULL /\ snd[s][w].msg \o rd[s][w] = v

\* The message v is the i-th of its kind of place at x: on its way to the
\* router, and on its way from there.
UpKind   == {"out", "pull", "up"}
DownKind == {"dq", "dealer", "in"}

UpAt(K, x, i, v) ==
    \/ K = "out" /\ x \in Proc /\ i \in 1..Len(outq[x]) /\ outq[x][i] = v
    \/ K = "pull" /\ x \in Svc /\ i = 1 /\ Holds(x, "pull", v)
    \/ K = "up" /\ x \in Svc /\ i \in 1..Len(up[x]) /\ up[x][i] = v
DownAt(K, x, i, v) ==
    \/ K = "dq" /\ x \in Svc /\ i \in 1..Len(dq[x]) /\ dq[x][i] = v
    \/ K = "dealer" /\ x \in Svc /\ i = 1 /\ Holds(x, "dealer", v)
    \/ K = "in" /\ x \in Proc /\ i \in 1..Len(inq[x]) /\ inq[x][i] = v

\* A step leaves v where it is, or takes v from the first place of K0 at x0 to
\* the place n of K1 at x1, the others at x0 move up; or v is no longer there.
UpStays(v)   == \A K, x, i : UpAt(K, x, i, v)' => UpAt(K, x, i, v)
DownStays(v) == \A K, x, i : DownAt(K, x, i, v)' => DownAt(K, x, i, v)

UpMoves(v, K0, x0, K1, x1, n) == \A K, x, i : UpAt(K, x, i, v)' =>
    \/ K = K0 /\ x = x0 /\ i \in Nat \ {0} /\ UpAt(K, x, i + 1, v)
    \/ K = K1 /\ x = x1 /\ i = n /\ UpAt(K0, x0, 1, v)
    \/ ~(K = K0 /\ x = x0) /\ ~(K = K1 /\ x = x1 /\ i = n) /\ UpAt(K, x, i, v)
DownMoves(v, K0, x0, K1, x1, n) == \A K, x, i : DownAt(K, x, i, v)' =>
    \/ K = K0 /\ x = x0 /\ i \in Nat \ {0} /\ DownAt(K, x, i + 1, v)
    \/ K = K1 /\ x = x1 /\ i = n /\ DownAt(K0, x0, 1, v)
    \/ ~(K = K0 /\ x = x0) /\ ~(K = K1 /\ x = x1 /\ i = n) /\ DownAt(K, x, i, v)

\* What a callback holds comes from where it reads, and goes where it sends.
LEMMA HeldMoves ==
    ASSUME StateType, NEW s \in Svc, NEW w \in Way, NEW fr \in Ends(Whole(s, w)),
           ReadsFrames(s, w, fr), rd' = [rd EXCEPT ![s][w] = Tail(fr)],
           NEW to, NEW msg \in Seq(Frame), SendsFrame(s, w, fr, to, msg),
           NEW v \in Whole(s, w)
    PROVE  /\ \A x \in Svc, u \in Way : x # s \/ u # w => (Holds(x, u, v)' <=> Holds(x, u, v))
           /\ Holds(s, w, v)' => /\ Tail(fr) # <<>>
                                 /\ rd[s][w] # <<>> => Holds(s, w, v)
                                 /\ rd[s][w] = <<>> => fr = v
           /\ Tail(fr) = <<>> /\ msg = v => Holds(s, w, v)
           /\ rd[s][w] = <<>> => ~Holds(s, w, v)
  <1>0. /\ rd \in [Svc -> [Way -> Seq(Frame)]] /\ snd \in [Svc -> [Way -> Begun \cup {NULL}]]
        /\ PartsOK(s, w)
    BY DEF StateType, RelayType
  <1>1. PICK b : b = [to |-> to, msg |-> msg]
    OBVIOUS
  <1>2. snd' = [snd EXCEPT ![s][w] = IF Tail(fr) # <<>> THEN b ELSE NULL]
    BY <1>1, SendEffects
  <1>3. b.msg = msg
    BY <1>1
  <1>4. /\ rd'[s][w] = Tail(fr) /\ snd'[s][w] = IF Tail(fr) # <<>> THEN b ELSE NULL
        /\ \A x \in Svc, u \in Way : x # s \/ u # w => rd'[x][u] = rd[x][u] /\ snd'[x][u] = snd[x][u]
    BY <1>0, <1>2
  <1>5. \A x \in Svc, u \in Way : x # s \/ u # w => (Holds(x, u, v)' <=> Holds(x, u, v))
    BY <1>4 DEF Holds
  <1>6. rd[s][w] = <<>> => snd[s][w] = NULL
    BY <1>0 DEF PartsOK
  <1>7. \/ Begins(s, w, fr, to, msg)
        \/ Continues(s, w, fr, to, msg)
    BY DEF SendsFrame
  <1>8. Tail(fr) = <<>> => msg = msg \o Tail(fr)
    BY DEF SendsFrame
  <1>9. rd[s][w] # <<>> => fr = rd[s][w]
    BY DEF ReadsFrames, ReadsLeft, ReadsProc, ReadsRouter
  <1>10. rd[s][w] # <<>> => rd[s][w] # v
    <2> SUFFICES ASSUME rd[s][w] # <<>> PROVE rd[s][w] # v
      OBVIOUS
    <2>1. PICK n \in Nat : n = IF w = "pull" THEN 4 ELSE 2
      OBVIOUS
    <2>2. \A x \in Whole(s, w) : Len(x) = n
      BY <2>1, WholeValue
    <2>3. PICK r : r = rd[s][w]
      OBVIOUS
    <2>4. r \in Rests(Whole(s, w))
      BY <1>0, <2>3 DEF PartsOK
    <2>5. PICK l : l = Len(r)
      OBVIOUS
    <2>6. l \in 1..n /\ l < n
      BY <2>2, <2>4, <2>5, RestSize
    <2>7. Len(v) = n
      BY <2>2
    <2> QED
      BY <2>3, <2>5, <2>6, <2>7
  <1>11. CASE Begins(s, w, fr, to, msg)
    <2>1. snd[s][w] = NULL /\ msg \o Tail(fr) = fr
      BY <1>11 DEF Begins
    <2>2. Holds(s, w, v)' => Tail(fr) # <<>> /\ fr = v
      BY <1>3, <1>4, <2>1 DEF Holds
    <2>3. ~(Tail(fr) = <<>> /\ msg = v)
      <3> SUFFICES ASSUME Tail(fr) = <<>>, msg = v PROVE FALSE
        OBVIOUS
      <3>1. fr = v /\ fr \in Seq(Frame) /\ fr # <<>>
        BY <1>8, <2>1 DEF Ends
      <3>0. PICK l : l = Len(fr)
        OBVIOUS
      <3>2. l <= 1
        BY <3>0, <3>1, FirstFrame
      <3>3. l = 4 \/ l = 2
        BY <3>0, <3>1, WholeValue
      <3> QED
        BY <3>2, <3>3
    <2> QED
      BY <1>5, <1>6, <1>9, <1>10, <2>1, <2>2, <2>3 DEF Holds
  <1>12. CASE Continues(s, w, fr, to, msg)
    <2>1. snd[s][w] # NULL /\ msg \o Tail(fr) = snd[s][w].msg \o rd[s][w]
      BY <1>12 DEF Continues
    <2>2. Holds(s, w, v)' => Tail(fr) # <<>> /\ Holds(s, w, v)
      BY <1>3, <1>4, <2>1 DEF Holds
    <2>3. Tail(fr) = <<>> /\ msg = v => Holds(s, w, v)
      BY <1>8, <2>1 DEF Holds
    <2> QED
      BY <1>5, <1>6, <2>1, <2>2, <2>3 DEF Holds
  <1> QED
    BY <1>7, <1>11, <1>12

LEMMA LostHolds ==
    ASSUME StateType, NEW s \in Svc, NEW w \in Way, NEW fr,
           rd' = [rd EXCEPT ![s][w] = Tail(fr)], LosesFrame(s, w), NEW v
    PROVE  /\ \A x \in Svc, u \in Way : x # s \/ u # w => (Holds(x, u, v)' <=> Holds(x, u, v))
           /\ ~Holds(s, w, v) /\ ~Holds(s, w, v)'
           /\ UNCHANGED <<up, inq>>
  <1>1. rd \in [Svc -> [Way -> Seq(Frame)]]
    BY DEF StateType, RelayType
  <1>2. \A x \in Svc, u \in Way : x # s \/ u # w => rd'[x][u] = rd[x][u]
    BY <1>1
  <1>3. snd[s][w] = NULL /\ snd' = snd /\ UNCHANGED <<up, inq>>
    BY DEF LosesFrame
  <1> QED
    BY <1>2, <1>3 DEF Holds

\* What a frame that goes on does to the messages on their way.
LEMMA RelayMoves ==
    ASSUME StateType, RelayFrame
    PROVE  \/ /\ \A v \in Sent :
                   UpStays(v) \/ \E K0, K1 \in UpKind : \E x0, x1, n : UpMoves(v, K0, x0, K1, x1, n)
              /\ \A v \in Asked(Request) : DownStays(v)
           \/ /\ \A v \in Sent : UpStays(v)
              /\ \A v \in Asked(Request) :
                   DownStays(v) \/ \E K0, K1 \in DownKind : \E x0, x1, n : DownMoves(v, K0, x0, K1, x1, n)
  <1>1. PICK s \in Svc, w \in Way, fr \in Seq(Frame) :
             /\ fr \in Ends(Whole(s, w)) /\ ReadsFrames(s, w, fr)
             /\ rd' = [rd EXCEPT ![s][w] = Tail(fr)]
             /\ LosesFrame(s, w) \/ \E to \in Svc \cup Proc, msg \in Seq(Frame) : SendsFrame(s, w, fr, to, msg)
    BY RelayValue
  <1>2. "pull" # "dealer" /\ "pull" \in Way /\ "dealer" \in Way
    BY DEF Way
  <1>3. /\ outq \in [Proc -> Seq(Sent)] /\ dq \in [Svc -> Seq(Asked(Request))]
        /\ up \in [Svc -> Seq(Ends(Sent))] /\ inq \in [Proc -> Seq(Ends(Asked(Request)))]
    BY DEF StateType, OutType, DqType, UpType, InType
  <1>4. ASSUME w = "pull" PROVE outq' = outq \/ \E p \in Proc : ReadsProc(s, w, fr, p)
    BY <1>1, <1>4 DEF ReadsFrames, ReadsLeft, ReadsRouter
  <1> DEFINE OutAt(x, i, v) == x \in Proc /\ i \in 1..Len(outq[x]) /\ outq[x][i] = v
             UpqAt(x, i, v) == x \in Svc /\ i \in 1..Len(up[x]) /\ up[x][i] = v
             DqAt(x, i, v)  == x \in Svc /\ i \in 1..Len(dq[x]) /\ dq[x][i] = v
             InAt(x, i, v)  == x \in Proc /\ i \in 1..Len(inq[x]) /\ inq[x][i] = v
  <1>5. ASSUME w = "pull" PROVE
           /\ \A v \in Sent :
                UpStays(v) \/ \E K0, K1 \in UpKind : \E x0, x1, n : UpMoves(v, K0, x0, K1, x1, n)
           /\ \A v \in Asked(Request) : DownStays(v)
    <2>1. inq' = inq /\ dq' = dq
      <3>1. dq' = dq
        BY <1>1, <1>2, <1>5 DEF ReadsFrames, ReadsLeft, ReadsProc, ReadsRouter
      <3>2. LosesFrame(s, w) => inq' = inq
        BY DEF LosesFrame
      <3>3. ASSUME NEW to, NEW msg \in Seq(Frame), SendsFrame(s, w, fr, to, msg) PROVE inq' = inq
        BY <1>5, <3>3, SendEffects
      <3> QED
        BY <1>1, <3>1, <3>2, <3>3
    <2>2. \A v : \A x \in Svc : Holds(x, "dealer", v)' <=> Holds(x, "dealer", v)
      <3>1. rd \in [Svc -> [Way -> Seq(Frame)]] /\ snd \in [Svc -> [Way -> Begun \cup {NULL}]]
        BY DEF StateType, RelayType
      <3>2. \A x \in Svc : rd'[x]["dealer"] = rd[x]["dealer"]
        BY <1>1, <1>2, <1>5, <3>1
      <3>3. LosesFrame(s, w) => snd' = snd
        BY DEF LosesFrame
      <3>4. ASSUME NEW to, NEW msg \in Seq(Frame), SendsFrame(s, w, fr, to, msg)
            PROVE  \A x \in Svc : snd'[x]["dealer"] = snd[x]["dealer"]
        <4>0. PICK y : y = IF Tail(fr) # <<>> THEN [to |-> to, msg |-> msg] ELSE NULL
          OBVIOUS
        <4>1. snd' = [snd EXCEPT ![s][w] = y]
          BY <3>4, <4>0, SendEffects
        <4> QED
          BY <1>2, <1>5, <3>1, <4>1
      <3>5. \A x \in Svc : snd'[x]["dealer"] = snd[x]["dealer"]
        BY <1>1, <3>3, <3>4
      <3> QED
        BY <3>2, <3>5 DEF Holds
    <2>3. \A v \in Asked(Request) : DownStays(v)
      BY <2>1, <2>2 DEF DownStays, DownAt
    <2>4. ASSUME NEW v \in Sent
          PROVE  UpStays(v) \/ \E K0, K1 \in UpKind : \E x0, x1, n : UpMoves(v, K0, x0, K1, x1, n)
      <3>0. v \in Whole(s, w) /\ "out" \in UpKind /\ "pull" \in UpKind /\ "up" \in UpKind
        BY <1>5 DEF Whole, UpKind
      <3>1. CASE LosesFrame(s, w)
        <4>1. /\ \A x \in Svc : Holds(x, "pull", v)' => Holds(x, "pull", v)
              /\ up' = up
          BY <1>1, <1>2, <1>5, <3>1, LostHolds
        <4>2. CASE outq' = outq
          BY <4>1, <4>2 DEF UpStays, UpAt
        <4>4. ASSUME NEW p \in Proc, ReadsProc(s, w, fr, p) PROVE UpMoves(v, "out", p, "pull", s, 1)
          <5>1. outq[p] # <<>> /\ outq' = [outq EXCEPT ![p] = Tail(outq[p])]
            BY <4>4 DEF ReadsProc
          <5>2. \A x, i : OutAt(x, i, v)' => \/ x = p /\ i \in Nat \ {0} /\ OutAt(x, i + 1, v)
                                             \/ x # p /\ OutAt(x, i, v)
            BY <1>3, <5>1, Shifts
          <5>3. ~Holds(s, "pull", v)'
            BY <1>1, <1>5, <3>1, LostHolds
          <5> QED
            BY <4>1, <5>2, <5>3 DEF UpMoves, UpAt
        <4> QED
          BY <1>4, <1>5, <3>0, <4>2, <4>4
      <3>2. ASSUME NEW to, NEW msg \in Seq(Frame), SendsFrame(s, w, fr, to, msg)
            PROVE  UpStays(v) \/ \E K0, K1 \in UpKind : \E x0, x1, n : UpMoves(v, K0, x0, K1, x1, n)
        <4>1. /\ \A x \in Svc : x # s => (Holds(x, "pull", v)' <=> Holds(x, "pull", v))
              /\ Holds(s, "pull", v)' => /\ Tail(fr) # <<>>
                                         /\ rd[s]["pull"] # <<>> => Holds(s, "pull", v)
                                         /\ rd[s]["pull"] = <<>> => fr = v
              /\ Tail(fr) = <<>> /\ msg = v => Holds(s, "pull", v)
              /\ rd[s]["pull"] = <<>> => ~Holds(s, "pull", v)
          BY <1>1, <1>2, <1>5, <3>0, <3>2, HeldMoves
        <4>2. /\ Tail(fr) # <<>> => up' = up
              /\ Tail(fr) = <<>> => up' = [up EXCEPT ![s] = Append(up[s], msg)] /\ msg \in Ends(Sent)
          BY <1>5, <3>2, SendEffects DEF Whole
        <4>3. \A x, i : UpqAt(x, i, v)' =>
                 \/ UpqAt(x, i, v) /\ (x = s => i # Len(up[s]) + 1)
                 \/ x = s /\ i = Len(up[s]) + 1 /\ Tail(fr) = <<>> /\ msg = v
          <5>1. CASE Tail(fr) # <<>>
            <6>1. up' = up /\ up[s] \in Seq(Ends(Sent))
              BY <1>3, <4>2, <5>1
            <6>2. \A i \in 1..Len(up[s]) : i # Len(up[s]) + 1
              <7>1. Len(up[s]) \in Nat
                BY <6>1, LenProperties
              <7> QED
                BY <7>1
            <6> QED
              BY <6>1, <6>2
          <5>2. CASE Tail(fr) = <<>>
            <6>1. up' = [up EXCEPT ![s] = Append(up[s], msg)] /\ msg \in Ends(Sent)
              BY <4>2, <5>2
            <6> QED
              BY <1>3, <5>2, <6>1, Grows
          <5> QED
            BY <5>1, <5>2
        <4>4. ASSUME NEW p \in Proc, ReadsProc(s, w, fr, p) PROVE UpMoves(v, "out", p, "pull", s, 1)
          <5>1. /\ outq[p] # <<>> /\ outq' = [outq EXCEPT ![p] = Tail(outq[p])]
                /\ rd[s]["pull"] = <<>> /\ fr = outq[p][1]
            BY <1>5, <4>4 DEF ReadsProc
          <5>2. \A x, i : OutAt(x, i, v)' => \/ x = p /\ i \in Nat \ {0} /\ OutAt(x, i + 1, v)
                                             \/ x # p /\ OutAt(x, i, v)
            BY <1>3, <5>1, Shifts
          <5>3. \A x, i : UpqAt(x, i, v)' => UpqAt(x, i, v)
            BY <4>1, <4>3, <5>1
          <5>4. Holds(s, "pull", v)' => OutAt(p, 1, v)
            <6>1. Len(outq[p]) \in Nat \ {0}
              BY <1>3, <5>1, QueueTail
            <6>2. 1 \in 1..Len(outq[p])
              BY <6>1
            <6> QED
              BY <4>1, <5>1, <6>2
          <5> QED
            BY <4>1, <5>2, <5>3, <5>4 DEF UpMoves, UpAt
        <4>5. ASSUME outq' = outq, rd[s]["pull"] # <<>> PROVE UpMoves(v, "pull", s, "up", s, Len(up[s]) + 1) \/ UpStays(v)
          <5>1. CASE Tail(fr) = <<>>
            BY <4>1, <4>3, <4>5, <5>1 DEF UpMoves, UpAt
          <5>2. CASE Tail(fr) # <<>>
            BY <4>1, <4>3, <4>5, <5>2 DEF UpStays, UpAt
          <5> QED
            BY <5>1, <5>2
        <4>6. (\E p \in Proc : ReadsProc(s, w, fr, p)) \/ (outq' = outq /\ rd[s]["pull"] # <<>>)
          BY <1>1, <1>2, <1>5 DEF ReadsFrames, ReadsLeft, ReadsRouter
        <4> QED
          BY <3>0, <4>4, <4>5, <4>6
      <3> QED
        BY <1>1, <3>1, <3>2
    <2> QED
      BY <2>3, <2>4
  <1>6. ASSUME w = "dealer" PROVE
           /\ \A v \in Sent : UpStays(v)
           /\ \A v \in Asked(Request) :
                DownStays(v) \/ \E K0, K1 \in DownKind : \E x0, x1, n : DownMoves(v, K0, x0, K1, x1, n)
    <2>1. outq' = outq /\ up' = up
      <3>1. outq' = outq
        BY <1>1, <1>2, <1>6 DEF ReadsFrames, ReadsLeft, ReadsProc, ReadsRouter
      <3>2. LosesFrame(s, w) => up' = up
        BY DEF LosesFrame
      <3>3. ASSUME NEW to, NEW msg \in Seq(Frame), SendsFrame(s, w, fr, to, msg) PROVE up' = up
        BY <1>6, <3>3, SendEffects
      <3> QED
        BY <1>1, <3>1, <3>2, <3>3
    <2>2. \A v : \A x \in Svc : Holds(x, "pull", v)' <=> Holds(x, "pull", v)
      <3>1. rd \in [Svc -> [Way -> Seq(Frame)]] /\ snd \in [Svc -> [Way -> Begun \cup {NULL}]]
        BY DEF StateType, RelayType
      <3>2. \A x \in Svc : rd'[x]["pull"] = rd[x]["pull"]
        BY <1>1, <1>2, <1>6, <3>1
      <3>3. LosesFrame(s, w) => snd' = snd
        BY DEF LosesFrame
      <3>4. ASSUME NEW to, NEW msg \in Seq(Frame), SendsFrame(s, w, fr, to, msg)
            PROVE  \A x \in Svc : snd'[x]["pull"] = snd[x]["pull"]
        <4>0. PICK y : y = IF Tail(fr) # <<>> THEN [to |-> to, msg |-> msg] ELSE NULL
          OBVIOUS
        <4>1. snd' = [snd EXCEPT ![s][w] = y]
          BY <3>4, <4>0, SendEffects
        <4> QED
          BY <1>2, <1>6, <3>1, <4>1
      <3>5. \A x \in Svc : snd'[x]["pull"] = snd[x]["pull"]
        BY <1>1, <3>3, <3>4
      <3> QED
        BY <3>2, <3>5 DEF Holds
    <2>3. \A v \in Sent : UpStays(v)
      BY <2>1, <2>2 DEF UpStays, UpAt
    <2>4. ASSUME NEW v \in Asked(Request)
          PROVE  DownStays(v) \/ \E K0, K1 \in DownKind : \E x0, x1, n : DownMoves(v, K0, x0, K1, x1, n)
      <3>0. /\ "dq" \in DownKind /\ "dealer" \in DownKind /\ "in" \in DownKind
        BY DEF DownKind
      <3>00. (dq' = dq /\ rd[s]["dealer"] # <<>>) \/ ReadsRouter(s, w, fr)
        BY <1>1, <1>2, <1>6 DEF ReadsFrames, ReadsLeft, ReadsProc
      <3>000. ASSUME ReadsRouter(s, w, fr)
              PROVE  /\ rd[s]["dealer"] = <<>> /\ fr = dq[s][1] /\ 1 \in 1..Len(dq[s])
                     /\ \A x, i : DqAt(x, i, v)' => \/ x = s /\ i \in Nat \ {0} /\ DqAt(x, i + 1, v)
                                                    \/ x # s /\ DqAt(x, i, v)
        <4>1. /\ dq[s] # <<>> /\ dq' = [dq EXCEPT ![s] = Tail(dq[s])]
              /\ rd[s]["dealer"] = <<>> /\ fr = dq[s][1]
          BY <1>6, <3>000 DEF ReadsRouter
        <4>2. Len(dq[s]) \in Nat \ {0}
          BY <1>3, <4>1, QueueTail
        <4>3. 1 \in 1..Len(dq[s])
          BY <4>2
        <4> QED
          BY <1>3, <4>1, <4>3, Shifts
      <3>1. CASE LosesFrame(s, w)
        <4>1. /\ \A x \in Svc : Holds(x, "dealer", v)' => Holds(x, "dealer", v)
              /\ ~Holds(s, "dealer", v)' /\ inq' = inq
          BY <1>1, <1>2, <1>6, <3>1, LostHolds
        <4>2. CASE dq' = dq
          BY <4>1, <4>2 DEF DownStays, DownAt
        <4>3. ASSUME ReadsRouter(s, w, fr) PROVE DownMoves(v, "dq", s, "dealer", s, 1)
          BY <3>000, <4>1, <4>3 DEF DownMoves, DownAt
        <4> QED
          BY <3>0, <3>00, <4>2, <4>3
      <3>2. ASSUME NEW to, NEW msg \in Seq(Frame), SendsFrame(s, w, fr, to, msg)
            PROVE  DownStays(v) \/ \E K0, K1 \in DownKind : \E x0, x1, n : DownMoves(v, K0, x0, K1, x1, n)
        <4>0. /\ to \in Proc
              /\ inq' = IF Tail(fr) = <<>> /\ conn[to] = s
                        THEN [inq EXCEPT ![to] = Append(inq[to], msg)] ELSE inq
              /\ Tail(fr) = <<>> => msg \in Ends(Asked(Request))
          <5>1. Asked(For(s)) \subseteq Asked(Request)
            BY DEF Asked, For
          <5>2. Ends(Whole(s, w)) \subseteq Ends(Asked(Request))
            BY <1>6, <5>1, EndsMonotonic DEF Whole
          <5> QED
            BY <1>6, <3>2, <5>2, SendEffects
        <4>1. \A x \in Svc : x # s => (Holds(x, "dealer", v)' <=> Holds(x, "dealer", v))
          <5>0. PICK y : y = IF Tail(fr) # <<>> THEN [to |-> to, msg |-> msg] ELSE NULL
            OBVIOUS
          <5>1. snd' = [snd EXCEPT ![s][w] = y]
            BY <3>2, <5>0, SendEffects
          <5>2. rd \in [Svc -> [Way -> Seq(Frame)]] /\ snd \in [Svc -> [Way -> Begun \cup {NULL}]]
            BY DEF StateType, RelayType
          <5>3. \A x \in Svc : x # s => rd'[x] = rd[x] /\ snd'[x] = snd[x]
            BY <1>1, <5>1, <5>2
          <5> QED
            BY <5>3 DEF Holds
        <4>2. \A x, i : InAt(x, i, v)' =>
                 \/ InAt(x, i, v) /\ (x = to => i # Len(inq[to]) + 1)
                 \/ x = to /\ i = Len(inq[to]) + 1 /\ Tail(fr) = <<>> /\ msg = v
          <5>1. CASE inq' = inq
            <6>1. inq[to] \in Seq(Ends(Asked(Request)))
              BY <1>3, <4>0
            <6>2. \A i \in 1..Len(inq[to]) : i # Len(inq[to]) + 1
              <7>1. Len(inq[to]) \in Nat
                BY <6>1, LenProperties
              <7> QED
                BY <7>1
            <6> QED
              BY <5>1, <6>1, <6>2
          <5>2. CASE Tail(fr) = <<>> /\ conn[to] = s
            <6>1. inq' = [inq EXCEPT ![to] = Append(inq[to], msg)] /\ msg \in Ends(Asked(Request))
              BY <4>0, <5>2
            <6> QED
              BY <1>3, <4>0, <5>2, <6>1, Grows
          <5> QED
            BY <4>0, <5>1, <5>2
        <4>3. CASE v \in Asked(For(s))
          <5>0. v \in Whole(s, w)
            BY <1>6, <4>3 DEF Whole
          <5>1. /\ Holds(s, "dealer", v)' => /\ Tail(fr) # <<>>
                                             /\ rd[s]["dealer"] # <<>> => Holds(s, "dealer", v)
                                             /\ rd[s]["dealer"] = <<>> => fr = v
                /\ Tail(fr) = <<>> /\ msg = v => Holds(s, "dealer", v)
                /\ rd[s]["dealer"] = <<>> => ~Holds(s, "dealer", v)
            BY <1>1, <1>2, <1>6, <3>2, <5>0, HeldMoves
          <5>2. ASSUME ReadsRouter(s, w, fr) PROVE DownMoves(v, "dq", s, "dealer", s, 1)
            <6>1. \A x, i : InAt(x, i, v)' => InAt(x, i, v)
              BY <3>000, <4>2, <5>1, <5>2
            <6>2. Holds(s, "dealer", v)' => DqAt(s, 1, v)
              BY <3>000, <5>1, <5>2
            <6>3. \A x, i : DqAt(x, i, v)' => \/ x = s /\ i \in Nat \ {0} /\ DqAt(x, i + 1, v)
                                              \/ x # s /\ DqAt(x, i, v)
              BY <3>000, <5>2
            <6> QED
              BY <4>1, <6>1, <6>2, <6>3 DEF DownMoves, DownAt
          <5>3. ASSUME dq' = dq, rd[s]["dealer"] # <<>>
                PROVE  DownMoves(v, "dealer", s, "in", to, Len(inq[to]) + 1) \/ DownStays(v)
            <6>1. CASE Tail(fr) = <<>>
              BY <4>1, <4>2, <5>1, <5>3, <6>1 DEF DownMoves, DownAt
            <6>2. CASE Tail(fr) # <<>>
              BY <4>1, <4>2, <5>1, <5>3, <6>2 DEF DownStays, DownAt
            <6> QED
              BY <6>1, <6>2
          <5> QED
            BY <3>0, <3>00, <5>2, <5>3
        <4>4. CASE v \notin Asked(For(s))
          <5>1. v \notin Ends(Whole(s, w))
            <6>1. PICK n \in Nat : n = 2
              OBVIOUS
            <6>2. \A x \in Asked(For(s)) : Len(x) = n
              BY <6>1, WholeValue, <1>2 DEF Whole
            <6>3. Len(v) = n
              BY <6>1, AskedValue
            <6>4. Whole(s, w) = Asked(For(s))
              BY <1>6 DEF Whole
            <6> QED
              BY <4>4, <6>2, <6>3, <6>4, EndSize
          <5>2. msg \o Tail(fr) \in Ends(Whole(s, w)) /\ (Tail(fr) = <<>> => msg = msg \o Tail(fr))
            BY <3>2 DEF SendsFrame
          <5>3. msg \o Tail(fr) # v /\ (Tail(fr) = <<>> => msg # v)
            BY <5>1, <5>2
          <5>4. ~Holds(s, "dealer", v)'
            <6>1. PICK b : b = [to |-> to, msg |-> msg]
              OBVIOUS
            <6>2. snd' = [snd EXCEPT ![s][w] = IF Tail(fr) # <<>> THEN b ELSE NULL] /\ b.msg = msg
              BY <3>2, <6>1, SendEffects
            <6>3. rd \in [Svc -> [Way -> Seq(Frame)]] /\ snd \in [Svc -> [Way -> Begun \cup {NULL}]]
              BY DEF StateType, RelayType
            <6>4. rd'[s][w] = Tail(fr) /\ snd'[s][w] = IF Tail(fr) # <<>> THEN b ELSE NULL
              BY <1>1, <6>2, <6>3
            <6> QED
              BY <1>6, <5>3, <6>2, <6>4 DEF Holds
          <5>5. \A x, i : InAt(x, i, v)' => InAt(x, i, v)
            BY <4>2, <5>3
          <5>6. CASE dq' = dq
            BY <4>1, <5>4, <5>5, <5>6 DEF DownStays, DownAt
          <5>7. ASSUME ReadsRouter(s, w, fr) PROVE DownMoves(v, "dq", s, "dealer", s, 1)
            <6>1. \A x, i : DqAt(x, i, v)' => \/ x = s /\ i \in Nat \ {0} /\ DqAt(x, i + 1, v)
                                              \/ x # s /\ DqAt(x, i, v)
              BY <3>000, <5>7
            <6> QED
              BY <4>1, <5>4, <5>5, <6>1 DEF DownMoves, DownAt
          <5> QED
            BY <3>0, <3>00, <5>6, <5>7
        <4> QED
          BY <4>3, <4>4
      <3> QED
        BY <1>1, <3>1, <3>2
    <2> QED
      BY <2>3, <2>4
  <1> QED
    BY <1>5, <1>6 DEF Way

LEMMA Kinds ==
    /\ \A K, x, i, v : UpAt(K, x, i, v) => K \in UpKind
    /\ \A K, x, i, v : DownAt(K, x, i, v) => K \in DownKind
    /\ \A K \in UpKind : K \notin DownKind /\ K \notin {"taken", "hand", "sq", "ans", "read"}
    /\ \A K \in DownKind : K \notin {"taken", "hand", "sq", "ans", "read"}
  BY DEF UpAt, DownAt, UpKind, DownKind

\* Handlers that leave these places alone, and those that empty some.
LEMMA UpQuiet == ASSUME UNCHANGED <<outq, rd, snd, up>>, NEW v PROVE UpStays(v)
  <1>1. ASSUME NEW x, NEW w PROVE Holds(x, w, v)' <=> Holds(x, w, v)
    BY DEF Holds
  <1>2. ASSUME NEW K, NEW x, NEW i, UpAt(K, x, i, v)' PROVE UpAt(K, x, i, v)
    BY <1>1, <1>2 DEF UpAt
  <1> QED
    BY <1>2 DEF UpStays

LEMMA DownQuiet == ASSUME UNCHANGED <<dq, rd, snd, inq>>, NEW v PROVE DownStays(v)
  <1>1. ASSUME NEW x, NEW w PROVE Holds(x, w, v)' <=> Holds(x, w, v)
    BY DEF Holds
  <1>2. ASSUME NEW K, NEW x, NEW i, DownAt(K, x, i, v)' PROVE DownAt(K, x, i, v)
    BY <1>1, <1>2 DEF DownAt
  <1> QED
    BY <1>2 DEF DownStays

LEMMA ReleaseStays ==
    ASSUME StateType, NEW s \in Svc, SvcRelease(s), NEW v
    PROVE  UpStays(v) /\ DownStays(v)
  <1>1. /\ rd' = [rd EXCEPT ![s] = [w \in Way |-> <<>>]]
        /\ snd' = [snd EXCEPT ![s] = [w \in Way |-> NULL]]
        /\ dq' = [dq EXCEPT ![s] = <<>>] /\ up' = [up EXCEPT ![s] = <<>>] /\ inq' = inq
    BY DEF SvcRelease, Forget, client
  <1>2. PICK lost : outq' = [p \in Proc |-> IF p \in lost THEN <<>> ELSE outq[p]]
    BY DEF SvcRelease
  <1>3. /\ rd \in [Svc -> [Way -> Seq(Frame)]] /\ snd \in [Svc -> [Way -> Begun \cup {NULL}]]
        /\ DOMAIN dq = Svc /\ DOMAIN up = Svc /\ "pull" \in Way /\ "dealer" \in Way
    BY DEF StateType, RelayType, DqType, UpType, Way
  <1>4. \A x \in Svc, w \in Way : Holds(x, w, v)' => Holds(x, w, v)
    <2>1. \A x \in Svc, w \in Way : x # s => rd'[x][w] = rd[x][w] /\ snd'[x][w] = snd[x][w]
      BY <1>1, <1>3
    <2>2. \A w \in Way : snd'[s][w] = NULL
      BY <1>1, <1>3
    <2> QED
      BY <2>1, <2>2 DEF Holds
  <1>5. Len(<<>>) = 0 /\ \A i : i \notin 1..0
    OBVIOUS
  <1>6. \A x \in Svc : /\ dq'[x] = dq[x] \/ dq'[x] = <<>>
                       /\ up'[x] = up[x] \/ up'[x] = <<>>
    BY <1>1, <1>3
  <1>7. \A p \in Proc : outq'[p] = outq[p] \/ outq'[p] = <<>>
    BY <1>2
  <1>8. UpStays(v)
    BY <1>3, <1>4, <1>5, <1>6, <1>7 DEF UpStays, UpAt
  <1>9. DownStays(v)
    BY <1>1, <1>3, <1>4, <1>5, <1>6 DEF DownStays, DownAt
  <1> QED
    BY <1>8, <1>9

LEMMA ExitStays ==
    ASSUME StateType, NEW p \in Proc, Exit(p), NEW v
    PROVE  UpStays(v) /\ DownStays(v)
  <1>1. /\ outq' = [outq EXCEPT ![p] = <<>>] /\ inq' = [inq EXCEPT ![p] = <<>>]
        /\ UNCHANGED <<rd, snd, dq, up>>
    BY DEF Exit, slotq, thread
  <1>2. DOMAIN outq = Proc /\ DOMAIN inq = Proc
    BY DEF StateType, OutType, InType
  <1>3. Len(<<>>) = 0 /\ \A i : i \notin 1..0
    OBVIOUS
  <1>4. \A x \in Proc : /\ outq'[x] = outq[x] \/ outq'[x] = <<>>
                        /\ inq'[x] = inq[x] \/ inq'[x] = <<>>
    BY <1>1, <1>2
  <1>5. \A x, w : Holds(x, w, v)' <=> Holds(x, w, v)
    BY <1>1 DEF Holds
  <1>6. UpStays(v)
    <2>1. ASSUME NEW K, NEW x, NEW i, UpAt(K, x, i, v)' PROVE UpAt(K, x, i, v)
      BY <1>1, <1>3, <1>4, <1>5, <2>1 DEF UpAt
    <2> QED
      BY <2>1 DEF UpStays
  <1>7. DownStays(v)
    <2>1. ASSUME NEW K, NEW x, NEW i, DownAt(K, x, i, v)' PROVE DownAt(K, x, i, v)
      BY <1>1, <1>3, <1>4, <1>5, <2>1 DEF DownAt
    <2> QED
      BY <2>1 DEF DownStays
  <1> QED
    BY <1>6, <1>7

\* A process sends y: only y has a new place.
LEMMA PushMoves ==
    ASSUME StateType, NEW p \in Proc, NEW y \in Sent, Push(p, y), UNCHANGED <<rd, snd, up>>,
           NEW v, NEW K, NEW x, NEW i, UpAt(K, x, i, v)'
    PROVE  \/ UpAt(K, x, i, v) /\ ~(K = "out" /\ x = p /\ i = Len(outq[p]) + 1)
           \/ K = "out" /\ x = p /\ i = Len(outq[p]) + 1 /\ y = v
  <1>1. outq' = [outq EXCEPT ![p] = Append(outq[p], y)] /\ outq \in [Proc -> Seq(Sent)]
    BY DEF Push, StateType, OutType
  <1>2. CASE K = "out" /\ x = p
    <2>1. i \in 1..Len(Append(outq[p], y)) /\ Append(outq[p], y)[i] = v
      BY <1>1, <1>2 DEF UpAt
    <2> QED
      BY <1>1, <1>2, <2>1, Grows DEF UpAt
  <1>3. CASE ~(K = "out" /\ x = p)
    BY <1>1, <1>3 DEF UpAt, Holds
  <1> QED
    BY <1>2, <1>3

\* The router takes the first message of a slot.
LEMMA RouterMoves ==
    ASSUME StateType, NEW s \in Svc, Router(s), NEW v, NEW K, NEW x, NEW i, UpAt(K, x, i, v)'
    PROVE  \/ K = "up" /\ x = s /\ i \in Nat \ {0} /\ UpAt(K, x, i + 1, v)
           \/ ~(K = "up" /\ x = s) /\ UpAt(K, x, i, v)
  <1>1. up[s] # <<>> /\ up' = [up EXCEPT ![s] = Tail(up[s])] /\ UNCHANGED <<outq, rd, snd>>
    BY RouterSteps
  <1>2. up \in [Svc -> Seq(Ends(Sent))]
    BY DEF StateType, UpType
  <1>3. CASE K = "up" /\ x = s
    <2>1. i \in 1..Len(Tail(up[s])) /\ Tail(up[s])[i] = v
      BY <1>1, <1>2, <1>3 DEF UpAt
    <2> QED
      BY <1>1, <1>2, <1>3, <2>1, Shifts DEF UpAt
  <1>4. CASE ~(K = "up" /\ x = s)
    BY <1>1, <1>2, <1>4 DEF UpAt, Holds
  <1> QED
    BY <1>3, <1>4

\* A process takes the first request that has reached it.
LEMMA RecvMoves ==
    ASSUME StateType, NEW p \in Proc, MqRecvReq(p), NEW v, NEW K, NEW x, NEW i, DownAt(K, x, i, v)'
    PROVE  \/ K = "in" /\ x = p /\ i \in Nat \ {0} /\ DownAt(K, x, i + 1, v)
           \/ ~(K = "in" /\ x = p) /\ DownAt(K, x, i, v)
  <1>1. inq[p] # <<>> /\ inq' = [inq EXCEPT ![p] = Tail(inq[p])] /\ UNCHANGED <<dq, rd, snd>>
    BY DEF MqRecvReq, slotq, thread
  <1>2. inq \in [Proc -> Seq(Ends(Asked(Request)))]
    BY DEF StateType, InType
  <1>3. CASE K = "in" /\ x = p
    <2>1. i \in 1..Len(Tail(inq[p])) /\ Tail(inq[p])[i] = v
      BY <1>1, <1>2, <1>3 DEF DownAt
    <2> QED
      BY <1>1, <1>2, <1>3, <2>1, Shifts DEF DownAt
  <1>4. CASE ~(K = "in" /\ x = p)
    BY <1>1, <1>2, <1>4 DEF DownAt, Holds
  <1> QED
    BY <1>3, <1>4

-----------------------------------------------------------------------------
(* A request with a body of kind k.                                        *)

Outcome(k) == IF k = "nothing" THEN "failed" ELSE "sent"

TakenAt(K, x, i, m, k) == K = "taken" /\ x = NULL /\ i \in 1..Len(taken) /\ taken[i].body = F(k, m)
ReqAt(K, x, i, m, k) ==
    UpAt(K, x, i, ReqFrames(m, k)) \/ DownAt(K, x, i, Ask(m, k)) \/ TakenAt(K, x, i, m, k)

\* It is somewhere only after mq_send_req returned, and never in two places.
ReqSent(m, k) == \A K, x, i : ReqAt(K, x, i, m, k) => result[m] = Outcome(k)
OneReq(m, k)  == \A K, x, i, L, y, j :
    ReqAt(K, x, i, m, k) /\ ReqAt(L, y, j, m, k) => K = L /\ x = y /\ i = j
ReqInv == \A m \in Request, k \in BodyKind : ReqSent(m, k) /\ OneReq(m, k)

ReqStays(m, k) == \A K, x, i : ReqAt(K, x, i, m, k)' => ReqAt(K, x, i, m, k)
ReqMoves(m, k, K0, x0, K1, x1, n) == \A K, x, i : ReqAt(K, x, i, m, k)' =>
    \/ K = K0 /\ x = x0 /\ i \in Nat \ {0} /\ ReqAt(K, x, i + 1, m, k)
    \/ K = K1 /\ x = x1 /\ i = n /\ ReqAt(K0, x0, 1, m, k)
    \/ ~(K = K0 /\ x = x0) /\ ~(K = K1 /\ x = x1 /\ i = n) /\ ReqAt(K, x, i, m, k)

LEMMA ReqKept ==
    ASSUME NEW m, NEW k, ReqSent(m, k), OneReq(m, k), result'[m] = result[m],
           ReqStays(m, k) \/ \E K0, x0, K1, x1, n : ReqMoves(m, k, K0, x0, K1, x1, n)
    PROVE  (ReqSent(m, k) /\ OneReq(m, k))'
  <1>1. CASE ReqStays(m, k)
    BY <1>1 DEF ReqStays, ReqSent, OneReq
  <1>2. ASSUME NEW K0, NEW x0, NEW K1, NEW x1, NEW n, ReqMoves(m, k, K0, x0, K1, x1, n)
        PROVE  (ReqSent(m, k) /\ OneReq(m, k))'
    <2>1. ReqSent(m, k)'
      BY <1>2 DEF ReqMoves, ReqSent
    <2>2. ASSUME NEW K, NEW x, NEW i, ReqAt(K, x, i, m, k)',
                 NEW L, NEW y, NEW j, ReqAt(L, y, j, m, k)'
          PROVE  K = L /\ x = y /\ i = j
      <3>1. \A I \in Nat \ {0} : I + 1 # 1
        OBVIOUS
      <3>2. \A I, J \in Nat \ {0} : I + 1 = J + 1 => I = J
        OBVIOUS
      <3>3. \/ K = K0 /\ x = x0 /\ i \in Nat \ {0} /\ ReqAt(K0, x0, i + 1, m, k)
            \/ K = K1 /\ x = x1 /\ i = n /\ ReqAt(K0, x0, 1, m, k)
            \/ ~(K = K0 /\ x = x0) /\ ~(K = K1 /\ x = x1 /\ i = n) /\ ReqAt(K, x, i, m, k)
        BY <1>2, <2>2 DEF ReqMoves
      <3>4. \/ L = K0 /\ y = x0 /\ j \in Nat \ {0} /\ ReqAt(K0, x0, j + 1, m, k)
            \/ L = K1 /\ y = x1 /\ j = n /\ ReqAt(K0, x0, 1, m, k)
            \/ ~(L = K0 /\ y = x0) /\ ~(L = K1 /\ y = x1 /\ j = n) /\ ReqAt(L, y, j, m, k)
        BY <1>2, <2>2 DEF ReqMoves
      <3> QED
        BY <3>1, <3>2, <3>3, <3>4 DEF OneReq
    <2> QED
      BY <2>1, <2>2 DEF OneReq
  <1> QED
    BY <1>1, <1>2

LEMMA NextReqInv == ASSUME StateType, ReqInv, [Next]_vars PROVE ReqInv'
  <1>1. ASSUME UNCHANGED result,
               \A m \in Request, k \in BodyKind :
                 ReqStays(m, k) \/ \E K0, x0, K1, x1, n : ReqMoves(m, k, K0, x0, K1, x1, n)
        PROVE  ReqInv'
    BY <1>1, ReqKept DEF ReqInv
  <1>2. ASSUME UNCHANGED taken, NEW m \in Request, NEW k \in BodyKind,
               UpStays(ReqFrames(m, k)), DownStays(Ask(m, k))
        PROVE  ReqStays(m, k)
    BY <1>2 DEF ReqStays, ReqAt, UpStays, DownStays, TakenAt
  <1>3. ASSUME UNCHANGED <<result, taken>>,
               \A v \in Sent : UpStays(v), \A v \in Asked(Request) : DownStays(v)
        PROVE  ReqInv'
    <2>1. \A m \in Request, k \in BodyKind : ReqFrames(m, k) \in Sent /\ Ask(m, k) \in Asked(Request)
      BY DEF Sent, Asked
    <2> QED
      BY <1>1, <1>2, <1>3, <2>1
  <1>4. ASSUME UNCHANGED <<outq, dq, up, rd, snd, inq, result, taken>> PROVE ReqInv'
    BY <1>3, <1>4, UpQuiet, DownQuiet
  <1>5. ASSUME NEW s \in Svc, SvcRelease(s) PROVE ReqInv'
    <2>1. UNCHANGED <<result, taken>>
      BY <1>5 DEF SvcRelease, done
    <2> QED
      BY <1>3, <1>5, <2>1, ReleaseStays
  <1>6. ASSUME NEW p \in Proc, Exit(p) PROVE ReqInv'
    <2>1. UNCHANGED <<result, taken>>
      BY <1>6 DEF Exit, done
    <2> QED
      BY <1>3, <1>6, <2>1, ExitStays
  <1>7. ASSUME NEW s \in Svc, Router(s) PROVE ReqInv'
    <2>1. UNCHANGED <<result, taken, rd, snd, inq>>
      BY <1>7, RouterSteps DEF client, done
    <2>2. ASSUME NEW m \in Request, NEW k \in BodyKind, dq' = dq
          PROVE  ReqMoves(m, k, "up", s, "none", s, 1)
      <3>1. DownStays(Ask(m, k))
        BY <2>1, <2>2, DownQuiet
      <3> SUFFICES ASSUME NEW K, NEW x, NEW i, ReqAt(K, x, i, m, k)'
                   PROVE  \/ K = "up" /\ x = s /\ i \in Nat \ {0} /\ ReqAt(K, x, i + 1, m, k)
                          \/ ~(K = "up" /\ x = s) /\ K # "none" /\ ReqAt(K, x, i, m, k)
        BY DEF ReqMoves
      <3>2. CASE UpAt(K, x, i, ReqFrames(m, k))'
        BY <1>7, <3>2, RouterMoves, Kinds DEF ReqAt, UpKind
      <3>3. CASE DownAt(K, x, i, Ask(m, k))'
        BY <3>1, <3>3, Kinds DEF ReqAt, DownStays, DownKind
      <3>4. CASE TakenAt(K, x, i, m, k)'
        BY <2>1, <3>4 DEF ReqAt, TakenAt
      <3> QED
        BY <3>2, <3>3, <3>4 DEF ReqAt
    <2>3. ASSUME NEW r \in Request, NEW l \in BodyKind, To[r] \in Svc, up[s] # <<>>,
                 up[s][1] = ReqFrames(r, l), dq' = [dq EXCEPT ![To[r]] = Append(dq[To[r]], Ask(r, l))],
                 NEW m \in Request, NEW k \in BodyKind
          PROVE  ReqMoves(m, k, "up", s, "dq", To[r], Len(dq[To[r]]) + 1)
      <3> SUFFICES ASSUME NEW K, NEW x, NEW i, ReqAt(K, x, i, m, k)'
                   PROVE  \/ K = "up" /\ x = s /\ i \in Nat \ {0} /\ ReqAt(K, x, i + 1, m, k)
                          \/ K = "dq" /\ x = To[r] /\ i = Len(dq[To[r]]) + 1 /\ ReqAt("up", s, 1, m, k)
                          \/ /\ ~(K = "up" /\ x = s) /\ ~(K = "dq" /\ x = To[r] /\ i = Len(dq[To[r]]) + 1)
                             /\ ReqAt(K, x, i, m, k)
        BY DEF ReqMoves
      <3>1. dq \in [Svc -> Seq(Asked(Request))] /\ Ask(r, l) \in Asked(Request)
        BY DEF StateType, DqType, Asked
      <3>2. CASE UpAt(K, x, i, ReqFrames(m, k))'
        BY <1>7, <3>2, RouterMoves, Kinds DEF ReqAt, UpKind
      <3>3. CASE DownAt(K, x, i, Ask(m, k))' /\ K = "dq" /\ x = To[r]
        <4>1. i \in 1..Len(Append(dq[To[r]], Ask(r, l))) /\ Append(dq[To[r]], Ask(r, l))[i] = Ask(m, k)
          BY <2>3, <3>1, <3>3 DEF DownAt
        <4>2. CASE i \in 1..Len(dq[To[r]]) /\ dq[To[r]][i] = Ask(m, k) /\ i # Len(dq[To[r]]) + 1
          BY <2>3, <3>3, <4>2 DEF ReqAt, DownAt
        <4>3. CASE i = Len(dq[To[r]]) + 1 /\ Ask(r, l) = Ask(m, k)
          <5>1. ReqFrames(m, k) = up[s][1]
            BY <2>3, <4>3, SameFrames
          <5>2. 1 \in 1..Len(up[s])
            <6>1. Len(up[s]) \in Nat \ {0}
              BY <2>3, QueueTail DEF StateType, UpType
            <6> QED
              BY <6>1
          <5>3. ReqAt("up", s, 1, m, k)
            BY <5>1, <5>2 DEF ReqAt, UpAt
          <5> QED
            BY <3>3, <4>3, <5>3
        <4> QED
          BY <2>3, <3>1, <4>1, <4>2, <4>3, Grows
      <3>4. CASE DownAt(K, x, i, Ask(m, k))' /\ ~(K = "dq" /\ x = To[r])
        <4>1. DownAt(K, x, i, Ask(m, k))
          BY <2>1, <2>3, <3>1, <3>4 DEF DownAt, Holds
        <4> QED
          BY <3>4, <4>1, Kinds DEF ReqAt, DownKind
      <3>5. CASE TakenAt(K, x, i, m, k)'
        BY <2>1, <3>5 DEF ReqAt, TakenAt
      <3> QED
        BY <3>2, <3>3, <3>4, <3>5 DEF ReqAt
    <2>4. CASE RouteReq(s)
      <3>1. PICK r \in Request, l \in BodyKind :
                 /\ To[r] \in Svc /\ up[s] # <<>> /\ up[s][1] = ReqFrames(r, l)
                 /\ dq' = [dq EXCEPT ![To[r]] = Append(dq[To[r]], Ask(r, l))]
        BY <2>4, RouteValue
      <3> QED
        BY <1>1, <2>1, <2>3, <3>1
    <2>5. CASE ~RouteReq(s)
      <3>1. dq' = dq
        BY <1>7, <2>5, RouterSteps DEF PublishRes
      <3> QED
        BY <1>1, <2>1, <2>2, <3>1
    <2> QED
      BY <2>4, <2>5
  <1>8. ASSUME RelayFrame PROVE ReqInv'
    <2>1. UNCHANGED <<result, taken>>
      BY <1>8 DEF RelayFrame, done
    <2>2. \A m \in Request, k \in BodyKind : ReqFrames(m, k) \in Sent /\ Ask(m, k) \in Asked(Request)
      BY DEF Sent, Asked
    <2>3. ASSUME NEW m \in Request, NEW k \in BodyKind, DownStays(Ask(m, k)),
                 NEW K0 \in UpKind, NEW K1 \in UpKind, NEW x0, NEW x1, NEW n,
                 UpMoves(ReqFrames(m, k), K0, x0, K1, x1, n)
          PROVE  ReqMoves(m, k, K0, x0, K1, x1, n)
      <3> SUFFICES ASSUME NEW K, NEW x, NEW i, ReqAt(K, x, i, m, k)'
                   PROVE  \/ K = K0 /\ x = x0 /\ i \in Nat \ {0} /\ ReqAt(K, x, i + 1, m, k)
                          \/ K = K1 /\ x = x1 /\ i = n /\ ReqAt(K0, x0, 1, m, k)
                          \/ ~(K = K0 /\ x = x0) /\ ~(K = K1 /\ x = x1 /\ i = n) /\ ReqAt(K, x, i, m, k)
        BY DEF ReqMoves
      <3>1. CASE UpAt(K, x, i, ReqFrames(m, k))'
        BY <2>3, <3>1 DEF ReqAt, UpMoves
      <3>2. CASE DownAt(K, x, i, Ask(m, k))'
        BY <2>3, <3>2, Kinds DEF ReqAt, DownStays
      <3>3. CASE TakenAt(K, x, i, m, k)'
        BY <2>1, <2>3, <3>3, Kinds DEF ReqAt, TakenAt
      <3> QED
        BY <3>1, <3>2, <3>3 DEF ReqAt
    <2>4. ASSUME NEW m \in Request, NEW k \in BodyKind, UpStays(ReqFrames(m, k)),
                 NEW K0 \in DownKind, NEW K1 \in DownKind, NEW x0, NEW x1, NEW n,
                 DownMoves(Ask(m, k), K0, x0, K1, x1, n)
          PROVE  ReqMoves(m, k, K0, x0, K1, x1, n)
      <3> SUFFICES ASSUME NEW K, NEW x, NEW i, ReqAt(K, x, i, m, k)'
                   PROVE  \/ K = K0 /\ x = x0 /\ i \in Nat \ {0} /\ ReqAt(K, x, i + 1, m, k)
                          \/ K = K1 /\ x = x1 /\ i = n /\ ReqAt(K0, x0, 1, m, k)
                          \/ ~(K = K0 /\ x = x0) /\ ~(K = K1 /\ x = x1 /\ i = n) /\ ReqAt(K, x, i, m, k)
        BY DEF ReqMoves
      <3>1. CASE UpAt(K, x, i, ReqFrames(m, k))'
        BY <2>4, <3>1, Kinds DEF ReqAt, UpStays
      <3>2. CASE DownAt(K, x, i, Ask(m, k))'
        BY <2>4, <3>2 DEF ReqAt, DownMoves
      <3>3. CASE TakenAt(K, x, i, m, k)'
        BY <2>1, <2>4, <3>3, Kinds DEF ReqAt, TakenAt
      <3> QED
        BY <3>1, <3>2, <3>3 DEF ReqAt
    <2>5. ASSUME NEW m \in Request, NEW k \in BodyKind
          PROVE  ReqStays(m, k) \/ \E K0, x0, K1, x1, n : ReqMoves(m, k, K0, x0, K1, x1, n)
      <3>1. \/ UpStays(ReqFrames(m, k)) /\ DownStays(Ask(m, k))
            \/ /\ DownStays(Ask(m, k))
               /\ \E K0, K1 \in UpKind : \E x0, x1, n : UpMoves(ReqFrames(m, k), K0, x0, K1, x1, n)
            \/ /\ UpStays(ReqFrames(m, k))
               /\ \E K0, K1 \in DownKind : \E x0, x1, n : DownMoves(Ask(m, k), K0, x0, K1, x1, n)
        BY <1>8, <2>2, RelayMoves
      <3>2. CASE UpStays(ReqFrames(m, k)) /\ DownStays(Ask(m, k))
        BY <1>2, <2>1, <3>2
      <3>3. CASE /\ DownStays(Ask(m, k))
                 /\ \E K0, K1 \in UpKind : \E x0, x1, n : UpMoves(ReqFrames(m, k), K0, x0, K1, x1, n)
        BY <2>3, <3>3
      <3>4. CASE /\ UpStays(ReqFrames(m, k))
                 /\ \E K0, K1 \in DownKind : \E x0, x1, n : DownMoves(Ask(m, k), K0, x0, K1, x1, n)
        BY <2>4, <3>4
      <3> QED
        BY <3>1, <3>2, <3>3, <3>4
    <2> QED
      BY <1>1, <2>1, <2>5
  <1>9. ASSUME NEW p \in Proc, MqRecvReq(p) PROVE ReqInv'
    <2>1. UNCHANGED <<result, outq, dq, up, rd, snd>>
      BY <1>9 DEF MqRecvReq, slotq, thread
    <2>2. \A v : UpStays(v)
      BY <2>1, UpQuiet
    <2>3. ASSUME NEW m \in Request, NEW k \in BodyKind, taken' = taken
          PROVE  ReqMoves(m, k, "in", p, "none", p, 1)
      <3> SUFFICES ASSUME NEW K, NEW x, NEW i, ReqAt(K, x, i, m, k)'
                   PROVE  \/ K = "in" /\ x = p /\ i \in Nat \ {0} /\ ReqAt(K, x, i + 1, m, k)
                          \/ ~(K = "in" /\ x = p) /\ K # "none" /\ ReqAt(K, x, i, m, k)
        BY DEF ReqMoves
      <3>1. CASE UpAt(K, x, i, ReqFrames(m, k))'
        BY <2>2, <3>1, Kinds DEF ReqAt, UpStays, UpKind
      <3>2. CASE DownAt(K, x, i, Ask(m, k))'
        BY <1>9, <3>2, RecvMoves, Kinds DEF ReqAt, DownKind
      <3>3. CASE TakenAt(K, x, i, m, k)'
        BY <2>3, <3>3 DEF ReqAt, TakenAt
      <3> QED
        BY <3>1, <3>2, <3>3 DEF ReqAt
    <2>4. ASSUME NEW r \in Request, inq[p] # <<>>, inq[p][1] = Ask(r, "body"),
                 taken' = Append(taken, [by |-> p, tag |-> F("tag", r), body |-> F("body", r)]),
                 NEW m \in Request, NEW k \in BodyKind
          PROVE  ReqMoves(m, k, "in", p, "taken", NULL, Len(taken) + 1)
      <3> SUFFICES ASSUME NEW K, NEW x, NEW i, ReqAt(K, x, i, m, k)'
                   PROVE  \/ K = "in" /\ x = p /\ i \in Nat \ {0} /\ ReqAt(K, x, i + 1, m, k)
                          \/ K = "taken" /\ x = NULL /\ i = Len(taken) + 1 /\ ReqAt("in", p, 1, m, k)
                          \/ /\ ~(K = "in" /\ x = p) /\ ~(K = "taken" /\ x = NULL /\ i = Len(taken) + 1)
                             /\ ReqAt(K, x, i, m, k)
        BY DEF ReqMoves
      <3>1. CASE UpAt(K, x, i, ReqFrames(m, k))'
        BY <2>2, <3>1, Kinds DEF ReqAt, UpStays, UpKind
      <3>2. CASE DownAt(K, x, i, Ask(m, k))'
        BY <1>9, <3>2, RecvMoves, Kinds DEF ReqAt, DownKind
      <3>3. CASE TakenAt(K, x, i, m, k)'
        <4>1. PICK t : t = [by |-> p, tag |-> F("tag", r), body |-> F("body", r)]
          OBVIOUS
        <4>2. t \in Takes /\ taken \in Seq(Takes) /\ taken' = Append(taken, t) /\ t.body = F("body", r)
          BY <2>4, <4>1 DEF Takes, StateType, DoneType
        <4>3. K = "taken" /\ x = NULL /\ i \in 1..Len(Append(taken, t)) /\ Append(taken, t)[i].body = F(k, m)
          BY <3>3, <4>2 DEF TakenAt
        <4>4. \/ i \in 1..Len(taken) /\ Append(taken, t)[i] = taken[i] /\ i # Len(taken) + 1
              \/ i = Len(taken) + 1 /\ Append(taken, t)[i] = t
          BY <4>2, <4>3, Grows
        <4>5. CASE i \in 1..Len(taken) /\ taken[i].body = F(k, m) /\ i # Len(taken) + 1
          BY <4>3, <4>5 DEF ReqAt, TakenAt
        <4>6. CASE i = Len(taken) + 1 /\ F("body", r) = F(k, m)
          <5>1. m = r /\ k = "body"
            BY <4>6 DEF F
          <5>2. 1 \in 1..Len(inq[p])
            <6>1. Len(inq[p]) \in Nat \ {0}
              BY <2>4, QueueTail DEF StateType, InType
            <6> QED
              BY <6>1
          <5>3. ReqAt("in", p, 1, m, k)
            BY <2>4, <5>1, <5>2 DEF ReqAt, DownAt
          <5> QED
            BY <4>3, <4>6, <5>3
        <4> QED
          BY <4>2, <4>3, <4>4, <4>5, <4>6
      <3> QED
        BY <3>1, <3>2, <3>3 DEF ReqAt
    <2> QED
      BY <1>1, <1>9, <2>1, <2>3, <2>4, RecvReqValue
  <1>10. ASSUME NEW p \in Proc, MqSendRes(p) PROVE ReqInv'
    <2>1. UNCHANGED <<result, taken, dq, up, rd, snd, inq>>
      BY <1>10 DEF MqSendRes, done, slotq
    <2>2. \A v \in Asked(Request) : DownStays(v)
      BY <2>1, DownQuiet
    <2>3. PICK r \in Request : r = hand[p]
      BY <1>10 DEF MqSendRes, StateType, DoneType
    <2>4. UNCHANGED outq \/ Push(p, ResFrames(r))
      BY <1>10, <2>3 DEF MqSendRes
    <2>5. CASE UNCHANGED outq
      BY <1>4, <2>1, <2>5
    <2>6. CASE Push(p, ResFrames(r))
      <3>1. ResFrames(r) \in Sent
        BY DEF Sent
      <3>2. ASSUME NEW m \in Request, NEW k \in BodyKind PROVE UpStays(ReqFrames(m, k))
        BY <2>1, <2>6, <3>1, PushMoves, SameFrames DEF UpStays
      <3>3. \A m \in Request, k \in BodyKind : Ask(m, k) \in Asked(Request)
        BY DEF Asked
      <3> QED
        BY <1>1, <1>2, <2>1, <2>2, <3>2, <3>3
    <2> QED
      BY <2>4, <2>5, <2>6
  <1>11. ASSUME NEW r \in Request, MqSendReq(r) PROVE ReqInv'
    <2>1. result[r] = NULL /\ From[r] \in Proc /\ UNCHANGED <<taken, dq, up, rd, snd, inq>>
      BY <1>11, RelayAssumption DEF MqSendReq, slotq, client
    <2>2. \A v : DownStays(v)
      BY <2>1, DownQuiet
    <2>3. \A k \in BodyKind : \A K, x, i : ~ReqAt(K, x, i, r, k)
      BY <2>1, NullType DEF ReqInv, ReqSent, Outcome
    <2>4. result \in [Request -> {NULL, "sent", "failed"}]
      BY DEF StateType, DoneType
    <2>5. ASSUME NEW l \in BodyKind, Push(From[r], ReqFrames(r, l)),
                 result' = [result EXCEPT ![r] = IF l = "nothing" THEN "failed" ELSE "sent"]
          PROVE  ReqInv'
      <3>1. ReqFrames(r, l) \in Sent
        BY DEF Sent
      <3>2. ASSUME NEW m \in Request, NEW k \in BodyKind, NEW K, NEW x, NEW i, ReqAt(K, x, i, m, k)'
            PROVE  \/ ReqAt(K, x, i, m, k) /\ m # r
                   \/ K = "out" /\ x = From[r] /\ i = Len(outq[From[r]]) + 1 /\ m = r /\ k = l
        <4>1. CASE UpAt(K, x, i, ReqFrames(m, k))'
          <5>1. \/ UpAt(K, x, i, ReqFrames(m, k))
                \/ /\ K = "out" /\ x = From[r] /\ i = Len(outq[From[r]]) + 1
                   /\ ReqFrames(r, l) = ReqFrames(m, k)
            BY <2>1, <2>5, <3>1, <4>1, PushMoves
          <5> QED
            BY <2>3, <5>1, SameFrames DEF ReqAt
        <4>2. CASE DownAt(K, x, i, Ask(m, k))'
          BY <2>2, <2>3, <4>2 DEF DownStays, ReqAt
        <4>3. CASE TakenAt(K, x, i, m, k)'
          <5>1. TakenAt(K, x, i, m, k)
            BY <2>1, <4>3 DEF TakenAt
          <5> QED
            BY <2>3, <5>1 DEF ReqAt
        <4> QED
          BY <3>2, <4>1, <4>2, <4>3 DEF ReqAt
      <3>3. \A m \in Request : m # r => result'[m] = result[m]
        BY <2>4, <2>5
      <3>4. result'[r] = Outcome(l)
        BY <2>4, <2>5 DEF Outcome
      <3>5. \A m \in Request, k \in BodyKind : ReqSent(m, k)'
        BY <3>2, <3>3, <3>4 DEF ReqInv, ReqSent
      <3>6. \A m \in Request, k \in BodyKind : OneReq(m, k)'
        BY <3>2 DEF ReqInv, OneReq
      <3> QED
        BY <3>5, <3>6 DEF ReqInv
    <2>6. ASSUME UNCHANGED outq, result' = [result EXCEPT ![r] = "failed"] PROVE ReqInv'
      <3>1. \A v : UpStays(v)
        BY <2>1, <2>6, UpQuiet
      <3>2. \A m \in Request, k \in BodyKind : ReqStays(m, k)
        BY <1>2, <2>1, <2>2, <3>1
      <3>3. \A m \in Request : m # r => result'[m] = result[m]
        BY <2>4, <2>6
      <3>4. \A m \in Request, k \in BodyKind : ReqSent(m, k)'
        BY <2>3, <3>2, <3>3 DEF ReqInv, ReqSent, ReqStays
      <3>5. \A m \in Request, k \in BodyKind : OneReq(m, k)'
        BY <3>2 DEF ReqInv, OneReq, ReqStays
      <3> QED
        BY <3>4, <3>5 DEF ReqInv
    <2> QED
      BY <1>11, <2>5, <2>6 DEF MqSendReq
  <1>12. CASE \E s \in Svc : OpenSlot(s) \/ RelaySub(s)
    BY <1>4, <1>12 DEF OpenSlot, RelaySub, slotq, thread, client, done
  <1>13. CASE \E s \in Svc, w \in Way : EdgeStart(s, w) \/ TimerStart(s, w) \/ TimerIdle(s, w)
    BY <1>4, <1>13 DEF EdgeStart, TimerStart, Starts, TimerIdle, slotq, client, done
  <1>14. CASE Return
    BY <1>4, <1>14 DEF Return, slotq, client, done
  <1>15. CASE \E p \in Proc : Connect(p) \/ MqRecvRes(p)
    BY <1>4, <1>15 DEF Connect, MqRecvRes, slotq, thread, client, done
  <1>16. CASE UNCHANGED vars
    BY <1>4, <1>16 DEF vars, slotq, thread, client, done
  <1> QED
    BY <1>5, <1>6, <1>7, <1>8, <1>9, <1>10, <1>11, <1>12, <1>13, <1>14, <1>15, <1>16 DEF Next

LEMMA Placed == Spec => []ReqInv
  <1>1. Init => ReqInv
    <2> SUFFICES ASSUME Init, NEW m \in Request, NEW k \in BodyKind
                 PROVE  \A K, x, i : ~ReqAt(K, x, i, m, k)
      BY DEF ReqInv, ReqSent, OneReq
    <2>1. Len(<<>>) = 0 /\ \A i : i \notin 1..0
      OBVIOUS
    <2>2. \A s \in Svc, w \in Way : snd[s][w] = NULL
      BY DEF Init
    <2>3. \A x \in Svc : \A v : ~Holds(x, "pull", v) /\ ~Holds(x, "dealer", v)
      BY <2>2 DEF Holds, Way
    <2>4. \A K, x, i, v : ~UpAt(K, x, i, v)
      BY <2>1, <2>3 DEF Init, UpAt
    <2>5. \A K, x, i, v : ~DownAt(K, x, i, v)
      BY <2>1, <2>3 DEF Init, DownAt
    <2>6. \A K, x, i : ~TakenAt(K, x, i, m, k)
      BY <2>1 DEF Init, TakenAt
    <2> QED
      BY <2>4, <2>5, <2>6 DEF ReqAt
  <1>2. StateType /\ ReqInv /\ [Next]_vars => ReqInv'
    BY NextReqInv
  <1> QED
    BY <1>1, <1>2, StateTyped, PTL DEF Spec

\* What mq_send_req reported as failed is served by no process: a request of no
\* bytes is given up where it is read.
THEOREM FailedIsNotTaken == Spec => []FailedNotTaken
  <1>1. StateType /\ ReqInv => FailedNotTaken
    <2> SUFFICES ASSUME StateType, ReqInv, NEW m \in Request, result[m] = "failed",
                        NEW i \in 1..Len(taken), taken[i].body.v = m
                 PROVE  FALSE
      BY DEF FailedNotTaken
    <2>1. taken[i] \in Takes
      BY ElementOfSeq DEF StateType, DoneType
    <2>2. PICK r \in Request : taken[i].body = F("body", r)
      BY <2>1 DEF Takes
    <2>3. r = m
      BY <2>2, FrameParts
    <2>4. ReqAt("taken", NULL, i, m, "body") /\ "body" \in BodyKind
      BY <2>2, <2>3 DEF ReqAt, TakenAt, BodyKind
    <2>5. result[m] = Outcome("body")
      BY <2>4 DEF ReqInv, ReqSent
    <2> QED
      BY <2>5 DEF Outcome
  <1> QED
    BY <1>1, Placed, StateTyped, PTL

-----------------------------------------------------------------------------
(* Where requests and answers arrive, if the ports are apart.              *)

\* The answers for p, what a process of the right service has taken, and what
\* a process has read that it asked to hear.
Mine(p) == {Answer(m) : m \in {r \in Request : HearsProc(p, From[r])}}
Served  == {[by |-> e[1], tag |-> F("tag", e[2]), body |-> F("body", e[2])] :
              e \in {d \in Proc \X Request : SvcOf[d[1]] = To[d[2]]}}
Heard   == {[by |-> e[1], name |-> F("name", From[e[2]]), body |-> F("body", e[2])] :
              e \in {d \in Proc \X Request : HearsProc(d[1], From[d[2]])}}

BaseRight == \A s \in Svc : base[s] # 0 => \E q \in Proc : SvcOf[q] = s /\ base[s] = Rounded(PortOf[q])
ConnRight == \A p \in Proc : conn[p] # NULL => conn[p] = SvcOf[p]
InRight   == \A p \in Proc : inq[p] \in Seq(Ends(Asked(For(SvcOf[p]))))
AnsRight  == \A p \in Proc : ansq[p] \in Seq(Mine(p))
WayInv    == BaseRight /\ ConnRight /\ InRight /\ AnsRight /\ taken \in Seq(Served) /\ read \in Seq(Heard)

LEMMA NextBaseRight == ASSUME StateType, WayInv, [Next]_vars PROVE BaseRight'
  <1>0. BaseRight /\ DOMAIN base = Svc
    BY DEF WayInv, StateType, SlotType
  <1>1. ASSUME UNCHANGED base PROVE BaseRight'
    BY <1>0, <1>1 DEF BaseRight
  <1>2. ASSUME NEW s \in Svc, OpenSlot(s) PROVE BaseRight'
    <2>1. PICK p \in Proc : SvcOf[p] = s /\ base' = [base EXCEPT ![s] = Rounded(PortOf[p])]
      BY <1>2 DEF OpenSlot
    <2> QED
      BY <1>0, <2>1 DEF BaseRight
  <1>3. ASSUME NEW s \in Svc, SvcRelease(s) PROVE BaseRight'
    <2>1. base' = [base EXCEPT ![s] = 0]
      BY <1>3 DEF SvcRelease
    <2> QED
      BY <1>0, <2>1 DEF BaseRight
  <1>4. CASE \E s \in Svc : Router(s) \/ RelaySub(s)
    BY <1>1, <1>4, RouterSteps DEF RelaySub
  <1>5. CASE \E s \in Svc, w \in Way : EdgeStart(s, w) \/ TimerStart(s, w) \/ TimerIdle(s, w)
    BY <1>1, <1>5 DEF EdgeStart, TimerStart, Starts, TimerIdle
  <1>6. CASE RelayFrame \/ Return
    BY <1>1, <1>6 DEF RelayFrame, Return
  <1>7. CASE \E p \in Proc : Connect(p) \/ Exit(p) \/ MqRecvReq(p) \/ MqSendRes(p) \/ MqRecvRes(p)
    BY <1>1, <1>7 DEF Connect, Exit, MqRecvReq, MqSendRes, MqRecvRes
  <1>8. CASE \E m \in Request : MqSendReq(m)
    BY <1>1, <1>8 DEF MqSendReq
  <1>9. CASE UNCHANGED vars
    BY <1>1, <1>9 DEF vars
  <1> QED
    BY <1>2, <1>3, <1>4, <1>5, <1>6, <1>7, <1>8, <1>9 DEF Next

LEMMA NextConnRight == ASSUME PortsApart, StateType, WayInv, [Next]_vars PROVE ConnRight'
  <1>0. ConnRight /\ BaseRight /\ DOMAIN conn = Proc
    BY DEF WayInv, StateType, SlotType
  <1>1. ASSUME UNCHANGED conn PROVE ConnRight'
    BY <1>0, <1>1 DEF ConnRight
  <1>2. ASSUME NEW p \in Proc, Connect(p) PROVE ConnRight'
    <2>1. PICK s \in Svc : Meets(p, s) /\ conn' = [conn EXCEPT ![p] = s]
      BY <1>2 DEF Connect
    <2>2. SvcOf[p] = s
      BY <1>0, <2>1 DEF Meets, BaseRight, PortsApart
    <2> QED
      BY <1>0, <2>1, <2>2 DEF ConnRight
  <1>3. ASSUME NEW s \in Svc, SvcRelease(s) PROVE ConnRight'
    <2>1. conn' = [p \in Proc |-> IF conn[p] = s THEN NULL ELSE conn[p]]
      BY <1>3 DEF SvcRelease
    <2> QED
      BY <1>0, <2>1 DEF ConnRight
  <1>4. ASSUME NEW p \in Proc, Exit(p) PROVE ConnRight'
    <2>1. conn' = [conn EXCEPT ![p] = NULL]
      BY <1>4 DEF Exit
    <2> QED
      BY <1>0, <2>1 DEF ConnRight
  <1>5. CASE \E s \in Svc : OpenSlot(s) \/ Router(s) \/ RelaySub(s)
    BY <1>1, <1>5, RouterSteps DEF OpenSlot, RelaySub
  <1>6. CASE \E s \in Svc, w \in Way : EdgeStart(s, w) \/ TimerStart(s, w) \/ TimerIdle(s, w)
    BY <1>1, <1>6 DEF EdgeStart, TimerStart, Starts, TimerIdle
  <1>7. CASE RelayFrame \/ Return
    BY <1>1, <1>7 DEF RelayFrame, Return
  <1>8. CASE \E p \in Proc : MqRecvReq(p) \/ MqSendRes(p) \/ MqRecvRes(p)
    BY <1>1, <1>8 DEF MqRecvReq, MqSendRes, MqRecvRes
  <1>9. CASE \E m \in Request : MqSendReq(m)
    BY <1>1, <1>9 DEF MqSendReq
  <1>10. CASE UNCHANGED vars
    BY <1>1, <1>10 DEF vars
  <1> QED
    BY <1>2, <1>3, <1>4, <1>5, <1>6, <1>7, <1>8, <1>9, <1>10 DEF Next

LEMMA NextInRight == ASSUME StateType, WayInv, [Next]_vars PROVE InRight'
  <1>0. InRight /\ ConnRight /\ DOMAIN inq = Proc
    BY DEF WayInv, StateType, InType
  <1>1. ASSUME UNCHANGED inq PROVE InRight'
    BY <1>0, <1>1 DEF InRight
  <1>2. ASSUME NEW p \in Proc, Exit(p) PROVE InRight'
    <2>1. inq' = [inq EXCEPT ![p] = <<>>]
      BY <1>2 DEF Exit
    <2> QED
      BY <1>0, <2>1, QueueEmpty DEF InRight
  <1>3. ASSUME NEW p \in Proc, MqRecvReq(p) PROVE InRight'
    <2>1. inq[p] # <<>> /\ inq' = [inq EXCEPT ![p] = Tail(inq[p])]
      BY <1>3 DEF MqRecvReq
    <2>2. Tail(inq[p]) \in Seq(Ends(Asked(For(SvcOf[p]))))
      BY <1>0, <2>1, QueueTail DEF InRight
    <2> QED
      BY <1>0, <2>1, <2>2 DEF InRight
  <1>4. ASSUME RelayFrame PROVE InRight'
    <2>1. PICK s \in Svc, w \in Way, fr \in Seq(Frame) :
             LosesFrame(s, w) \/ \E to \in Svc \cup Proc, msg \in Seq(Frame) : SendsFrame(s, w, fr, to, msg)
      BY <1>4, RelayValue
    <2>2. CASE LosesFrame(s, w)
      BY <1>1, <2>2 DEF LosesFrame
    <2>3. ASSUME NEW to, NEW msg \in Seq(Frame), SendsFrame(s, w, fr, to, msg) PROVE InRight'
      <3>1. CASE w = "pull"
        BY <1>1, <2>3, <3>1, SendEffects
      <3>2. CASE w = "dealer" /\ ~(Tail(fr) = <<>> /\ conn[to] = s)
        BY <1>1, <2>3, <3>2, SendEffects
      <3>3. CASE w = "dealer" /\ Tail(fr) = <<>> /\ conn[to] = s
        <4>1. /\ inq' = [inq EXCEPT ![to] = Append(inq[to], msg)] /\ to \in Proc
              /\ msg \in Ends(Whole(s, w))
          BY <2>3, <3>3, SendEffects
        <4>2. s = SvcOf[to]
          BY <1>0, <3>3, <4>1, NullType DEF ConnRight
        <4>3. msg \in Ends(Asked(For(SvcOf[to])))
          BY <3>3, <4>1, <4>2 DEF Whole
        <4>4. Append(inq[to], msg) \in Seq(Ends(Asked(For(SvcOf[to]))))
          BY <1>0, <4>1, <4>3, AppendProperties DEF InRight
        <4> QED
          BY <1>0, <4>1, <4>4 DEF InRight
      <3> QED
        BY <3>1, <3>2, <3>3 DEF Way
    <2> QED
      BY <2>1, <2>2, <2>3
  <1>5. CASE \E s \in Svc : OpenSlot(s) \/ SvcRelease(s) \/ Router(s) \/ RelaySub(s)
    BY <1>1, <1>5, RouterSteps DEF OpenSlot, SvcRelease, RelaySub, client
  <1>6. CASE \E s \in Svc, w \in Way : EdgeStart(s, w) \/ TimerStart(s, w) \/ TimerIdle(s, w)
    BY <1>1, <1>6 DEF EdgeStart, TimerStart, Starts, TimerIdle, client
  <1>7. CASE Return
    BY <1>1, <1>7 DEF Return, client
  <1>8. CASE \E p \in Proc : Connect(p) \/ MqSendRes(p) \/ MqRecvRes(p)
    BY <1>1, <1>8 DEF Connect, MqSendRes, MqRecvRes, client
  <1>9. CASE \E m \in Request : MqSendReq(m)
    BY <1>1, <1>9 DEF MqSendReq, client
  <1>10. CASE UNCHANGED vars
    BY <1>1, <1>10 DEF vars, client
  <1> QED
    BY <1>2, <1>3, <1>4, <1>5, <1>6, <1>7, <1>8, <1>9, <1>10 DEF Next

LEMMA NextAnsRight == ASSUME StateType, WayInv, [Next]_vars PROVE AnsRight'
  <1>0. AnsRight /\ DOMAIN ansq = Proc
    BY DEF WayInv, StateType, AnsType
  <1>1. ASSUME UNCHANGED ansq PROVE AnsRight'
    BY <1>0, <1>1 DEF AnsRight
  <1>2. ASSUME NEW p \in Proc, Exit(p) PROVE AnsRight'
    <2>1. ansq' = [ansq EXCEPT ![p] = <<>>]
      BY <1>2 DEF Exit
    <2> QED
      BY <1>0, <2>1, QueueEmpty DEF AnsRight
  <1>3. ASSUME NEW s \in Svc, RelaySub(s) PROVE AnsRight'
    <2>1. PICK m \in Request :
             ansq' = [p \in Proc |-> IF conn[p] = s /\ HearsProc(p, From[m]) /\ Len(ansq[p]) < HWM
                                     THEN Append(ansq[p], Answer(m)) ELSE ansq[p]]
      BY <1>3, RelaySubValue
    <2>2. ASSUME NEW p \in Proc PROVE ansq'[p] \in Seq(Mine(p))
      <3>1. ansq[p] \in Seq(Mine(p))
        BY <1>0 DEF AnsRight
      <3>2. CASE ansq'[p] = ansq[p]
        BY <3>1, <3>2
      <3>3. CASE HearsProc(p, From[m]) /\ ansq'[p] = Append(ansq[p], Answer(m))
        <4>1. Answer(m) \in Mine(p)
          BY <3>3 DEF Mine
        <4> QED
          BY <3>1, <3>3, <4>1, AppendProperties
      <3> QED
        BY <2>1, <3>2, <3>3
    <2> QED
      BY <2>2 DEF AnsRight
  <1>4. ASSUME NEW p \in Proc, MqRecvRes(p) PROVE AnsRight'
    <2>1. ansq[p] # <<>> /\ ansq' = [ansq EXCEPT ![p] = Tail(ansq[p])]
      BY <1>4 DEF MqRecvRes
    <2>2. Tail(ansq[p]) \in Seq(Mine(p))
      BY <1>0, <2>1, QueueTail DEF AnsRight
    <2> QED
      BY <1>0, <2>1, <2>2 DEF AnsRight
  <1>5. CASE \E s \in Svc : OpenSlot(s) \/ SvcRelease(s) \/ Router(s)
    BY <1>1, <1>5, RouterSteps DEF OpenSlot, SvcRelease, client
  <1>6. CASE \E s \in Svc, w \in Way : EdgeStart(s, w) \/ TimerStart(s, w) \/ TimerIdle(s, w)
    BY <1>1, <1>6 DEF EdgeStart, TimerStart, Starts, TimerIdle, client
  <1>7. CASE RelayFrame \/ Return
    BY <1>1, <1>7 DEF RelayFrame, Return, client
  <1>8. CASE \E p \in Proc : Connect(p) \/ MqRecvReq(p) \/ MqSendRes(p)
    BY <1>1, <1>8 DEF Connect, MqRecvReq, MqSendRes, client
  <1>9. CASE \E m \in Request : MqSendReq(m)
    BY <1>1, <1>9 DEF MqSendReq, client
  <1>10. CASE UNCHANGED vars
    BY <1>1, <1>10 DEF vars, client
  <1> QED
    BY <1>2, <1>3, <1>4, <1>5, <1>6, <1>7, <1>8, <1>9, <1>10 DEF Next

LEMMA NextServed ==
    ASSUME StateType, WayInv, [Next]_vars PROVE taken' \in Seq(Served) /\ read' \in Seq(Heard)
  <1>0. taken \in Seq(Served) /\ read \in Seq(Heard) /\ InRight /\ AnsRight
    BY DEF WayInv
  <1>1. ASSUME UNCHANGED done PROVE taken' \in Seq(Served) /\ read' \in Seq(Heard)
    BY <1>0, <1>1 DEF done
  <1>2. ASSUME NEW p \in Proc, MqRecvReq(p) PROVE taken' \in Seq(Served) /\ read' \in Seq(Heard)
    <2>1. inq[p] # <<>> /\ read' = read
      BY <1>2 DEF MqRecvReq
    <2>2. CASE taken' = taken
      BY <1>0, <2>1, <2>2
    <2>3. ASSUME NEW m \in Request, inq[p][1] = Ask(m, "body"),
                 taken' = Append(taken, [by |-> p, tag |-> F("tag", m), body |-> F("body", m)])
          PROVE  taken' \in Seq(Served)
      <3>1. Ask(m, "body") \in Ends(Asked(For(SvcOf[p])))
        BY <1>0, <2>1, <2>3, QueueTail DEF InRight
      <3>2. Ask(m, "body") \in Asked(For(SvcOf[p]))
        <4>1. PICK n \in Nat : n = 2
          OBVIOUS
        <4>2. For(SvcOf[p]) \in SUBSET Request
          BY DEF For
        <4>3. \A x \in Asked(For(SvcOf[p])) : Len(x) = n
          BY <4>1, <4>2, AskedValue
        <4>4. Len(Ask(m, "body")) = n
          BY <4>1, AskValue DEF BodyKind
        <4> QED
          BY <3>1, <4>3, <4>4, EndSize
      <3>3. PICK r \in For(SvcOf[p]), k \in BodyKind : Ask(m, "body") = Ask(r, k)
        BY <3>2 DEF Asked
      <3>4. m = r
        BY <3>3, SameFrames DEF For, BodyKind
      <3>5. To[m] = SvcOf[p]
        BY <3>3, <3>4 DEF For
      <3>6. [by |-> p, tag |-> F("tag", m), body |-> F("body", m)] \in Served
        <4>1. PICK e : e = <<p, m>>
          OBVIOUS
        <4>2. e \in Proc \X Request /\ e[1] = p /\ e[2] = m
          BY <4>1
        <4>3. SvcOf[e[1]] = To[e[2]]
          BY <3>5, <4>2
        <4>4. e \in {d \in Proc \X Request : SvcOf[d[1]] = To[d[2]]}
          BY <4>2, <4>3
        <4>5. [by |-> e[1], tag |-> F("tag", e[2]), body |-> F("body", e[2])] \in Served
          BY <4>4 DEF Served
        <4> QED
          BY <4>2, <4>5
      <3> QED
        BY <1>0, <2>3, <3>6, AppendProperties
    <2> QED
      BY <1>0, <1>2, <2>1, <2>2, <2>3, RecvReqValue
  <1>3. ASSUME NEW p \in Proc, MqRecvRes(p) PROVE taken' \in Seq(Served) /\ read' \in Seq(Heard)
    <2>1. PICK m \in Request :
             /\ ansq[p] # <<>> /\ ansq[p][1] = Answer(m) /\ taken' = taken
             /\ read' = Append(read, [by |-> p, name |-> F("name", From[m]), body |-> F("body", m)])
      BY <1>3, RecvResValue
    <2>2. Answer(m) \in Mine(p)
      BY <1>0, <2>1, QueueTail DEF AnsRight
    <2>3. PICK r \in Request : HearsProc(p, From[r]) /\ Answer(m) = Answer(r)
      BY <2>2 DEF Mine
    <2>4. HearsProc(p, From[m])
      <3>1. "body" \in BodyKind
        BY DEF BodyKind
      <3>2. m = r
        BY <2>3, <3>1, SameFrames
      <3> QED
        BY <2>3, <3>2
    <2>5. [by |-> p, name |-> F("name", From[m]), body |-> F("body", m)] \in Heard
      <3>1. PICK e : e = <<p, m>>
        OBVIOUS
      <3>2. e \in Proc \X Request /\ e[1] = p /\ e[2] = m
        BY <3>1
      <3>3. HearsProc(e[1], From[e[2]])
        BY <2>4, <3>2
      <3>4. e \in {d \in Proc \X Request : HearsProc(d[1], From[d[2]])}
        BY <3>2, <3>3
      <3>5. [by |-> e[1], name |-> F("name", From[e[2]]), body |-> F("body", e[2])] \in Heard
        BY <3>4 DEF Heard
      <3> QED
        BY <3>2, <3>5
    <2> QED
      BY <1>0, <2>1, <2>5, AppendProperties
  <1>4. ASSUME NEW m \in Request, MqSendReq(m) PROVE taken' \in Seq(Served) /\ read' \in Seq(Heard)
    BY <1>0, <1>4 DEF MqSendReq
  <1>5. CASE \E s \in Svc : OpenSlot(s) \/ SvcRelease(s) \/ Router(s) \/ RelaySub(s)
    BY <1>1, <1>5, RouterSteps DEF OpenSlot, SvcRelease, RelaySub
  <1>6. CASE \E s \in Svc, w \in Way : EdgeStart(s, w) \/ TimerStart(s, w) \/ TimerIdle(s, w)
    BY <1>1, <1>6 DEF EdgeStart, TimerStart, Starts, TimerIdle
  <1>7. CASE RelayFrame \/ Return
    BY <1>1, <1>7 DEF RelayFrame, Return
  <1>8. CASE \E p \in Proc : Connect(p) \/ Exit(p) \/ MqSendRes(p)
    BY <1>1, <1>8 DEF Connect, Exit, MqSendRes
  <1>9. CASE UNCHANGED vars
    BY <1>1, <1>9 DEF vars
  <1> QED
    BY <1>2, <1>3, <1>4, <1>5, <1>6, <1>7, <1>8, <1>9 DEF Next

LEMMA OnTheWay == ASSUME PortsApart PROVE Spec => []WayInv
  <1>1. Init => WayInv
    BY QueueEmpty DEF Init, WayInv, BaseRight, ConnRight, InRight, AnsRight
  <1>2. StateType /\ WayInv /\ [Next]_vars => WayInv'
    BY NextBaseRight, NextConnRight, NextInRight, NextAnsRight, NextServed DEF WayInv
  <1> QED
    BY <1>1, <1>2, StateTyped, PTL DEF Spec

\* A request ends at one process of its service, once, whatever the relays
\* lose, and whatever services and processes come and go.
THEOREM TakenAtMostOnce == ASSUME PortsApart PROVE Spec => []TakenOnce
  <1>1. StateType /\ ReqInv /\ WayInv => TakenOnce
    <2> SUFFICES ASSUME StateType, ReqInv, WayInv, NEW i \in 1..Len(taken), NEW j \in 1..Len(taken)
                 PROVE  /\ SvcOf[taken[i].by] = To[taken[i].tag.v]
                        /\ i # j => taken[i].body.v # taken[j].body.v
      BY DEF TakenOnce
    <2>1. taken[i] \in Served /\ taken[j] \in Takes /\ taken[i] \in Takes
      BY ElementOfSeq DEF WayInv, StateType, DoneType
    <2>2. PICK e \in {d \in Proc \X Request : SvcOf[d[1]] = To[d[2]]} :
              taken[i] = [by |-> e[1], tag |-> F("tag", e[2]), body |-> F("body", e[2])]
      BY <2>1 DEF Served
    <2>3. taken[i].by = e[1] /\ taken[i].tag = F("tag", e[2]) /\ SvcOf[e[1]] = To[e[2]]
      BY <2>2
    <2>4. SvcOf[taken[i].by] = To[taken[i].tag.v]
      BY <2>3, FrameParts
    <2>5. PICK r \in Request : taken[i].body = F("body", r)
      BY <2>1 DEF Takes
    <2>6. PICK q \in Request : taken[j].body = F("body", q)
      BY <2>1 DEF Takes
    <2>7. taken[i].body.v = r /\ taken[j].body.v = q
      BY <2>5, <2>6, FrameParts
    <2>8. r = q => i = j
      <3>1. ReqAt("taken", NULL, i, r, "body") /\ ReqAt("taken", NULL, j, q, "body") /\ "body" \in BodyKind
        BY <2>5, <2>6 DEF ReqAt, TakenAt, BodyKind
      <3> QED
        BY <3>1 DEF ReqInv, OneReq
    <2> QED
      BY <2>4, <2>7, <2>8
  <1> QED
    BY <1>1, Placed, OnTheWay, StateTyped, PTL

-----------------------------------------------------------------------------
(* The answer to a request, on its way to the process p.                    *)

HandAt(K, x, i, m)    == K = "hand" /\ x \in Proc /\ i = 1 /\ hand[x] = m
NoteAt(K, x, i, m, p) == K = "sq" /\ x = SvcOf[p] /\ i \in 1..Len(sq[x]) /\ sq[x][i] = Note(m)
AnsAt(K, x, i, m, p)  == K = "ans" /\ x = p /\ i \in 1..Len(ansq[p]) /\ ansq[p][i] = Answer(m)
ReadAt(K, x, i, m, p) ==
    K = "read" /\ x = NULL /\ i \in 1..Len(read) /\ read[i].by = p /\ read[i].body = F("body", m)
ResAt(K, x, i, m, p) ==
    \/ UpAt(K, x, i, ResFrames(m))
    \/ HandAt(K, x, i, m) \/ NoteAt(K, x, i, m, p) \/ AnsAt(K, x, i, m, p) \/ ReadAt(K, x, i, m, p)

\* It is somewhere only after a process took the request, and never in two
\* places that p reads from.
Given(m)   == \E j \in 1..Len(taken) : taken[j].body = F("body", m)
ResGiven(m, p) == \A K, x, i : ResAt(K, x, i, m, p) => Given(m)
OneRes(m, p) == \A K, x, i, L, y, j :
    ResAt(K, x, i, m, p) /\ ResAt(L, y, j, m, p) => K = L /\ x = y /\ i = j
ResInv == \A m \in Request, p \in Proc : ResGiven(m, p) /\ OneRes(m, p)

ResStays(m, p) == \A K, x, i : ResAt(K, x, i, m, p)' => ResAt(K, x, i, m, p)
ResMoves(m, p, K0, x0, K1, x1, n) == \A K, x, i : ResAt(K, x, i, m, p)' =>
    \/ K = K0 /\ x = x0 /\ i \in Nat \ {0} /\ ResAt(K, x, i + 1, m, p)
    \/ K = K1 /\ x = x1 /\ i = n /\ ResAt(K0, x0, 1, m, p)
    \/ ~(K = K0 /\ x = x0) /\ ~(K = K1 /\ x = x1 /\ i = n) /\ ResAt(K, x, i, m, p)

LEMMA ResKept ==
    ASSUME NEW m, NEW p, ResGiven(m, p), OneRes(m, p), Given(m) => Given(m)',
           ResStays(m, p) \/ \E K0, x0, K1, x1, n : ResMoves(m, p, K0, x0, K1, x1, n)
    PROVE  (ResGiven(m, p) /\ OneRes(m, p))'
  <1>1. CASE ResStays(m, p)
    BY <1>1 DEF ResStays, ResGiven, OneRes
  <1>2. ASSUME NEW K0, NEW x0, NEW K1, NEW x1, NEW n, ResMoves(m, p, K0, x0, K1, x1, n)
        PROVE  (ResGiven(m, p) /\ OneRes(m, p))'
    <2>1. ResGiven(m, p)'
      BY <1>2 DEF ResMoves, ResGiven
    <2>2. ASSUME NEW K, NEW x, NEW i, ResAt(K, x, i, m, p)',
                 NEW L, NEW y, NEW j, ResAt(L, y, j, m, p)'
          PROVE  K = L /\ x = y /\ i = j
      <3>1. \A I \in Nat \ {0} : I + 1 # 1
        OBVIOUS
      <3>2. \A I, J \in Nat \ {0} : I + 1 = J + 1 => I = J
        OBVIOUS
      <3>3. \/ K = K0 /\ x = x0 /\ i \in Nat \ {0} /\ ResAt(K0, x0, i + 1, m, p)
            \/ K = K1 /\ x = x1 /\ i = n /\ ResAt(K0, x0, 1, m, p)
            \/ ~(K = K0 /\ x = x0) /\ ~(K = K1 /\ x = x1 /\ i = n) /\ ResAt(K, x, i, m, p)
        BY <1>2, <2>2 DEF ResMoves
      <3>4. \/ L = K0 /\ y = x0 /\ j \in Nat \ {0} /\ ResAt(K0, x0, j + 1, m, p)
            \/ L = K1 /\ y = x1 /\ j = n /\ ResAt(K0, x0, 1, m, p)
            \/ ~(L = K0 /\ y = x0) /\ ~(L = K1 /\ y = x1 /\ j = n) /\ ResAt(L, y, j, m, p)
        BY <1>2, <2>2 DEF ResMoves
      <3> QED
        BY <3>1, <3>2, <3>3, <3>4 DEF OneRes
    <2> QED
      BY <2>1, <2>2 DEF OneRes
  <1> QED
    BY <1>1, <1>2

LEMMA NextResInv == ASSUME StateType, ReqInv, WayInv, ResInv, [Next]_vars PROVE ResInv'
  <1>1. ASSUME UNCHANGED taken,
               \A m \in Request, p \in Proc :
                 ResStays(m, p) \/ \E K0, x0, K1, x1, n : ResMoves(m, p, K0, x0, K1, x1, n)
        PROVE  ResInv'
    BY <1>1, ResKept DEF ResInv, Given
  <1>2. ASSUME UNCHANGED <<hand, sq, ansq, read>>, NEW m \in Request, NEW p \in Proc, UpStays(ResFrames(m))
        PROVE  ResStays(m, p)
    BY <1>2 DEF ResStays, ResAt, UpStays, HandAt, NoteAt, AnsAt, ReadAt
  <1>3. ASSUME UNCHANGED <<outq, up, rd, snd, hand, sq, ansq, taken, read>> PROVE ResInv'
    BY <1>1, <1>2, <1>3, UpQuiet
  <1>4. /\ sq \in [Svc -> Seq(Notes)] /\ ansq \in [Proc -> Seq(Answers)] /\ read \in Seq(Reads)
        /\ hand \in [Proc -> Request \cup {NULL}]
        /\ \A p \in Proc : SvcOf[p] \in Svc
        /\ \A m \in Request : Note(m) \in Notes /\ Answer(m) \in Answers /\ ResFrames(m) \in Sent
    <2>1. \A p \in Proc : SvcOf[p] \in Svc
      BY RelayAssumption
    <2>2. \A m \in Request : Note(m) \in Notes /\ Answer(m) \in Answers /\ ResFrames(m) \in Sent
      BY DEF Notes, Answers, Sent
    <2> QED
      BY <2>1, <2>2 DEF StateType, SqType, AnsType, DoneType
  <1>5. ASSUME NEW s \in Svc, SvcRelease(s) PROVE ResInv'
    <2>1. UNCHANGED <<hand, ansq, taken, read>> /\ sq' = [sq EXCEPT ![s] = <<>>]
      BY <1>5 DEF SvcRelease, client, done
    <2>2. Len(<<>>) = 0 /\ \A i : i \notin 1..0
      OBVIOUS
    <2>3. \A x \in Svc : sq'[x] = sq[x] \/ sq'[x] = <<>>
      BY <1>4, <2>1
    <2>4. ASSUME NEW m \in Request, NEW p \in Proc PROVE ResStays(m, p)
      <3>1. UpStays(ResFrames(m))
        BY <1>5, ReleaseStays
      <3>2. \A K, x, i : NoteAt(K, x, i, m, p)' => NoteAt(K, x, i, m, p)
        BY <1>4, <2>2, <2>3 DEF NoteAt
      <3> QED
        BY <2>1, <3>1, <3>2 DEF ResStays, ResAt, UpStays, HandAt, AnsAt, ReadAt
    <2> QED
      BY <1>1, <2>1, <2>4
  <1>6. ASSUME NEW q \in Proc, Exit(q) PROVE ResInv'
    <2>1. /\ UNCHANGED <<sq, taken, read>>
          /\ ansq' = [ansq EXCEPT ![q] = <<>>] /\ hand' = [hand EXCEPT ![q] = NULL]
      BY <1>6 DEF Exit, slotq, done
    <2>2. Len(<<>>) = 0 /\ \A i : i \notin 1..0
      OBVIOUS
    <2>3. \A x \in Proc : /\ ansq'[x] = ansq[x] \/ ansq'[x] = <<>>
                          /\ hand'[x] = hand[x] \/ hand'[x] = NULL
      BY <1>4, <2>1
    <2>4. ASSUME NEW m \in Request, NEW p \in Proc PROVE ResStays(m, p)
      <3>1. UpStays(ResFrames(m))
        BY <1>6, ExitStays
      <3>2. \A K, x, i : AnsAt(K, x, i, m, p)' => AnsAt(K, x, i, m, p)
        BY <2>2, <2>3 DEF AnsAt
      <3>3. \A K, x, i : HandAt(K, x, i, m)' => HandAt(K, x, i, m)
        BY <2>3, NullType DEF HandAt
      <3> QED
        BY <2>1, <3>1, <3>2, <3>3 DEF ResStays, ResAt, UpStays, NoteAt, ReadAt
    <2> QED
      BY <1>1, <2>1, <2>4
  <1>7. ASSUME NEW s \in Svc, Router(s) PROVE ResInv'
    <2>1. UNCHANGED <<hand, ansq, taken, read>>
      BY <1>7, RouterSteps DEF client, done
    <2>2. ASSUME NEW m \in Request, NEW p \in Proc, sq' = sq
          PROVE  ResMoves(m, p, "up", s, "none", s, 1)
      <3> SUFFICES ASSUME NEW K, NEW x, NEW i, ResAt(K, x, i, m, p)'
                   PROVE  \/ K = "up" /\ x = s /\ i \in Nat \ {0} /\ ResAt(K, x, i + 1, m, p)
                          \/ ~(K = "up" /\ x = s) /\ K # "none" /\ ResAt(K, x, i, m, p)
        BY DEF ResMoves
      <3>1. CASE UpAt(K, x, i, ResFrames(m))'
        BY <1>7, <3>1, RouterMoves, Kinds DEF ResAt, UpKind
      <3>2. CASE (HandAt(K, x, i, m) \/ NoteAt(K, x, i, m, p) \/ AnsAt(K, x, i, m, p) \/ ReadAt(K, x, i, m, p))'
        BY <2>1, <2>2, <3>2 DEF ResAt, HandAt, NoteAt, AnsAt, ReadAt
      <3> QED
        BY <3>1, <3>2 DEF ResAt
    <2>3. ASSUME NEW r \in Request, up[s] # <<>>, up[s][1] = ResFrames(r),
                 sq' = [t \in Svc |-> IF base[t] # 0 /\ HearsSvc(t, SvcOf[From[r]]) /\ Len(sq[t]) < HWM
                                      THEN Append(sq[t], Note(r)) ELSE sq[t]],
                 NEW m \in Request, NEW p \in Proc
          PROVE  ResMoves(m, p, "up", s, "sq", SvcOf[p], Len(sq[SvcOf[p]]) + 1)
      <3>0. PICK t \in Svc : t = SvcOf[p]
        BY <1>4
      <3> SUFFICES ASSUME NEW K, NEW x, NEW i, ResAt(K, x, i, m, p)'
                   PROVE  \/ K = "up" /\ x = s /\ i \in Nat \ {0} /\ ResAt(K, x, i + 1, m, p)
                          \/ K = "sq" /\ x = t /\ i = Len(sq[t]) + 1 /\ ResAt("up", s, 1, m, p)
                          \/ /\ ~(K = "up" /\ x = s) /\ ~(K = "sq" /\ x = t /\ i = Len(sq[t]) + 1)
                             /\ ResAt(K, x, i, m, p)
        BY <3>0 DEF ResMoves
      <3>1. CASE UpAt(K, x, i, ResFrames(m))'
        BY <1>7, <3>1, RouterMoves, Kinds DEF ResAt, UpKind
      <3>2. CASE (HandAt(K, x, i, m) \/ AnsAt(K, x, i, m, p) \/ ReadAt(K, x, i, m, p))'
        BY <2>1, <3>2 DEF ResAt, HandAt, AnsAt, ReadAt
      <3>3. CASE NoteAt(K, x, i, m, p)'
        <4>1. K = "sq" /\ x = t /\ i \in 1..Len(sq'[t]) /\ sq'[t][i] = Note(m)
          BY <3>0, <3>3 DEF NoteAt
        <4>2. CASE sq'[t] = sq[t]
          <5>1. Len(sq[t]) \in Nat
            BY <1>4, LenProperties
          <5>2. i # Len(sq[t]) + 1
            BY <4>1, <4>2, <5>1
          <5> QED
            BY <3>0, <4>1, <4>2, <5>2 DEF ResAt, NoteAt
        <4>3. CASE sq'[t] = Append(sq[t], Note(r))
          <5>1. \/ i \in 1..Len(sq[t]) /\ Append(sq[t], Note(r))[i] = sq[t][i] /\ i # Len(sq[t]) + 1
                \/ i = Len(sq[t]) + 1 /\ Append(sq[t], Note(r))[i] = Note(r)
            BY <1>4, <4>1, <4>3, Grows
          <5>2. CASE i \in 1..Len(sq[t]) /\ sq[t][i] = Note(m) /\ i # Len(sq[t]) + 1
            BY <3>0, <4>1, <5>2 DEF ResAt, NoteAt
          <5>3. CASE i = Len(sq[t]) + 1 /\ Note(r) = Note(m)
            <6>1. "body" \in BodyKind
              BY DEF BodyKind
            <6>2. r = m
              BY <5>3, <6>1, SameFrames
            <6>3. 1 \in 1..Len(up[s])
              <7>1. Len(up[s]) \in Nat \ {0}
                BY <2>3, QueueTail DEF StateType, UpType
              <7> QED
                BY <7>1
            <6>4. ResAt("up", s, 1, m, p)
              BY <2>3, <6>2, <6>3 DEF ResAt, UpAt
            <6> QED
              BY <4>1, <5>3, <6>4
          <5> QED
            BY <4>1, <4>3, <5>1, <5>2, <5>3
        <4> QED
          BY <2>3, <4>2, <4>3
      <3> QED
        BY <3>1, <3>2, <3>3 DEF ResAt
    <2>4. CASE PublishRes(s)
      <3>1. PICK r \in Request :
                 /\ up[s] # <<>> /\ up[s][1] = ResFrames(r)
                 /\ sq' = [t \in Svc |-> IF base[t] # 0 /\ HearsSvc(t, SvcOf[From[r]]) /\ Len(sq[t]) < HWM
                                         THEN Append(sq[t], Note(r)) ELSE sq[t]]
        BY <2>4, PublishValue
      <3> QED
        BY <1>1, <2>1, <2>3, <3>1
    <2>5. CASE ~PublishRes(s)
      <3>1. sq' = sq
        BY <1>7, <2>5, RouterSteps DEF RouteReq
      <3> QED
        BY <1>1, <2>1, <2>2, <3>1
    <2> QED
      BY <2>4, <2>5
  <1>8. ASSUME NEW s \in Svc, RelaySub(s) PROVE ResInv'
    <2>1. PICK r \in Request :
             /\ sq[s] # <<>> /\ sq[s][1] = Note(r) /\ sq' = [sq EXCEPT ![s] = Tail(@)]
             /\ ansq' = [p \in Proc |->
                           IF conn[p] = s /\ HearsProc(p, From[r]) /\ Len(ansq[p]) < HWM
                           THEN Append(ansq[p], Answer(r)) ELSE ansq[p]]
             /\ UNCHANGED <<base, releases, gone, conn, outq, dq, up, thread, inq, hand, done>>
      BY <1>8, RelaySubValue
    <2>2. UNCHANGED <<outq, up, rd, snd, hand, taken, read>>
      BY <2>1 DEF thread, done
    <2>3. \A v : UpStays(v)
      BY <2>2, UpQuiet
    <2>4. ASSUME NEW m \in Request, NEW p \in Proc, SvcOf[p] # s PROVE ResStays(m, p)
      <3>1. ansq'[p] = ansq[p]
        <4>1. conn[p] # s
          BY <2>4, NullType DEF WayInv, ConnRight
        <4> QED
          BY <1>4, <2>1, <4>1
      <3>2. sq'[SvcOf[p]] = sq[SvcOf[p]]
        BY <1>4, <2>1, <2>4
      <3> QED
        BY <2>2, <2>3, <3>1, <3>2 DEF ResStays, ResAt, UpStays, HandAt, NoteAt, AnsAt, ReadAt
    <2>5. ASSUME NEW m \in Request, NEW p \in Proc, SvcOf[p] = s
          PROVE  ResMoves(m, p, "sq", s, "ans", p, Len(ansq[p]) + 1)
      <3> SUFFICES ASSUME NEW K, NEW x, NEW i, ResAt(K, x, i, m, p)'
                   PROVE  \/ K = "sq" /\ x = s /\ i \in Nat \ {0} /\ ResAt(K, x, i + 1, m, p)
                          \/ K = "ans" /\ x = p /\ i = Len(ansq[p]) + 1 /\ ResAt("sq", s, 1, m, p)
                          \/ /\ ~(K = "sq" /\ x = s) /\ ~(K = "ans" /\ x = p /\ i = Len(ansq[p]) + 1)
                             /\ ResAt(K, x, i, m, p)
        BY DEF ResMoves
      <3>1. CASE UpAt(K, x, i, ResFrames(m))'
        BY <2>3, <3>1, Kinds DEF ResAt, UpStays, UpKind
      <3>2. CASE (HandAt(K, x, i, m) \/ ReadAt(K, x, i, m, p))'
        BY <2>2, <3>2 DEF ResAt, HandAt, ReadAt
      <3>3. CASE NoteAt(K, x, i, m, p)'
        <4>1. K = "sq" /\ x = s /\ i \in 1..Len(Tail(sq[s])) /\ Tail(sq[s])[i] = Note(m)
          BY <1>4, <2>1, <2>5, <3>3 DEF NoteAt
        <4>2. i \in Nat \ {0} /\ i + 1 \in 1..Len(sq[s]) /\ sq[s][i + 1] = Note(m)
          BY <1>4, <2>1, <4>1, Shifts
        <4> QED
          BY <2>5, <4>1, <4>2 DEF ResAt, NoteAt
      <3>4. CASE AnsAt(K, x, i, m, p)'
        <4>1. K = "ans" /\ x = p /\ i \in 1..Len(ansq'[p]) /\ ansq'[p][i] = Answer(m)
          BY <3>4 DEF AnsAt
        <4>2. CASE ansq'[p] = ansq[p]
          <5>1. Len(ansq[p]) \in Nat
            BY <1>4, LenProperties
          <5>2. i # Len(ansq[p]) + 1
            BY <4>1, <4>2, <5>1
          <5> QED
            BY <4>1, <4>2, <5>2 DEF ResAt, AnsAt
        <4>3. CASE ansq'[p] = Append(ansq[p], Answer(r))
          <5>1. \/ i \in 1..Len(ansq[p]) /\ Append(ansq[p], Answer(r))[i] = ansq[p][i] /\ i # Len(ansq[p]) + 1
                \/ i = Len(ansq[p]) + 1 /\ Append(ansq[p], Answer(r))[i] = Answer(r)
            BY <1>4, <4>1, <4>3, Grows
          <5>2. CASE i \in 1..Len(ansq[p]) /\ ansq[p][i] = Answer(m) /\ i # Len(ansq[p]) + 1
            BY <4>1, <5>2 DEF ResAt, AnsAt
          <5>3. CASE i = Len(ansq[p]) + 1 /\ Answer(r) = Answer(m)
            <6>1. "body" \in BodyKind
              BY DEF BodyKind
            <6>2. r = m
              BY <5>3, <6>1, SameFrames
            <6>3. 1 \in 1..Len(sq[s])
              <7>1. Len(sq[s]) \in Nat \ {0}
                BY <1>4, <2>1, QueueTail
              <7> QED
                BY <7>1
            <6>4. ResAt("sq", s, 1, m, p)
              BY <2>1, <2>5, <6>2, <6>3 DEF ResAt, NoteAt
            <6> QED
              BY <4>1, <5>3, <6>4
          <5> QED
            BY <4>1, <4>3, <5>1, <5>2, <5>3
        <4> QED
          BY <2>1, <4>2, <4>3
      <3> QED
        BY <3>1, <3>2, <3>3, <3>4 DEF ResAt
    <2> QED
      BY <1>1, <2>2, <2>4, <2>5
  <1>9. ASSUME RelayFrame PROVE ResInv'
    <2>1. UNCHANGED <<hand, sq, ansq, taken, read>>
      BY <1>9 DEF RelayFrame, done
    <2>2. ASSUME NEW m \in Request, NEW p \in Proc,
                 NEW K0 \in UpKind, NEW K1 \in UpKind, NEW x0, NEW x1, NEW n,
                 UpMoves(ResFrames(m), K0, x0, K1, x1, n)
          PROVE  ResMoves(m, p, K0, x0, K1, x1, n)
      <3> SUFFICES ASSUME NEW K, NEW x, NEW i, ResAt(K, x, i, m, p)'
                   PROVE  \/ K = K0 /\ x = x0 /\ i \in Nat \ {0} /\ ResAt(K, x, i + 1, m, p)
                          \/ K = K1 /\ x = x1 /\ i = n /\ ResAt(K0, x0, 1, m, p)
                          \/ ~(K = K0 /\ x = x0) /\ ~(K = K1 /\ x = x1 /\ i = n) /\ ResAt(K, x, i, m, p)
        BY DEF ResMoves
      <3>1. CASE UpAt(K, x, i, ResFrames(m))'
        BY <2>2, <3>1 DEF ResAt, UpMoves
      <3>2. CASE (HandAt(K, x, i, m) \/ NoteAt(K, x, i, m, p) \/ AnsAt(K, x, i, m, p) \/ ReadAt(K, x, i, m, p))'
        BY <2>1, <2>2, <3>2, Kinds DEF ResAt, HandAt, NoteAt, AnsAt, ReadAt
      <3> QED
        BY <3>1, <3>2 DEF ResAt
    <2>3. ASSUME NEW m \in Request, NEW p \in Proc
          PROVE  ResStays(m, p) \/ \E K0, x0, K1, x1, n : ResMoves(m, p, K0, x0, K1, x1, n)
      <3>1. \/ UpStays(ResFrames(m))
            \/ \E K0, K1 \in UpKind : \E x0, x1, n : UpMoves(ResFrames(m), K0, x0, K1, x1, n)
        BY <1>4, <1>9, RelayMoves
      <3> QED
        BY <1>2, <2>1, <2>2, <3>1
    <2> QED
      BY <1>1, <2>1, <2>3
  <1>10. ASSUME NEW q \in Proc, MqRecvReq(q) PROVE ResInv'
    <2>1. inq[q] # <<>> /\ UNCHANGED <<outq, up, rd, snd, sq, ansq, read>>
      BY <1>10 DEF MqRecvReq, slotq, thread
    <2>2. \A v : UpStays(v)
      BY <2>1, UpQuiet
    <2>3. CASE UNCHANGED <<hand, taken>>
      BY <1>3, <2>1, <2>3
    <2>4. ASSUME NEW r \in Request, inq[q][1] = Ask(r, "body"), hand' = [hand EXCEPT ![q] = r],
                 taken' = Append(taken, [by |-> q, tag |-> F("tag", r), body |-> F("body", r)])
          PROVE  ResInv'
      <3>1. ~Given(r)
        <4>1. SUFFICES ASSUME NEW j \in 1..Len(taken), taken[j].body = F("body", r) PROVE FALSE
          BY DEF Given
        <4>2. "body" \in BodyKind /\ ReqAt("taken", NULL, j, r, "body")
          BY <4>1 DEF ReqAt, TakenAt, BodyKind
        <4>3. 1 \in 1..Len(inq[q])
          <5>1. Len(inq[q]) \in Nat \ {0}
            BY <2>1, QueueTail DEF StateType, InType
          <5> QED
            BY <5>1
        <4>4. ReqAt("in", q, 1, r, "body")
          BY <2>4, <4>3 DEF ReqAt, DownAt
        <4> QED
          BY <4>2, <4>4 DEF ReqInv, OneReq
      <3>2. PICK t : t = [by |-> q, tag |-> F("tag", r), body |-> F("body", r)]
        OBVIOUS
      <3>3. t \in Takes /\ taken \in Seq(Takes) /\ taken' = Append(taken, t) /\ t.body = F("body", r)
        BY <2>4, <3>2 DEF Takes, StateType, DoneType
      <3>4. /\ Len(taken') = Len(taken) + 1 /\ Len(taken) \in Nat
            /\ \A j \in 1..Len(taken) : taken'[j] = taken[j]
            /\ taken'[Len(taken) + 1] = t
        BY <3>3, AppendProperties, LenProperties
      <3>5. Given(r)'
        <4>1. Len(taken) + 1 \in 1..Len(taken')
          BY <3>4
        <4> QED
          BY <3>3, <3>4, <4>1 DEF Given
      <3>6. ASSUME NEW m \in Request, Given(m) PROVE Given(m)'
        <4>1. PICK j \in 1..Len(taken) : taken[j].body = F("body", m)
          BY <3>6 DEF Given
        <4>2. j \in 1..Len(taken') /\ taken'[j] = taken[j]
          BY <3>4, <4>1
        <4> QED
          BY <4>1, <4>2 DEF Given
      <3>7. ASSUME NEW m \in Request, NEW p \in Proc, NEW K, NEW x, NEW i, ResAt(K, x, i, m, p)'
            PROVE  (ResAt(K, x, i, m, p) /\ m # r) \/ (K = "hand" /\ x = q /\ i = 1 /\ m = r)
        <4> DEFINE Was == ResAt(K, x, i, m, p)
        <4>1. Was => m # r
          <5> SUFFICES ASSUME m = r PROVE ~ResAt(K, x, i, r, p)
            OBVIOUS
          <5> QED
            BY <3>1 DEF ResInv, ResGiven
        <4>2. CASE HandAt(K, x, i, m)'
          <5>1. CASE x = q
            BY <1>4, <2>4, <4>2, <5>1 DEF HandAt
          <5>2. CASE x # q
            <6>1. HandAt(K, x, i, m)
              BY <1>4, <2>4, <4>2, <5>2 DEF HandAt
            <6>2. ResAt(K, x, i, m, p)
              BY <6>1 DEF ResAt
            <6> QED
              BY <4>1, <6>2
          <5> QED
            BY <5>1, <5>2
        <4>3. CASE UpAt(K, x, i, ResFrames(m))'
          <5>1. ResAt(K, x, i, m, p)
            BY <2>2, <4>3 DEF UpStays, ResAt
          <5> QED
            BY <4>1, <5>1
        <4>4. CASE (NoteAt(K, x, i, m, p) \/ AnsAt(K, x, i, m, p) \/ ReadAt(K, x, i, m, p))'
          <5>1. NoteAt(K, x, i, m, p) \/ AnsAt(K, x, i, m, p) \/ ReadAt(K, x, i, m, p)
            BY <2>1, <4>4 DEF NoteAt, AnsAt, ReadAt
          <5>2. ResAt(K, x, i, m, p)
            BY <5>1 DEF ResAt
          <5> QED
            BY <4>1, <5>2
        <4> QED
          BY <3>7, <4>2, <4>3, <4>4 DEF ResAt
      <3>8. \A m \in Request, p \in Proc : ResGiven(m, p)'
        BY <3>5, <3>6, <3>7 DEF ResInv, ResGiven
      <3>9. \A m \in Request, p \in Proc : OneRes(m, p)'
        BY <3>7 DEF ResInv, OneRes
      <3> QED
        BY <3>8, <3>9 DEF ResInv
    <2> QED
      BY <1>10, <2>3, <2>4, RecvReqValue
  <1>11. ASSUME NEW q \in Proc, MqSendRes(q) PROVE ResInv'
    <2>1. UNCHANGED <<up, rd, snd, sq, ansq, taken, read>> /\ hand' = [hand EXCEPT ![q] = NULL]
      BY <1>11 DEF MqSendRes, slotq, done
    <2>2. PICK r \in Request : r = hand[q]
      BY <1>4, <1>11 DEF MqSendRes
    <2>3. UNCHANGED outq \/ Push(q, ResFrames(r))
      BY <1>11, <2>2 DEF MqSendRes
    <2>4. \A K, x, i, m : m \in Request /\ HandAt(K, x, i, m)' => HandAt(K, x, i, m) /\ x # q
      BY <1>4, <2>1, NullType DEF HandAt
    <2>5. ASSUME NEW m \in Request, NEW p \in Proc
          PROVE  ResMoves(m, p, "hand", q, "out", q, Len(outq[q]) + 1)
      <3> SUFFICES ASSUME NEW K, NEW x, NEW i, ResAt(K, x, i, m, p)'
                   PROVE  \/ K = "out" /\ x = q /\ i = Len(outq[q]) + 1 /\ ResAt("hand", q, 1, m, p)
                          \/ /\ ~(K = "hand" /\ x = q) /\ ~(K = "out" /\ x = q /\ i = Len(outq[q]) + 1)
                             /\ ResAt(K, x, i, m, p)
        BY DEF ResMoves
      <3>1. CASE HandAt(K, x, i, m)'
        <4>1. HandAt(K, x, i, m) /\ x # q /\ K = "hand"
          BY <2>4, <3>1 DEF HandAt
        <4> QED
          BY <4>1 DEF ResAt
      <3>2. CASE (NoteAt(K, x, i, m, p) \/ AnsAt(K, x, i, m, p) \/ ReadAt(K, x, i, m, p))'
        BY <2>1, <3>2 DEF NoteAt, AnsAt, ReadAt, ResAt
      <3>3. CASE UpAt(K, x, i, ResFrames(m))'
        <4>1. CASE UNCHANGED outq
          <5>1. UpAt(K, x, i, ResFrames(m))
            BY <2>1, <3>3, <4>1, UpQuiet DEF UpStays
          <5>2. ~(K = "out" /\ x = q /\ i = Len(outq[q]) + 1)
            <6>1. Len(outq[q]) \in Nat
              BY LenProperties DEF StateType, OutType
            <6>2. K = "out" /\ x = q => i \in 1..Len(outq[q])
              BY <5>1 DEF UpAt
            <6> QED
              BY <6>1, <6>2
          <5> QED
            BY <5>1, <5>2, Kinds DEF ResAt, UpKind
        <4>2. CASE Push(q, ResFrames(r))
          <5>1. \/ UpAt(K, x, i, ResFrames(m)) /\ ~(K = "out" /\ x = q /\ i = Len(outq[q]) + 1)
                \/ K = "out" /\ x = q /\ i = Len(outq[q]) + 1 /\ ResFrames(r) = ResFrames(m)
            BY <1>4, <2>1, <3>3, <4>2, PushMoves
          <5>2. CASE UpAt(K, x, i, ResFrames(m)) /\ ~(K = "out" /\ x = q /\ i = Len(outq[q]) + 1)
            BY <5>2, Kinds DEF ResAt, UpKind
          <5>3. CASE K = "out" /\ x = q /\ i = Len(outq[q]) + 1 /\ ResFrames(r) = ResFrames(m)
            <6>1. "body" \in BodyKind
              BY DEF BodyKind
            <6>2. r = m
              BY <5>3, <6>1, SameFrames
            <6> QED
              BY <2>2, <5>3, <6>2 DEF ResAt, HandAt
          <5> QED
            BY <5>1, <5>2, <5>3
        <4> QED
          BY <2>3, <4>1, <4>2
      <3> QED
        BY <3>1, <3>2, <3>3 DEF ResAt
    <2> QED
      BY <1>1, <2>1, <2>5
  <1>12. ASSUME NEW q \in Proc, MqRecvRes(q) PROVE ResInv'
    <2>1. PICK r \in Request :
             /\ ansq[q] # <<>> /\ ansq[q][1] = Answer(r) /\ ansq' = [ansq EXCEPT ![q] = Tail(@)]
             /\ read' = Append(read, [by |-> q, name |-> F("name", From[r]), body |-> F("body", r)])
      BY <1>12, RecvResValue
    <2>2. UNCHANGED <<outq, up, rd, snd, sq, hand, taken>>
      BY <1>12 DEF MqRecvRes, slotq, thread
    <2>3. \A v : UpStays(v)
      BY <2>2, UpQuiet
    <2>4. PICK t : t = [by |-> q, name |-> F("name", From[r]), body |-> F("body", r)]
      OBVIOUS
    <2>5. t \in Reads /\ read' = Append(read, t) /\ t.by = q /\ t.body = F("body", r)
      BY <2>1, <2>4 DEF Reads
    <2>6. ASSUME NEW m \in Request, NEW p \in Proc, NEW K, NEW x, NEW i, ReadAt(K, x, i, m, p)'
          PROVE  \/ ReadAt(K, x, i, m, p) /\ i # Len(read) + 1
                 \/ K = "read" /\ x = NULL /\ i = Len(read) + 1 /\ p = q /\ m = r
      <3>1. /\ K = "read" /\ x = NULL /\ i \in 1..Len(Append(read, t))
            /\ Append(read, t)[i].by = p /\ Append(read, t)[i].body = F("body", m)
        BY <2>5, <2>6 DEF ReadAt
      <3>2. \/ i \in 1..Len(read) /\ Append(read, t)[i] = read[i] /\ i # Len(read) + 1
            \/ i = Len(read) + 1 /\ Append(read, t)[i] = t
        BY <1>4, <2>5, <3>1, Grows
      <3>3. F("body", r) = F("body", m) => m = r
        BY DEF F
      <3> QED
        BY <2>5, <3>1, <3>2, <3>3 DEF ReadAt
    <2>7. ASSUME NEW m \in Request, NEW p \in Proc, p # q PROVE ResStays(m, p)
      <3>1. ansq'[p] = ansq[p]
        BY <1>4, <2>1, <2>7
      <3>2. \A K, x, i : ReadAt(K, x, i, m, p)' => ReadAt(K, x, i, m, p)
        BY <2>6, <2>7
      <3> QED
        BY <2>2, <2>3, <3>1, <3>2 DEF ResStays, ResAt, UpStays, HandAt, NoteAt, AnsAt
    <2>8. ASSUME NEW m \in Request PROVE ResMoves(m, q, "ans", q, "read", NULL, Len(read) + 1)
      <3> SUFFICES ASSUME NEW K, NEW x, NEW i, ResAt(K, x, i, m, q)'
                   PROVE  \/ K = "ans" /\ x = q /\ i \in Nat \ {0} /\ ResAt(K, x, i + 1, m, q)
                          \/ K = "read" /\ x = NULL /\ i = Len(read) + 1 /\ ResAt("ans", q, 1, m, q)
                          \/ /\ ~(K = "ans" /\ x = q) /\ ~(K = "read" /\ x = NULL /\ i = Len(read) + 1)
                             /\ ResAt(K, x, i, m, q)
        BY DEF ResMoves
      <3>1. CASE UpAt(K, x, i, ResFrames(m))'
        BY <2>3, <3>1, Kinds DEF ResAt, UpStays, UpKind
      <3>2. CASE (HandAt(K, x, i, m) \/ NoteAt(K, x, i, m, q))'
        BY <2>2, <3>2 DEF ResAt, HandAt, NoteAt
      <3>3. CASE AnsAt(K, x, i, m, q)'
        <4>1. K = "ans" /\ x = q /\ i \in 1..Len(Tail(ansq[q])) /\ Tail(ansq[q])[i] = Answer(m)
          BY <1>4, <2>1, <3>3 DEF AnsAt
        <4>2. i \in Nat \ {0} /\ i + 1 \in 1..Len(ansq[q]) /\ ansq[q][i + 1] = Answer(m)
          BY <1>4, <2>1, <4>1, Shifts
        <4> QED
          BY <4>1, <4>2 DEF ResAt, AnsAt
      <3>4. CASE ReadAt(K, x, i, m, q)'
        <4>1. CASE ReadAt(K, x, i, m, q) /\ i # Len(read) + 1
          BY <4>1 DEF ResAt, ReadAt
        <4>2. CASE K = "read" /\ x = NULL /\ i = Len(read) + 1 /\ m = r
          <5>1. Len(ansq[q]) \in Nat \ {0}
            BY <1>4, <2>1, QueueTail
          <5>2. 1 \in 1..Len(ansq[q])
            BY <5>1
          <5> QED
            BY <2>1, <4>2, <5>2 DEF ResAt, AnsAt
        <4> QED
          BY <2>6, <3>4, <4>1, <4>2
      <3> QED
        BY <3>1, <3>2, <3>3, <3>4 DEF ResAt
    <2> QED
      BY <1>1, <2>2, <2>7, <2>8
  <1>13. ASSUME NEW r \in Request, MqSendReq(r) PROVE ResInv'
    <2>1. UNCHANGED <<up, rd, snd, hand, sq, ansq, taken, read>>
      BY <1>13 DEF MqSendReq, slotq, client
    <2>2. \A k \in BodyKind : ReqFrames(r, k) \in Sent
      BY DEF Sent
    <2>3. From[r] \in Proc
      BY RelayAssumption
    <2>4. UNCHANGED outq \/ \E k \in BodyKind : Push(From[r], ReqFrames(r, k))
      BY <1>13 DEF MqSendReq
    <2>5. CASE UNCHANGED outq
      BY <1>3, <2>1, <2>5
    <2>6. ASSUME NEW k \in BodyKind, Push(From[r], ReqFrames(r, k)) PROVE ResInv'
      <3>1. ASSUME NEW m \in Request PROVE UpStays(ResFrames(m))
        BY <2>1, <2>2, <2>3, <2>6, PushMoves, SameFrames DEF UpStays
      <3> QED
        BY <1>1, <1>2, <2>1, <3>1
    <2> QED
      BY <2>4, <2>5, <2>6
  <1>14. CASE \E s \in Svc : OpenSlot(s)
    BY <1>3, <1>14 DEF OpenSlot, slotq, thread, client, done
  <1>15. CASE \E s \in Svc, w \in Way : EdgeStart(s, w) \/ TimerStart(s, w) \/ TimerIdle(s, w)
    BY <1>3, <1>15 DEF EdgeStart, TimerStart, Starts, TimerIdle, slotq, client, done
  <1>16. CASE Return
    BY <1>3, <1>16 DEF Return, slotq, client, done
  <1>17. CASE \E p \in Proc : Connect(p)
    BY <1>3, <1>17 DEF Connect, slotq, client, done
  <1>18. CASE UNCHANGED vars
    BY <1>3, <1>18 DEF vars, slotq, thread, client, done
  <1> QED
    BY <1>5, <1>6, <1>7, <1>8, <1>9, <1>10, <1>11, <1>12, <1>13, <1>14, <1>15, <1>16, <1>17, <1>18
       DEF Next

LEMMA AnswersPlaced == ASSUME PortsApart PROVE Spec => []ResInv
  <1>1. Init => ResInv
    <2> SUFFICES ASSUME Init, NEW m \in Request, NEW p \in Proc
                 PROVE  \A K, x, i : ~ResAt(K, x, i, m, p)
      BY DEF ResInv, ResGiven, OneRes
    <2>1. Len(<<>>) = 0 /\ \A i : i \notin 1..0
      OBVIOUS
    <2>2. \A s \in Svc, w \in Way : snd[s][w] = NULL
      BY DEF Init
    <2>3. SvcOf[p] \in Svc
      BY RelayAssumption
    <2>4. \A K, x, i, v : ~UpAt(K, x, i, v)
      <3>1. \A x \in Svc : \A v : ~Holds(x, "pull", v)
        BY <2>2 DEF Holds, Way
      <3> QED
        BY <2>1, <3>1 DEF Init, UpAt
    <2>5. \A K, x, i : ~HandAt(K, x, i, m)
      BY NullType DEF Init, HandAt
    <2>6. \A K, x, i : ~NoteAt(K, x, i, m, p) /\ ~AnsAt(K, x, i, m, p) /\ ~ReadAt(K, x, i, m, p)
      BY <2>1, <2>3 DEF Init, NoteAt, AnsAt, ReadAt
    <2> QED
      BY <2>4, <2>5, <2>6 DEF ResAt
  <1>2. StateType /\ ReqInv /\ WayInv /\ ResInv /\ [Next]_vars => ResInv'
    BY NextResInv
  <1> QED
    BY <1>1, <1>2, StateTyped, Placed, OnTheWay, PTL DEF Spec

\* A process reads an answer at most once, only one that some process gave, and
\* only one whose name its own name begins, although the broker publishes each
\* answer to every slot and every process whose name fits.
THEOREM AnswersAreRight == ASSUME PortsApart PROVE Spec => []AnswersRight
  <1>1. StateType /\ WayInv /\ ResInv => AnswersRight
    <2> SUFFICES ASSUME StateType, WayInv, ResInv, NEW i \in 1..Len(read)
                 PROVE  LET m == read[i].body.v IN
                        /\ read[i].name = F("name", From[m]) /\ HearsProc(read[i].by, From[m])
                        /\ \E j \in 1..Len(taken) : taken[j].tag = F("tag", m)
                        /\ \A j \in 1..Len(read) : i # j => read[i] # read[j]
      BY DEF AnswersRight
    <2>1. read[i] \in Heard
      BY ElementOfSeq DEF WayInv
    <2>2. PICK e \in {d \in Proc \X Request : HearsProc(d[1], From[d[2]])} :
              read[i] = [by |-> e[1], name |-> F("name", From[e[2]]), body |-> F("body", e[2])]
      BY <2>1 DEF Heard
    <2>3. PICK p \in Proc, m \in Request : p = e[1] /\ m = e[2] /\ HearsProc(p, From[m])
      BY <2>2
    <2>4. read[i].by = p /\ read[i].name = F("name", From[m]) /\ read[i].body = F("body", m)
      BY <2>2, <2>3
    <2>5. read[i].body.v = m
      BY <2>4, FrameParts
    <2>6. ResAt("read", NULL, i, m, p)
      BY <2>4 DEF ResAt, ReadAt
    <2>7. PICK j \in 1..Len(taken) : taken[j].body = F("body", m)
      BY <2>6 DEF ResInv, ResGiven, Given
    <2>8. taken[j].tag = F("tag", m)
      <3>1. taken[j] \in Takes
        BY ElementOfSeq DEF StateType, DoneType
      <3>2. PICK q \in Proc, r \in Request :
                taken[j] = [by |-> q, tag |-> F("tag", r), body |-> F("body", r)]
        BY <3>1 DEF Takes
      <3>3. F("body", r) = F("body", m) => r = m
        BY DEF F
      <3> QED
        BY <2>7, <3>2, <3>3
    <2>9. ASSUME NEW l \in 1..Len(read), read[i] = read[l] PROVE i = l
      <3>1. ResAt("read", NULL, l, m, p)
        BY <2>4, <2>9 DEF ResAt, ReadAt
      <3> QED
        BY <2>6, <3>1 DEF ResInv, OneRes
    <2> QED
      BY <2>3, <2>4, <2>5, <2>8, <2>9
  <1> QED
    BY <1>1, AnswersPlaced, OnTheWay, StateTyped, PTL
=============================================================================
