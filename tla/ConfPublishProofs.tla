-------------------------- MODULE ConfPublishProofs --------------------------
(***************************************************************************)
(* Proofs about ConfPublish for any files, services, processes and texts:  *)
(* types, and what a message holds.  MsgInv follows a text from its file   *)
(* over the open file and the queues to the process that reads it frame    *)
(* by frame.  ConfArrivalProofs goes on from here.                         *)
(***************************************************************************)
EXTENDS ConfPublish, SequenceTheorems, TLAPS

-----------------------------------------------------------------------------
(* Texts.                                                                  *)

LEMMA VersionType == Version \subseteq Nat /\ \A v \in Version : LinesOf[v] \in Nat
  <1>1. LinesOf \in Seq(Nat)
    BY ConfAssumption
  <1>2. DOMAIN LinesOf = 1..Len(LinesOf) /\ Len(LinesOf) \in Nat
    BY <1>1, LenProperties
  <1>3. \A v \in 1..Len(LinesOf) : LinesOf[v] \in Nat
    BY <1>1, ElementOfSeq
  <1> QED
    BY <1>2, <1>3 DEF Version

\* NULL is no text, no version, no service and no record.
LEMMA NullType ==
    /\ NULL \notin Version /\ NULL \notin Seq(LineFrame) /\ NULL \notin Svc
    /\ NULL \notin OpenFile /\ NULL \notin Begun /\ NULL \notin Reading
  <1>1. /\ NULL \notin Nat /\ NULL \notin Seq(LineFrame) /\ NULL \notin Svc
        /\ NULL \notin OpenFile /\ NULL \notin Begun /\ NULL \notin Reading
    BY ConfAssumption
  <1> QED
    BY <1>1, VersionType

\* Frames of different kinds differ.
LEMMA FrameKinds ==
    /\ LineFrame \subseteq Frame /\ MqConf \in Frame /\ NullByte \in Frame
    /\ \A c \in Conf : F("name", c) \in Frame /\ F("name", c) \notin LineFrame
    /\ \A s \in Svc : F("svc", s) \in Frame
    /\ \A c, d : F("name", c) = F("name", d) => c = d
    /\ \A f \in File, v \in Version : Line(f, v) \in LineFrame
    /\ Seq(LineFrame) \subseteq Seq(Frame)
  <1>1. LineFrame \subseteq Frame
    BY DEF Frame
  <1>2. Seq(LineFrame) \subseteq Seq(Frame)
    BY <1>1, SeqMonotonic
  <1>3. \A c \in Conf : F("name", c) \in Frame /\ F("name", c) \notin LineFrame
    <2>1. \A c \in Conf : F("name", c) \in Frame
      BY DEF Frame
    <2>2. ASSUME NEW c \in Conf, NEW f \in File, NEW v \in Version PROVE F("name", c) # Line(f, v)
      <3>1. F("name", c).k = "name" /\ Line(f, v).k = "line"
        BY DEF F, Line
      <3> QED
        BY <3>1
    <2> QED
      BY <2>1, <2>2 DEF LineFrame
  <1>4. MqConf \in Frame /\ NullByte \in Frame /\ \A s \in Svc : F("svc", s) \in Frame
    BY DEF Frame
  <1>5. \A c, d : F("name", c) = F("name", d) => c = d
    BY DEF F
  <1>6. \A f \in File, v \in Version : Line(f, v) \in LineFrame
    BY DEF LineFrame
  <1> QED
    BY <1>1, <1>2, <1>3, <1>4, <1>5, <1>6

\* The texts a file may have: lines of its own, and one whole version if it is
\* only ever moved.
TextIn(f, t) ==
    /\ t \in Seq(LineFrame)
    /\ \A i \in 1..Len(t) : \E v \in Version : t[i] = Line(f, v)
    /\ f \in Moved => \E v \in Version : t = Text(f, v)

\* A whole version has its lines, all of it.
LEMMA TextValue ==
    ASSUME NEW f \in File, NEW v \in Version
    PROVE  TextIn(f, Text(f, v))
  <1>1. LinesOf[v] \in Nat
    BY VersionType
  <1>2. Text(f, v) \in [1..LinesOf[v] -> LineFrame] /\ DOMAIN Text(f, v) = 1..LinesOf[v]
    BY FrameKinds DEF Text
  <1>3. Text(f, v) \in Seq(LineFrame)
    <2>1. [1..LinesOf[v] -> LineFrame] \in {[1..n -> LineFrame] : n \in Nat}
      BY <1>1
    <2> QED
      BY <1>2, <2>1, SeqDef
  <1>4. 1..Len(Text(f, v)) = 1..LinesOf[v]
    BY <1>2, <1>3, LenProperties
  <1>5. \A i \in 1..LinesOf[v] : Text(f, v)[i] = Line(f, v)
    BY DEF Text
  <1> QED
    BY <1>3, <1>4, <1>5 DEF TextIn

LEMMA EmptyText == ASSUME NEW f, f \notin Moved PROVE TextIn(f, <<>>)
  <1>1. <<>> \in Seq(LineFrame) /\ Len(<<>>) = 0
    OBVIOUS
  <1> QED
    BY <1>1 DEF TextIn

\* WriteLine's line.
LEMMA AppendText ==
    ASSUME NEW f \in File, f \notin Moved, NEW t, TextIn(f, t), NEW v \in Version
    PROVE  TextIn(f, Append(t, Line(f, v)))
  <1> DEFINE u == Append(t, Line(f, v))
  <1>1. t \in Seq(LineFrame) /\ Line(f, v) \in LineFrame
    BY FrameKinds DEF TextIn
  <1>2. /\ u \in Seq(LineFrame) /\ Len(u) = Len(t) + 1 /\ Len(t) \in Nat
        /\ \A i \in 1..Len(t) : u[i] = t[i]
        /\ u[Len(t) + 1] = Line(f, v)
    BY <1>1, AppendProperties, LenProperties
  <1> HIDE DEF u
  <1>3. \A i \in 1..Len(u) : i \in 1..Len(t) \/ i = Len(t) + 1
    BY <1>2
  <1>4. \A i \in 1..Len(u) : \E w \in Version : u[i] = Line(f, w)
    BY <1>2, <1>3 DEF TextIn
  <1> QED
    BY <1>2, <1>4 DEF TextIn, u

-----------------------------------------------------------------------------
(* Messages.                                                               *)

\* Message m has its name in frame k: configuration c, with text t.
Carries(m, k, c, t) ==
    /\ m \in Seq(Frame) /\ t \in Seq(LineFrame)
    /\ Len(m) = k + Len(t) + 1
    /\ m[k] = F("name", c) /\ m[Len(m)] = NullByte
    /\ \A i \in 1..Len(t) : m[k + i] = t[i]

LEMMA CarriesType ==
    ASSUME NEW m, NEW k \in Nat \ {0}, NEW c \in Conf, NEW t, Carries(m, k, c, t)
    PROVE  IsConf(m, k) /\ Len(m) > k
  <1>1. Len(t) \in Nat /\ Len(m) = k + Len(t) + 1
    BY LenProperties DEF Carries
  <1>2. ASSUME NEW i \in (k + 1)..(Len(m) - 1) PROVE m[i] \in LineFrame
    <2>1. PICK n : n = i - k
      OBVIOUS
    <2>2. n \in 1..Len(t) /\ k + n = i
      BY <1>1, <2>1
    <2>3. m[i] = t[n]
      BY <2>2 DEF Carries
    <2> QED
      BY <2>2, <2>3, ElementOfSeq DEF Carries
  <1> QED
    BY <1>1, <1>2 DEF Carries, IsConf

\* The slot throws the service away.
LEMMA TailCarries ==
    ASSUME NEW m, NEW c, NEW t, Carries(m, 3, c, t)
    PROVE  Carries(Tail(m), 2, c, t)
  <1>1. Len(t) \in Nat /\ Len(m) = 3 + Len(t) + 1 /\ m \in Seq(Frame)
    BY LenProperties DEF Carries
  <1>2. m # <<>>
    <2>1. Len(<<>>) = 0
      OBVIOUS
    <2> QED
      BY <1>1, <2>1
  <1> DEFINE n == Tail(m)
  <1>3. /\ n \in Seq(Frame) /\ Len(n) = Len(m) - 1
        /\ \A i \in 1..Len(n) : n[i] = m[i + 1]
    BY <1>1, <1>2, HeadTailProperties
  <1> HIDE DEF n
  <1>4. Len(n) = 2 + Len(t) + 1
    BY <1>1, <1>3
  <1>5. n[2] = m[3] /\ n[Len(n)] = m[Len(m)]
    <2>1. 2 \in 1..Len(n) /\ Len(n) \in 1..Len(n) /\ 2 + 1 = 3 /\ Len(n) + 1 = Len(m)
      BY <1>1, <1>4
    <2> QED
      BY <1>3, <2>1
  <1>6. ASSUME NEW i \in 1..Len(t) PROVE n[2 + i] = t[i]
    <2>1. 2 + i \in 1..Len(n) /\ 2 + i + 1 = 3 + i
      BY <1>1, <1>4
    <2>2. n[2 + i] = m[3 + i]
      BY <1>3, <2>1
    <2> QED
      BY <2>2 DEF Carries
  <1> QED
    BY <1>3, <1>4, <1>5, <1>6 DEF Carries, n

\* The frames of file f sent so far, which are the first of text t.
MsgBegun(m, f) ==
    /\ m \in Seq(Frame) /\ Len(m) >= 3 /\ m[3] = F("name", ConfOf[f])
    /\ \A i \in 4..Len(m) : \E v \in Version : m[i] = Line(f, v)
Sends(m, t) ==
    /\ Len(m) - 3 <= Len(t)
    /\ \A i \in 4..Len(m) : m[i] = t[i - 3]

\* Open's frames.
LEMMA FirstFrames ==
    ASSUME NEW f \in File, FileSvc[f] # NULL,
           NEW m, m = <<F("svc", FileSvc[f]), MqConf, F("name", ConfOf[f])>>
    PROVE  MsgBegun(m, f) /\ \A t \in Seq(LineFrame) : Sends(m, t)
  <1>1. FileSvc[f] \in Svc /\ ConfOf[f] \in Conf
    BY ConfAssumption
  <1>2. /\ F("svc", FileSvc[f]) \in Frame /\ MqConf \in Frame
        /\ F("name", ConfOf[f]) \in Frame
    BY <1>1, FrameKinds
  <1>3. m \in Seq(Frame) /\ Len(m) = 3 /\ m[3] = F("name", ConfOf[f])
    BY <1>2
  <1> QED
    BY <1>3, LenProperties DEF MsgBegun, Sends

\* ReadLine's line, which is the next one of t.
LEMMA NextFrame ==
    ASSUME NEW f \in File, NEW m, MsgBegun(m, f), NEW t, TextIn(f, t), Len(m) - 3 < Len(t),
           NEW l, l = t[Len(m) - 3 + 1]
    PROVE  /\ MsgBegun(Append(m, l), f) /\ Append(m, l) \in Seq(Frame)
           /\ Sends(m, t) => Sends(Append(m, l), t)
  <1> DEFINE u == Append(m, l)
  <1>1. m \in Seq(Frame) /\ Len(m) \in Nat /\ Len(m) >= 3 /\ Len(t) \in Nat
    BY LenProperties DEF MsgBegun, TextIn
  <1>2. Len(m) - 3 + 1 \in 1..Len(t)
    BY <1>1
  <1>3. PICK v \in Version : l = Line(f, v)
    BY <1>2 DEF TextIn
  <1>4. l \in Frame
    BY <1>3, FrameKinds
  <1>5. /\ u \in Seq(Frame) /\ Len(u) = Len(m) + 1
        /\ \A i \in 1..Len(m) : u[i] = m[i]
        /\ u[Len(m) + 1] = l
    BY <1>1, <1>4, AppendProperties
  <1> HIDE DEF u
  <1>6. \A i \in 4..Len(u) : (i \in 1..Len(m) /\ i \in 4..Len(m)) \/ i = Len(m) + 1
    BY <1>1, <1>5
  <1>7. MsgBegun(u, f)
    <2>1. 3 \in 1..Len(m) /\ Len(u) >= 3
      BY <1>1, <1>5
    <2> QED
      BY <1>3, <1>5, <1>6, <2>1 DEF MsgBegun
  <1>8. ASSUME Sends(m, t) PROVE Sends(u, t)
    <2>1. PICK n : n = Len(m) + 1
      OBVIOUS
    <2>2. n - 3 = Len(m) - 3 + 1 /\ Len(u) - 3 <= Len(t)
      BY <1>1, <1>2, <1>5, <2>1
    <2>3. u[n] = t[n - 3]
      BY <1>5, <2>1, <2>2
    <2> QED
      BY <1>5, <1>6, <1>8, <2>1, <2>2, <2>3 DEF Sends
  <1> QED
    BY <1>5, <1>7, <1>8 DEF u

\* The whole message: it carries what was sent, t when that is all of t.
LEMMA LastFrame ==
    ASSUME NEW f \in File, NEW m, MsgBegun(m, f)
    PROVE  \E u \in Seq(LineFrame) :
              /\ Carries(Append(m, NullByte), 3, ConfOf[f], u)
              /\ \A i \in 1..Len(u) : \E v \in Version : u[i] = Line(f, v)
              /\ \A t \in Seq(LineFrame) : Len(m) - 3 >= Len(t) /\ Sends(m, t) => u = t
  <1>1. m \in Seq(Frame) /\ Len(m) \in Nat /\ Len(m) >= 3
    BY LenProperties DEF MsgBegun
  <1>2. PICK n \in Nat : n = Len(m) - 3
    BY <1>1
  <1>3. \A i \in 1..n : i + 3 \in 4..Len(m) /\ i + 3 \in 1..Len(m)
    BY <1>1, <1>2
  <1>4. PICK u : u = [i \in 1..n |-> m[i + 3]]
    OBVIOUS
  <1>5. \A i \in 1..n : \E v \in Version : m[i + 3] = Line(f, v)
    BY <1>3 DEF MsgBegun
  <1>6. u \in [1..n -> LineFrame] /\ DOMAIN u = 1..n /\ \A i \in 1..n : u[i] = m[i + 3]
    BY <1>4, <1>5, FrameKinds
  <1>7. u \in Seq(LineFrame)
    <2>1. [1..n -> LineFrame] \in {[1..k -> LineFrame] : k \in Nat}
      OBVIOUS
    <2> QED
      BY <1>6, <2>1, SeqDef
  <1>8. Len(u) = n
    <2>1. Len(u) \in Nat /\ 1..Len(u) = 1..n
      BY <1>6, <1>7, LenProperties
    <2>2. PICK l \in Nat : l = Len(u)
      BY <2>1
    <2>3. 1..l = 1..n
      BY <2>1, <2>2
    <2> QED
      BY <2>2, <2>3
  <1> DEFINE w == Append(m, NullByte)
  <1>9. /\ w \in Seq(Frame) /\ Len(w) = Len(m) + 1
        /\ \A i \in 1..Len(m) : w[i] = m[i]
        /\ w[Len(m) + 1] = NullByte
    BY <1>1, FrameKinds, AppendProperties
  <1> HIDE DEF w
  <1>10. Carries(w, 3, ConfOf[f], u)
    <2>1. Len(w) = 3 + Len(u) + 1 /\ Len(w) = Len(m) + 1
      BY <1>1, <1>2, <1>8, <1>9
    <2>2. w[3] = F("name", ConfOf[f])
      <3>1. 3 \in 1..Len(m)
        BY <1>1
      <3> QED
        BY <1>9, <3>1 DEF MsgBegun
    <2>3. \A i \in 1..n : w[3 + i] = u[i]
      <3>1. \A i \in 1..n : 3 + i = i + 3
        OBVIOUS
      <3> QED
        BY <1>3, <1>6, <1>9, <3>1
    <2> QED
      BY <1>7, <1>8, <1>9, <2>1, <2>2, <2>3 DEF Carries
  <1>11. ASSUME NEW t \in Seq(LineFrame), Len(m) - 3 >= Len(t), Sends(m, t) PROVE u = t
    <2>1. Len(t) \in Nat
      BY LenProperties
    <2>2. Len(t) = n
      BY <1>2, <1>11, <2>1 DEF Sends
    <2>3. \A i \in 1..n : i + 3 - 3 = i
      OBVIOUS
    <2>4. \A i \in 1..n : u[i] = t[i]
      BY <1>3, <1>6, <1>11, <2>3 DEF Sends
    <2> QED
      BY <1>7, <1>8, <2>2, <2>4, SeqEqual
  <1>12. \A i \in 1..Len(u) : \E v \in Version : u[i] = Line(f, v)
    BY <1>5, <1>6, <1>8
  <1> QED
    BY <1>7, <1>10, <1>11, <1>12 DEF w

-----------------------------------------------------------------------------
(* Queues.                                                                 *)

LEMMA HeadOf ==
    ASSUME NEW S, NEW q \in Seq(S), q # <<>>
    PROVE  /\ Len(q) \in Nat \ {0} /\ Head(q) = q[1] /\ q[1] \in S
           /\ Tail(q) \in Seq(S) /\ Len(Tail(q)) = Len(q) - 1
           /\ \A i \in 1..Len(Tail(q)) : Tail(q)[i] = q[i + 1]
  <1>1. Len(q) \in Nat \ {0}
    BY EmptySeq
  <1>2. 1 \in 1..Len(q)
    BY <1>1
  <1> QED
    BY <1>1, <1>2, HeadTailProperties, ElementOfSeq

\* The first n of a queue, and the others.
LEMMA SplitAt ==
    ASSUME NEW S, NEW q \in Seq(S), NEW n \in 0..Len(q)
    PROVE  /\ SubSeq(q, 1, n) \in Seq(S) /\ Len(SubSeq(q, 1, n)) = n
           /\ \A i \in 1..n : SubSeq(q, 1, n)[i] = q[i]
           /\ SubSeq(q, n + 1, Len(q)) \in Seq(S)
           /\ Len(SubSeq(q, n + 1, Len(q))) = Len(q) - n
           /\ \A i \in 1..(Len(q) - n) : SubSeq(q, n + 1, Len(q))[i] = q[n + i]
  <1> DEFINE l == Len(q)
             a == SubSeq(q, 1, n)
             b == SubSeq(q, n + 1, l)
  <1>1. l \in Nat /\ \A i \in 1..l : q[i] \in S
    BY LenProperties, ElementOfSeq
  <1> HIDE DEF l
  <1>2. n \in Nat /\ n <= l /\ n \in Int /\ l \in Int /\ 1 \in Int /\ n + 1 \in Int
    BY <1>1 DEF l
  <1>3. (\A i \in 1..n : q[i] \in S) /\ (\A i \in (n + 1)..l : q[i] \in S)
    BY <1>1, <1>2
  <1>4. /\ a \in Seq(S) /\ Len(a) = IF 1 <= n THEN n - 1 + 1 ELSE 0
        /\ \A i \in 1..(n - 1 + 1) : a[i] = q[1 + i - 1]
    BY <1>2, <1>3, SubSeqProperties
  <1>5. /\ b \in Seq(S) /\ Len(b) = IF n + 1 <= l THEN l - (n + 1) + 1 ELSE 0
        /\ \A i \in 1..(l - (n + 1) + 1) : b[i] = q[n + 1 + i - 1]
    BY <1>2, <1>3, SubSeqProperties
  <1> HIDE DEF a, b
  <1>6. Len(a) = n /\ \A i \in 1..n : a[i] = q[i]
    <2>1. \A i \in 1..n : 1 + i - 1 = i /\ i \in 1..(n - 1 + 1)
      BY <1>2
    <2> QED
      BY <1>2, <1>4, <2>1
  <1>7. Len(b) = l - n /\ \A i \in 1..(l - n) : b[i] = q[n + i]
    <2>1. \A i \in 1..(l - n) : n + 1 + i - 1 = n + i /\ i \in 1..(l - (n + 1) + 1)
      BY <1>1, <1>2
    <2> QED
      BY <1>1, <1>2, <1>5, <2>1
  <1> QED
    BY <1>4, <1>5, <1>6, <1>7 DEF a, b, l

\* How many events the watch callback takes.
LEMMA ChunkOf ==
    ASSUME NEW q \in Seq(Event), q # <<>>,
           NEW n, n = IF Len(q) < CHUNK THEN Len(q) ELSE CHUNK
    PROVE  n \in 0..Len(q) /\ n <= CHUNK /\ n > 0
  <1>1. CHUNK \in Nat \ {0} /\ Len(q) \in Nat \ {0}
    BY ConfAssumption, EmptySeq
  <1> QED
    BY <1>1

LEMMA NotifyType ==
    ASSUME kq \in Seq(Event), NEW f \in File,
           NEW mask \in {"close_write", "moved_to"}, Notify(f, mask)
    PROVE  kq' \in Seq(Event)
  <1> DEFINE e == [file |-> f, mask |-> mask]
  <1>1. e \in Event
    BY DEF Event
  <1>2. kq' = IF kq # <<>> /\ kq[Len(kq)] = e THEN kq ELSE Append(kq, e)
    BY DEF Notify
  <1> HIDE DEF e
  <1> QED
    BY <1>1, <1>2, AppendProperties

-----------------------------------------------------------------------------
(* Invariants.                                                             *)

FileInv ==
    /\ disk \in [File -> Seq(LineFrame) \cup {NULL}]
    /\ \A f \in File : disk[f] # NULL => TextIn(f, disk[f])
    /\ writing \in [File -> Version \cup {NULL}]
    /\ \A f \in File : writing[f] # NULL => disk[f] # NULL /\ f \notin Moved
    /\ last \in Nat
    /\ kq \in Seq(Event)

BatchInv == batch \in Seq(Event) /\ Len(batch) <= CHUNK

\* The event of batch[1] is about the file being published, which has a text to
\* read; a moved one does not change under its reader.
OpenInv ==
    fp # NULL =>
        /\ fp \in OpenFile
        /\ alive /\ batch # <<>> /\ fp.file = batch[1].file /\ FileSvc[fp.file] # NULL
        /\ \A s \in fp.to : slot[s] = "hears" /\ Heard(s, fp.file)
        /\ MsgBegun(fp.msg, fp.file)
        /\ fp.old # NULL => TextIn(fp.file, fp.old)
        /\ fp.old = NULL => disk[fp.file] # NULL
        /\ fp.file \in Moved => Sends(fp.msg, Readable)

SlotInv ==
    /\ slot \in [Svc -> {"closed", "open", "hears"}] /\ releases \in 0..MaxReleases
    /\ conn \subseteq Proc /\ \A p \in conn : slot[SvcOf[p]] # "closed"
    /\ due \in [Proc -> SUBSET File]
    /\ \A p \in Proc : \A f \in due[p] : InEffect(p) /\ Heard(SvcOf[p], f)

\* What a process of service s may have under a name: lines of the files of that
\* name it hears, and a whole version if they are only ever moved.
GoodText(s, c, t) ==
    /\ t \in Seq(LineFrame) /\ Own(s, c, t)
    /\ OnlyMoved(s, c) =>
          \E f \in File, v \in Version : Names(s, f, c) /\ t = Text(f, v)
GoodMsg(m, k, s) == \E c \in Conf, t \in Seq(LineFrame) : Carries(m, k, c, t) /\ GoodText(s, c, t)
AllGood(q, k, s) ==
    q \in Seq(Seq(Frame)) /\ \A i \in 1..Len(q) : GoodMsg(q[i], k, s)

QueueInv ==
    /\ sq \in [Svc -> Seq(Seq(Frame))] /\ box \in [Proc -> Seq(Seq(Frame))]
    /\ \A s \in Svc : AllGood(sq[s], 3, s)
    /\ \A p \in Proc : AllGood(box[p], 2, SvcOf[p])

\* The lines read, u, are the first of a good message r, read as far.
HalfRead(r, u, s) == \E c \in Conf, t \in Seq(LineFrame) :
    /\ Carries(r.msg, 2, c, t) /\ GoodText(s, c, t)
    /\ u.name = F("name", c) /\ u.lines \in Seq(LineFrame)
    /\ r.pos = Len(u.lines) + 2 /\ Len(u.lines) <= Len(t)
    /\ \A i \in 1..Len(u.lines) : u.lines[i] = t[i]

ReadInv ==
    /\ rd \in [Proc -> Begun \cup {NULL}] /\ cur \in [Proc -> Reading \cup {NULL}]
    /\ \A p \in Proc : /\ cur[p] = NULL <=> rd[p] = NULL
                       /\ cur[p] # NULL => HalfRead(rd[p], cur[p], SvcOf[p])

GotInv ==
    /\ got \in [Proc -> [Conf -> Seq(LineFrame) \cup {NULL}]]
    /\ \A p \in Proc, c \in Conf : got[p][c] # NULL => GoodText(SvcOf[p], c, got[p][c])

MsgInv == FileInv /\ BatchInv /\ OpenInv /\ SlotInv /\ QueueInv /\ ReadInv /\ GotInv

LEMMA InitInv == Init => MsgInv
  <1> SUFFICES ASSUME Init PROVE MsgInv
    OBVIOUS
  <1>1. /\ <<>> \in Seq(Event) /\ <<>> \in Seq(Seq(Frame)) /\ Len(<<>>) = 0
    OBVIOUS
  <1>2. FileInv
    BY <1>1 DEF Init, FileInv
  <1>3. BatchInv
    BY <1>1, ConfAssumption DEF Init, BatchInv
  <1>4. OpenInv
    BY DEF Init, OpenInv
  <1>5. SlotInv
    BY ConfAssumption DEF Init, SlotInv
  <1>6. QueueInv
    <2>1. \A k, s : AllGood(<<>>, k, s)
      BY <1>1 DEF AllGood
    <2> QED
      BY <1>1, <2>1 DEF Init, QueueInv
  <1>7. ReadInv /\ GotInv
    BY DEF Init, ReadInv, GotInv
  <1> QED
    BY <1>2, <1>3, <1>4, <1>5, <1>6, <1>7 DEF MsgInv

-----------------------------------------------------------------------------
(* What the steps do.                                                      *)

\* The open file has a text.
LEMMA ReadableText ==
    ASSUME FileInv, OpenInv, fp # NULL
    PROVE  /\ fp.file \in File /\ fp.msg \in Seq(Frame)
           /\ TextIn(fp.file, Readable)
           /\ fp.old = NULL => Readable = disk[fp.file]
           /\ fp.old # NULL => Readable = fp.old
  <1>1. fp.file \in File /\ fp.msg \in Seq(Frame)
    BY DEF OpenInv, OpenFile
  <1> QED
    BY <1>1 DEF OpenInv, FileInv, Readable

LEMMA OpenValue ==
    ASSUME SlotInv, NEW f \in File, Open(f)
    PROVE  /\ alive /\ batch # <<>> /\ fp = NULL /\ f = batch[1].file
           /\ FileSvc[f] # NULL /\ disk[f] # NULL
           /\ fp' \in OpenFile /\ fp' # NULL
           /\ fp'.file = f /\ fp'.old = NULL
           /\ \A s \in fp'.to : s \in Svc /\ slot[s] = "hears" /\ Heard(s, f)
           /\ MsgBegun(fp'.msg, f) /\ \A t \in Seq(LineFrame) : Sends(fp'.msg, t)
           /\ UNCHANGED <<files, batch, alive, slots, sq, box, procs>>
           /\ due' \in [Proc -> SUBSET File]
           /\ \A p \in Proc : /\ due'[p] \subseteq due[p]
                              /\ \/ f \notin due'[p]
                                 \/ SvcOf[p] \in fp'.to
                                 \/ ~(slot[SvcOf[p]] = "hears" /\ Heard(SvcOf[p], f))
  <1>1. PICK full \in SUBSET {s \in Svc : slot[s] = "hears" /\ Heard(s, f)} :
          /\ fp' = [file |-> f, old |-> NULL,
                    to  |-> {s \in Svc \ full : slot[s] = "hears" /\ Heard(s, f)},
                    msg |-> <<F("svc", FileSvc[f]), MqConf, F("name", ConfOf[f])>>]
          /\ due' = [p \in Proc |-> IF SvcOf[p] \in full THEN due[p] \ {f} ELSE due[p]]
    BY DEF Open
  <1>2. PICK m : m = <<F("svc", FileSvc[f]), MqConf, F("name", ConfOf[f])>>
    OBVIOUS
  <1>3. FileSvc[f] # NULL
    BY DEF Open
  <1>4. MsgBegun(m, f) /\ (\A t \in Seq(LineFrame) : Sends(m, t)) /\ m \in Seq(Frame)
    BY <1>2, <1>3, FirstFrames DEF MsgBegun
  <1>5. fp' = [file |-> f, old |-> NULL,
               to  |-> {s \in Svc \ full : slot[s] = "hears" /\ Heard(s, f)}, msg |-> m]
    BY <1>1, <1>2
  <1>6. fp' \in OpenFile
    BY <1>4, <1>5 DEF OpenFile
  <1>7. fp' # NULL
    BY <1>6, NullType
  <1>8. fp'.file = f /\ fp'.old = NULL /\ fp'.msg = m
        /\ fp'.to = {s \in Svc \ full : slot[s] = "hears" /\ Heard(s, f)}
    BY <1>5
  <1>9. due' \in [Proc -> SUBSET File] /\ \A p \in Proc : due'[p] \subseteq due[p]
    BY <1>1 DEF SlotInv
  <1>10. ASSUME NEW p \in Proc, f \in due'[p], SvcOf[p] \notin fp'.to
         PROVE  ~(slot[SvcOf[p]] = "hears" /\ Heard(SvcOf[p], f))
    <2>1. SvcOf[p] \in Svc
      BY ConfAssumption
    <2>2. SvcOf[p] \notin full
      BY <1>1, <1>10
    <2> QED
      BY <1>8, <1>10, <2>1, <2>2
  <1>11. /\ alive /\ batch # <<>> /\ fp = NULL /\ f = batch[1].file
         /\ FileSvc[f] # NULL /\ disk[f] # NULL
         /\ UNCHANGED <<files, batch, alive, slots, sq, box, procs>>
    BY DEF Open, Handles
  <1> QED
    BY <1>4, <1>6, <1>7, <1>8, <1>9, <1>10, <1>11

\* A reader of the file keeps the text, another one is not concerned.
LEMMA KeepsOldValue ==
    ASSUME FileInv, OpenInv, NEW f \in File, KeepsOld(f)
    PROVE  \/ /\ fp # NULL /\ fp.file = f /\ fp.old = NULL
              /\ fp' \in OpenFile /\ fp' # NULL
              /\ fp'.file = f /\ fp'.msg = fp.msg /\ fp'.to = fp.to
              /\ fp'.old = disk[f] /\ disk[f] # NULL
           \/ /\ fp' = fp
              /\ fp # NULL /\ fp.file = f => fp.old # NULL
  <1>1. CASE fp # NULL /\ fp.file = f /\ fp.old = NULL
    <2>1. fp' = [fp EXCEPT !.old = disk[f]] /\ fp \in OpenFile
      BY <1>1 DEF KeepsOld, OpenInv
    <2>2. disk[f] # NULL /\ disk[f] \in Seq(LineFrame)
      BY <1>1 DEF OpenInv, FileInv
    <2>3. /\ fp' \in OpenFile /\ fp'.file = fp.file /\ fp'.msg = fp.msg /\ fp'.to = fp.to
          /\ fp'.old = disk[f]
      BY <2>1, <2>2 DEF OpenFile
    <2> QED
      BY <1>1, <2>2, <2>3, NullType
  <1>2. CASE ~(fp # NULL /\ fp.file = f /\ fp.old = NULL)
    BY <1>2 DEF KeepsOld
  <1> QED
    BY <1>1, <1>2

LEMMA ReadLineValue ==
    ASSUME FileInv, OpenInv, ReadLine
    PROVE  /\ fp # NULL /\ fp' \in OpenFile /\ fp' # NULL
           /\ fp'.file = fp.file /\ fp'.old = fp.old /\ fp'.to = fp.to
           /\ MsgBegun(fp'.msg, fp.file)
           /\ Sends(fp.msg, Readable) => Sends(fp'.msg, Readable)
           /\ Readable' = Readable
           /\ UNCHANGED <<files, batch, alive, slots, sq, box, procs, due>>
  <1>1. /\ fp # NULL /\ Len(fp.msg) - 3 < Len(Readable)
        /\ fp' = [fp EXCEPT !.msg = Append(@, Readable[Len(fp.msg) - 3 + 1])]
        /\ UNCHANGED <<files, batch, alive, slots, sq, box, procs, due>>
    BY DEF ReadLine, Sent
  <1>2. PICK l : l = Readable[Len(fp.msg) - 3 + 1]
    OBVIOUS
  <1>3. PICK a : a = Append(fp.msg, l)
    OBVIOUS
  <1>4. /\ MsgBegun(a, fp.file) /\ a \in Seq(Frame)
        /\ Sends(fp.msg, Readable) => Sends(a, Readable)
    <2>1. MsgBegun(fp.msg, fp.file) /\ TextIn(fp.file, Readable) /\ fp.file \in File
      BY <1>1, ReadableText DEF OpenInv
    <2> QED
      BY <1>1, <1>2, <1>3, <2>1, NextFrame
  <1>5. fp' = [fp EXCEPT !.msg = a] /\ fp \in OpenFile
    BY <1>1, <1>2, <1>3 DEF OpenInv
  <1>6. /\ fp' \in OpenFile /\ fp'.file = fp.file /\ fp'.old = fp.old /\ fp'.to = fp.to
        /\ fp'.msg = a
    BY <1>4, <1>5 DEF OpenFile
  <1>7. fp' # NULL
    BY <1>6, NullType
  <1>8. Readable' = Readable
    BY <1>1, <1>6 DEF Readable, files
  <1> QED
    BY <1>1, <1>4, <1>6, <1>7, <1>8

LEMMA GoodAppend ==
    ASSUME NEW q, NEW k, NEW s, AllGood(q, k, s), NEW m, GoodMsg(m, k, s)
    PROVE  AllGood(Append(q, m), k, s)
  <1>1. q \in Seq(Seq(Frame)) /\ m \in Seq(Frame)
    BY DEF AllGood, GoodMsg, Carries
  <1> DEFINE a == Append(q, m)
  <1>2. /\ a \in Seq(Seq(Frame)) /\ Len(a) = Len(q) + 1 /\ Len(q) \in Nat
        /\ \A i \in 1..Len(q) : a[i] = q[i]
        /\ a[Len(q) + 1] = m
    BY <1>1, AppendProperties, LenProperties
  <1> HIDE DEF a
  <1>3. \A i \in 1..Len(a) : i \in 1..Len(q) \/ i = Len(q) + 1
    BY <1>2
  <1>4. \A i \in 1..Len(a) : GoodMsg(a[i], k, s)
    BY <1>2, <1>3 DEF AllGood
  <1> QED
    BY <1>2, <1>4 DEF AllGood, a

LEMMA GoodTail ==
    ASSUME NEW q, NEW k, NEW s, AllGood(q, k, s), q # <<>>
    PROVE  AllGood(Tail(q), k, s) /\ GoodMsg(q[1], k, s) /\ Head(q) = q[1]
  <1> DEFINE t == Tail(q)
  <1>1. q \in Seq(Seq(Frame))
    BY DEF AllGood
  <1>2. /\ Len(q) \in Nat \ {0} /\ Head(q) = q[1]
        /\ t \in Seq(Seq(Frame)) /\ Len(t) = Len(q) - 1
        /\ \A i \in 1..Len(t) : t[i] = q[i + 1]
    BY <1>1, HeadOf
  <1> HIDE DEF t
  <1>3. 1 \in 1..Len(q) /\ \A i \in 1..Len(t) : i + 1 \in 1..Len(q)
    BY <1>2
  <1>4. \A i \in 1..Len(t) : GoodMsg(t[i], k, s)
    BY <1>2, <1>3 DEF AllGood
  <1> QED
    BY <1>2, <1>3, <1>4 DEF AllGood, t

LEMMA GoodPrefix ==
    ASSUME NEW q, NEW k, NEW s, AllGood(q, k, s), NEW n \in Nat, n < Len(q)
    PROVE  AllGood(SubSeq(q, 1, n), k, s)
  <1> DEFINE a == SubSeq(q, 1, n)
  <1>1. q \in Seq(Seq(Frame)) /\ Len(q) \in Nat
    BY LenProperties DEF AllGood
  <1>2. n \in 0..Len(q)
    BY <1>1
  <1>3. a \in Seq(Seq(Frame)) /\ Len(a) = n /\ \A i \in 1..n : a[i] = q[i]
    BY <1>1, <1>2, SplitAt
  <1> HIDE DEF a
  <1>4. \A i \in 1..n : i \in 1..Len(q)
    BY <1>1
  <1>5. \A i \in 1..Len(a) : GoodMsg(a[i], k, s)
    BY <1>3, <1>4 DEF AllGood
  <1> QED
    BY <1>3, <1>5 DEF AllGood, a

\* What is published: all that was sent, which is the open file's text when it
\* was not written in between.
LEMMA PublishValue ==
    ASSUME FileInv, OpenInv, Publish
    PROVE  /\ fp # NULL /\ fp' = NULL /\ batch' = Tail(batch)
           /\ UNCHANGED <<files, alive, slots, box, procs, due>>
           /\ \E m, t :
                /\ Carries(m, 3, ConfOf[fp.file], t)
                /\ \A i \in 1..Len(t) : \E v \in Version : t[i] = Line(fp.file, v)
                /\ Sends(fp.msg, Readable) => t = Readable
                /\ sq' = [s \in Svc |-> IF s \in fp.to THEN Append(sq[s], m) ELSE sq[s]]
  <1>1. /\ fp # NULL /\ fp' = NULL /\ batch' = Tail(batch)
        /\ Len(fp.msg) - 3 >= Len(Readable)
        /\ sq' = [s \in Svc |-> IF s \in fp.to
                                THEN Append(sq[s], Append(fp.msg, NullByte)) ELSE sq[s]]
        /\ UNCHANGED <<files, alive, slots, box, procs, due>>
    BY DEF Publish, Sent
  <1>2. MsgBegun(fp.msg, fp.file) /\ fp.file \in File /\ Readable \in Seq(LineFrame)
    BY <1>1, ReadableText DEF OpenInv, TextIn
  <1>3. PICK m : m = Append(fp.msg, NullByte)
    OBVIOUS
  <1>4. PICK t \in Seq(LineFrame) :
          /\ Carries(m, 3, ConfOf[fp.file], t)
          /\ \A i \in 1..Len(t) : \E v \in Version : t[i] = Line(fp.file, v)
          /\ \A r \in Seq(LineFrame) : Len(fp.msg) - 3 >= Len(r) /\ Sends(fp.msg, r) => t = r
    BY <1>2, <1>3, LastFrame
  <1>5. Sends(fp.msg, Readable) => t = Readable
    BY <1>1, <1>2, <1>4
  <1>6. sq' = [s \in Svc |-> IF s \in fp.to THEN Append(sq[s], m) ELSE sq[s]]
    BY <1>1, <1>3
  <1>7. \E u, w :
           /\ Carries(u, 3, ConfOf[fp.file], w)
           /\ \A i \in 1..Len(w) : \E v \in Version : w[i] = Line(fp.file, v)
           /\ Sends(fp.msg, Readable) => w = Readable
           /\ sq' = [s \in Svc |-> IF s \in fp.to THEN Append(sq[s], u) ELSE sq[s]]
    BY <1>4, <1>5, <1>6
  <1> QED
    BY <1>1, <1>7

\* It is good for the slots it goes to.
LEMMA PublishGood ==
    ASSUME FileInv, OpenInv, fp # NULL, NEW m, NEW t, Carries(m, 3, ConfOf[fp.file], t),
           \A i \in 1..Len(t) : \E v \in Version : t[i] = Line(fp.file, v),
           Sends(fp.msg, Readable) => t = Readable, NEW s \in fp.to
    PROVE  GoodMsg(m, 3, s)
  <1>1. /\ fp.file \in File /\ Heard(s, fp.file) /\ TextIn(fp.file, Readable)
        /\ fp.file \in Moved => Sends(fp.msg, Readable)
    BY ReadableText DEF OpenInv
  <1>2. ConfOf[fp.file] \in Conf /\ t \in Seq(LineFrame)
    BY <1>1, ConfAssumption DEF Carries
  <1>3. Names(s, fp.file, ConfOf[fp.file])
    BY <1>1 DEF Names
  <1>4. Own(s, ConfOf[fp.file], t)
    BY <1>1, <1>3 DEF Own
  <1>5. OnlyMoved(s, ConfOf[fp.file]) => \E f \in File, v \in Version :
             Names(s, f, ConfOf[fp.file]) /\ t = Text(f, v)
    BY <1>1, <1>3 DEF OnlyMoved, TextIn
  <1> QED
    BY <1>2, <1>4, <1>5 DEF GoodMsg, GoodText

\* A slot passes on the rest of a good message.
LEMMA RelayGood ==
    ASSUME NEW m, NEW s, GoodMsg(m, 3, s)
    PROVE  GoodMsg(Tail(m), 2, s)
  <1>1. PICK c \in Conf, t \in Seq(LineFrame) : Carries(m, 3, c, t) /\ GoodText(s, c, t)
    BY DEF GoodMsg
  <1> QED
    BY <1>1, TailCarries DEF GoodMsg

\* mq_recv_conf_name begins the first message of the queue.
LEMMA NameValue ==
    ASSUME QueueInv, ReadInv, NEW p \in Proc, RecvConfName(p)
    PROVE  /\ cur[p] = NULL /\ box[p] # <<>> /\ box' = [box EXCEPT ![p] = Tail(box[p])]
           /\ GoodMsg(box[p][1], 2, SvcOf[p]) /\ AllGood(Tail(box[p]), 2, SvcOf[p])
           /\ \E r \in Begun, u \in Reading :
                /\ r.msg = box[p][1] /\ rd' = [rd EXCEPT ![p] = r]
                /\ u.name = box[p][1][2] /\ cur' = [cur EXCEPT ![p] = u]
                /\ HalfRead(r, u, SvcOf[p])
           /\ UNCHANGED <<files, broker, slots, sq, got, due>>
  <1>1. cur[p] = NULL /\ rd[p] = NULL /\ box[p] # <<>> /\ AllGood(box[p], 2, SvcOf[p])
    BY DEF RecvConfName, CanRead, ReadInv, QueueInv
  <1>2. PICK m : m = box[p][1]
    OBVIOUS
  <1>3. Head(box[p]) = m /\ GoodMsg(m, 2, SvcOf[p]) /\ AllGood(Tail(box[p]), 2, SvcOf[p])
    BY <1>1, <1>2, GoodTail
  <1>4. PICK c \in Conf, t \in Seq(LineFrame) : Carries(m, 2, c, t) /\ GoodText(SvcOf[p], c, t)
    BY <1>3 DEF GoodMsg
  <1>5. /\ Len(m) = 2 + Len(t) + 1 /\ Len(t) \in Nat /\ m \in Seq(Frame)
        /\ m[2] = F("name", c)
    BY <1>4, LenProperties DEF Carries
  <1>6. From(p).msg = m /\ From(p).pos = 0
    BY <1>1, <1>3 DEF From
  <1>7. Left(p) = Len(m) - 0
    BY <1>6 DEF Left
  <1>8. Left(p) > 2 /\ Left(p) # 2
    BY <1>5, <1>7
  <1> DEFINE r == [msg |-> m, pos |-> 0 + 2]
             u == [name |-> m[0 + 2], lines |-> <<>>]
  <1>9. /\ rd' = [rd EXCEPT ![p] = r] /\ box' = [box EXCEPT ![p] = Tail(box[p])]
        /\ cur' = [cur EXCEPT ![p] = u]
        /\ UNCHANGED <<files, broker, slots, sq, got, due>>
    BY <1>1, <1>6, <1>8 DEF RecvConfName, Recv
  <1>10. 0 + 2 = 2 /\ Len(<<>>) = 0 /\ <<>> \in Seq(Frame) /\ <<>> \in Seq(LineFrame)
    OBVIOUS
  <1>11. r \in Begun /\ r.msg = m /\ r.pos = 2
    BY <1>5, <1>10 DEF Begun
  <1>12. u \in Reading /\ u.name = m[2] /\ u.lines = <<>>
    <2>1. m[2] \in Frame
      BY <1>5, FrameKinds
    <2> QED
      BY <1>10, <2>1 DEF Reading
  <1> HIDE DEF r, u
  <1>13. HalfRead(r, u, SvcOf[p])
    BY <1>4, <1>5, <1>10, <1>11, <1>12 DEF HalfRead
  <1> QED
    BY <1>1, <1>2, <1>3, <1>9, <1>11, <1>12, <1>13

\* mq_recv_conf_body gets the next line of the message.
LEMMA BodyValue ==
    ASSUME ReadInv, NEW p \in Proc, RecvConfBody(p)
    PROVE  /\ cur[p] # NULL /\ rd[p] # NULL
           /\ \E r \in Begun, u \in Reading :
                /\ r.msg = rd[p].msg /\ rd' = [rd EXCEPT ![p] = r]
                /\ u.name = cur[p].name /\ cur' = [cur EXCEPT ![p] = u]
                /\ HalfRead(r, u, SvcOf[p])
           /\ UNCHANGED <<files, broker, slots, sq, box, got, due>>
  <1>1. cur[p] # NULL /\ rd[p] # NULL /\ HalfRead(rd[p], cur[p], SvcOf[p])
    BY DEF RecvConfBody, ReadInv
  <1>2. PICK m, k, l : m = rd[p].msg /\ k = rd[p].pos /\ l = cur[p].lines
    OBVIOUS
  <1>3. PICK c \in Conf, t \in Seq(LineFrame) :
          /\ Carries(m, 2, c, t) /\ GoodText(SvcOf[p], c, t)
          /\ cur[p].name = F("name", c) /\ l \in Seq(LineFrame)
          /\ k = Len(l) + 2 /\ Len(l) <= Len(t)
          /\ \A i \in 1..Len(l) : l[i] = t[i]
    BY <1>1, <1>2 DEF HalfRead
  <1>4. Len(m) = 2 + Len(t) + 1 /\ Len(t) \in Nat /\ Len(l) \in Nat
    BY <1>3, LenProperties DEF Carries
  <1>5. From(p).msg = m /\ From(p).pos = k /\ Left(p) = Len(m) - k /\ Next1(p) = m[k + 1]
    BY <1>1, <1>2 DEF From, Left, Next1
  <1>6. Left(p) > 1 /\ Left(p) # 1
    <2>1. Left(p) > 1
      BY DEF RecvConfBody
    <2> QED
      BY <1>3, <1>4, <1>5, <2>1
  <1>7. Len(l) < Len(t) /\ Len(l) + 1 \in 1..Len(t) /\ k + 1 = 2 + (Len(l) + 1)
    BY <1>3, <1>4, <1>5, <1>6
  <1>8. m[k + 1] = t[Len(l) + 1] /\ t[Len(l) + 1] \in LineFrame
    <2>1. PICK n : n = Len(l) + 1
      OBVIOUS
    <2>2. m[2 + n] = t[n] /\ t[n] \in LineFrame
      BY <1>3, <1>7, <2>1, ElementOfSeq DEF Carries
    <2> QED
      BY <1>7, <2>1, <2>2
  <1>9. PICK w : w = Append(l, m[k + 1])
    OBVIOUS
  <1>10. /\ w \in Seq(LineFrame) /\ Len(w) = Len(l) + 1
         /\ \A i \in 1..Len(l) : w[i] = l[i]
         /\ w[Len(l) + 1] = t[Len(l) + 1]
    BY <1>3, <1>8, <1>9, AppendProperties
  <1> DEFINE r == [msg |-> m, pos |-> k + 1]
             u == [cur[p] EXCEPT !.lines = w]
  <1>11. /\ rd' = [rd EXCEPT ![p] = r] /\ UNCHANGED box
         /\ cur' = [cur EXCEPT ![p] = u]
         /\ UNCHANGED <<files, broker, slots, sq, got, due>>
    <2>1. cur' = [cur EXCEPT ![p].lines = Append(@, m[k + 1])]
      BY <1>5 DEF RecvConfBody
    <2>2. cur' = [cur EXCEPT ![p] = u]
      BY <1>1, <1>2, <1>9, <2>1 DEF ReadInv, Reading
    <2> QED
      BY <1>1, <1>5, <1>6, <2>2 DEF RecvConfBody, Recv
  <1>12. cur[p] \in Reading /\ m \in Seq(Frame) /\ k + 1 \in Nat /\ w \in Seq(Frame)
    BY <1>1, <1>3, <1>4, <1>10, FrameKinds DEF ReadInv, Carries
  <1>13. r \in Begun /\ r.msg = m /\ r.pos = k + 1
    BY <1>12 DEF Begun
  <1>14. u \in Reading /\ u.name = cur[p].name /\ u.lines = w
    BY <1>12 DEF Reading
  <1> HIDE DEF r, u
  <1>15. \A i \in 1..Len(w) : w[i] = t[i]
    <2>1. \A i \in 1..Len(w) : i \in 1..Len(l) \/ i = Len(l) + 1
      BY <1>4, <1>10
    <2> QED
      BY <1>3, <1>10, <2>1
  <1>16. r.pos = Len(u.lines) + 2 /\ Len(u.lines) <= Len(t)
    BY <1>3, <1>4, <1>7, <1>10, <1>13, <1>14
  <1>17. HalfRead(r, u, SvcOf[p])
    BY <1>3, <1>10, <1>13, <1>14, <1>15, <1>16 DEF HalfRead
  <1> QED
    BY <1>1, <1>2, <1>11, <1>13, <1>14, <1>17

\* When it gets the last frame, all of the message's text was read.
LEMMA EndValue ==
    ASSUME ReadInv, NEW p \in Proc, RecvConfEnd(p)
    PROVE  /\ cur[p] # NULL /\ rd[p] # NULL
           /\ \E c \in Conf, t \in Seq(LineFrame) :
                /\ Carries(rd[p].msg, 2, c, t) /\ GoodText(SvcOf[p], c, t)
                /\ cur[p].name = F("name", c)
                /\ got' = [got EXCEPT ![p][c] = t]
           /\ rd' = [rd EXCEPT ![p] = NULL] /\ cur' = [cur EXCEPT ![p] = NULL]
           /\ UNCHANGED <<files, broker, slots, sq, box, due>>
  <1>1. cur[p] # NULL /\ rd[p] # NULL /\ HalfRead(rd[p], cur[p], SvcOf[p])
    BY DEF RecvConfEnd, ReadInv
  <1>2. PICK m, k, l : m = rd[p].msg /\ k = rd[p].pos /\ l = cur[p].lines
    OBVIOUS
  <1>3. PICK c \in Conf, t \in Seq(LineFrame) :
          /\ Carries(m, 2, c, t) /\ GoodText(SvcOf[p], c, t)
          /\ cur[p].name = F("name", c) /\ l \in Seq(LineFrame)
          /\ k = Len(l) + 2 /\ Len(l) <= Len(t)
          /\ \A i \in 1..Len(l) : l[i] = t[i]
    BY <1>1, <1>2 DEF HalfRead
  <1>4. Len(m) = 2 + Len(t) + 1 /\ Len(t) \in Nat /\ Len(l) \in Nat
    BY <1>3, LenProperties DEF Carries
  <1>5. Left(p) = Len(m) - k
    BY <1>1, <1>2 DEF From, Left
  <1>6. Left(p) = 1 /\ Recv(p, 1)
    BY <1>1 DEF RecvConfEnd, CanRead
  <1>7. l = t
    <2>1. Len(l) = Len(t)
      BY <1>3, <1>4, <1>5, <1>6
    <2> QED
      BY <1>3, <2>1, SeqEqual
  <1>8. rd' = [rd EXCEPT ![p] = NULL] /\ UNCHANGED box
    BY <1>1, <1>6 DEF Recv
  <1>9. F("name", c).v = c
    BY DEF F
  <1>10. got' = [got EXCEPT ![p][c] = t]
    BY <1>2, <1>3, <1>7, <1>9 DEF RecvConfEnd
  <1> QED
    BY <1>1, <1>2, <1>3, <1>8, <1>10 DEF RecvConfEnd

-----------------------------------------------------------------------------
(* The invariant is kept.                                                  *)

LEMMA NextFile == ASSUME MsgInv, [Next]_vars PROVE FileInv'
  <1> USE DEF MsgInv
  <1>1. ASSUME NEW f \in File, WriteStart(f) PROVE FileInv'
    <2>1. disk' = [disk EXCEPT ![f] = <<>>] /\ TextIn(f, <<>>)
      BY <1>1, EmptyText DEF WriteStart
    <2>2. <<>> \in Seq(LineFrame) /\ <<>> # NULL
      BY <2>1, NullType DEF TextIn
    <2>3. disk' \in [File -> Seq(LineFrame) \cup {NULL}] /\ \A g \in File : disk'[g] # NULL => TextIn(g, disk'[g])
      BY <2>1, <2>2 DEF FileInv
    <2>4. \A g \in File : disk[g] # NULL => disk'[g] # NULL
      BY <2>1, <2>2 DEF FileInv
    <2>5. /\ writing' = [writing EXCEPT ![f] = last + 1] /\ last + 1 \in Version /\ f \notin Moved
          /\ last' = last + 1 /\ kq' = kq /\ disk'[f] # NULL
      BY <1>1, <2>1, <2>2 DEF WriteStart, FileInv
    <2> QED
      BY <2>3, <2>4, <2>5, VersionType DEF FileInv
  <1>2. ASSUME NEW f \in File, WriteLine(f) PROVE FileInv'
    <2>1. /\ writing[f] \in Version /\ disk[f] # NULL /\ f \notin Moved /\ TextIn(f, disk[f])
          /\ disk' = [disk EXCEPT ![f] = Append(disk[f], Line(f, writing[f]))]
          /\ UNCHANGED <<writing, last, kq>>
      BY <1>2 DEF WriteLine, FileInv
    <2>2. PICK a : a = Append(disk[f], Line(f, writing[f]))
      OBVIOUS
    <2>3. TextIn(f, a)
      BY <2>1, <2>2, AppendText
    <2>4. a \in Seq(LineFrame) /\ a # NULL /\ disk' = [disk EXCEPT ![f] = a]
      BY <2>1, <2>2, <2>3, NullType DEF TextIn
    <2> QED
      BY <2>1, <2>3, <2>4 DEF FileInv
  <1>3. ASSUME NEW f \in File, WriteClose(f) PROVE FileInv'
    <2>1. kq' \in Seq(Event)
      BY <1>3, NotifyType DEF WriteClose, FileInv
    <2> QED
      BY <1>3, <2>1 DEF WriteClose, FileInv
  <1>4. ASSUME NEW f \in File, Move(f) PROVE FileInv'
    <2>1. kq' \in Seq(Event)
      BY <1>4, NotifyType DEF Move, FileInv
    <2>2. PICK t : t = Text(f, last + 1)
      OBVIOUS
    <2>3. TextIn(f, t) /\ t \in Seq(LineFrame) /\ t # NULL
      BY <1>4, <2>2, TextValue, NullType DEF Move, TextIn
    <2>4. disk' = [disk EXCEPT ![f] = t] /\ last' = last + 1 /\ writing' = writing
      BY <1>4, <2>2 DEF Move
    <2> QED
      BY <2>1, <2>3, <2>4 DEF FileInv
  <1>5. ASSUME NEW f \in File, Remove(f) PROVE FileInv'
    BY <1>5 DEF Remove, FileInv
  <1>6. ASSUME WatchCallback PROVE FileInv'
    <2>1. PICK n : /\ n = IF Len(kq) < CHUNK THEN Len(kq) ELSE CHUNK
                   /\ kq' = SubSeq(kq, n + 1, Len(kq))
      BY <1>6 DEF WatchCallback
    <2>2. kq' \in Seq(Event)
      <3>1. n \in 0..Len(kq) /\ kq \in Seq(Event)
        BY <1>6, <2>1, ChunkOf DEF WatchCallback, FileInv
      <3> QED
        BY <2>1, <3>1, SplitAt
    <2> QED
      BY <1>6, <2>2 DEF WatchCallback, FileInv
  <1>7. ASSUME UNCHANGED files PROVE FileInv'
    BY <1>7 DEF files, FileInv
  <1>8. ASSUME NEW f \in File, Crash(f) \/ Ignore(f) \/ OpenFails(f) \/ Open(f) PROVE FileInv'
    BY <1>7, <1>8 DEF Crash, Ignore, OpenFails, Open, Handles
  <1>9. ASSUME ReadLine \/ Publish PROVE FileInv'
    BY <1>7, <1>9 DEF ReadLine, Publish
  <1>10. ASSUME NEW s \in Svc, OpenSlot(s) \/ SlotHears(s) \/ SvcRelease(s) \/ RelaySub(s)
         PROVE FileInv'
    BY <1>7, <1>10 DEF OpenSlot, SlotHears, SvcRelease, RelaySub
  <1>11. ASSUME NEW p \in Proc, \/ Connect(p) \/ RecvConfName(p) \/ RecvConfNone(p)
                                \/ RecvConfBody(p) \/ RecvConfEnd(p)
         PROVE FileInv'
    BY <1>7, <1>11 DEF Connect, RecvConfName, RecvConfNone, RecvConfBody, RecvConfEnd, vars
  <1>12. ASSUME UNCHANGED vars PROVE FileInv'
    BY <1>7, <1>12 DEF vars
  <1> QED
    BY <1>1, <1>2, <1>3, <1>4, <1>5, <1>6, <1>8, <1>9, <1>10, <1>11, <1>12 DEF Next

LEMMA NextBatch == ASSUME MsgInv, [Next]_vars PROVE BatchInv'
  <1> USE DEF MsgInv
  <1>1. ASSUME UNCHANGED batch PROVE BatchInv'
    BY <1>1 DEF BatchInv
  <1>2. ASSUME batch # <<>>, batch' = Tail(batch) PROVE BatchInv'
    <2>1. CHUNK \in Nat
      BY ConfAssumption
    <2>2. Tail(batch) \in Seq(Event) /\ Len(Tail(batch)) = Len(batch) - 1 /\ Len(batch) \in Nat
      BY <1>2, HeadOf DEF BatchInv
    <2> QED
      BY <1>2, <2>1, <2>2 DEF BatchInv
  <1>3. ASSUME NEW f \in File, WriteStart(f) \/ WriteLine(f) \/ WriteClose(f) \/ Move(f) \/ Remove(f)
        PROVE  BatchInv'
    BY <1>1, <1>3 DEF WriteStart, WriteLine, WriteClose, Move, Remove, broker
  <1>4. ASSUME WatchCallback PROVE BatchInv'
    <2>1. PICK n : /\ n = IF Len(kq) < CHUNK THEN Len(kq) ELSE CHUNK
                   /\ batch' = SubSeq(kq, 1, n)
      BY <1>4 DEF WatchCallback
    <2>2. n \in 0..Len(kq) /\ n <= CHUNK /\ kq \in Seq(Event)
      BY <1>4, <2>1, ChunkOf DEF WatchCallback, FileInv
    <2> QED
      BY <2>1, <2>2, SplitAt DEF BatchInv
  <1>5. ASSUME NEW f \in File, Crash(f) \/ Open(f) PROVE BatchInv'
    BY <1>1, <1>5 DEF Crash, Open
  <1>6. ASSUME NEW f \in File, Ignore(f) \/ OpenFails(f) PROVE BatchInv'
    BY <1>2, <1>6 DEF Ignore, OpenFails, Handles
  <1>7. ASSUME ReadLine PROVE BatchInv'
    BY <1>1, <1>7 DEF ReadLine
  <1>8. ASSUME Publish PROVE BatchInv'
    BY <1>2, <1>8 DEF Publish, OpenInv
  <1>9. ASSUME NEW s \in Svc, OpenSlot(s) \/ SlotHears(s) \/ SvcRelease(s) \/ RelaySub(s)
        PROVE BatchInv'
    BY <1>1, <1>9 DEF OpenSlot, SlotHears, SvcRelease, RelaySub, broker
  <1>10. ASSUME NEW p \in Proc, \/ Connect(p) \/ RecvConfName(p) \/ RecvConfNone(p)
                                \/ RecvConfBody(p) \/ RecvConfEnd(p)
        PROVE BatchInv'
    BY <1>1, <1>10 DEF Connect, RecvConfName, RecvConfNone, RecvConfBody, RecvConfEnd, vars, broker
  <1>11. ASSUME UNCHANGED vars PROVE BatchInv'
    BY <1>1, <1>11 DEF vars, broker
  <1> QED
    BY <1>3, <1>4, <1>5, <1>6, <1>7, <1>8, <1>9, <1>10, <1>11 DEF Next

LEMMA NextOpen == ASSUME MsgInv, [Next]_vars PROVE OpenInv'
  <1> USE DEF MsgInv
  <1>1. ASSUME fp' = NULL PROVE OpenInv'
    BY <1>1 DEF OpenInv
  <1>2. ASSUME fp = NULL, UNCHANGED fp PROVE OpenInv'
    BY <1>2 DEF OpenInv
  <1>3. ASSUME UNCHANGED <<broker, slot>>,
               \A f \in File : /\ disk[f] # NULL => disk'[f] # NULL
                               /\ f \in Moved => disk'[f] = disk[f]
        PROVE OpenInv'
    <2> SUFFICES ASSUME fp # NULL PROVE OpenInv'
      BY <1>2, <1>3 DEF broker
    <2>1. fp' = fp /\ batch' = batch /\ alive' = alive /\ slot' = slot /\ fp.file \in File
      BY <1>3, ReadableText DEF broker
    <2>2. fp.file \in Moved => Readable' = Readable
      BY <1>3, <2>1 DEF Readable
    <2>3. /\ fp \in OpenFile
          /\ alive /\ batch # <<>> /\ fp.file = batch[1].file /\ FileSvc[fp.file] # NULL
          /\ \A s \in fp.to : slot[s] = "hears" /\ Heard(s, fp.file)
          /\ MsgBegun(fp.msg, fp.file)
          /\ fp.old # NULL => TextIn(fp.file, fp.old)
          /\ fp.old = NULL => disk[fp.file] # NULL
          /\ fp.file \in Moved => Sends(fp.msg, Readable)
      BY DEF OpenInv
    <2>4. fp.old = NULL => disk'[fp.file] # NULL
      BY <1>3, <2>1, <2>3
    <2>5. fp.file \in Moved => Sends(fp.msg, Readable')
      BY <2>2, <2>3
    <2> QED
      BY <2>1, <2>3, <2>4, <2>5 DEF OpenInv
  <1>4. ASSUME NEW f \in File, WriteStart(f) PROVE OpenInv'
    <2>1. <<>> # NULL
      <3>1. <<>> \in Seq(LineFrame)
        OBVIOUS
      <3> QED
        BY <3>1, NullType
    <2>2. disk' = [disk EXCEPT ![f] = <<>>] /\ f \notin Moved /\ UNCHANGED <<broker, slot>>
      BY <1>4 DEF WriteStart, slots
    <2> QED
      BY <1>3, <2>1, <2>2 DEF FileInv
  <1>5. ASSUME NEW f \in File, WriteLine(f) PROVE OpenInv'
    <2>1. f \notin Moved /\ disk[f] \in Seq(LineFrame) /\ writing[f] \in Version
      BY <1>5 DEF WriteLine, FileInv
    <2>2. PICK a : a = Append(disk[f], Line(f, writing[f]))
      OBVIOUS
    <2>3. a \in Seq(LineFrame)
      BY <2>1, <2>2, FrameKinds, AppendProperties
    <2>4. disk' = [disk EXCEPT ![f] = a] /\ a # NULL /\ UNCHANGED <<broker, slot>>
      BY <1>5, <2>2, <2>3, NullType DEF WriteLine, slots
    <2> QED
      BY <1>3, <2>1, <2>4 DEF FileInv
  <1>6. ASSUME NEW f \in File, WriteClose(f) PROVE OpenInv'
    BY <1>3, <1>6 DEF WriteClose, slots
  <1>7. ASSUME NEW f \in File, Move(f) \/ Remove(f) PROVE OpenInv'
    <2>1. /\ KeepsOld(f) /\ UNCHANGED <<batch, alive, slot>>
          /\ \A g \in File \ {f} : disk'[g] = disk[g]
      BY <1>7 DEF Move, Remove, FileInv, slots
    <2>2. CASE /\ fp # NULL /\ fp.file = f /\ fp.old = NULL
               /\ fp' \in OpenFile /\ fp' # NULL
               /\ fp'.file = f /\ fp'.msg = fp.msg /\ fp'.to = fp.to
               /\ fp'.old = disk[f] /\ disk[f] # NULL
      <3>1. Readable' = disk[f] /\ Readable = disk[f]
        BY <2>2 DEF Readable
      <3>2. TextIn(f, disk[f])
        BY <2>2 DEF FileInv
      <3>3. f \in Moved => Sends(fp'.msg, Readable')
        BY <2>2, <3>1 DEF OpenInv
      <3>4. \A s \in fp'.to : slot'[s] = "hears" /\ Heard(s, f)
        BY <2>1, <2>2 DEF OpenInv
      <3> QED
        BY <2>1, <2>2, <3>2, <3>3, <3>4 DEF OpenInv
    <2>3. CASE /\ fp' = fp
               /\ fp # NULL /\ fp.file = f => fp.old # NULL
      <3> SUFFICES ASSUME fp # NULL PROVE OpenInv'
        BY <1>2, <2>3
      <3>1. fp.file \in File
        BY ReadableText
      <3>2. Readable' = Readable
        BY <2>1, <2>3, <3>1 DEF Readable
      <3>3. fp.old = NULL => disk'[fp.file] # NULL
        BY <2>1, <2>3, <3>1 DEF OpenInv
      <3>4. \A s \in fp.to : slot'[s] = "hears" /\ Heard(s, fp.file)
        BY <2>1 DEF OpenInv
      <3> QED
        BY <2>1, <2>3, <3>2, <3>3, <3>4 DEF OpenInv
    <2> QED
      BY <2>1, <2>2, <2>3, KeepsOldValue
  <1>8. ASSUME WatchCallback PROVE OpenInv'
    BY <1>2, <1>8 DEF WatchCallback, OpenInv
  <1>9. ASSUME NEW f \in File, Crash(f) \/ Ignore(f) \/ OpenFails(f) PROVE OpenInv'
    BY <1>2, <1>9 DEF Crash, Ignore, OpenFails, Handles
  <1>10. ASSUME NEW f \in File, Open(f) PROVE OpenInv'
    <2>1. /\ fp' # NULL /\ fp'.file = f /\ fp'.old = NULL /\ fp' \in OpenFile
          /\ alive /\ batch # <<>> /\ f = batch[1].file /\ FileSvc[f] # NULL /\ disk[f] # NULL
          /\ \A s \in fp'.to : slot[s] = "hears" /\ Heard(s, f)
          /\ MsgBegun(fp'.msg, f) /\ \A t \in Seq(LineFrame) : Sends(fp'.msg, t)
          /\ UNCHANGED <<disk, batch, alive, slot>>
      BY <1>10, OpenValue DEF files, slots
    <2>2. Readable' = disk[f] /\ disk[f] \in Seq(LineFrame)
      BY <2>1 DEF Readable, FileInv
    <2>3. Sends(fp'.msg, Readable')
      BY <2>1, <2>2
    <2> QED
      BY <2>1, <2>3 DEF OpenInv
  <1>11. ASSUME ReadLine PROVE OpenInv'
    <2>1. /\ fp # NULL /\ fp' \in OpenFile /\ fp' # NULL
          /\ fp'.file = fp.file /\ fp'.old = fp.old /\ fp'.to = fp.to
          /\ MsgBegun(fp'.msg, fp.file) /\ Readable' = Readable
          /\ Sends(fp.msg, Readable) => Sends(fp'.msg, Readable)
          /\ UNCHANGED <<disk, batch, alive, slot>>
      BY <1>11, ReadLineValue DEF files, slots
    <2>2. fp.file \in Moved => Sends(fp'.msg, Readable')
      BY <2>1 DEF OpenInv
    <2> QED
      BY <2>1, <2>2 DEF OpenInv
  <1>12. ASSUME Publish PROVE OpenInv'
    BY <1>1, <1>12 DEF Publish
  <1>13. ASSUME NEW s \in Svc, OpenSlot(s) \/ SlotHears(s) PROVE OpenInv'
    <2>1. /\ slot[s] # "hears" /\ UNCHANGED <<broker, disk>>
          /\ \A r \in Svc \ {s} : slot'[r] = slot[r]
      BY <1>13 DEF OpenSlot, SlotHears, files, SlotInv
    <2> SUFFICES ASSUME fp # NULL PROVE OpenInv'
      BY <1>2, <2>1 DEF broker
    <2>2. fp.to \subseteq Svc
      BY DEF OpenInv, OpenFile
    <2>3. \A r \in fp.to : slot'[r] = "hears" /\ Heard(r, fp.file)
      BY <2>1, <2>2 DEF OpenInv
    <2>4. UNCHANGED <<fp, batch, alive, disk>> /\ Readable' = Readable
      BY <2>1 DEF Readable, broker
    <2> QED
      BY <2>3, <2>4 DEF OpenInv
  <1>14. ASSUME NEW s \in Svc, SvcRelease(s) PROVE OpenInv'
    <2>1. /\ UNCHANGED <<batch, alive, disk>> /\ slot' = [slot EXCEPT ![s] = "closed"]
          /\ fp' = IF fp = NULL THEN NULL ELSE [fp EXCEPT !.to = @ \ {s}]
      BY <1>14 DEF SvcRelease, files
    <2> SUFFICES ASSUME fp # NULL PROVE OpenInv'
      BY <1>2, <2>1
    <2>2. fp \in OpenFile /\ fp' = [fp EXCEPT !.to = @ \ {s}]
      BY <2>1 DEF OpenInv
    <2>3. /\ fp' \in OpenFile /\ fp'.file = fp.file /\ fp'.old = fp.old /\ fp'.msg = fp.msg
          /\ fp'.to = fp.to \ {s} /\ fp.to \subseteq Svc
      BY <2>2 DEF OpenFile
    <2>4. \A r \in fp'.to : slot'[r] = "hears" /\ Heard(r, fp.file)
      BY <2>1, <2>3 DEF OpenInv, SlotInv
    <2>5. Readable' = Readable
      BY <2>1, <2>3 DEF Readable
    <2> QED
      BY <2>1, <2>3, <2>4, <2>5 DEF OpenInv
  <1>15. ASSUME NEW s \in Svc, RelaySub(s) PROVE OpenInv'
    BY <1>3, <1>15 DEF RelaySub, files, slots
  <1>16. ASSUME NEW p \in Proc, \/ Connect(p) \/ RecvConfName(p) \/ RecvConfNone(p)
                                \/ RecvConfBody(p) \/ RecvConfEnd(p)
         PROVE OpenInv'
    BY <1>3, <1>16 DEF Connect, RecvConfName, RecvConfNone, RecvConfBody, RecvConfEnd,
                       vars, files, slots
  <1>17. ASSUME UNCHANGED vars PROVE OpenInv'
    BY <1>3, <1>17 DEF vars, files, slots
  <1> QED
    BY <1>4, <1>5, <1>6, <1>7, <1>8, <1>9, <1>10, <1>11, <1>12, <1>13, <1>14, <1>15, <1>16, <1>17
       DEF Next

LEMMA NextSlot == ASSUME MsgInv, [Next]_vars PROVE SlotInv'
  <1> USE DEF MsgInv
  <1>1. ASSUME UNCHANGED slots, due' \in [Proc -> SUBSET File],
               \A p \in Proc : \A f \in due'[p] :
                  f \in due[p] \/ (InEffect(p) /\ Heard(SvcOf[p], f))
        PROVE SlotInv'
    BY <1>1 DEF SlotInv, slots, InEffect
  <1>2. ASSUME UNCHANGED <<slots, due>> PROVE SlotInv'
    <2>1. due' \in [Proc -> SUBSET File] /\ due' = due /\ UNCHANGED slots
      BY <1>2 DEF SlotInv
    <2> QED
      BY <1>1, <2>1
  <1>3. ASSUME NEW f \in File, WriteStart(f) \/ WriteLine(f) \/ Remove(f) PROVE SlotInv'
    BY <1>2, <1>3 DEF WriteStart, WriteLine, Remove
  <1>4. ASSUME NEW f \in File, WriteClose(f) \/ Move(f) PROVE SlotInv'
    <2>1. Changed(f) /\ UNCHANGED slots
      BY <1>4 DEF WriteClose, Move
    <2>2. due' = [p \in Proc |->
                    IF InEffect(p) /\ Heard(SvcOf[p], f)
                    THEN {g \in due[p] : ConfOf[g] # ConfOf[f]} \cup {f} ELSE due[p]]
      BY <2>1 DEF Changed
    <2>3. due \in [Proc -> SUBSET File]
      BY DEF SlotInv
    <2>4. due' \in [Proc -> SUBSET File]
      BY <2>2, <2>3
    <2>5. \A p \in Proc : \A g \in due'[p] :
             g \in due[p] \/ (InEffect(p) /\ Heard(SvcOf[p], g))
      BY <2>2
    <2> QED
      BY <1>1, <2>1, <2>4, <2>5
  <1>5. ASSUME WatchCallback \/ ReadLine \/ Publish PROVE SlotInv'
    BY <1>2, <1>5 DEF WatchCallback, ReadLine, Publish
  <1>6. ASSUME NEW f \in File, Crash(f) \/ Ignore(f) \/ OpenFails(f) PROVE SlotInv'
    BY <1>2, <1>6 DEF Crash, Ignore, OpenFails, Handles
  <1>7. ASSUME NEW f \in File, Open(f) PROVE SlotInv'
    <2>1. /\ UNCHANGED slots /\ due' \in [Proc -> SUBSET File]
          /\ \A p \in Proc : due'[p] \subseteq due[p]
      BY <1>7, OpenValue
    <2> QED
      BY <1>1, <2>1
  <1>8. ASSUME NEW s \in Svc, OpenSlot(s) \/ SlotHears(s) PROVE SlotInv'
    <2>1. /\ UNCHANGED <<releases, conn, due>> /\ slot[s] # "hears"
          /\ \E x \in {"open", "hears"} : slot' = [slot EXCEPT ![s] = x]
      BY <1>8 DEF OpenSlot, SlotHears
    <2>2. \A p \in Proc : InEffect(p) => InEffect(p)'
      BY <2>1, ConfAssumption DEF SlotInv, InEffect
    <2>3. \A p \in conn : slot'[SvcOf[p]] # "closed"
      BY <2>1, ConfAssumption DEF SlotInv
    <2> QED
      BY <2>1, <2>2, <2>3 DEF SlotInv
  <1>9. ASSUME NEW s \in Svc, SvcRelease(s) PROVE SlotInv'
    <2>1. /\ releases < MaxReleases /\ releases' = releases + 1
          /\ slot' = [slot EXCEPT ![s] = "closed"]
          /\ conn' = conn \ {p \in conn : SvcOf[p] = s}
          /\ due' = [p \in Proc |-> IF SvcOf[p] = s THEN {} ELSE due[p]]
      BY <1>9 DEF SvcRelease, Reached
    <2>2. MaxReleases \in Nat /\ SvcOf \in [Proc -> Svc]
      BY ConfAssumption
    <2>3. \A p \in Proc : SvcOf[p] # s => (InEffect(p) => InEffect(p)')
      BY <2>1, <2>2 DEF SlotInv, InEffect
    <2>4. due' \in [Proc -> SUBSET File] /\ \A p \in Proc : \A f \in due'[p] :
             InEffect(p)' /\ Heard(SvcOf[p], f)
      BY <2>1, <2>3 DEF SlotInv
    <2>5. \A p \in conn' : slot'[SvcOf[p]] # "closed"
      BY <2>1, <2>2 DEF SlotInv
    <2>6. /\ slot' \in [Svc -> {"closed", "open", "hears"}] /\ releases' \in 0..MaxReleases
          /\ conn' \subseteq Proc
      BY <2>1, <2>2 DEF SlotInv
    <2> QED
      BY <2>4, <2>5, <2>6 DEF SlotInv
  <1>10. ASSUME NEW s \in Svc, RelaySub(s) PROVE SlotInv'
    <2>1. PICK full \in SUBSET Reached(s) :
             due' = [p \in Proc |-> IF p \in full
                       THEN {f \in due[p] : F("name", ConfOf[f]) # Head(sq[s])[3]} ELSE due[p]]
      BY <1>10 DEF RelaySub
    <2>2. due' \in [Proc -> SUBSET File] /\ \A p \in Proc : due'[p] \subseteq due[p]
      BY <2>1 DEF SlotInv
    <2>3. UNCHANGED slots
      BY <1>10 DEF RelaySub
    <2> QED
      BY <1>1, <2>2, <2>3
  <1>11. ASSUME NEW p \in Proc, Connect(p) PROVE SlotInv'
    <2>1. conn' = conn \cup {p} /\ slot[SvcOf[p]] # "closed" /\ UNCHANGED <<slot, releases, due>>
      BY <1>11 DEF Connect
    <2> QED
      BY <2>1 DEF SlotInv, InEffect
  <1>12. ASSUME NEW p \in Proc, RecvConfName(p) \/ RecvConfNone(p) \/ RecvConfBody(p) \/ RecvConfEnd(p)
         PROVE SlotInv'
    BY <1>2, <1>12 DEF RecvConfName, RecvConfNone, RecvConfBody, RecvConfEnd, vars
  <1>13. ASSUME UNCHANGED vars PROVE SlotInv'
    BY <1>2, <1>13 DEF vars
  <1> QED
    BY <1>3, <1>4, <1>5, <1>6, <1>7, <1>8, <1>9, <1>10, <1>11, <1>12, <1>13 DEF Next

LEMMA NextQueue == ASSUME MsgInv, [Next]_vars PROVE QueueInv'
  <1> USE DEF MsgInv
  <1>1. ASSUME UNCHANGED <<sq, box>> PROVE QueueInv'
    BY <1>1 DEF QueueInv
  <1>2. ASSUME NEW f \in File, WriteStart(f) \/ WriteLine(f) \/ WriteClose(f) \/ Move(f) \/ Remove(f)
        PROVE  QueueInv'
    BY <1>1, <1>2 DEF WriteStart, WriteLine, WriteClose, Move, Remove
  <1>3. ASSUME WatchCallback \/ ReadLine PROVE QueueInv'
    BY <1>1, <1>3 DEF WatchCallback, ReadLine
  <1>4. ASSUME NEW f \in File, Crash(f) \/ Ignore(f) \/ OpenFails(f) \/ Open(f) PROVE QueueInv'
    BY <1>1, <1>4 DEF Crash, Ignore, OpenFails, Open, Handles
  <1>5. ASSUME Publish PROVE QueueInv'
    <2>1. fp # NULL /\ UNCHANGED box
      BY <1>5, PublishValue
    <2>2. PICK m, t :
             /\ Carries(m, 3, ConfOf[fp.file], t)
             /\ \A i \in 1..Len(t) : \E v \in Version : t[i] = Line(fp.file, v)
             /\ Sends(fp.msg, Readable) => t = Readable
             /\ sq' = [s \in Svc |-> IF s \in fp.to THEN Append(sq[s], m) ELSE sq[s]]
      BY <1>5, PublishValue
    <2>3. \A s \in fp.to : GoodMsg(m, 3, s)
      BY <2>1, <2>2, PublishGood
    <2>4. \A s \in Svc : AllGood(sq'[s], 3, s)
      BY <2>2, <2>3, GoodAppend DEF QueueInv
    <2>5. sq' \in [Svc -> Seq(Seq(Frame))]
      <3>1. \A s \in Svc : sq'[s] \in Seq(Seq(Frame))
        BY <2>4 DEF AllGood
      <3> QED
        BY <2>2, <3>1
    <2> QED
      BY <2>1, <2>4, <2>5 DEF QueueInv
  <1>6. ASSUME NEW s \in Svc, OpenSlot(s) \/ SlotHears(s) PROVE QueueInv'
    BY <1>1, <1>6 DEF OpenSlot, SlotHears
  <1>7. ASSUME NEW s \in Svc, SvcRelease(s) PROVE QueueInv'
    <2>1. sq' = [sq EXCEPT ![s] = <<>>]
      BY <1>7 DEF SvcRelease
    <2>2. PICK kept \in [Proc -> {0} \cup UNION {DOMAIN box[p] : p \in Proc}] :
             box' = [p \in Proc |-> IF p \in Reached(s) /\ kept[p] < Len(box[p])
                                    THEN SubSeq(box[p], 1, kept[p]) ELSE box[p]]
      BY <1>7 DEF SvcRelease
    <2>3. AllGood(<<>>, 3, s) /\ <<>> \in Seq(Seq(Frame))
      <3>1. <<>> \in Seq(Seq(Frame)) /\ Len(<<>>) = 0
        OBVIOUS
      <3> QED
        BY <3>1 DEF AllGood
    <2>4. sq' \in [Svc -> Seq(Seq(Frame))] /\ \A r \in Svc : AllGood(sq'[r], 3, r)
      BY <2>1, <2>3 DEF QueueInv
    <2>5. \A p \in Proc : AllGood(box'[p], 2, SvcOf[p])
      <3>1. \A p \in Proc : DOMAIN box[p] = 1..Len(box[p])
        BY LenProperties DEF QueueInv
      <3>2. \A p \in Proc : kept[p] \in Nat
        <4>1. \A p \in Proc : kept[p] = 0 \/ \E r \in Proc : kept[p] \in DOMAIN box[r]
          BY <2>2
        <4>2. \A r \in Proc : Len(box[r]) \in Nat
          BY LenProperties DEF QueueInv
        <4> QED
          BY <3>1, <4>1, <4>2
      <3>3. ASSUME NEW p \in Proc, kept[p] < Len(box[p])
            PROVE  AllGood(SubSeq(box[p], 1, kept[p]), 2, SvcOf[p])
        BY <3>2, <3>3, GoodPrefix DEF QueueInv
      <3> QED
        BY <2>2, <3>3 DEF QueueInv
    <2>6. box' \in [Proc -> Seq(Seq(Frame))]
      <3>1. \A p \in Proc : box'[p] \in Seq(Seq(Frame))
        BY <2>5 DEF AllGood
      <3> QED
        BY <2>2, <3>1
    <2> QED
      BY <2>4, <2>5, <2>6 DEF QueueInv
  <1>8. ASSUME NEW s \in Svc, RelaySub(s) PROVE QueueInv'
    <2>1. sq[s] # <<>> /\ sq' = [sq EXCEPT ![s] = Tail(sq[s])] /\ AllGood(sq[s], 3, s)
      BY <1>8 DEF RelaySub, QueueInv
    <2>2. PICK full \in SUBSET Reached(s) :
             box' = [p \in Proc |-> IF p \in Reached(s) \ full
                       THEN Append(box[p], Tail(Head(sq[s]))) ELSE box[p]]
      BY <1>8 DEF RelaySub
    <2>3. AllGood(Tail(sq[s]), 3, s) /\ GoodMsg(Head(sq[s]), 3, s)
      BY <2>1, GoodTail
    <2>4. GoodMsg(Tail(Head(sq[s])), 2, s)
      BY <2>3, RelayGood
    <2>5. sq' \in [Svc -> Seq(Seq(Frame))] /\ \A r \in Svc : AllGood(sq'[r], 3, r)
      <3>1. Tail(sq[s]) \in Seq(Seq(Frame))
        BY <2>3 DEF AllGood
      <3> QED
        BY <2>1, <2>3, <3>1 DEF QueueInv
    <2>6. \A p \in Proc : AllGood(box'[p], 2, SvcOf[p])
      <3>1. \A p \in Reached(s) : SvcOf[p] = s
        BY DEF Reached
      <3>2. PICK m : m = Tail(Head(sq[s]))
        OBVIOUS
      <3>3. \A p \in Proc : p \in Reached(s) => AllGood(Append(box[p], m), 2, SvcOf[p])
        BY <2>4, <3>1, <3>2, GoodAppend DEF QueueInv
      <3> QED
        BY <2>2, <3>2, <3>3 DEF QueueInv
    <2>7. box' \in [Proc -> Seq(Seq(Frame))]
      <3>1. \A p \in Proc : box'[p] \in Seq(Seq(Frame))
        BY <2>6 DEF AllGood
      <3> QED
        BY <2>2, <3>1
    <2> QED
      BY <2>5, <2>6, <2>7 DEF QueueInv
  <1>9. ASSUME NEW p \in Proc, RecvConfName(p) PROVE QueueInv'
    <2>1. /\ box' = [box EXCEPT ![p] = Tail(box[p])] /\ AllGood(Tail(box[p]), 2, SvcOf[p])
          /\ UNCHANGED sq
      BY <1>9, NameValue
    <2>2. Tail(box[p]) \in Seq(Seq(Frame))
      BY <2>1 DEF AllGood
    <2> QED
      BY <2>1, <2>2 DEF QueueInv
  <1>10. ASSUME NEW p \in Proc, RecvConfBody(p) \/ RecvConfEnd(p) PROVE QueueInv'
    BY <1>1, <1>10, BodyValue, EndValue
  <1>11. ASSUME NEW p \in Proc, Connect(p) \/ RecvConfNone(p) PROVE QueueInv'
    BY <1>1, <1>11 DEF Connect, RecvConfNone, vars
  <1>12. ASSUME UNCHANGED vars PROVE QueueInv'
    BY <1>1, <1>12 DEF vars
  <1> QED
    BY <1>2, <1>3, <1>4, <1>5, <1>6, <1>7, <1>8, <1>9, <1>10, <1>11, <1>12 DEF Next

LEMMA NextRead == ASSUME MsgInv, [Next]_vars PROVE ReadInv' /\ GotInv'
  <1> USE DEF MsgInv
  <1>1. ASSUME UNCHANGED procs PROVE ReadInv' /\ GotInv'
    BY <1>1 DEF ReadInv, GotInv, procs
  <1>2. ASSUME NEW p \in Proc, NEW r \in Begun, NEW u \in Reading, HalfRead(r, u, SvcOf[p]),
               rd' = [rd EXCEPT ![p] = r], cur' = [cur EXCEPT ![p] = u], UNCHANGED got
        PROVE  ReadInv' /\ GotInv'
    <2>1. r # NULL /\ u # NULL
      BY NullType
    <2> QED
      BY <1>2, <2>1 DEF ReadInv, GotInv
  <1>3. ASSUME NEW f \in File, WriteStart(f) \/ WriteLine(f) \/ WriteClose(f) \/ Move(f) \/ Remove(f)
        PROVE  ReadInv' /\ GotInv'
    BY <1>1, <1>3 DEF WriteStart, WriteLine, WriteClose, Move, Remove
  <1>4. ASSUME WatchCallback \/ ReadLine \/ Publish PROVE ReadInv' /\ GotInv'
    BY <1>1, <1>4 DEF WatchCallback, ReadLine, Publish
  <1>5. ASSUME NEW f \in File, Crash(f) \/ Ignore(f) \/ OpenFails(f) \/ Open(f)
        PROVE  ReadInv' /\ GotInv'
    BY <1>1, <1>5 DEF Crash, Ignore, OpenFails, Open, Handles
  <1>6. ASSUME NEW s \in Svc, OpenSlot(s) \/ SlotHears(s) \/ SvcRelease(s) \/ RelaySub(s)
        PROVE  ReadInv' /\ GotInv'
    BY <1>1, <1>6 DEF OpenSlot, SlotHears, SvcRelease, RelaySub
  <1>7. ASSUME NEW p \in Proc, RecvConfName(p) \/ RecvConfBody(p) PROVE ReadInv' /\ GotInv'
    <2>1. UNCHANGED got /\ \E r \in Begun, u \in Reading :
             /\ rd' = [rd EXCEPT ![p] = r] /\ cur' = [cur EXCEPT ![p] = u]
             /\ HalfRead(r, u, SvcOf[p])
      BY <1>7, NameValue, BodyValue
    <2> QED
      BY <1>2, <2>1
  <1>8. ASSUME NEW p \in Proc, RecvConfEnd(p) PROVE ReadInv' /\ GotInv'
    <2>1. PICK c \in Conf, t \in Seq(LineFrame) :
             GoodText(SvcOf[p], c, t) /\ got' = [got EXCEPT ![p][c] = t]
      BY <1>8, EndValue
    <2>2. rd' = [rd EXCEPT ![p] = NULL] /\ cur' = [cur EXCEPT ![p] = NULL]
      BY <1>8, EndValue
    <2>3. ReadInv'
      BY <2>2 DEF ReadInv
    <2>4. /\ got' \in [Proc -> [Conf -> Seq(LineFrame) \cup {NULL}]]
          /\ \A q \in Proc, d \in Conf :
                got'[q][d] = IF q = p /\ d = c THEN t ELSE got[q][d]
      BY <2>1 DEF GotInv
    <2>5. GotInv'
      BY <2>1, <2>4 DEF GotInv
    <2> QED
      BY <2>3, <2>5
  <1>9. ASSUME NEW p \in Proc, Connect(p) \/ RecvConfNone(p) PROVE ReadInv' /\ GotInv'
    BY <1>1, <1>9 DEF Connect, RecvConfNone, vars
  <1>10. ASSUME UNCHANGED vars PROVE ReadInv' /\ GotInv'
    BY <1>1, <1>10 DEF vars
  <1> QED
    BY <1>3, <1>4, <1>5, <1>6, <1>7, <1>8, <1>9, <1>10 DEF Next

THEOREM MsgInvariant == Spec => []MsgInv
  <1>1. MsgInv /\ [Next]_vars => MsgInv'
    BY NextFile, NextBatch, NextOpen, NextSlot, NextQueue, NextRead DEF MsgInv
  <1> QED
    BY <1>1, InitInv, PTL DEF Spec

-----------------------------------------------------------------------------
(* What it implies.                                                        *)

LEMMA TypeImplied == MsgInv => TypeOK
  <1> SUFFICES ASSUME MsgInv PROVE TypeOK
    OBVIOUS
  <1> USE DEF MsgInv
  <1>1. ASSUME NEW q, NEW k \in Nat \ {0}, NEW s, AllGood(q, k, s)
        PROVE  \A i \in 1..Len(q) : IsConf(q[i], k)
    <2> SUFFICES ASSUME NEW i \in 1..Len(q) PROVE IsConf(q[i], k)
      OBVIOUS
    <2>1. PICK m : m = q[i]
      OBVIOUS
    <2>2. PICK c \in Conf, t \in Seq(LineFrame) : Carries(m, k, c, t)
      BY <1>1, <2>1 DEF AllGood, GoodMsg
    <2> QED
      BY <2>1, <2>2, CarriesType
  <1>2. \A s \in Svc : \A i \in 1..Len(sq[s]) : IsConf(sq[s][i], 3)
    <2>1. 3 \in Nat \ {0}
      OBVIOUS
    <2> QED
      BY <1>1, <2>1 DEF QueueInv
  <1>3. \A p \in Proc : \A i \in 1..Len(box[p]) : IsConf(box[p][i], 2)
    <2>1. 2 \in Nat \ {0}
      OBVIOUS
    <2> QED
      BY <1>1, <2>1 DEF QueueInv
  <1>4. /\ \A i \in 1..Len(kq) : kq[i] \in Event
        /\ Len(batch) <= CHUNK /\ \A i \in 1..Len(batch) : batch[i] \in Event
    BY ElementOfSeq DEF FileInv, BatchInv
  <1>5. fp # NULL => /\ alive /\ batch # <<>> /\ fp.file = batch[1].file /\ fp.msg \in Seq(Frame)
                     /\ \A s \in fp.to : slot[s] = "hears" /\ Heard(s, fp.file)
    BY DEF OpenInv, MsgBegun
  <1>6. /\ slot \in [Svc -> {"closed", "open", "hears"}] /\ releases \in 0..MaxReleases
        /\ \A p \in Proc : /\ p \in conn => slot[SvcOf[p]] # "closed"
                           /\ due[p] # {} => InEffect(p)
    BY DEF SlotInv
  <1>7. disk \in [File -> Seq(LineFrame) \cup {NULL}] /\ writing \in [File -> Version \cup {NULL}]
    BY DEF FileInv
  <1> QED
    BY <1>2, <1>3, <1>4, <1>5, <1>6, <1>7 DEF GotInv, TypeOK

\* State and messages are of the expected types; in particular what waits in a
\* queue is a whole configuration message.
THEOREM TypeCorrect == Spec => []TypeOK
  BY MsgInvariant, TypeImplied, PTL

\* A configuration whose files are only ever moved to the directory is read
\* whole, although versions replace each other while the broker reads.
THEOREM ReadWhole == Spec => []WholeVersion
  <1>1. MsgInv => WholeVersion
    BY DEF MsgInv, GotInv, GoodText, WholeVersion
  <1> QED
    BY <1>1, MsgInvariant, PTL

\* What a process reads under a name are lines of files of that name that it
\* hears, whatever slots, queues and processes lose in between.
THEOREM OwnLines == Spec => []OwnConf
  <1>1. ASSUME MsgInv PROVE OwnConf
    <2>1. \A p \in Proc : \A c \in Conf : got[p][c] # NULL => Own(SvcOf[p], c, got[p][c])
      BY <1>1 DEF MsgInv, GotInv, GoodText
    <2>2. ASSUME NEW p \in Proc, cur[p] # NULL
          PROVE  \E c \in Conf : cur[p].name = F("name", c) /\ Own(SvcOf[p], c, cur[p].lines)
      <3>1. HalfRead(rd[p], cur[p], SvcOf[p])
        BY <1>1, <2>2 DEF MsgInv, ReadInv
      <3>2. PICK c \in Conf, t \in Seq(LineFrame) :
              /\ GoodText(SvcOf[p], c, t)
              /\ cur[p].name = F("name", c) /\ cur[p].lines \in Seq(LineFrame)
              /\ Len(cur[p].lines) <= Len(t)
              /\ \A i \in 1..Len(cur[p].lines) : cur[p].lines[i] = t[i]
        BY <3>1 DEF HalfRead
      <3>3. \A i \in 1..Len(cur[p].lines) : i \in 1..Len(t)
        BY <3>2, LenProperties
      <3>4. Own(SvcOf[p], c, cur[p].lines)
        BY <3>2, <3>3 DEF GoodText, Own
      <3> QED
        BY <3>2, <3>4
    <2> QED
      BY <2>1, <2>2 DEF OwnConf
  <1> QED
    BY <1>1, MsgInvariant, PTL
=============================================================================
