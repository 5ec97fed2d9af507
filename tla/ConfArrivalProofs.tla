--------------------------- MODULE ConfArrivalProofs ---------------------------
(***************************************************************************)
(* A proof for any instance of ConfPublish that the last text of a file    *)
(* reaches every process that may count on it.  ArrivalInv says where the  *)
(* text is: its event waits (Pending), or it is read as it is in the       *)
(* directory (BeingRead), or it is the last of its name on the way to the  *)
(* process or there (Latest).                                              *)
(***************************************************************************)
EXTENDS ConfPublishProofs

-----------------------------------------------------------------------------
(* The last of a queue.                                                    *)

\* The last of queue q that is in Y is in X; none of it is in Y.
LastIn(q, Y, X) == \E i \in 1..Len(q) : q[i] \in X /\ \A j \in 1..Len(q) : j > i => q[j] \notin Y
NoneIn(q, Y)    == \A i \in 1..Len(q) : q[i] \notin Y

-----------------------------------------------------------------------------
(* Where the last text of a file is that a process may count on.           *)

\* Events of files that are file f's configuration to process p, of f itself;
\* messages that have configuration c's name in frame k, that carry text t.
Same(p, f)        == {g \in File : Names(SvcOf[p], g, ConfOf[f])}
Events(p, f)      == {e \in Event : e.file \in Same(p, f)}
EventsOf(f)       == {e \in Event : e.file = f}
Msgs(k, c)        == {m \in Seq(Frame) : m[k] = F("name", c)}
Messages(k, c, t) == {m \in Seq(Frame) : Carries(m, k, c, t)}

\* The events still to be handled, but for that of the file being published.
Rest == IF fp = NULL THEN batch ELSE Tail(batch)

\* The last event waits, and f is the file it is about.
Pending(p, f) ==
    \/ LastIn(kq, Events(p, f), EventsOf(f))
    \/ NoneIn(kq, Events(p, f)) /\ LastIn(Rest, Events(p, f), EventsOf(f))
NonePending(p, f) == NoneIn(kq, Events(p, f)) /\ NoneIn(Rest, Events(p, f))

\* It is being published as it is in the directory, to p's slot too.
BeingRead(p, f) ==
    /\ fp # NULL /\ fp.file = f /\ fp.old = NULL
    /\ SvcOf[p] \in fp.to /\ Sends(fp.msg, disk[f])

\* No file that is the same configuration to p is being published.
OtherRead(p, f) == fp # NULL => fp.file \notin Same(p, f)

\* The text p has or will have when it has read the message it reads.
InHand(p, f) ==
    IF cur[p] # NULL /\ cur[p].name = F("name", ConfOf[f])
    THEN Carries(rd[p].msg, 2, ConfOf[f], disk[f]) ELSE got[p][ConfOf[f]] = disk[f]

\* The last text that was published under f's name is f's.
SlotHas(p, f)  == LastIn(sq[SvcOf[p]], Msgs(3, ConfOf[f]), Messages(3, ConfOf[f], disk[f]))
SlotNone(p, f) == NoneIn(sq[SvcOf[p]], Msgs(3, ConfOf[f]))
BoxHas(p, f)   == LastIn(box[p], Msgs(2, ConfOf[f]), Messages(2, ConfOf[f], disk[f]))
BoxNone(p, f)  == NoneIn(box[p], Msgs(2, ConfOf[f]))
Latest(p, f) ==
    \/ SlotHas(p, f)
    \/ SlotNone(p, f) /\ BoxHas(p, f)
    \/ SlotNone(p, f) /\ BoxNone(p, f) /\ InHand(p, f)

Arrives(p, f) ==
    \/ Pending(p, f)
    \/ NonePending(p, f) /\ BeingRead(p, f)
    \/ NonePending(p, f) /\ OtherRead(p, f) /\ Latest(p, f)

Settled(f) == disk[f] # NULL /\ writing[f] = NULL

ArrivalInv == alive => \A p \in Proc : \A f \in due[p] : Settled(f) => Arrives(p, f)

LEMMA EmptyQueue == \A Y, X : NoneIn(<<>>, Y) /\ ~LastIn(<<>>, Y, X)
  <1>1. Len(<<>>) = 0
    OBVIOUS
  <1> QED
    BY <1>1 DEF NoneIn, LastIn

LEMMA AppendLast ==
    ASSUME NEW S, NEW q \in Seq(S), NEW e \in S, NEW Y, NEW X
    PROVE  /\ e \in X => LastIn(Append(q, e), Y, X)
           /\ e \notin Y /\ LastIn(q, Y, X) => LastIn(Append(q, e), Y, X)
           /\ e \notin Y /\ NoneIn(q, Y) => NoneIn(Append(q, e), Y)
  <1> DEFINE a == Append(q, e)
  <1>1. /\ Len(a) = Len(q) + 1 /\ Len(q) \in Nat
        /\ \A i \in 1..Len(q) : a[i] = q[i]
        /\ a[Len(q) + 1] = e
    BY AppendProperties, LenProperties
  <1> HIDE DEF a
  <1>2. /\ \A i \in 1..Len(a) : i \in 1..Len(q) \/ i = Len(q) + 1
        /\ \A i \in 1..Len(q) : i \in 1..Len(a)
        /\ Len(q) + 1 \in 1..Len(a) /\ \A i \in 1..Len(a) : ~(i > Len(q) + 1)
    BY <1>1
  <1>3. e \in X => LastIn(a, Y, X)
    <2>1. PICK n : n = Len(q) + 1
      OBVIOUS
    <2>2. n \in 1..Len(a) /\ a[n] = e /\ \A i \in 1..Len(a) : ~(i > n)
      BY <1>1, <1>2, <2>1
    <2> QED
      BY <2>2 DEF LastIn
  <1>4. ASSUME e \notin Y, LastIn(q, Y, X) PROVE LastIn(a, Y, X)
    <2>1. PICK i \in 1..Len(q) : q[i] \in X /\ \A j \in 1..Len(q) : j > i => q[j] \notin Y
      BY <1>4 DEF LastIn
    <2>2. i \in 1..Len(a) /\ a[i] \in X
      BY <1>1, <1>2, <2>1
    <2>3. \A j \in 1..Len(a) : j > i => a[j] \notin Y
      BY <1>1, <1>2, <1>4, <2>1
    <2> QED
      BY <2>2, <2>3 DEF LastIn
  <1>5. e \notin Y /\ NoneIn(q, Y) => NoneIn(a, Y)
    BY <1>1, <1>2 DEF NoneIn
  <1> QED
    BY <1>3, <1>4, <1>5 DEF a

LEMMA TailLast ==
    ASSUME NEW S, NEW q \in Seq(S), q # <<>>, NEW Y, NEW X
    PROVE  /\ q[1] \in S /\ Head(q) = q[1] /\ Tail(q) \in Seq(S)
           /\ LastIn(q, Y, X) => LastIn(Tail(q), Y, X) \/ (q[1] \in X /\ NoneIn(Tail(q), Y))
           /\ NoneIn(q, Y) => q[1] \notin Y /\ NoneIn(Tail(q), Y)
  <1> DEFINE t == Tail(q)
  <1>1. /\ Len(q) \in Nat \ {0} /\ Head(q) = q[1] /\ q[1] \in S
        /\ t \in Seq(S) /\ Len(t) = Len(q) - 1
        /\ \A i \in 1..Len(t) : t[i] = q[i + 1]
    BY HeadOf
  <1> HIDE DEF t
  <1>2. 1 \in 1..Len(q) /\ \A i \in 1..Len(t) : i + 1 \in 1..Len(q) /\ i + 1 > 1
    BY <1>1
  <1>3. ASSUME LastIn(q, Y, X) PROVE LastIn(t, Y, X) \/ (q[1] \in X /\ NoneIn(t, Y))
    <2>1. PICK i \in 1..Len(q) : q[i] \in X /\ \A j \in 1..Len(q) : j > i => q[j] \notin Y
      BY <1>3 DEF LastIn
    <2>2. CASE i = 1
      <3>1. \A j \in 1..Len(t) : t[j] \notin Y
        BY <1>1, <1>2, <2>1, <2>2
      <3> QED
        BY <2>1, <2>2, <3>1 DEF NoneIn
    <2>3. CASE i # 1
      <3>1. PICK n : n = i - 1
        OBVIOUS
      <3>2. n \in 1..Len(t) /\ n + 1 = i /\ \A j \in 1..Len(t) : j > n => j + 1 > i
        BY <1>1, <2>3, <3>1
      <3>3. t[n] \in X
        BY <1>1, <2>1, <3>2
      <3>4. \A j \in 1..Len(t) : j > n => t[j] \notin Y
        BY <1>1, <1>2, <2>1, <3>2
      <3> QED
        BY <3>2, <3>3, <3>4 DEF LastIn
    <2> QED
      BY <2>2, <2>3
  <1>4. NoneIn(q, Y) => q[1] \notin Y /\ NoneIn(t, Y)
    BY <1>1, <1>2 DEF NoneIn
  <1> QED
    BY <1>1, <1>3, <1>4 DEF t

LEMMA SplitLast ==
    ASSUME NEW S, NEW q \in Seq(S), NEW n \in 0..Len(q), NEW Y, NEW X
    PROVE  /\ LastIn(q, Y, X) => \/ LastIn(SubSeq(q, n + 1, Len(q)), Y, X)
                                 \/ /\ NoneIn(SubSeq(q, n + 1, Len(q)), Y)
                                    /\ LastIn(SubSeq(q, 1, n), Y, X)
           /\ NoneIn(q, Y) => /\ NoneIn(SubSeq(q, 1, n), Y)
                              /\ NoneIn(SubSeq(q, n + 1, Len(q)), Y)
  <1> DEFINE a == SubSeq(q, 1, n)
             b == SubSeq(q, n + 1, Len(q))
  <1>1. /\ Len(a) = n /\ \A i \in 1..n : a[i] = q[i]
        /\ Len(b) = Len(q) - n /\ \A i \in 1..(Len(q) - n) : b[i] = q[n + i]
    BY SplitAt
  <1> HIDE DEF a, b
  <1>2. PICK l \in Nat : l = Len(q)
    BY LenProperties
  <1>3. /\ n \in Nat /\ n <= l
        /\ \A i \in 1..n : i \in 1..l
        /\ \A i \in 1..(l - n) : n + i \in 1..l
    BY <1>2
  <1>4. ASSUME LastIn(q, Y, X) PROVE LastIn(b, Y, X) \/ (NoneIn(b, Y) /\ LastIn(a, Y, X))
    <2>1. PICK i \in 1..l : q[i] \in X /\ \A j \in 1..l : j > i => q[j] \notin Y
      BY <1>2, <1>4 DEF LastIn
    <2>2. CASE i <= n
      <3>1. i \in 1..n /\ \A j \in 1..(l - n) : n + j > i
        BY <1>3, <2>2
      <3>2. a[i] \in X /\ \A j \in 1..n : j > i => a[j] \notin Y
        BY <1>1, <1>3, <2>1, <3>1
      <3>3. \A j \in 1..(l - n) : b[j] \notin Y
        BY <1>1, <1>2, <1>3, <2>1, <3>1
      <3> QED
        BY <1>1, <1>2, <3>1, <3>2, <3>3 DEF LastIn, NoneIn
    <2>3. CASE i > n
      <3>1. PICK m : m = i - n
        OBVIOUS
      <3>2. m \in 1..(l - n) /\ n + m = i /\ \A j \in 1..(l - n) : j > m => n + j > i
        BY <1>3, <2>3, <3>1
      <3>3. b[m] \in X /\ \A j \in 1..(l - n) : j > m => b[j] \notin Y
        BY <1>1, <1>2, <1>3, <2>1, <3>2
      <3> QED
        BY <1>1, <1>2, <3>2, <3>3 DEF LastIn
    <2> QED
      BY <1>3, <2>2, <2>3
  <1>5. ASSUME NoneIn(q, Y) PROVE NoneIn(a, Y) /\ NoneIn(b, Y)
    <2>1. \A i \in 1..l : q[i] \notin Y
      BY <1>2, <1>5 DEF NoneIn
    <2> QED
      BY <1>1, <1>2, <1>3, <2>1 DEF NoneIn
  <1> QED
    BY <1>4, <1>5 DEF a, b

\* The event of a changed file is the last one.
LEMMA NotifyLast ==
    ASSUME kq \in Seq(Event), NEW g \in File, NEW mask \in {"close_write", "moved_to"},
           Notify(g, mask), NEW Y, NEW X
    PROVE  /\ LastIn(kq', Y, EventsOf(g))
           /\ (\A e \in Y : e.file # g) /\ LastIn(kq, Y, X) => LastIn(kq', Y, X)
           /\ (\A e \in Y : e.file # g) /\ NoneIn(kq, Y) => NoneIn(kq', Y)
  <1> DEFINE e == [file |-> g, mask |-> mask]
  <1>1. e \in Event /\ e.file = g /\ e \in EventsOf(g)
    BY DEF Event, EventsOf
  <1>2. kq' = IF kq # <<>> /\ kq[Len(kq)] = e THEN kq ELSE Append(kq, e)
    BY DEF Notify
  <1> HIDE DEF e
  <1>3. CASE kq # <<>> /\ kq[Len(kq)] = e
    <2>1. Len(kq) \in Nat \ {0}
      BY <1>3, EmptySeq
    <2>2. PICK n : n = Len(kq)
      OBVIOUS
    <2>3. n \in 1..Len(kq) /\ \A i \in 1..Len(kq) : ~(i > n)
      BY <2>1, <2>2
    <2>4. LastIn(kq, Y, EventsOf(g))
      BY <1>1, <1>3, <2>2, <2>3 DEF LastIn
    <2> QED
      BY <1>2, <1>3, <2>4
  <1>4. CASE ~(kq # <<>> /\ kq[Len(kq)] = e)
    BY <1>1, <1>2, <1>4, AppendLast
  <1> QED
    BY <1>3, <1>4

-----------------------------------------------------------------------------
(* Steps that do not move the text.                                        *)

LEMMA StaysPending ==
    ASSUME NEW p, NEW f, UNCHANGED <<kq, batch>>, (fp' = NULL) <=> (fp = NULL)
    PROVE  (Pending(p, f) => Pending(p, f)') /\ (NonePending(p, f) => NonePending(p, f)')
  <1>1. Rest' = Rest
    BY DEF Rest
  <1> QED
    BY <1>1 DEF Pending, NonePending

LEMMA StaysLatest ==
    ASSUME NEW p, NEW f, UNCHANGED <<sq, box, procs>>, disk'[f] = disk[f], Latest(p, f)
    PROVE  Latest(p, f)'
  <1>1. /\ SlotHas(p, f) => SlotHas(p, f)'
        /\ SlotNone(p, f) => SlotNone(p, f)'
        /\ BoxHas(p, f) => BoxHas(p, f)'
        /\ BoxNone(p, f) => BoxNone(p, f)'
    BY DEF SlotHas, SlotNone, BoxHas, BoxNone
  <1>2. InHand(p, f) => InHand(p, f)'
    BY DEF InHand, procs
  <1> QED
    BY <1>1, <1>2 DEF Latest

LEMMA StaysThere ==
    ASSUME NEW p, NEW f, UNCHANGED <<kq, batch, fp, sq, box, procs>>, disk'[f] = disk[f],
           Arrives(p, f)
    PROVE  Arrives(p, f)'
  <1>1. BeingRead(p, f) => BeingRead(p, f)'
    BY DEF BeingRead
  <1>2. OtherRead(p, f) => OtherRead(p, f)'
    BY DEF OtherRead
  <1>3. Latest(p, f) => Latest(p, f)'
    BY StaysLatest
  <1> QED
    BY <1>1, <1>2, <1>3, StaysPending DEF Arrives

\* What p may count on concerns it.
LEMMA DueOf ==
    ASSUME SlotInv, NEW p \in Proc, NEW f \in due[p]
    PROVE  /\ f \in File /\ InEffect(p) /\ Heard(SvcOf[p], f) /\ FileSvc[f] # NULL
           /\ f \in Same(p, f) /\ SvcOf[p] \in Svc /\ ConfOf[f] \in Conf
  <1>1. f \in File /\ InEffect(p) /\ Heard(SvcOf[p], f)
    BY DEF SlotInv
  <1> QED
    BY <1>1, ConfAssumption DEF Heard, Same, Names

-----------------------------------------------------------------------------
(* The directory.                                                          *)

\* After a change of f its event is the last one.
LEMMA ChangePending ==
    ASSUME MsgInv, NEW p, NEW f \in File, WriteClose(f) \/ Move(f)
    PROVE  Arrives(p, f)'
  <1>1. kq \in Seq(Event)
    BY DEF MsgInv, FileInv
  <1>2. \E mask \in {"close_write", "moved_to"} : Notify(f, mask)
    BY DEF WriteClose, Move
  <1>3. LastIn(kq', Events(p, f), EventsOf(f))
    BY <1>1, <1>2, NotifyLast
  <1>4. Pending(p, f)'
    BY <1>3 DEF Pending
  <1> QED
    BY <1>4 DEF Arrives

\* A change of another file is no change of f's configuration, which p would
\* otherwise not count on any more.
LEMMA OtherChange ==
    ASSUME MsgInv, NEW p \in Proc, NEW f \in due'[p], NEW g \in File, g # f,
           WriteClose(g) \/ Move(g)
    PROVE  f \in due[p] /\ g \notin Same(p, f)
  <1>1. due' = [q \in Proc |->
                  IF InEffect(q) /\ Heard(SvcOf[q], g)
                  THEN {h \in due[q] : ConfOf[h] # ConfOf[g]} \cup {g} ELSE due[q]]
    BY DEF WriteClose, Move, Changed
  <1>2. f \in due[p]
    BY <1>1
  <1>3. InEffect(p)
    BY <1>2, DueOf DEF MsgInv
  <1>4. Heard(SvcOf[p], g) => ConfOf[f] # ConfOf[g]
    BY <1>1, <1>3
  <1> QED
    BY <1>2, <1>4 DEF Same, Names

LEMMA OtherArrives ==
    ASSUME MsgInv, NEW p \in Proc, NEW f \in due'[p], NEW g \in File, g # f,
           WriteClose(g) \/ Move(g), Arrives(p, f)
    PROVE  Arrives(p, f)'
  <1>1. f \in due[p] /\ g \notin Same(p, f)
    BY OtherChange
  <1>2. \A e \in Events(p, f) : e.file # g
    BY <1>1 DEF Events
  <1>3. \E mask \in {"close_write", "moved_to"} : Notify(g, mask)
    BY DEF WriteClose, Move
  <1>4. /\ LastIn(kq, Events(p, f), EventsOf(f)) => LastIn(kq', Events(p, f), EventsOf(f))
        /\ NoneIn(kq, Events(p, f)) => NoneIn(kq', Events(p, f))
    <2>1. kq \in Seq(Event)
      BY DEF MsgInv, FileInv
    <2> QED
      BY <1>2, <1>3, <2>1, NotifyLast
  <1>5. \/ fp' = fp
        \/ fp # NULL /\ fp' # NULL /\ fp.file = g /\ fp'.file = g
    BY KeepsOldValue DEF WriteClose, Move, MsgInv, broker
  <1>6. UNCHANGED <<batch, sq, box, procs>> /\ disk'[f] = disk[f]
    <2>1. CASE WriteClose(g)
      BY <2>1 DEF WriteClose, broker
    <2>2. CASE Move(g)
      <3>1. disk' = [disk EXCEPT ![g] = Text(g, last + 1)] /\ f \in File
        BY <1>1, <2>2, DueOf DEF Move, MsgInv
      <3> QED
        BY <2>2, <3>1 DEF Move, MsgInv, FileInv
    <2> QED
      BY <2>1, <2>2
  <1>7. Rest' = Rest
    BY <1>5, <1>6 DEF Rest
  <1>8. (Pending(p, f) => Pending(p, f)') /\ (NonePending(p, f) => NonePending(p, f)')
    BY <1>4, <1>7 DEF Pending, NonePending
  <1>9. BeingRead(p, f) => BeingRead(p, f)'
    BY <1>5, <1>6 DEF BeingRead
  <1>10. OtherRead(p, f) => OtherRead(p, f)'
    BY <1>1, <1>5 DEF OtherRead
  <1>11. Latest(p, f) => Latest(p, f)'
    BY <1>6, StaysLatest
  <1> QED
    BY <1>8, <1>9, <1>10, <1>11 DEF Arrives

\* A file that is being written, or that is gone, is not settled.
LEMMA QuietChange ==
    ASSUME MsgInv, NEW p \in Proc, NEW f \in File, Settled(f)', NEW g \in File,
           WriteStart(g) \/ WriteLine(g) \/ Remove(g), Settled(f) => Arrives(p, f)
    PROVE  Arrives(p, f)'
  <1>1. g # f
    <2>1. \A v \in Version : v # NULL
      BY NullType
    <2> QED
      BY <2>1 DEF Settled, WriteStart, WriteLine, Remove, MsgInv, FileInv
  <1>2. disk'[f] = disk[f] /\ writing'[f] = writing[f] /\ UNCHANGED <<kq, batch, sq, box, procs>>
    BY <1>1 DEF WriteStart, WriteLine, Remove, MsgInv, FileInv, broker
  <1>3. Arrives(p, f)
    BY <1>2 DEF Settled
  <1>4. \/ fp' = fp
        \/ fp # NULL /\ fp' # NULL /\ fp.file = g /\ fp'.file = g
    BY KeepsOldValue DEF WriteStart, WriteLine, Remove, MsgInv, broker
  <1>5. BeingRead(p, f) => BeingRead(p, f)'
    BY <1>1, <1>2, <1>4 DEF BeingRead
  <1>6. OtherRead(p, f) => OtherRead(p, f)'
    BY <1>4 DEF OtherRead
  <1>7. Latest(p, f) => Latest(p, f)'
    BY <1>2, StaysLatest
  <1> QED
    BY <1>2, <1>3, <1>4, <1>5, <1>6, <1>7, StaysPending DEF Arrives

-----------------------------------------------------------------------------
(* The broker's router thread.                                             *)

LEMMA WatchArrives ==
    ASSUME MsgInv, NEW p \in Proc, NEW f \in File, WatchCallback, Arrives(p, f)
    PROVE  Arrives(p, f)'
  <1>1. fp = NULL /\ fp' = NULL /\ Rest = <<>> /\ Rest' = batch'
    BY DEF WatchCallback, MsgInv, OpenInv, Rest
  <1>2. PICK n : /\ n = IF Len(kq) < CHUNK THEN Len(kq) ELSE CHUNK
                 /\ batch' = SubSeq(kq, 1, n)
                 /\ kq' = SubSeq(kq, n + 1, Len(kq))
    BY DEF WatchCallback
  <1>3. n \in 0..Len(kq) /\ kq \in Seq(Event)
    BY <1>2, ChunkOf DEF WatchCallback, MsgInv, FileInv
  <1>4. \A Y, X : /\ LastIn(kq, Y, X) => LastIn(kq', Y, X) \/ (NoneIn(kq', Y) /\ LastIn(batch', Y, X))
                  /\ NoneIn(kq, Y) => NoneIn(batch', Y) /\ NoneIn(kq', Y)
    BY <1>2, <1>3, SplitLast
  <1>5. Pending(p, f) => Pending(p, f)'
    BY <1>1, <1>4, EmptyQueue DEF Pending
  <1>6. NonePending(p, f) => NonePending(p, f)'
    BY <1>1, <1>4 DEF NonePending
  <1>7. UNCHANGED <<disk, sq, box, procs>>
    BY DEF WatchCallback
  <1>8. ~BeingRead(p, f) /\ OtherRead(p, f)'
    BY <1>1 DEF BeingRead, OtherRead
  <1>9. Latest(p, f) => Latest(p, f)'
    BY <1>7, StaysLatest
  <1> QED
    BY <1>5, <1>6, <1>8, <1>9 DEF Arrives

\* The first event is handled: the last one was f's, or is one of the others.
LEMMA FirstEvent ==
    ASSUME MsgInv, NEW p \in Proc, NEW f \in File, batch # <<>>, fp = NULL, UNCHANGED kq,
           Rest' = Tail(batch)
    PROVE  /\ batch[1] \in Event
           /\ Pending(p, f) => Pending(p, f)' \/ (NonePending(p, f)' /\ batch[1].file = f)
           /\ NonePending(p, f) => NonePending(p, f)' /\ batch[1].file \notin Same(p, f)
  <1>1. batch \in Seq(Event) /\ Rest = batch
    BY DEF MsgInv, BatchInv, Rest
  <1>2. /\ batch[1] \in Event
        /\ \A Y, X :
            /\ LastIn(batch, Y, X) => LastIn(Tail(batch), Y, X)
                                         \/ (batch[1] \in X /\ NoneIn(Tail(batch), Y))
            /\ NoneIn(batch, Y) => batch[1] \notin Y /\ NoneIn(Tail(batch), Y)
    BY <1>1, TailLast
  <1>3. Pending(p, f) => Pending(p, f)' \/ (NonePending(p, f)' /\ batch[1].file = f)
    BY <1>1, <1>2 DEF Pending, NonePending, EventsOf
  <1>4. NonePending(p, f) => NonePending(p, f)' /\ batch[1].file \notin Same(p, f)
    BY <1>1, <1>2 DEF NonePending, Events
  <1> QED
    BY <1>2, <1>3, <1>4

LEMMA IgnoreArrives ==
    ASSUME MsgInv, NEW p \in Proc, NEW f \in due[p], Settled(f), NEW g \in File,
           Ignore(g) \/ OpenFails(g), Arrives(p, f)
    PROVE  Arrives(p, f)'
  <1>1. /\ batch # <<>> /\ fp = NULL /\ fp' = NULL /\ g = batch[1].file
        /\ FileSvc[g] = NULL \/ disk[g] = NULL
        /\ batch' = Tail(batch) /\ UNCHANGED <<files, sq, box, procs>>
    BY DEF Ignore, OpenFails, Handles
  <1>2. Rest' = Tail(batch) /\ UNCHANGED <<kq, disk>>
    BY <1>1 DEF Rest, files
  <1>3. f \in File /\ FileSvc[f] # NULL /\ disk[f] # NULL
    BY DueOf DEF MsgInv, Settled
  <1>4. ~BeingRead(p, f) /\ OtherRead(p, f)'
    BY <1>1 DEF BeingRead, OtherRead
  <1>5. Latest(p, f) => Latest(p, f)'
    BY <1>1, <1>2, StaysLatest
  <1> QED
    BY <1>1, <1>2, <1>3, <1>4, <1>5, FirstEvent DEF Arrives

LEMMA OpenArrives ==
    ASSUME MsgInv, NEW p \in Proc, NEW f \in due'[p], Settled(f), NEW g \in File,
           Open(g), Arrives(p, f)
    PROVE  Arrives(p, f)'
  <1>1. /\ batch # <<>> /\ fp = NULL /\ g = batch[1].file /\ fp' # NULL
        /\ fp'.file = g /\ fp'.old = NULL
        /\ \A t \in Seq(LineFrame) : Sends(fp'.msg, t)
        /\ UNCHANGED <<files, batch, alive, slots, sq, box, procs>>
        /\ f \in due[p]
        /\ \/ g \notin due'[p] \/ SvcOf[p] \in fp'.to
           \/ ~(slot[SvcOf[p]] = "hears" /\ Heard(SvcOf[p], g))
    BY OpenValue DEF MsgInv
  <1>2. Rest' = Tail(batch) /\ UNCHANGED <<kq, disk>>
    BY <1>1 DEF Rest, files
  <1>3. f \in File /\ InEffect(p) /\ Heard(SvcOf[p], f)
    BY <1>1, DueOf DEF MsgInv
  <1>4. g = f => BeingRead(p, f)'
    <2>1. disk[f] \in Seq(LineFrame)
      BY <1>3 DEF Settled, MsgInv, FileInv
    <2> QED
      BY <1>1, <1>2, <1>3, <2>1 DEF BeingRead, InEffect
  <1>5. ~BeingRead(p, f) /\ (g \notin Same(p, f) => OtherRead(p, f)')
    BY <1>1 DEF BeingRead, OtherRead
  <1>6. Latest(p, f) => Latest(p, f)'
    BY <1>1, <1>2, StaysLatest
  <1> QED
    BY <1>1, <1>2, <1>3, <1>4, <1>5, <1>6, FirstEvent DEF Arrives

LEMMA ReadLineArrives ==
    ASSUME MsgInv, NEW p \in Proc, NEW f \in File, ReadLine, Arrives(p, f)
    PROVE  Arrives(p, f)'
  <1>1. /\ fp # NULL /\ fp' # NULL
        /\ fp'.file = fp.file /\ fp'.old = fp.old /\ fp'.to = fp.to
        /\ Sends(fp.msg, Readable) => Sends(fp'.msg, Readable)
        /\ UNCHANGED <<files, batch, sq, box, procs>>
    BY ReadLineValue DEF MsgInv
  <1>2. UNCHANGED <<kq, disk>>
    BY <1>1 DEF files
  <1>3. BeingRead(p, f) => BeingRead(p, f)'
    BY <1>1, <1>2 DEF BeingRead, Readable
  <1>4. OtherRead(p, f) => OtherRead(p, f)'
    BY <1>1 DEF OtherRead
  <1>5. Latest(p, f) => Latest(p, f)'
    BY <1>1, <1>2, StaysLatest
  <1> QED
    BY <1>1, <1>2, <1>3, <1>4, <1>5, StaysPending DEF Arrives

LEMMA PublishArrives ==
    ASSUME MsgInv, NEW p \in Proc, NEW f \in due[p], Publish, Arrives(p, f)
    PROVE  Arrives(p, f)'
  <1>1. /\ fp # NULL /\ fp' = NULL /\ batch' = Tail(batch)
        /\ UNCHANGED <<files, alive, slots, box, procs, due>>
    BY PublishValue DEF MsgInv
  <1>2. PICK m, t :
          /\ Carries(m, 3, ConfOf[fp.file], t)
          /\ Sends(fp.msg, Readable) => t = Readable
          /\ sq' = [s \in Svc |-> IF s \in fp.to THEN Append(sq[s], m) ELSE sq[s]]
    BY PublishValue DEF MsgInv
  <1>3. Rest' = Rest /\ UNCHANGED <<kq, disk>>
    BY <1>1 DEF Rest, files
  <1>4. (Pending(p, f) => Pending(p, f)') /\ (NonePending(p, f) => NonePending(p, f)')
    BY <1>3 DEF Pending, NonePending
  <1>5. PICK s : s = SvcOf[p]
    OBVIOUS
  <1>6. s \in Svc /\ sq[s] \in Seq(Seq(Frame)) /\ m \in Seq(Frame)
    BY <1>2, <1>5, DueOf DEF MsgInv, QueueInv, Carries
  <1>7. PICK q, r : q = sq[s] /\ r = sq'[s]
    OBVIOUS
  <1>8. s \in fp.to => r = Append(q, m)
    BY <1>2, <1>6, <1>7
  <1>9. s \notin fp.to => r = q
    BY <1>2, <1>6, <1>7
  <1>10. \A Y, X : s \in fp.to =>
            /\ m \in X => LastIn(r, Y, X)
            /\ m \notin Y /\ LastIn(q, Y, X) => LastIn(r, Y, X)
            /\ m \notin Y /\ NoneIn(q, Y) => NoneIn(r, Y)
    <2> SUFFICES ASSUME s \in fp.to, NEW Y, NEW X
                 PROVE  /\ m \in X => LastIn(r, Y, X)
                        /\ m \notin Y /\ LastIn(q, Y, X) => LastIn(r, Y, X)
                        /\ m \notin Y /\ NoneIn(q, Y) => NoneIn(r, Y)
      OBVIOUS
    <2>1. q \in Seq(Seq(Frame)) /\ r = Append(q, m)
      BY <1>6, <1>7, <1>8
    <2> QED
      BY <1>6, <2>1, AppendLast
  <1>11. BeingRead(p, f) => SlotHas(p, f)'
    <2> SUFFICES ASSUME BeingRead(p, f) PROVE SlotHas(p, f)'
      OBVIOUS
    <2>1. fp.file = f /\ s \in fp.to /\ Readable = disk[f] /\ Sends(fp.msg, disk[f])
      BY <1>5 DEF BeingRead, Readable
    <2>2. m \in Messages(3, ConfOf[f], disk[f])
      BY <1>2, <1>6, <2>1 DEF Messages
    <2>3. LastIn(r, Msgs(3, ConfOf[f]), Messages(3, ConfOf[f], disk[f]))
      BY <1>10, <2>1, <2>2
    <2> QED
      BY <1>3, <1>5, <1>7, <2>3 DEF SlotHas
  <1>12. OtherRead(p, f) /\ Latest(p, f) => Latest(p, f)'
    <2> SUFFICES ASSUME OtherRead(p, f), Latest(p, f) PROVE Latest(p, f)'
      OBVIOUS
    <2>1. s \in fp.to => m \notin Msgs(3, ConfOf[f])
      <3> SUFFICES ASSUME s \in fp.to PROVE m \notin Msgs(3, ConfOf[f])
        OBVIOUS
      <3>1. Heard(s, fp.file) /\ fp.file \in File
        BY <1>1, ReadableText DEF MsgInv, OpenInv
      <3>2. ConfOf[fp.file] # ConfOf[f]
        BY <1>1, <1>5, <3>1 DEF OtherRead, Same, Names
      <3>3. m[3] = F("name", ConfOf[fp.file])
        BY <1>2 DEF Carries
      <3> QED
        BY <3>2, <3>3, FrameKinds DEF Msgs
    <2>2. /\ LastIn(q, Msgs(3, ConfOf[f]), Messages(3, ConfOf[f], disk[f]))
                => LastIn(r, Msgs(3, ConfOf[f]), Messages(3, ConfOf[f], disk[f]))
          /\ NoneIn(q, Msgs(3, ConfOf[f])) => NoneIn(r, Msgs(3, ConfOf[f]))
      BY <1>9, <1>10, <2>1
    <2>3. (SlotHas(p, f) => SlotHas(p, f)') /\ (SlotNone(p, f) => SlotNone(p, f)')
      BY <1>3, <1>5, <1>7, <2>2 DEF SlotHas, SlotNone
    <2>4. (BoxHas(p, f) => BoxHas(p, f)') /\ (BoxNone(p, f) => BoxNone(p, f)')
      BY <1>1, <1>3 DEF BoxHas, BoxNone
    <2>5. InHand(p, f) => InHand(p, f)'
      BY <1>1, <1>3 DEF InHand, procs
    <2> QED
      BY <2>3, <2>4, <2>5 DEF Latest
  <1>13. OtherRead(p, f)'
    BY <1>1 DEF OtherRead
  <1> QED
    BY <1>4, <1>11, <1>12, <1>13 DEF Arrives, Latest

-----------------------------------------------------------------------------
(* The broker's service thread.                                            *)

LEMMA ReleaseArrives ==
    ASSUME MsgInv, NEW p \in Proc, NEW f \in due'[p], NEW s \in Svc, SvcRelease(s), Arrives(p, f)
    PROVE  Arrives(p, f)'
  <1>1. SvcOf[p] # s /\ p \notin Reached(s)
    BY DEF SvcRelease, Reached
  <1>2. /\ sq' = [sq EXCEPT ![s] = <<>>]
        /\ fp' = IF fp = NULL THEN NULL ELSE [fp EXCEPT !.to = @ \ {s}]
        /\ UNCHANGED <<files, batch, alive, procs>>
    BY DEF SvcRelease
  <1>3. box'[p] = box[p]
    BY <1>1 DEF SvcRelease
  <1>4. sq'[SvcOf[p]] = sq[SvcOf[p]] /\ UNCHANGED <<kq, disk, rd, cur, got>>
    BY <1>1, <1>2, ConfAssumption DEF MsgInv, QueueInv, files, procs
  <1>5. /\ fp = NULL => fp' = NULL
        /\ fp # NULL => /\ fp' # NULL /\ fp'.file = fp.file /\ fp'.old = fp.old
                        /\ fp'.msg = fp.msg /\ fp'.to = fp.to \ {s}
    <2>1. ASSUME fp # NULL
          PROVE  /\ fp' \in OpenFile /\ fp'.file = fp.file /\ fp'.old = fp.old
                 /\ fp'.msg = fp.msg /\ fp'.to = fp.to \ {s}
      <3>1. fp \in OpenFile /\ fp' = [fp EXCEPT !.to = @ \ {s}]
        BY <1>2, <2>1 DEF MsgInv, OpenInv
      <3> QED
        BY <3>1 DEF OpenFile
    <2> QED
      BY <1>2, <2>1, NullType
  <1>6. BeingRead(p, f) => BeingRead(p, f)'
    BY <1>1, <1>4, <1>5 DEF BeingRead
  <1>7. OtherRead(p, f) => OtherRead(p, f)'
    BY <1>5 DEF OtherRead
  <1>8. (Pending(p, f) => Pending(p, f)') /\ (NonePending(p, f) => NonePending(p, f)')
    BY <1>2, <1>4, <1>5, StaysPending
  <1>9. /\ SlotHas(p, f) => SlotHas(p, f)'
        /\ SlotNone(p, f) => SlotNone(p, f)'
        /\ BoxHas(p, f) => BoxHas(p, f)'
        /\ BoxNone(p, f) => BoxNone(p, f)'
        /\ InHand(p, f) => InHand(p, f)'
    BY <1>3, <1>4 DEF SlotHas, SlotNone, BoxHas, BoxNone, InHand
  <1> QED
    BY <1>6, <1>7, <1>8, <1>9 DEF Arrives, Latest

LEMMA RelayLatest ==
    ASSUME MsgInv, NEW p \in Proc, NEW f \in due'[p], NEW s \in Svc, RelaySub(s), Latest(p, f)
    PROVE  Latest(p, f)'
  <1>1. PICK full \in SUBSET Reached(s) :
          /\ box' = [q \in Proc |-> IF q \in Reached(s) \ full
                       THEN Append(box[q], Tail(Head(sq[s]))) ELSE box[q]]
          /\ due' = [q \in Proc |-> IF q \in full
                       THEN {g \in due[q] : F("name", ConfOf[g]) # Head(sq[s])[3]} ELSE due[q]]
    BY DEF RelaySub
  <1>2. /\ sq[s] # <<>> /\ sq' = [sq EXCEPT ![s] = Tail(sq[s])]
        /\ UNCHANGED <<disk, procs>>
    BY DEF RelaySub, files
  <1>3. f \in due[p] /\ SvcOf[p] \in Svc /\ p \in conn /\ ConfOf[f] \in Conf
    BY <1>1, DueOf DEF MsgInv, InEffect
  <1>4. InHand(p, f) => InHand(p, f)'
    BY <1>2 DEF InHand, procs
  <1>5. CASE SvcOf[p] # s
    <2>1. sq'[SvcOf[p]] = sq[SvcOf[p]] /\ box'[p] = box[p]
      BY <1>1, <1>2, <1>3, <1>5 DEF MsgInv, QueueInv, Reached
    <2> QED
      BY <1>2, <1>4, <2>1 DEF Latest, SlotHas, SlotNone, BoxHas, BoxNone
  <1>6. CASE SvcOf[p] = s
    <2>1. p \in Reached(s)
      BY <1>3, <1>6 DEF Reached
    <2>2. PICK c, t : c = ConfOf[f] /\ t = disk[f]
      OBVIOUS
    <2>3. PICK q, b, m : q = sq[s] /\ b = box[p] /\ m = Head(sq[s])
      OBVIOUS
    <2>4. /\ q \in Seq(Seq(Frame)) /\ q # <<>> /\ m = q[1] /\ m \in Seq(Frame)
          /\ LastIn(q, Msgs(3, c), Messages(3, c, t))
                => \/ LastIn(Tail(q), Msgs(3, c), Messages(3, c, t))
                   \/ m \in Messages(3, c, t) /\ NoneIn(Tail(q), Msgs(3, c))
          /\ NoneIn(q, Msgs(3, c)) => m \notin Msgs(3, c) /\ NoneIn(Tail(q), Msgs(3, c))
      <3>1. q \in Seq(Seq(Frame)) /\ q # <<>>
        BY <1>2, <2>3 DEF MsgInv, QueueInv
      <3> QED
        BY <2>3, <3>1, TailLast
    <2>5. sq'[s] = Tail(q)
      BY <1>2, <2>3 DEF MsgInv, QueueInv
    <2>6. GoodMsg(m, 3, s) /\ GoodMsg(Tail(m), 2, s)
      <3>1. AllGood(q, 3, s)
        BY <2>3 DEF MsgInv, QueueInv
      <3>2. GoodMsg(m, 3, s)
        BY <2>4, <3>1, GoodTail
      <3> QED
        BY <3>2, RelayGood
    <2>7. PICK d \in Conf, w \in Seq(LineFrame) : Carries(m, 3, d, w)
      BY <2>6 DEF GoodMsg
    <2>8. Carries(Tail(m), 2, d, w)
      BY <2>7, TailCarries
    <2>9. m[3] = F("name", d) /\ Tail(m)[2] = F("name", d) /\ Tail(m) \in Seq(Frame)
      BY <2>7, <2>8 DEF Carries
    <2>10. m \notin Msgs(3, c) => Tail(m) \notin Msgs(2, c)
      BY <2>4, <2>9 DEF Msgs
    <2>11. m \in Messages(3, c, t) => Tail(m) \in Messages(2, c, t) /\ m[3] = F("name", c)
      <3> SUFFICES ASSUME Carries(m, 3, c, t)
                   PROVE  Tail(m) \in Messages(2, c, t) /\ m[3] = F("name", c)
        BY DEF Messages
      <3>1. Carries(Tail(m), 2, c, t)
        BY TailCarries
      <3> QED
        BY <2>9, <3>1 DEF Messages, Carries
    <2>12. p \in full => F("name", c) # m[3] /\ box'[p] = b
      BY <1>1, <2>2, <2>3
    <2>13. p \notin full => box'[p] = Append(b, Tail(m))
      BY <1>1, <2>1, <2>3
    <2>14. PICK r : r = box'[p]
      OBVIOUS
    <2>15. p \notin full => \A Y, X :
              /\ Tail(m) \in X => LastIn(r, Y, X)
              /\ Tail(m) \notin Y /\ LastIn(b, Y, X) => LastIn(r, Y, X)
              /\ Tail(m) \notin Y /\ NoneIn(b, Y) => NoneIn(r, Y)
      <3>1. PICK n : n = Tail(m)
        OBVIOUS
      <3>2. b \in Seq(Seq(Frame)) /\ n \in Seq(Frame)
        BY <2>3, <2>9, <3>1 DEF MsgInv, QueueInv
      <3>3. p \notin full => r = Append(b, n)
        BY <2>13, <2>14, <3>1
      <3> SUFFICES ASSUME p \notin full, NEW Y, NEW X
                   PROVE  /\ n \in X => LastIn(r, Y, X)
                          /\ n \notin Y /\ LastIn(b, Y, X) => LastIn(r, Y, X)
                          /\ n \notin Y /\ NoneIn(b, Y) => NoneIn(r, Y)
        BY <3>1
      <3>4. r = Append(b, n)
        BY <3>3
      <3> QED
        BY <3>2, <3>4, AppendLast
    <2>16. /\ SlotHas(p, f) <=> LastIn(q, Msgs(3, c), Messages(3, c, t))
           /\ SlotNone(p, f) <=> NoneIn(q, Msgs(3, c))
           /\ BoxHas(p, f) <=> LastIn(b, Msgs(2, c), Messages(2, c, t))
           /\ BoxNone(p, f) <=> NoneIn(b, Msgs(2, c))
      BY <1>6, <2>2, <2>3 DEF SlotHas, SlotNone, BoxHas, BoxNone
    <2>17. /\ SlotHas(p, f)' <=> LastIn(Tail(q), Msgs(3, c), Messages(3, c, t))
           /\ SlotNone(p, f)' <=> NoneIn(Tail(q), Msgs(3, c))
           /\ BoxHas(p, f)' <=> LastIn(r, Msgs(2, c), Messages(2, c, t))
           /\ BoxNone(p, f)' <=> NoneIn(r, Msgs(2, c))
      BY <1>2, <1>6, <2>2, <2>5, <2>14 DEF SlotHas, SlotNone, BoxHas, BoxNone
    <2>18. CASE SlotHas(p, f)
      <3>1. CASE LastIn(Tail(q), Msgs(3, c), Messages(3, c, t))
        BY <2>17, <3>1 DEF Latest
      <3>2. CASE m \in Messages(3, c, t) /\ NoneIn(Tail(q), Msgs(3, c))
        <4>1. p \notin full
          BY <2>11, <2>12, <3>2
        <4> QED
          BY <2>11, <2>15, <2>17, <3>2, <4>1 DEF Latest
      <3> QED
        BY <2>4, <2>16, <2>18, <3>1, <3>2
    <2>19. CASE SlotNone(p, f)
      <3>1. SlotNone(p, f)' /\ Tail(m) \notin Msgs(2, c)
        BY <2>4, <2>10, <2>16, <2>17, <2>19
      <3>2. BoxHas(p, f) => BoxHas(p, f)'
        BY <2>12, <2>14, <2>15, <2>16, <2>17, <3>1
      <3>3. BoxNone(p, f) => BoxNone(p, f)'
        BY <2>12, <2>14, <2>15, <2>16, <2>17, <3>1
      <3> QED
        BY <1>4, <2>19, <3>1, <3>2, <3>3, <2>18 DEF Latest
    <2> QED
      BY <2>18, <2>19 DEF Latest
  <1> QED
    BY <1>5, <1>6

LEMMA RelayArrives ==
    ASSUME MsgInv, NEW p \in Proc, NEW f \in due'[p], NEW s \in Svc, RelaySub(s), Arrives(p, f)
    PROVE  Arrives(p, f)'
  <1>1. UNCHANGED <<kq, disk, batch, fp>>
    BY DEF RelaySub, files, broker
  <1>2. (BeingRead(p, f) => BeingRead(p, f)') /\ (OtherRead(p, f) => OtherRead(p, f)')
    BY <1>1 DEF BeingRead, OtherRead
  <1> QED
    BY <1>1, <1>2, RelayLatest, StaysPending DEF Arrives

-----------------------------------------------------------------------------
(* A process.                                                              *)

LEMMA NameArrives ==
    ASSUME MsgInv, NEW p \in Proc, NEW f \in File, RecvConfName(p), Latest(p, f)
    PROVE  Latest(p, f)'
  <1>1. /\ cur[p] = NULL /\ box[p] # <<>> /\ box' = [box EXCEPT ![p] = Tail(box[p])]
        /\ UNCHANGED <<disk, sq, got>>
    BY NameValue DEF MsgInv, files
  <1>2. PICK r \in Begun, u \in Reading :
          /\ r.msg = box[p][1] /\ rd' = [rd EXCEPT ![p] = r]
          /\ u.name = box[p][1][2] /\ cur' = [cur EXCEPT ![p] = u]
    BY NameValue DEF MsgInv
  <1>3. PICK b, m, c, t : b = box[p] /\ m = box[p][1] /\ c = ConfOf[f] /\ t = disk[f]
    OBVIOUS
  <1>4. b \in Seq(Seq(Frame)) /\ b # <<>> /\ m = b[1]
    BY <1>1, <1>3 DEF MsgInv, QueueInv
  <1>5. /\ m \in Seq(Frame)
        /\ LastIn(b, Msgs(2, c), Messages(2, c, t))
              => \/ LastIn(Tail(b), Msgs(2, c), Messages(2, c, t))
                 \/ m \in Messages(2, c, t) /\ NoneIn(Tail(b), Msgs(2, c))
        /\ NoneIn(b, Msgs(2, c)) => m \notin Msgs(2, c) /\ NoneIn(Tail(b), Msgs(2, c))
    BY <1>4, TailLast
  <1>6. box'[p] = Tail(b) /\ rd'[p] = r /\ cur'[p] = u /\ u # NULL
    BY <1>1, <1>2, <1>3, NullType DEF MsgInv, QueueInv, ReadInv
  <1>7. /\ m \in Messages(2, c, t) => InHand(p, f)'
        /\ m \notin Msgs(2, c) /\ InHand(p, f) => InHand(p, f)'
    <2>1. u.name = m[2] /\ r.msg = m
      BY <1>2, <1>3
    <2>2. m \in Messages(2, c, t) => m[2] = F("name", c) /\ Carries(m, 2, c, t)
      BY DEF Messages, Carries
    <2>3. m \notin Msgs(2, c) => m[2] # F("name", c)
      BY <1>5 DEF Msgs
    <2> QED
      BY <1>1, <1>3, <1>6, <2>1, <2>2, <2>3 DEF InHand
  <1>8. /\ SlotHas(p, f) => SlotHas(p, f)'
        /\ SlotNone(p, f) => SlotNone(p, f)'
    BY <1>1 DEF SlotHas, SlotNone
  <1>9. /\ BoxHas(p, f) => BoxHas(p, f)' \/ (BoxNone(p, f)' /\ m \in Messages(2, c, t))
        /\ BoxNone(p, f) => BoxNone(p, f)' /\ m \notin Msgs(2, c)
    BY <1>1, <1>3, <1>5, <1>6 DEF BoxHas, BoxNone
  <1> QED
    BY <1>7, <1>8, <1>9 DEF Latest

LEMMA BodyArrives ==
    ASSUME MsgInv, NEW p \in Proc, NEW f \in File, RecvConfBody(p), Latest(p, f)
    PROVE  Latest(p, f)'
  <1>1. cur[p] # NULL /\ UNCHANGED <<disk, sq, box, got>>
    BY BodyValue DEF MsgInv, files
  <1>2. PICK r \in Begun, u \in Reading :
          /\ r.msg = rd[p].msg /\ rd' = [rd EXCEPT ![p] = r]
          /\ u.name = cur[p].name /\ cur' = [cur EXCEPT ![p] = u]
    BY BodyValue DEF MsgInv
  <1>3. rd'[p] = r /\ cur'[p] = u /\ u # NULL
    BY <1>2, NullType DEF MsgInv, ReadInv
  <1>4. InHand(p, f) => InHand(p, f)'
    BY <1>1, <1>2, <1>3 DEF InHand
  <1>5. /\ SlotHas(p, f) => SlotHas(p, f)'
        /\ SlotNone(p, f) => SlotNone(p, f)'
        /\ BoxHas(p, f) => BoxHas(p, f)'
        /\ BoxNone(p, f) => BoxNone(p, f)'
    BY <1>1 DEF SlotHas, SlotNone, BoxHas, BoxNone
  <1> QED
    BY <1>4, <1>5 DEF Latest

\* A message carries one text.
LEMMA OneText ==
    ASSUME NEW m, NEW c, NEW d, NEW t, NEW u, Carries(m, 2, c, t), Carries(m, 2, d, u)
    PROVE  t = u
  <1>1. Len(t) \in Nat /\ Len(u) \in Nat /\ Len(m) = 2 + Len(t) + 1 /\ Len(m) = 2 + Len(u) + 1
    BY LenProperties DEF Carries
  <1>2. Len(t) = Len(u)
    BY <1>1
  <1>3. \A i \in 1..Len(t) : t[i] = u[i]
    BY <1>2 DEF Carries
  <1> QED
    BY <1>2, <1>3, SeqEqual DEF Carries

LEMMA EndArrives ==
    ASSUME MsgInv, NEW p \in Proc, NEW f \in File, RecvConfEnd(p), Latest(p, f)
    PROVE  Latest(p, f)'
  <1>1. cur[p] # NULL /\ cur' = [cur EXCEPT ![p] = NULL] /\ UNCHANGED <<disk, sq, box>>
    BY EndValue DEF MsgInv, files
  <1>2. PICK c \in Conf, t \in Seq(LineFrame) :
          /\ Carries(rd[p].msg, 2, c, t)
          /\ cur[p].name = F("name", c)
          /\ got' = [got EXCEPT ![p][c] = t]
    BY EndValue DEF MsgInv
  <1>3. cur'[p] = NULL /\ ConfOf[f] \in Conf
    BY <1>1, ConfAssumption DEF MsgInv, ReadInv
  <1>4. got'[p][ConfOf[f]] = IF ConfOf[f] = c THEN t ELSE got[p][ConfOf[f]]
    BY <1>2, <1>3 DEF MsgInv, GotInv
  <1>5. InHand(p, f) => InHand(p, f)'
    <2>1. ASSUME ConfOf[f] = c, InHand(p, f) PROVE t = disk[f]
      <3>1. Carries(rd[p].msg, 2, c, disk[f])
        BY <1>1, <1>2, <2>1 DEF InHand
      <3> QED
        BY <1>2, <3>1, OneText
    <2>2. ConfOf[f] # c => cur[p].name # F("name", ConfOf[f])
      BY <1>2, FrameKinds
    <2> QED
      BY <1>1, <1>3, <1>4, <2>1, <2>2 DEF InHand
  <1>6. /\ SlotHas(p, f) => SlotHas(p, f)'
        /\ SlotNone(p, f) => SlotNone(p, f)'
        /\ BoxHas(p, f) => BoxHas(p, f)'
        /\ BoxNone(p, f) => BoxNone(p, f)'
    BY <1>1 DEF SlotHas, SlotNone, BoxHas, BoxNone
  <1> QED
    BY <1>5, <1>6 DEF Latest

\* A step of one process is nothing to another.
LEMMA RecvArrives ==
    ASSUME MsgInv, NEW p \in Proc, NEW f \in File, NEW q \in Proc, RecvConf(q), Arrives(p, f)
    PROVE  Arrives(p, f)'
  <1>1. UNCHANGED <<disk, kq, batch, fp, sq>>
    BY DEF RecvConf, RecvConfName, RecvConfBody, RecvConfEnd, files, broker
  <1>2. ASSUME q # p PROVE box'[p] = box[p] /\ rd'[p] = rd[p] /\ cur'[p] = cur[p] /\ got'[p] = got[p]
    <2> USE DEF MsgInv, QueueInv, ReadInv, GotInv
    <2>1. CASE RecvConfName(q)
      BY <1>2, <2>1, NameValue
    <2>2. CASE RecvConfBody(q)
      BY <1>2, <2>2, BodyValue
    <2>3. CASE RecvConfEnd(q)
      BY <1>2, <2>3, EndValue
    <2> QED
      BY <2>1, <2>2, <2>3 DEF RecvConf
  <1>3. Latest(p, f) => Latest(p, f)'
    <2>1. CASE q = p
      BY <2>1, NameArrives, BodyArrives, EndArrives DEF RecvConf
    <2>2. CASE q # p
      <3>1. /\ SlotHas(p, f) => SlotHas(p, f)'
            /\ SlotNone(p, f) => SlotNone(p, f)'
            /\ BoxHas(p, f) => BoxHas(p, f)'
            /\ BoxNone(p, f) => BoxNone(p, f)'
            /\ InHand(p, f) => InHand(p, f)'
        BY <1>1, <1>2, <2>2 DEF SlotHas, SlotNone, BoxHas, BoxNone, InHand
      <3> QED
        BY <3>1 DEF Latest
    <2> QED
      BY <2>1, <2>2
  <1>4. (BeingRead(p, f) => BeingRead(p, f)') /\ (OtherRead(p, f) => OtherRead(p, f)')
    BY <1>1 DEF BeingRead, OtherRead
  <1> QED
    BY <1>1, <1>3, <1>4, StaysPending DEF Arrives

-----------------------------------------------------------------------------
(* The last text is somewhere.                                             *)

LEMMA InitArrival == Init => ArrivalInv
  BY DEF Init, ArrivalInv

LEMMA NextArrival == ASSUME MsgInv, MsgInv', ArrivalInv, [Next]_vars PROVE ArrivalInv'
  <1> SUFFICES ASSUME alive', NEW p \in Proc, NEW f \in due'[p], Settled(f)'
               PROVE  Arrives(p, f)'
    BY DEF ArrivalInv
  <1> DEFINE Done == Arrives(p, f)'
  <1>1. f \in File
    BY DEF MsgInv, SlotInv
  <1>2. ASSUME alive, f \in due[p], Settled(f) PROVE Arrives(p, f)
    BY <1>2 DEF ArrivalInv
  <1>3. ASSUME UNCHANGED files PROVE Settled(f)
    BY <1>3 DEF Settled, files
  <1>4. ASSUME UNCHANGED <<files, broker, sq, box, procs, due>> PROVE Done
    BY <1>2, <1>3, <1>4, StaysThere DEF files, broker
  <1>5. ASSUME NEW g \in File, WriteStart(g) \/ WriteLine(g) \/ Remove(g) PROVE Done
    <2>1. UNCHANGED <<alive, due>>
      BY <1>5 DEF WriteStart, WriteLine, Remove, broker
    <2> QED
      BY <1>1, <1>2, <1>5, <2>1, QuietChange
  <1>6. ASSUME NEW g \in File, WriteClose(g) \/ Move(g) PROVE Done
    <2>1. CASE g = f
      BY <1>1, <1>6, <2>1, ChangePending
    <2>2. CASE g # f
      <3>1. alive' = alive
        BY <1>6 DEF WriteClose, Move, broker
      <3>2. f \in due[p]
        BY <1>6, <2>2, OtherChange
      <3>3. Settled(f)
        <4>1. disk'[f] = disk[f] /\ writing'[f] = writing[f]
          BY <1>1, <1>6, <2>2 DEF WriteClose, Move, MsgInv, FileInv
        <4> QED
          BY <4>1 DEF Settled
      <3> QED
        BY <1>2, <1>6, <2>2, <3>1, <3>2, <3>3, OtherArrives
    <2> QED
      BY <2>1, <2>2
  <1>7. ASSUME WatchCallback PROVE Done
    BY <1>1, <1>2, <1>7, WatchArrives DEF WatchCallback, Settled
  <1>8. ASSUME NEW g \in File, Crash(g) PROVE Done
    BY <1>8 DEF Crash
  <1>9. ASSUME NEW g \in File, Ignore(g) \/ OpenFails(g) PROVE Done
    <2>1. UNCHANGED <<files, due>> /\ alive
      BY <1>9 DEF Ignore, OpenFails, Handles
    <2> QED
      BY <1>2, <1>3, <1>9, <2>1, IgnoreArrives
  <1>10. ASSUME NEW g \in File, Open(g) PROVE Done
    <2>1. UNCHANGED files /\ alive
      BY <1>10 DEF Open, Handles
    <2>2. f \in due[p]
      BY <1>10 DEF Open
    <2> QED
      BY <1>2, <1>3, <1>10, <2>1, <2>2, OpenArrives
  <1>11. ASSUME ReadLine PROVE Done
    <2>1. UNCHANGED <<files, due>> /\ alive
      BY <1>11 DEF ReadLine
    <2> QED
      BY <1>1, <1>2, <1>3, <1>11, <2>1, ReadLineArrives
  <1>12. ASSUME Publish PROVE Done
    <2>1. UNCHANGED <<files, due>> /\ alive
      BY <1>12 DEF Publish
    <2> QED
      BY <1>2, <1>3, <1>12, <2>1, PublishArrives
  <1>13. ASSUME NEW s \in Svc, SvcRelease(s) PROVE Done
    <2>1. UNCHANGED files /\ alive /\ f \in due[p]
      BY <1>13 DEF SvcRelease
    <2> QED
      BY <1>2, <1>3, <1>13, <2>1, ReleaseArrives
  <1>14. ASSUME NEW s \in Svc, RelaySub(s) PROVE Done
    <2>1. UNCHANGED files /\ alive /\ f \in due[p]
      BY <1>14 DEF RelaySub
    <2> QED
      BY <1>2, <1>3, <1>14, <2>1, RelayArrives
  <1>15. ASSUME NEW s \in Svc, OpenSlot(s) \/ SlotHears(s) PROVE Done
    BY <1>4, <1>15 DEF OpenSlot, SlotHears
  <1>16. ASSUME NEW q \in Proc, RecvConf(q) PROVE Done
    <2>1. UNCHANGED <<files, broker, due>>
      BY <1>16 DEF RecvConf, RecvConfName, RecvConfBody, RecvConfEnd
    <2> QED
      BY <1>1, <1>2, <1>3, <1>16, <2>1, RecvArrives DEF broker
  <1>17. ASSUME NEW q \in Proc, Connect(q) \/ RecvConfNone(q) PROVE Done
    BY <1>4, <1>17 DEF Connect, RecvConfNone, vars
  <1>18. ASSUME UNCHANGED vars PROVE Done
    BY <1>4, <1>18 DEF vars
  <1> QED
    BY <1>5, <1>6, <1>7, <1>8, <1>9, <1>10, <1>11, <1>12, <1>13, <1>14, <1>15, <1>16, <1>17, <1>18
    DEF Next, RecvConf

\* When nothing is on its way, the text is there.
LEMMA ArrivalImplied == MsgInv /\ ArrivalInv => FinalConf
  <1> SUFFICES ASSUME MsgInv, ArrivalInv, alive, NEW p \in Proc, Quiet(p), NEW f \in due[p]
               PROVE  Knows(p, f)
    BY DEF FinalConf, UpToDate
  <1>1. CASE Settled(f)
    <2>1. Arrives(p, f)
      BY <1>1 DEF ArrivalInv
    <2>2. ~Pending(p, f) /\ ~BeingRead(p, f)
      BY EmptyQueue DEF Pending, BeingRead, Rest, Quiet
    <2>3. Latest(p, f)
      BY <2>1, <2>2 DEF Arrives
    <2>4. ~SlotHas(p, f) /\ ~BoxHas(p, f)
      BY EmptyQueue DEF SlotHas, BoxHas, Quiet
    <2>5. InHand(p, f)
      BY <2>3, <2>4 DEF Latest
    <2> QED
      BY <2>5 DEF InHand, Quiet, Knows
  <1>2. CASE ~Settled(f)
    BY <1>2 DEF Settled, Knows
  <1> QED
    BY <1>1, <1>2

\* When nothing is on its way, a process has the last text of every file that
\* it may count on: one whose last change found the slot open and both
\* subscriptions in effect, if no full queue and no release came in between.
THEOREM LastTextArrives == Spec => []FinalConf
  <1>1. MsgInv /\ MsgInv' /\ ArrivalInv /\ [Next]_vars => ArrivalInv'
    BY NextArrival
  <1>2. Spec => []ArrivalInv
    BY <1>1, InitArrival, MsgInvariant, PTL DEF Spec
  <1> QED
    BY <1>2, ArrivalImplied, MsgInvariant, PTL
=============================================================================
