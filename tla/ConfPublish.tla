------------------------------ MODULE ConfPublish ------------------------------
(***************************************************************************)
(* Publishing configuration files (broker.c) to the processes that         *)
(* subscribe to them (zmq_wrapper.c).                                      *)
(*                                                                         *)
(* The broker watches its conf directory with inotify.  A file             *)
(* <service>_<conf>.conf that was closed after writing, or moved there, is *)
(* read line by line and published frame by frame as one message: the      *)
(* service, MQ_CONF, the name of the configuration, the lines, an empty    *)
(* frame.  Files change while they are read: an editor may write in place, *)
(* the hub's rsync moves a finished file over the old one, whose reader    *)
(* keeps the old text.                                                     *)
(*                                                                         *)
(* A message goes to the open slots whose subscription fits.  A slot       *)
(* throws the service away and passes the rest on to its processes, which  *)
(* know a configuration by its name only.  Nobody keeps a message for a    *)
(* slot or a process that is not there yet, or whose queue is full.  The   *)
(* queues are shared with answers (ServiceRelay), so that any message may  *)
(* find one full.                                                          *)
(***************************************************************************)
EXTENDS Integers, Sequences

CONSTANTS
    Svc, Proc,      \* services and processes
    SvcOf,          \* each process's service
    SvcBegins,      \* <<s, t>>: the name of s begins that of another service t
    File,           \* files in the directory
    Conf,           \* names of configurations
    FileSvc,        \* the service in a file's name, which may be empty, NULL if the
                    \* name is not of the form <service>_<conf>.conf
    ConfOf,         \* the configuration in it
    Dotless,        \* files whose name has no dot
    Moved,          \* files that are only ever moved to the directory
    LinesOf,        \* the number of lines each version has
    CHUNK,          \* events one call of the watch callback handles
    MaxReleases,    \* bound on released slots
    NULL

Version == DOMAIN LinesOf

\* A frame is known by its kind, a line also by the file and version it is of.
F(k, x)    == [k |-> k, v |-> x]
Line(f, v) == F("line", <<f, v>>)
MqConf     == F("type", NULL)
NullByte   == F("nothing", NULL)
LineFrame  == {Line(f, v) : f \in File, v \in Version}
Frame      == {F("svc", s) : s \in Svc} \cup {F("name", c) : c \in Conf}
                \cup {MqConf, NullByte} \cup LineFrame

\* What the broker keeps of a file it reads: its text once it is no longer the
\* one in the directory, the slots the message goes to, its frames so far.
OpenFile == [file : File, old : Seq(LineFrame) \cup {NULL}, to : SUBSET Svc, msg : Seq(Frame)]
\* A message of which the first frames were read, and mq_recv_conf_*'s caller.
Begun    == [msg : Seq(Frame), pos : Nat]
Reading  == [name : Frame, lines : Seq(Frame)]

ASSUME ConfAssumption ==
    /\ SvcOf \in [Proc -> Svc] /\ SvcBegins \subseteq Svc \X Svc
    /\ FileSvc \in [File -> Svc \cup {NULL}] /\ ConfOf \in [File -> Conf]
    /\ Moved \subseteq File /\ Dotless \subseteq {f \in File : FileSvc[f] = NULL}
    /\ LinesOf \in Seq(Nat)
    /\ CHUNK \in Nat \ {0} /\ MaxReleases \in Nat
    /\ NULL \notin Svc \cup Nat \cup Seq(LineFrame) \cup OpenFile \cup Begun \cup Reading

VARIABLES
    disk,       \* each file's lines, NULL if there is no such file
    writing,    \* the version an editor is writing in place, or NULL
    last,       \* versions written so far, over all files
    kq,         \* inotify events in the kernel
    batch,      \* events the watch callback has still to handle
    fp,         \* the file being published, or NULL
    alive,      \* FALSE when the broker has crashed
    slot,       \* each service's slot: "closed", "open" for processes to connect,
                \* "hears" when its own subscription has also come into effect
    releases,   \* slots released so far
    conn,       \* processes whose subscription is in effect at their slot
    sq, box,    \* messages that have reached each slot, each process
    rd,         \* the message each process has read a part of (RCVMORE), or NULL
    cur,        \* the configuration each process is reading, or NULL
    got,        \* the last text each process has read under each name
    due         \* files each process may count on: see Changed

files  == <<disk, writing, last, kq>>
broker == <<batch, fp, alive>>
slots  == <<slot, releases, conn>>
procs  == <<rd, cur, got>>
vars   == <<files, broker, slots, sq, box, procs, due>>

Text(f, v) == [i \in 1..LinesOf[v] |-> Line(f, v)]

Init ==
    /\ disk = [f \in File |-> NULL] /\ writing = [f \in File |-> NULL]
    /\ last = 0 /\ kq = <<>> /\ batch = <<>> /\ fp = NULL /\ alive = TRUE
    /\ slot = [s \in Svc |-> "closed"] /\ releases = 0 /\ conn = {}
    /\ sq = [s \in Svc |-> <<>>] /\ box = [p \in Proc |-> <<>>]
    /\ rd = [p \in Proc |-> NULL] /\ cur = [p \in Proc |-> NULL]
    /\ got = [p \in Proc |-> [c \in Conf |-> NULL]]
    /\ due = [p \in Proc |-> {}]

-----------------------------------------------------------------------------
(* The directory.                                                          *)

\* The kernel drops an event that equals the one before it in the queue.
Notify(f, mask) ==
    LET e == [file |-> f, mask |-> mask]
    IN kq' = IF kq # <<>> /\ kq[Len(kq)] = e THEN kq ELSE Append(kq, e)

\* A slot subscribes to its service's name, and hears all that it begins.
HearsSvc(s, t) == s = t \/ <<s, t>> \in SvcBegins
Heard(s, f)    == FileSvc[f] # NULL /\ HearsSvc(s, FileSvc[f])
InEffect(p)    == p \in conn /\ slot[SvcOf[p]] = "hears"

\* A process may count on a file from a change of it that finds the process's
\* subscriptions in effect, until its slot is released, a message of that name
\* finds a full queue, or a file that is the same configuration to the process
\* changes.
Changed(f) == due' = [p \in Proc |->
    IF InEffect(p) /\ Heard(SvcOf[p], f)
    THEN {g \in due[p] : ConfOf[g] # ConfOf[f]} \cup {f} ELSE due[p]]

\* The file is opened for writing, which empties it.
WriteStart(f) ==
    /\ f \notin Moved
    /\ writing[f] = NULL
    /\ last + 1 \in Version
    /\ last' = last + 1
    /\ writing' = [writing EXCEPT ![f] = last + 1]
    /\ disk' = [disk EXCEPT ![f] = <<>>]
    /\ UNCHANGED <<kq, broker, slots, sq, box, procs, due>>

WriteLine(f) ==
    /\ writing[f] # NULL
    /\ Len(disk[f]) < LinesOf[writing[f]]
    /\ disk' = [disk EXCEPT ![f] = Append(@, Line(f, writing[f]))]
    /\ UNCHANGED <<writing, last, kq, broker, slots, sq, box, procs, due>>

\* IN_CLOSE_WRITE.
WriteClose(f) ==
    /\ writing[f] # NULL
    /\ Len(disk[f]) = LinesOf[writing[f]]
    /\ writing' = [writing EXCEPT ![f] = NULL]
    /\ Notify(f, "close_write")
    /\ Changed(f)
    /\ UNCHANGED <<disk, last, broker, slots, sq, box, procs>>

\* A reader that has opened the file keeps the text it had.
KeepsOld(f) == fp' = IF fp # NULL /\ fp.file = f /\ fp.old = NULL
                     THEN [fp EXCEPT !.old = disk[f]] ELSE fp

\* IN_MOVED_TO: a finished file takes the place of another.
Move(f) ==
    /\ f \in Moved
    /\ last + 1 \in Version
    /\ last' = last + 1
    /\ disk' = [disk EXCEPT ![f] = Text(f, last + 1)]
    /\ KeepsOld(f)
    /\ Notify(f, "moved_to")
    /\ Changed(f)
    /\ UNCHANGED <<writing, batch, alive, slots, sq, box, procs>>

\* No event is asked for when a file goes.
Remove(f) ==
    /\ disk[f] # NULL
    /\ writing[f] = NULL
    /\ disk' = [disk EXCEPT ![f] = NULL]
    /\ KeepsOld(f)
    /\ UNCHANGED <<writing, last, kq, batch, alive, slots, sq, box, procs, due>>

-----------------------------------------------------------------------------
(* The broker's router thread.                                             *)

\* Faulty variants of a definition, which the checks substitute for it, stand
\* before it and are named Bad<Definition>.
BadWatchCallback ==
    /\ alive
    /\ batch = <<>>
    /\ kq # <<>>
    /\ batch' = SubSeq(kq, 1, 1)
    /\ kq' = SubSeq(kq, 1 + (IF Len(kq) < CHUNK THEN Len(kq) ELSE CHUNK), Len(kq))
    /\ UNCHANGED <<disk, writing, last, fp, alive, slots, sq, box, procs, due>>

\* config_watch_callback gets the events that wait.
WatchCallback ==
    /\ alive
    /\ batch = <<>>
    /\ kq # <<>>
    /\ LET n == IF Len(kq) < CHUNK THEN Len(kq) ELSE CHUNK IN
         /\ batch' = SubSeq(kq, 1, n)
         /\ kq' = SubSeq(kq, n + 1, Len(kq))
    /\ UNCHANGED <<disk, writing, last, fp, alive, slots, sq, box, procs, due>>

Handles(f) ==
    /\ alive
    /\ batch # <<>>
    /\ fp = NULL
    /\ f = batch[1].file
    /\ UNCHANGED <<files, slots, sq, box, procs>>

\* check_inotify_event writes through strchr's result, NULL for such a name:
\* the process ends, with all its threads.
Crash(f) ==
    /\ Handles(f)
    /\ f \in Dotless
    /\ alive' = FALSE
    /\ UNCHANGED <<batch, fp, due>>

BadIgnore(f) ==
    /\ Handles(f)
    /\ f \notin Dotless
    /\ FileSvc[f] = NULL
    /\ UNCHANGED <<batch, fp, alive, due>>

\* The extension is not conf, or there is no '_'.
Ignore(f) ==
    /\ Handles(f)
    /\ f \notin Dotless
    /\ FileSvc[f] = NULL
    /\ batch' = Tail(batch)
    /\ UNCHANGED <<fp, alive, due>>

\* publish_conf_from_file: "cant fp to file".
OpenFails(f) ==
    /\ Handles(f)
    /\ FileSvc[f] # NULL
    /\ disk[f] = NULL
    /\ batch' = Tail(batch)
    /\ UNCHANGED <<fp, alive, due>>

\* The file is open, and the first three frames are sent.  The first decides
\* which slots the message goes to: the publisher leaves out a full one.
Open(f) ==
    /\ Handles(f)
    /\ FileSvc[f] # NULL
    /\ disk[f] # NULL
    /\ \E full \in SUBSET {s \in Svc : slot[s] = "hears" /\ Heard(s, f)} :
         /\ fp' = [file |-> f, old |-> NULL,
                   to  |-> {s \in Svc \ full : slot[s] = "hears" /\ Heard(s, f)},
                   msg |-> <<F("svc", FileSvc[f]), MqConf, F("name", ConfOf[f])>>]
         /\ due' = [p \in Proc |-> IF SvcOf[p] \in full THEN due[p] \ {f} ELSE due[p]]
    /\ UNCHANGED <<batch, alive>>

BadReadable == IF disk[fp.file] = NULL THEN <<>> ELSE disk[fp.file]

\* What the open file holds now.
Readable == IF fp.old = NULL THEN disk[fp.file] ELSE fp.old

\* Lines sent so far.
Sent == Len(fp.msg) - 3

\* fgets, and the line is sent.
ReadLine ==
    /\ alive
    /\ fp # NULL
    /\ Sent < Len(Readable)
    /\ fp' = [fp EXCEPT !.msg = Append(@, Readable[Sent + 1])]
    /\ UNCHANGED <<files, batch, alive, slots, sq, box, procs, due>>

BadPublish ==
    /\ alive
    /\ fp # NULL
    /\ Sent >= Len(Readable)
    /\ sq' = [s \in Svc |-> IF s \in fp.to THEN Append(sq[s], Append(fp.msg, NullByte)) ELSE sq[s]]
    /\ batch' = Tail(batch)
    /\ UNCHANGED <<files, fp, alive, slots, box, procs, due>>

\* "send null byte, we done": the message is complete and goes out.
Publish ==
    /\ alive
    /\ fp # NULL
    /\ Sent >= Len(Readable)
    /\ sq' = [s \in Svc |-> IF s \in fp.to THEN Append(sq[s], Append(fp.msg, NullByte)) ELSE sq[s]]
    /\ fp' = NULL
    /\ batch' = Tail(batch)
    /\ UNCHANGED <<files, alive, slots, box, procs, due>>

-----------------------------------------------------------------------------
(* The broker's service thread.                                            *)

\* connect_svc_slot, for a service of which a process has registered.
OpenSlot(s) ==
    /\ alive
    /\ slot[s] = "closed"
    /\ \E p \in Proc : SvcOf[p] = s
    /\ slot' = [slot EXCEPT ![s] = "open"]
    /\ UNCHANGED <<files, broker, releases, conn, sq, box, procs, due>>

\* Its subscription reaches the broker's publisher.
SlotHears(s) ==
    /\ alive
    /\ slot[s] = "open"
    /\ slot' = [slot EXCEPT ![s] = "hears"]
    /\ UNCHANGED <<files, broker, releases, conn, sq, box, procs, due>>

Reached(s) == {p \in conn : SvcOf[p] = s}

\* svc_release closes the sockets, with what they hold: what waits to be passed
\* on, and the last of what is on its way to each process.
SvcRelease(s) ==
    /\ alive
    /\ slot[s] # "closed"
    /\ releases < MaxReleases
    /\ releases' = releases + 1
    /\ slot' = [slot EXCEPT ![s] = "closed"]
    /\ sq' = [sq EXCEPT ![s] = <<>>]
    /\ fp' = IF fp = NULL THEN NULL ELSE [fp EXCEPT !.to = @ \ {s}]
    /\ \E kept \in [Proc -> {0} \cup UNION {DOMAIN box[p] : p \in Proc}] :
         box' = [p \in Proc |-> IF p \in Reached(s) /\ kept[p] < Len(box[p])
                                THEN SubSeq(box[p], 1, kept[p]) ELSE box[p]]
    /\ conn' = conn \ Reached(s)
    /\ due' = [p \in Proc |-> IF SvcOf[p] = s THEN {} ELSE due[p]]
    /\ UNCHANGED <<files, batch, alive, procs>>

\* mq_relay_callback_sub_to_pub: the service is thrown away, the rest goes to
\* the processes, but not to one whose queue is full.
RelaySub(s) ==
    /\ alive
    /\ slot[s] # "closed"
    /\ sq[s] # <<>>
    /\ sq' = [sq EXCEPT ![s] = Tail(@)]
    /\ \E full \in SUBSET Reached(s) :
         /\ box' = [p \in Proc |-> IF p \in Reached(s) \ full
                                  THEN Append(box[p], Tail(Head(sq[s]))) ELSE box[p]]
         /\ due' = [p \in Proc |-> IF p \in full
                THEN {f \in due[p] : F("name", ConfOf[f]) # Head(sq[s])[3]} ELSE due[p]]
    /\ UNCHANGED <<files, broker, slots, procs>>

-----------------------------------------------------------------------------
(* A process.                                                              *)

\* crt_cli_sock's connection reaches the slot, and with it the subscription to
\* MQ_CONF.  Nothing that was published before is seen.
Connect(p) ==
    /\ alive
    /\ p \notin conn
    /\ slot[SvcOf[p]] # "closed"
    /\ conn' = conn \cup {p}
    /\ UNCHANGED <<files, broker, slot, releases, sq, box, procs, due>>

\* zmq_recv gets the next frame of the message that was begun, or else of the
\* next one.  RCVMORE tells whether that message has more.
CanRead(p) == rd[p] # NULL \/ box[p] # <<>>
From(p)    == IF rd[p] # NULL THEN rd[p] ELSE [msg |-> Head(box[p]), pos |-> 0]
Left(p)    == Len(From(p).msg) - From(p).pos
Next1(p)   == From(p).msg[From(p).pos + 1]
Recv(p, n) ==
    /\ rd' = [rd EXCEPT ![p] = IF Left(p) = n THEN NULL
                               ELSE [msg |-> From(p).msg, pos |-> From(p).pos + n]]
    /\ box' = IF rd[p] # NULL THEN box ELSE [box EXCEPT ![p] = Tail(@)]

\* mq_recv_conf_name: one frame, taken for the tag, and one for the name.
\* Without a frame behind them it fails.
RecvConfName(p) ==
    /\ cur[p] = NULL
    /\ CanRead(p)
    /\ IF Left(p) > 2
       THEN /\ Recv(p, 2)
            /\ cur' = [cur EXCEPT ![p] = [name |-> From(p).msg[From(p).pos + 2], lines |-> <<>>]]
       ELSE Recv(p, Left(p)) /\ UNCHANGED cur
    /\ UNCHANGED <<files, broker, slots, sq, got, due>>

RecvConfNone(p) ==
    /\ cur[p] = NULL
    /\ ~CanRead(p)
    /\ UNCHANGED vars

BadRecvConfBody(p) ==
    /\ cur[p] # NULL
    /\ CanRead(p)
    /\ Recv(p, 1)
    /\ cur' = [cur EXCEPT ![p].lines = Append(@, Next1(p))]
    /\ UNCHANGED <<files, broker, slots, sq, got, due>>

\* mq_recv_conf_body gets a frame, and there are more: it was a line.
RecvConfBody(p) ==
    /\ cur[p] # NULL
    /\ CanRead(p)
    /\ Left(p) > 1
    /\ Recv(p, 1)
    /\ cur' = [cur EXCEPT ![p].lines = Append(@, Next1(p))]
    /\ UNCHANGED <<files, broker, slots, sq, got, due>>

\* It gets the last frame, or none: it fails, and its caller is done.
RecvConfEnd(p) ==
    /\ cur[p] # NULL
    /\ IF CanRead(p) THEN Left(p) = 1 /\ Recv(p, 1) ELSE UNCHANGED <<rd, box>>
    /\ got' = [got EXCEPT ![p][cur[p].name.v] = cur[p].lines]
    /\ cur' = [cur EXCEPT ![p] = NULL]
    /\ UNCHANGED <<files, broker, slots, sq, due>>

-----------------------------------------------------------------------------
Next ==
    \/ \E f \in File : WriteStart(f) \/ WriteLine(f) \/ WriteClose(f) \/ Move(f) \/ Remove(f)
    \/ WatchCallback
    \/ \E f \in File : Crash(f) \/ Ignore(f) \/ OpenFails(f) \/ Open(f)
    \/ ReadLine \/ Publish
    \/ \E s \in Svc : OpenSlot(s) \/ SlotHears(s) \/ SvcRelease(s) \/ RelaySub(s)
    \/ \E p \in Proc : Connect(p) \/ RecvConfName(p) \/ RecvConfNone(p)
                         \/ RecvConfBody(p) \/ RecvConfEnd(p)

Spec == Init /\ [][Next]_vars

BrokerStep == WatchCallback \/ ReadLine \/ Publish
                \/ \E f \in File : Crash(f) \/ Ignore(f) \/ OpenFails(f) \/ Open(f)
RecvConf(p) == RecvConfName(p) \/ RecvConfBody(p) \/ RecvConfEnd(p)

\* The broker's two threads and the processes' loops go on.
FairSpec ==
    /\ Spec
    /\ WF_vars(BrokerStep) /\ \A s \in Svc : WF_vars(RelaySub(s))
    /\ \A p \in Proc : WF_vars(RecvConf(p))

-----------------------------------------------------------------------------
(* Correctness.                                                            *)

Event == [file : File, mask : {"close_write", "moved_to"}]

\* A message from frame n on: the name, lines, the empty frame.
IsConf(m, n) ==
    /\ Len(m) > n /\ m[n] \in {F("name", c) : c \in Conf} /\ m[Len(m)] = NullByte
    /\ \A i \in (n + 1)..(Len(m) - 1) : m[i] \in LineFrame

TypeOK ==
    /\ disk \in [File -> Seq(LineFrame) \cup {NULL}] /\ writing \in [File -> Version \cup {NULL}]
    /\ \A i \in 1..Len(kq) : kq[i] \in Event
    /\ Len(batch) <= CHUNK /\ \A i \in 1..Len(batch) : batch[i] \in Event
    /\ fp # NULL => /\ alive /\ batch # <<>> /\ fp.file = batch[1].file /\ fp.msg \in Seq(Frame)
                    /\ \A s \in fp.to : slot[s] = "hears" /\ Heard(s, fp.file)
    /\ slot \in [Svc -> {"closed", "open", "hears"}] /\ releases \in 0..MaxReleases
    /\ \A p \in Proc : /\ p \in conn => slot[SvcOf[p]] # "closed"
                       /\ due[p] # {} => InEffect(p)
    /\ \A s \in Svc : \A i \in 1..Len(sq[s]) : IsConf(sq[s][i], 3)
    /\ \A p \in Proc : \A i \in 1..Len(box[p]) : IsConf(box[p][i], 2)
    /\ got \in [Proc -> [Conf -> Seq(LineFrame) \cup {NULL}]]

\* File f is configuration c to a process of service s.
Names(s, f, c)  == Heard(s, f) /\ ConfOf[f] = c
OnlyMoved(s, c) == \A f \in File : Names(s, f, c) => f \in Moved

\* A configuration whose files are only ever moved to the directory is read
\* whole: a process never has lines of two versions of it, and never a part of
\* one, although versions replace each other while the broker reads.
WholeVersion == \A p \in Proc, c \in Conf :
    (got[p][c] # NULL /\ OnlyMoved(SvcOf[p], c))
        => \E f \in File, v \in Version : Names(SvcOf[p], f, c) /\ got[p][c] = Text(f, v)

Own(s, c, t) == \A i \in 1..Len(t) :
    \E f \in File, v \in Version : Names(s, f, c) /\ t[i] = Line(f, v)

\* What a process reads under a name are lines of files of that name whose
\* service its own begins, and no frame of another kind or message: the calls
\* that read a message frame by frame stay in step, whatever was lost between.
OwnConf == \A p \in Proc :
    /\ \A c \in Conf : got[p][c] # NULL => Own(SvcOf[p], c, got[p][c])
    /\ cur[p] # NULL => \E c \in Conf :
          cur[p].name = F("name", c) /\ Own(SvcOf[p], c, cur[p].lines)

Knows(p, f) == got[p][ConfOf[f]] = disk[f] \/ disk[f] = NULL \/ writing[f] # NULL

\* Nothing is on its way to process p.
Quiet(p) ==
    /\ kq = <<>> /\ batch = <<>> /\ fp = NULL
    /\ sq[SvcOf[p]] = <<>> /\ box[p] = <<>> /\ cur[p] = NULL

UpToDate(p, c) == \A f \in due[p] : ConfOf[f] = c => Knows(p, f)

\* When nothing is on its way, a process has the last text of every file it may
\* count on (see Changed for those that it may not), although the broker reads
\* files while they are written, and the kernel merges events.
FinalConf == alive => \A p \in Proc : Quiet(p) => \A c \in Conf : UpToDate(p, c)

\* Again and again a process has the last text of a configuration it may count
\* on, unless the broker has crashed: no text stays on its way for ever.
ConfReaches == \A p \in Proc, c \in Conf : []<>(alive => UpToDate(p, c))
=============================================================================
