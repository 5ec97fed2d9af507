----------------------------- MODULE HubRegistry -----------------------------
(***************************************************************************)
(* The hub's registry of brokers (hub.c).                                  *)
(*                                                                         *)
(* The registration thread (broker_regi_thrd) takes the registrations the  *)
(* brokers pass on, claims a slot for a broker whose host has none, asks   *)
(* the main thread to create a thread for it, and keeps a tree of broker,  *)
(* service and process nodes with the time of the last heartbeat.  When a  *)
(* broker was silent for more than TMCHK_NORESP seconds its node is        *)
(* removed and its thread is asked to release the slot: the thread closes  *)
(* its sockets, leaves its loop and clears the slot with memset.  Nothing  *)
(* locks the slots.                                                        *)
(*                                                                         *)
(* A node of the tree is the path of names that leads to it.               *)
(***************************************************************************)
EXTENDS Integers, Sequences

CONSTANTS
    Broker,             \* broker names, "<progname>_<pid>"
    HostOf,             \* the host each runs on (its peer address)
    Svc,                \* service names
    Proc,               \* client processes whose registrations are passed on
    BrokerOf, SvcOf,    \* the broker and the service of each process
    MAX_BROKER_NUM,     \* number of broker slots
    TMCHK_NORESP,       \* seconds of silence a node survives
    CreateFails,        \* TRUE iff pthread_create may fail
    Prompt,             \* TRUE iff the short races are won: main is ready before
                        \* the first registration, a broker's thread within a
                        \* second, and no registration meets a running memset
    NULL

Slot   == 0..(MAX_BROKER_NUM - 1)
Host   == {HostOf[b] : b \in Broker}
Field  == {"used", "name", "host", "evbase"}
MaxAge == TMCHK_NORESP + 1

ASSUME HubAssumption ==
    /\ BrokerOf \in [Proc -> Broker] /\ SvcOf \in [Proc -> Svc]
    /\ MAX_BROKER_NUM \in Nat
    /\ TMCHK_NORESP \in Nat
    /\ CreateFails \in BOOLEAN /\ Prompt \in BOOLEAN
    /\ NULL \notin Broker \cup Host \cup Proc \cup Nat

\* The broker, service and process node of a registration.
Path(p, n) == SubSeq(<<BrokerOf[p], SvcOf[p], p>>, 1, n)
Node       == {Path(p, n) : p \in Proc, n \in 1..3}
Above(x)   == {SubSeq(x, 1, n) : n \in 1..Len(x)}

VARIABLES
    used,       \* slots whose used flag is set
    name,       \* broker_name of each slot, NULL when zeroed
    host,       \* broker_host of each slot, NULL when zeroed
    based,      \* slots whose evbase_thrd pointer is not NULL
    tree,       \* the nodes of the tree
    age,        \* seconds since each node's last heartbeat
    node_ctx,   \* broker_ctx of a broker node: a slot or NULL
    pc,         \* where the registration thread is
    req,        \* the process whose registration it is handling
    new_broker, \* the slot it has just claimed
    booted,     \* TRUE once main has set evbase_main
    creating,   \* slots whose create_thread_action waits on evbase_main
    thread,     \* slots' threads: none, created, in their loop or leaving it
    releasing,  \* slots whose broker_release waits on evbase_thrd
    left        \* fields of each slot that a running memset has not reached

slots   == <<used, name, host, based>>
regi    == <<pc, req, new_broker>>
threads == <<booted, creating, thread, releasing, left>>
vars    == <<slots, tree, age, node_ctx, regi, threads>>

Init ==
    /\ used = {} /\ based = {} /\ tree = {} /\ creating = {} /\ releasing = {}
    /\ name = [s \in Slot |-> NULL] /\ host = [s \in Slot |-> NULL]
    /\ age = [x \in Node |-> 0]
    /\ node_ctx = [b \in Broker |-> NULL]
    /\ pc = "idle" /\ req = NULL /\ new_broker = NULL
    /\ booted = FALSE
    /\ thread = [s \in Slot |-> "none"]
    /\ left = [s \in Slot |-> {}]

-----------------------------------------------------------------------------
\* One second passes; nothing that never blocks takes longer than one: neither
\* the three heartbeats of one registration nor a memset.
Tick ==
    /\ \A n \in 1..2 : pc = <<"svc", "proc">>[n] => age[Path(req, 1)] = 0
    /\ \A s \in Slot : left[s] = {} /\ (Prompt => s \notin creating /\ thread[s] # "created")
    /\ age' = [x \in Node |-> IF x \in tree /\ age[x] < MaxAge THEN age[x] + 1 ELSE age[x]]
    /\ UNCHANGED <<slots, tree, node_ctx, regi, threads>>

-----------------------------------------------------------------------------
(* Registration thread: one registration message.                          *)

SameHost(p) == {s \in used : host[s] = HostOf[BrokerOf[p]]}

Quiet == booted /\ \A s \in Slot : left[s] = {}

\* Faulty variants of a definition, which the checks substitute for it, stand
\* before it and are named Bad<Definition>.
BadRegiScan(p) ==
    /\ pc = "idle" /\ (Prompt => Quiet)
    /\ req' = p
    /\ pc' = IF \E s \in SameHost(p) : name[s] = BrokerOf[p] THEN "broker" ELSE "fresh"
    /\ UNCHANGED <<slots, tree, age, node_ctx, new_broker, threads>>

\* chk_svc_broker: a host that another broker name holds is not accepted.
RegiScan(p) ==
    /\ pc = "idle" /\ (Prompt => Quiet)
    /\ req' = p
    /\ \/ SameHost(p) = {} /\ pc' = "fresh"
       \/ SameHost(p) # {} /\ (\A s \in SameHost(p) : name[s] = BrokerOf[p]) /\ pc' = "broker"
       \/ (\E s \in SameHost(p) : name[s] # BrokerOf[p]) /\ pc' = "rejected"
    /\ UNCHANGED <<slots, tree, age, node_ctx, new_broker, threads>>

Done == pc' = "idle" /\ req' = NULL /\ new_broker' = NULL

Reject ==
    /\ pc = "rejected"
    /\ Done
    /\ UNCHANGED <<slots, tree, age, node_ctx, threads>>

\* evbase_thrd is left alone: the slot's thread sets it.
SetBrokerSlot(s, p) ==
    /\ used' = used \cup {s}
    /\ name' = [name EXCEPT ![s] = BrokerOf[p]]
    /\ host' = [host EXCEPT ![s] = HostOf[BrokerOf[p]]]
    /\ UNCHANGED based

\* create_new_broker takes the first free slot.
ClaimSlot ==
    /\ pc = "fresh"
    /\ \E s \in Slot \ used :
         /\ \A t \in Slot \ used : s <= t
         /\ SetBrokerSlot(s, req)
         /\ new_broker' = s
    /\ pc' = "claimed"
    /\ UNCHANGED <<tree, age, node_ctx, req, threads>>

\* "all broker slot is full".
SlotsFull ==
    /\ pc = "fresh"
    /\ Slot \ used = {}
    /\ Done
    /\ UNCHANGED <<slots, tree, age, node_ctx, threads>>

\* chk_tree: renew the node, or insert it; a new broker node refers to ctx.
ChkTree(n, ctx) ==
    /\ tree' = tree \cup {Path(req, n)}
    /\ age' = [age EXCEPT ![Path(req, n)] = 0]
    /\ node_ctx' = IF n = 1 /\ Path(req, n) \notin tree
                   THEN [node_ctx EXCEPT ![BrokerOf[req]] = ctx] ELSE node_ctx

\* start_broker_polling: event_base_once does nothing when evbase_main is NULL.
NewBroker ==
    /\ pc = "claimed"
    /\ creating' = IF booted THEN creating \cup {new_broker} ELSE creating
    /\ ChkTree(1, new_broker)
    /\ Done
    /\ UNCHANGED <<slots, booted, thread, releasing, left>>

BadChkBroker ==
    /\ pc = "broker"
    /\ IF Path(req, 1) \in tree THEN UNCHANGED <<tree, age, node_ctx>> ELSE ChkTree(1, NULL)
    /\ pc' = "svc"
    /\ UNCHANGED <<slots, req, new_broker, threads>>

ChkBroker ==
    /\ pc = "broker"
    /\ ChkTree(1, NULL)
    /\ pc' = "svc"
    /\ UNCHANGED <<slots, req, new_broker, threads>>

ChkSvc ==
    /\ pc = "svc"
    /\ ChkTree(2, NULL)
    /\ pc' = "proc"
    /\ UNCHANGED <<slots, req, new_broker, threads>>

ChkProc ==
    /\ pc = "proc"
    /\ ChkTree(3, NULL)
    /\ Done
    /\ UNCHANGED <<slots, threads>>

\* removetree_callback: a node that expired goes with all below it, and
\* RemoveNode asks the thread of an expired broker for its release.
Expired == {x \in tree : age[x] > TMCHK_NORESP}
BadGone == Expired
Gone    == {x \in tree : Above(x) \cap Expired # {}}

Sweep ==
    /\ pc = "idle"
    /\ Expired # {}
    /\ tree' = tree \ Gone
    /\ age' = [x \in Node |-> IF x \in Gone THEN 0 ELSE age[x]]
    /\ node_ctx' = [b \in Broker |-> IF <<b>> \in Expired THEN NULL ELSE node_ctx[b]]
    /\ releasing' = releasing \cup
           {s \in based : \E b \in Broker : <<b>> \in Expired /\ node_ctx[b] = s}
    /\ UNCHANGED <<slots, regi, booted, creating, thread, left>>

-----------------------------------------------------------------------------
(* Main thread.                                                            *)

MainInit ==
    /\ ~booted
    /\ booted' = TRUE
    /\ UNCHANGED <<slots, tree, age, node_ctx, regi, creating, thread, releasing, left>>

\* create_thread_action: a failed pthread_create is only logged.
CreateThread(s) ==
    /\ s \in creating
    /\ creating' = creating \ {s}
    /\ \/ thread' = [thread EXCEPT ![s] = "created"]
       \/ CreateFails /\ thread' = thread
    /\ UNCHANGED <<slots, tree, age, node_ctx, regi, booted, releasing, left>>

-----------------------------------------------------------------------------
(* The thread of slot s (broker_thread).                                   *)

ThreadStart(s) ==
    /\ thread[s] = "created"
    /\ based' = based \cup {s}
    /\ thread' = [thread EXCEPT ![s] = "loop"]
    /\ UNCHANGED <<used, name, host, tree, age, node_ctx, regi, booted, creating, releasing, left>>

BadBrokerRelease(s) ==
    /\ thread[s] = "loop"
    /\ s \in releasing
    /\ releasing' = releasing \ {s}
    /\ used' = used \ {s}
    /\ thread' = [thread EXCEPT ![s] = "leaving"]
    /\ UNCHANGED <<name, host, based, tree, age, node_ctx, regi, booted, creating, left>>

\* broker_release, on the thread's own event base.
BrokerRelease(s) ==
    /\ thread[s] = "loop"
    /\ s \in releasing
    /\ releasing' = releasing \ {s}
    /\ thread' = [thread EXCEPT ![s] = "leaving"]
    /\ UNCHANGED <<slots, tree, age, node_ctx, regi, booted, creating, left>>

BadThreadEnd(s) ==
    /\ thread[s] = "leaving"
    /\ thread' = [thread EXCEPT ![s] = "none"]
    /\ left' = [left EXCEPT ![s] = Field \ {"evbase"}]
    /\ UNCHANGED <<slots, tree, age, node_ctx, regi, booted, creating, releasing>>

\* The event base is freed and the memset entered; the thread ends with it.
ThreadEnd(s) ==
    /\ thread[s] = "leaving"
    /\ thread' = [thread EXCEPT ![s] = "none"]
    /\ left' = [left EXCEPT ![s] = Field]
    /\ UNCHANGED <<slots, tree, age, node_ctx, regi, booted, creating, releasing>>

Memset(s, f) ==
    /\ f \in left[s]
    /\ left' = [left EXCEPT ![s] = @ \ {f}]
    /\ used' = IF f = "used" THEN used \ {s} ELSE used
    /\ name' = IF f = "name" THEN [name EXCEPT ![s] = NULL] ELSE name
    /\ host' = IF f = "host" THEN [host EXCEPT ![s] = NULL] ELSE host
    /\ based' = IF f = "evbase" THEN based \ {s} ELSE based
    /\ UNCHANGED <<tree, age, node_ctx, regi, booted, creating, thread, releasing>>

-----------------------------------------------------------------------------
RegiStep == Reject \/ ClaimSlot \/ SlotsFull \/ NewBroker \/ ChkBroker \/ ChkSvc \/ ChkProc
ThreadStep(s) ==
    \/ CreateThread(s) \/ ThreadStart(s) \/ BrokerRelease(s) \/ ThreadEnd(s)
    \/ \E f \in Field : Memset(s, f)

Next ==
    \/ \E p \in Proc : RegiScan(p)
    \/ Tick \/ RegiStep \/ Sweep \/ MainInit
    \/ \E s \in Slot : ThreadStep(s)

Spec == Init /\ [][Next]_vars

\* Every thread keeps running, the clock too, and libevent serves the sweep's
\* timer in every round of its loop, however many registrations arrive.
Fairness ==
    /\ WF_vars(RegiStep) /\ WF_vars(MainInit) /\ SF_vars(Tick) /\ SF_vars(Sweep)
    /\ \A s \in Slot : WF_vars(ThreadStep(s))

FairSpec == Spec /\ Fairness

-----------------------------------------------------------------------------
(* Correctness.                                                            *)

\* Every variable has its type; the registration thread holds a request and a
\* slot while it needs them, and the tree is closed under parents.
TypeOK ==
    /\ used \subseteq Slot /\ based \subseteq Slot
    /\ name \in [Slot -> Broker \cup {NULL}]
    /\ host \in [Slot -> Host \cup {NULL}]
    /\ tree \subseteq Node /\ \A x \in tree : Above(x) \subseteq tree
    /\ age \in [Node -> 0..MaxAge]
    /\ node_ctx \in [Broker -> Slot \cup {NULL}]
    /\ pc \in {"idle", "rejected", "fresh", "claimed", "broker", "svc", "proc"}
    /\ req \in Proc \cup {NULL} /\ (pc # "idle" => req \in Proc)
    /\ new_broker \in Slot \cup {NULL} /\ (pc = "claimed" => new_broker \in Slot)
    /\ booted \in BOOLEAN
    /\ creating \subseteq Slot /\ releasing \subseteq Slot
    /\ thread \in [Slot -> {"none", "created", "loop", "leaving"}]
    /\ left \in [Slot -> SUBSET Field]

\* Two slots in use never serve the same host: each would connect a dealer to
\* that host's router under the one identity "inter_hub".
HostsUnique ==
    \A s, t \in used : s # t /\ host[s] = host[t] => host[s] = NULL

\* A broker node's slot is in use and belongs to no other node.  When the node
\* has expired and the slot's event base pointer is set, the slot's thread is
\* in its loop: RemoveNode never hands broker_release to an event base that was
\* freed, or whose thread has left.
ReleaseOnLiveLoop ==
    \A b \in Broker : node_ctx[b] # NULL =>
        /\ node_ctx[b] \in used
        /\ \A c \in Broker \ {b} : node_ctx[c] # node_ctx[b]
        /\ <<b>> \in Expired /\ node_ctx[b] \in based => thread[node_ctx[b]] = "loop"

\* A slot is served by at most one thread: none is created or about to be
\* while an earlier one still uses the slot's sockets and event base.
OneThreadPerSlot ==
    \A s \in creating : thread[s] = "none" /\ "used" \notin left[s]

\* The process nodes are a lease table: removing a broker or a service node
\* with its subtree never removes a process that is still within its lease.
Lease == INSTANCE LeaseTable WITH
    Member <- Proc, Limit <- TMCHK_NORESP, Slack <- 1,
    members <- {p \in Proc : Path(p, 3) \in tree},
    age <- [p \in Proc |-> age[Path(p, 3)]]

LeaseSpec == Lease!Spec

\* "create dealer thread per broker" (broker_regi_thrd): a broker whose
\* registrations keep coming, while those of any other broker on its host have
\* ended, is given a thread.
Serving(b) == \E s \in used : name[s] = b /\ thread[s] = "loop"
Registers(b) == req # NULL /\ BrokerOf[req] = b
ThreadPerBroker ==
    \A b \in Broker :
        (/\ []<>Registers(b)
         /\ <>[](\A c \in Broker \ {b} : HostOf[c] = HostOf[b] => ~Registers(c)))
        => <>Serving(b)
=============================================================================
