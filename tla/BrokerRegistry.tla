--------------------------- MODULE BrokerRegistry ---------------------------
(***************************************************************************)
(* The broker's service registry (broker.c).                               *)
(*                                                                         *)
(* Three threads share it.  The registration thread (svc_regi_thrd) takes  *)
(* one registration message at a time, looks for the port in the table of  *)
(* service slots (chk_svc_dealer), claims a slot when there is none        *)
(* (create_new_dealer, set_svc_slot), keeps a two-level tree of service    *)
(* and process nodes with the time of the last heartbeat (chk_tree), and   *)
(* every second removes the nodes that were silent for more than           *)
(* TMCHK_NORESP seconds (removetree_callback).  The service thread         *)
(* (svc_dealer_thrd) runs the callbacks the registration thread hands to   *)
(* it: start_svc_polling opens the sockets of a slot, svc_release closes   *)
(* them and clears the slot with memset.  The slots are shared without a   *)
(* lock: the memset is a sequence of steps that other steps interleave.    *)
(*                                                                         *)
(* A heartbeat time is kept as its age in seconds, up to TMCHK_NORESP + 1. *)
(***************************************************************************)
EXTENDS Integers, Sequences

CONSTANTS
    Svc,            \* service names (tag.svc)
    Proc,           \* client processes (tag.name, "<progname>_<pid>")
    SvcOf,          \* the service each process registers for
    PortOf,         \* the port each process registers with (mq_regi_t.port)
    MAX_SVC_NUM,    \* number of service slots
    TMCHK_NORESP,   \* seconds of silence a node survives
    NULL

Slot   == 0..(MAX_SVC_NUM - 1)
Port   == {(PortOf[p] \div 10) * 10 : p \in Proc}
Field  == {"used", "name", "port", "evbase"}
MaxAge == TMCHK_NORESP + 1

ASSUME ConstAssumption ==
    /\ SvcOf \in [Proc -> Svc]
    /\ PortOf \in [Proc -> Nat]
    /\ MAX_SVC_NUM \in Nat
    /\ TMCHK_NORESP \in Nat
    /\ NULL \notin Nat /\ NULL \notin Svc /\ NULL \notin Proc

VARIABLES
    used,       \* slots whose used flag is set
    name,       \* svc_name of each slot, NULL when zeroed
    port,       \* svc_start_port of each slot, 0 when zeroed
    based,      \* slots whose evbase pointer is not NULL
    opened,     \* slots with open sockets and events
    nodes,      \* services in the tree
    node_age,   \* seconds since the service's last heartbeat
    node_ctx,   \* svc_ctx of a service node: a slot or NULL
    procs,      \* processes in the tree, each under its service
    proc_age,   \* seconds since the process's last heartbeat
    pc,         \* where the registration thread is
    req,        \* the process whose registration it is handling
    new_svc,    \* the slot it has just claimed
    todo,       \* service nodes its current sweep has not visited
    booted,     \* TRUE once the service thread has set main_ctx->evbase
    evq,        \* callbacks waiting on the service thread's event base
    clearing,   \* the slot svc_release is clearing, or NULL
    left        \* fields of that slot the memset has not reached

slots    == <<used, name, port, based>>
tree     == <<nodes, node_age, node_ctx, procs, proc_age>>
regi     == <<pc, req, new_svc, todo>>
service  == <<booted, evq, clearing, left, opened>>
vars     == <<slots, tree, regi, service>>

ProcsOf(v) == {p \in procs : SvcOf[p] = v}
\* Faulty variants of a definition, which the checks substitute for it, stand
\* before it and are named Bad<Definition>.
BadTarget(p) == PortOf[p]
Target(p)  == (PortOf[p] \div 10) * 10
Start(s)   == [cb |-> "start_svc_polling", arg |-> s]
Release(s) == [cb |-> "svc_release", arg |-> s]
Event      == [cb : {"start_svc_polling", "svc_release"}, arg : Slot]

Init ==
    /\ used = {} /\ based = {} /\ opened = {}
    /\ name = [s \in Slot |-> NULL]
    /\ port = [s \in Slot |-> 0]
    /\ nodes = {} /\ procs = {}
    /\ node_age = [v \in Svc |-> 0]
    /\ node_ctx = [v \in Svc |-> NULL]
    /\ proc_age = [p \in Proc |-> 0]
    /\ pc = "idle" /\ req = NULL /\ new_svc = NULL /\ todo = {}
    /\ booted = FALSE /\ evq = <<>> /\ clearing = NULL /\ left = {}

-----------------------------------------------------------------------------
(* Time.                                                                   *)

Older(age) == IF age = MaxAge THEN age ELSE age + 1

\* One second passes.  A sweep compares with the time it started at, and
\* the two heartbeats of one registration (service, then process) are at most
\* one second apart: the code between them never blocks.
Tick ==
    /\ pc # "sweep"
    /\ pc = "proc" => node_age[SvcOf[req]] = 0
    /\ node_age' = [v \in Svc |-> IF v \in nodes THEN Older(node_age[v]) ELSE 0]
    /\ proc_age' = [p \in Proc |-> IF p \in procs THEN Older(proc_age[p]) ELSE 0]
    /\ UNCHANGED <<slots, nodes, node_ctx, procs, regi, service>>

-----------------------------------------------------------------------------
(* Registration thread: one registration message.                          *)

BadHolders(p) == {s \in used : name[s] = SvcOf[p]}
Holders(p) == {s \in used : port[s] = Target(p)}

First(s, S) == s \in S /\ \A t \in S : s <= t

\* regi_action passes every message on to the hub, if there is one, which
\* changes nothing here (HubRegistry takes it there); then chk_svc_dealer scans
\* the slots up to the first one with the port.
RegiScan(p) ==
    /\ pc = "idle"
    /\ \/ /\ Holders(p) = {}
          /\ pc' = "fresh" /\ req' = p
       \/ \E s \in Slot :
          /\ First(s, Holders(p))
          /\ name[s] = SvcOf[p]
          /\ pc' = "svc" /\ req' = p
       \/ \E s \in Slot :
          /\ First(s, Holders(p))
          /\ name[s] # SvcOf[p]
          /\ UNCHANGED <<pc, req>>
    /\ UNCHANGED <<slots, tree, new_svc, todo, service>>

SetSvcSlot(s, p) ==
    /\ used' = used \cup {s}
    /\ name' = [name EXCEPT ![s] = SvcOf[p]]
    /\ port' = [port EXCEPT ![s] = Target(p)]
    /\ based' = IF booted THEN based \cup {s} ELSE based \ {s}

\* create_new_dealer takes the first free slot.
ClaimSlot ==
    /\ pc = "fresh"
    /\ \E s \in Slot :
         /\ First(s, Slot \ used)
         /\ SetSvcSlot(s, req)
         /\ new_svc' = s
    /\ pc' = "claimed"
    /\ UNCHANGED <<tree, req, todo, service>>

\* "all service slot is full".
SlotsFull ==
    /\ pc = "fresh"
    /\ Slot \ used = {}
    /\ pc' = "idle" /\ req' = NULL
    /\ UNCHANGED <<slots, tree, new_svc, todo, service>>

\* event_base_once does nothing when the event base is NULL.
Once(s, e) == evq' = IF s \in based THEN Append(evq, e) ELSE evq

BadChkTreeSvc(v, ctx) ==
    /\ nodes' = nodes \cup {v}
    /\ node_age' = IF v \in nodes THEN node_age ELSE [node_age EXCEPT ![v] = 0]
    /\ node_ctx' = IF v \in nodes THEN node_ctx ELSE [node_ctx EXCEPT ![v] = ctx]

\* chk_tree for a service: renew its node, or insert one that refers to ctx.
ChkTreeSvc(v, ctx) ==
    /\ nodes' = nodes \cup {v}
    /\ node_age' = [node_age EXCEPT ![v] = 0]
    /\ node_ctx' = IF v \in nodes THEN node_ctx ELSE [node_ctx EXCEPT ![v] = ctx]

NewService ==
    /\ pc = "claimed"
    /\ Once(new_svc, Start(new_svc))
    /\ ChkTreeSvc(SvcOf[req], new_svc)
    /\ pc' = "idle" /\ req' = NULL /\ new_svc' = NULL
    /\ UNCHANGED <<slots, procs, proc_age, todo, booted, clearing, left, opened>>

BadAddToService ==
    /\ pc = "svc"
    /\ ChkTreeSvc(SvcOf[req], IF Holders(req) = {} THEN NULL ELSE CHOOSE s \in Holders(req) : TRUE)
    /\ pc' = "proc"
    /\ UNCHANGED <<slots, procs, proc_age, req, new_svc, todo, service>>

AddToService ==
    /\ pc = "svc"
    /\ ChkTreeSvc(SvcOf[req], NULL)
    /\ pc' = "proc"
    /\ UNCHANGED <<slots, procs, proc_age, req, new_svc, todo, service>>

AddProc ==
    /\ pc = "proc"
    /\ procs' = procs \cup {req}
    /\ proc_age' = [proc_age EXCEPT ![req] = 0]
    /\ pc' = "idle" /\ req' = NULL
    /\ UNCHANGED <<slots, nodes, node_age, node_ctx, new_svc, todo, service>>

-----------------------------------------------------------------------------
(* Registration thread: the sweep that runs every second.                  *)

SweepStart ==
    /\ pc = "idle"
    /\ nodes # {}
    /\ pc' = "sweep" /\ todo' = nodes
    /\ UNCHANGED <<slots, tree, req, new_svc, service>>

BadExpired(age) == age >= TMCHK_NORESP
Expired(age) == age > TMCHK_NORESP

\* RemoveNode: hand the slot to svc_release and drop the whole subtree.
RemoveService(v) ==
    /\ nodes' = nodes \ {v}
    /\ procs' = procs \ ProcsOf(v)
    /\ node_age' = [node_age EXCEPT ![v] = 0]
    /\ node_ctx' = [node_ctx EXCEPT ![v] = NULL]
    /\ proc_age' = [p \in Proc |-> IF SvcOf[p] = v THEN 0 ELSE proc_age[p]]
    /\ IF node_ctx[v] = NULL THEN evq' = evq
                             ELSE Once(node_ctx[v], Release(node_ctx[v]))

RemoveProcs(v) ==
    LET gone == {p \in ProcsOf(v) : Expired(proc_age[p])} IN
    /\ procs' = procs \ gone
    /\ proc_age' = [p \in Proc |-> IF p \in gone THEN 0 ELSE proc_age[p]]
    /\ UNCHANGED <<nodes, node_age, node_ctx, evq>>

BadSweepNode(v) ==
    /\ pc = "sweep"
    /\ v \in todo
    /\ \/ Expired(node_age[v]) /\ node_ctx[v] # NULL /\ RemoveService(v)
       \/ ~(Expired(node_age[v]) /\ node_ctx[v] # NULL) /\ RemoveProcs(v)
    /\ todo' = todo \ {v}
    /\ pc' = IF todo' = {} THEN "idle" ELSE "sweep"
    /\ UNCHANGED <<slots, req, new_svc, booted, clearing, left, opened>>

SweepNode(v) ==
    /\ pc = "sweep"
    /\ v \in todo
    /\ \/ Expired(node_age[v]) /\ RemoveService(v)
       \/ ~Expired(node_age[v]) /\ RemoveProcs(v)
    /\ todo' = todo \ {v}
    /\ pc' = IF todo' = {} THEN "idle" ELSE "sweep"
    /\ UNCHANGED <<slots, req, new_svc, booted, clearing, left, opened>>

-----------------------------------------------------------------------------
(* Service thread.                                                         *)

SvcThreadInit ==
    /\ ~booted
    /\ booted' = TRUE
    /\ UNCHANGED <<slots, tree, regi, evq, clearing, left, opened>>

Runs(cb) == booted /\ clearing = NULL /\ evq # <<>> /\ Head(evq).cb = cb

StartPolling ==
    /\ Runs("start_svc_polling")
    /\ opened' = opened \cup {Head(evq).arg}
    /\ evq' = Tail(evq)
    /\ UNCHANGED <<slots, tree, regi, booted, clearing, left>>

\* svc_release closes the sockets and enters the memset.
SvcRelease ==
    /\ Runs("svc_release")
    /\ opened' = opened \ {Head(evq).arg}
    /\ clearing' = Head(evq).arg
    /\ left' = Field
    /\ evq' = Tail(evq)
    /\ UNCHANGED <<slots, tree, regi, booted>>

\* The memset reaches field f; the order of its stores is not defined.
Memset(f) ==
    /\ clearing # NULL
    /\ f \in left
    /\ used'  = IF f = "used" THEN used \ {clearing} ELSE used
    /\ name'  = IF f = "name" THEN [name EXCEPT ![clearing] = NULL] ELSE name
    /\ port'  = IF f = "port" THEN [port EXCEPT ![clearing] = 0] ELSE port
    /\ based' = IF f = "evbase" THEN based \ {clearing} ELSE based
    /\ left' = left \ {f}
    /\ clearing' = IF left' = {} THEN NULL ELSE clearing
    /\ UNCHANGED <<tree, regi, booted, evq, opened>>

-----------------------------------------------------------------------------
RegiStep    == ClaimSlot \/ SlotsFull \/ NewService \/ AddToService \/ AddProc
                 \/ \E v \in Svc : SweepNode(v)
ServiceStep == SvcThreadInit \/ StartPolling \/ SvcRelease \/ \E f \in Field : Memset(f)

Next ==
    \/ \E p \in Proc : RegiScan(p)
    \/ Tick
    \/ SweepStart
    \/ RegiStep
    \/ ServiceStep

Spec == Init /\ [][Next]_vars

\* The threads never stop, the clock runs, and libevent serves the sweep's
\* timer in every round of its loop, however many registrations arrive.
Fairness == WF_vars(RegiStep) /\ WF_vars(ServiceStep) /\ SF_vars(Tick) /\ SF_vars(SweepStart)

FairSpec == Spec /\ Fairness
-----------------------------------------------------------------------------
(* Correctness.                                                            *)

\* Every variable has its type; the registration thread holds a request
\* exactly while it handles one, and a slot exactly while it claims one.
TypeOK ==
    /\ used \subseteq Slot /\ based \subseteq Slot /\ opened \subseteq Slot
    /\ name \in [Slot -> Svc \cup {NULL}]
    /\ port \in [Slot -> Port \cup {0}]
    /\ nodes \subseteq Svc
    /\ node_age \in [Svc -> 0..MaxAge]
    /\ node_ctx \in [Svc -> Slot \cup {NULL}]
    /\ procs \subseteq Proc
    /\ proc_age \in [Proc -> 0..MaxAge]
    /\ pc \in {"idle", "fresh", "claimed", "svc", "proc", "sweep"}
    /\ req \in Proc \cup {NULL}
    /\ pc \in {"fresh", "claimed", "svc", "proc"} => req \in Proc
    /\ new_svc \in Slot \cup {NULL}
    /\ pc = "claimed" => new_svc \in Slot
    /\ todo \subseteq Svc
    /\ booted \in BOOLEAN
    /\ evq \in Seq(Event)
    /\ clearing \in Slot \cup {NULL}
    /\ left \subseteq Field

\* Two slots in use never serve the same port: each would bind the same tcp
\* addresses (connect_svc_slot).  The scan and the claim are separate steps,
\* and svc_release clears slots in between.
PortsUnique ==
    \A s, t \in used : s # t /\ port[s] = port[t] => port[s] = 0

\* When svc_release runs, start_svc_polling has run for its slot and nothing
\* has released the slot since: it would free the three events of the slot
\* through pointers that are NULL.  No service node refers to the slot.
ReleaseFindsOpenSlot ==
    Runs("svc_release") =>
        /\ Head(evq).arg \in opened \cap used
        /\ \A v \in nodes : node_ctx[v] # Head(evq).arg

\* A service node's slot is in use, belongs to no other node and bears the
\* node's service name, unless the memset of an earlier release was still
\* running when the slot was claimed and has zeroed the name.
NodeOwnsSlot ==
    \A v \in nodes : node_ctx[v] # NULL =>
        /\ node_ctx[v] \in used
        /\ name[node_ctx[v]] \in {v, NULL}
        /\ \A w \in nodes \ {v} : node_ctx[w] # node_ctx[v]

\* The children in the tree hang under a node, and a service is at most one
\* second more silent than any process under it.
LeasesNested ==
    \A p \in procs : SvcOf[p] \in nodes /\ node_age[SvcOf[p]] <= proc_age[p] + 1

\* The process nodes are a lease table: destroying a service node with its
\* subtree never removes a process that is still within its lease.
Lease == INSTANCE LeaseTable WITH
    Member <- Proc, Limit <- TMCHK_NORESP, Slack <- 1,
    members <- procs, age <- proc_age

LeaseSpec == Lease!Spec

\* A process whose registrations are no longer taken leaves the tree for
\* good, and so does a service once this holds of all its processes.
SilentForgotten ==
    /\ \A p \in Proc : []<>(req = p) \/ <>[](p \notin procs)
    /\ \A v \in Svc : (\E p \in Proc : SvcOf[p] = v /\ []<>(req = p)) \/ <>[](v \notin nodes)

\* "create service node & manage it" (svc_regi_thrd): a slot in use that can
\* still reach the service thread is claimed right now, owned by a service
\* node, or on its way to be released.
SlotManaged ==
    \A s \in used \cap based :
        \/ pc = "claimed" /\ new_svc = s
        \/ \E v \in nodes : node_ctx[v] = s
        \/ \E i \in 1..Len(evq) : evq[i] = Release(s)
        \/ clearing = s
=============================================================================
