------------------------ MODULE BrokerRegistryProofs ------------------------
(***************************************************************************)
(* Proofs about BrokerRegistry for any number of services, processes and   *)
(* slots.  TypeOK, PortsUnique and LeasesNested are made inductive one     *)
(* after the other; the safety of svc_release rests on SlotInv, which says *)
(* where in its life each slot is.                                         *)
(***************************************************************************)
EXTENDS BrokerRegistry, TLAPS

-----------------------------------------------------------------------------
(* The service thread's queue.                                             *)

\* Appending an event keeps the ones before it.
LEMMA AppendEvent ==
    ASSUME NEW q \in Seq(Event), NEW e \in Event
    PROVE  /\ Append(q, e) \in Seq(Event)
           /\ Len(Append(q, e)) = Len(q) + 1
           /\ \A i \in 1..Len(q) : Append(q, e)[i] = q[i]
           /\ Append(q, e)[Len(q) + 1] = e
  OBVIOUS

\* Taking the first event moves the others up by one.
LEMMA TailEvent ==
    ASSUME NEW q \in Seq(Event), q # <<>>
    PROVE  /\ Tail(q) \in Seq(Event)
           /\ Len(q) \in Nat \ {0}
           /\ Len(Tail(q)) = Len(q) - 1
           /\ \A i \in 1..Len(Tail(q)) : Tail(q)[i] = q[i + 1]
           /\ Head(q) = q[1]
           /\ Head(q) \in Event
  OBVIOUS

\* A waiting event is for a slot.
LEMMA EventArg ==
    ASSUME NEW q \in Seq(Event)
    PROVE  \A i \in 1..Len(q) : q[i].arg \in Slot
  <1> TAKE i \in 1..Len(q)
  <1>1. q[i] \in Event
    OBVIOUS
  <1> QED
    BY <1>1 DEF Event

-----------------------------------------------------------------------------
(* Types.                                                                  *)

LEMMA TargetType == \A p \in Proc : Target(p) \in Port
  BY DEF Target, Port

LEMMA OlderType == \A n \in 0..MaxAge : Older(n) \in 0..MaxAge
  BY ConstAssumption DEF Older, MaxAge

\* Every variable keeps its type.
THEOREM TypeCorrect == Spec => []TypeOK
  <1>1. Init => TypeOK
    <2>1. 0 \in 0..MaxAge /\ <<>> \in Seq(Event)
      BY ConstAssumption DEF MaxAge
    <2> QED
      BY <2>1 DEF Init, TypeOK
  <1>2. TypeOK /\ [Next]_vars => TypeOK'
    <2> SUFFICES ASSUME TypeOK, [Next]_vars PROVE TypeOK'
      OBVIOUS
    <2> USE DEF TypeOK
    <2>1. ASSUME NEW p \in Proc, RegiScan(p) PROVE TypeOK'
      BY <2>1 DEF RegiScan, slots, tree, service
    <2>2. CASE Tick
      <3>1. node_age \in [Svc -> 0..MaxAge] /\ proc_age \in [Proc -> 0..MaxAge]
        OBVIOUS
      <3>2. 0 \in 0..MaxAge /\ \A n \in 0..MaxAge : Older(n) \in 0..MaxAge
        BY OlderType, ConstAssumption DEF MaxAge
      <3>3. node_age' \in [Svc -> 0..MaxAge] /\ proc_age' \in [Proc -> 0..MaxAge]
        <4> HIDE DEF TypeOK
        <4> QED
          BY <2>2, <3>1, <3>2 DEF Tick
      <3> QED
        BY <2>2, <3>3 DEF Tick, slots, regi, service
    <2>3. CASE SweepStart
      BY <2>3 DEF SweepStart, slots, tree, service
    <2>4. CASE ClaimSlot
      BY <2>4, ConstAssumption, TargetType DEF ClaimSlot, SetSvcSlot, First, tree, service
    <2>5. CASE SlotsFull
      BY <2>5 DEF SlotsFull, slots, tree, service
    <2>6. CASE NewService
      <3>1. SvcOf[req] \in Svc /\ Start(new_svc) \in Event
        BY <2>6, ConstAssumption DEF NewService, Start, Event
      <3>2. evq' \in Seq(Event)
        BY <2>6, <3>1, AppendEvent DEF NewService, Once
      <3> QED
        BY <2>6, <3>1, <3>2, ConstAssumption DEF NewService, ChkTreeSvc, slots, MaxAge
    <2>7. CASE AddToService
      BY <2>7, ConstAssumption DEF AddToService, ChkTreeSvc, slots, service, MaxAge
    <2>8. CASE AddProc
      BY <2>8, ConstAssumption DEF AddProc, slots, service, MaxAge
    <2>9. ASSUME NEW v \in Svc, SweepNode(v) PROVE TypeOK'
      <3>1. CASE Expired(node_age[v]) /\ RemoveService(v)
        <4>1. ASSUME node_ctx[v] # NULL PROVE Release(node_ctx[v]) \in Event
          BY <4>1 DEF Release, Event
        <4>2. evq' \in Seq(Event)
          <5>1. CASE node_ctx[v] # NULL
            <6>1. evq \in Seq(Event)
              OBVIOUS
            <6>2. Release(node_ctx[v]) \in Event
              BY <4>1, <5>1
            <6> HIDE DEF TypeOK
            <6>3. evq' = Append(evq, Release(node_ctx[v])) \/ evq' = evq
              BY <3>1, <5>1 DEF RemoveService, Once
            <6>4. Append(evq, Release(node_ctx[v])) \in Seq(Event)
              BY <6>1, <6>2, AppendEvent
            <6> QED
              BY <6>1, <6>3, <6>4
          <5>2. CASE node_ctx[v] = NULL
            BY <3>1, <5>2 DEF RemoveService
          <5> QED
            BY <5>1, <5>2
        <4> QED
          BY <2>9, <3>1, <4>2, ConstAssumption DEF SweepNode, RemoveService, slots, MaxAge
      <3>2. CASE ~Expired(node_age[v]) /\ RemoveProcs(v)
        BY <2>9, <3>2, ConstAssumption DEF SweepNode, RemoveProcs, slots, MaxAge
      <3> QED
        BY <2>9, <3>1, <3>2 DEF SweepNode
    <2>10. CASE SvcThreadInit
      BY <2>10 DEF SvcThreadInit, slots, tree, regi
    <2>11. CASE StartPolling
      BY <2>11, TailEvent DEF StartPolling, Runs, Event, slots, tree, regi
    <2>12. CASE SvcRelease
      BY <2>12, TailEvent DEF SvcRelease, Runs, Event, slots, tree, regi
    <2>13. ASSUME NEW f \in Field, Memset(f) PROVE TypeOK'
      BY <2>13 DEF Memset, tree, regi
    <2>14. CASE UNCHANGED vars
      BY <2>14 DEF vars, slots, tree, regi, service
    <2> QED
      BY <2>1, <2>2, <2>3, <2>4, <2>5, <2>6, <2>7, <2>8, <2>9, <2>10, <2>11, <2>12,
         <2>13, <2>14 DEF Next, RegiStep, ServiceStep
  <1> QED
    BY <1>1, <1>2, PTL DEF Spec

-----------------------------------------------------------------------------
(* Ports.                                                                  *)

\* Between the scan that found no slot with a port and the claim of one, no
\* slot with the port appears: only this thread gives slots a port.
PortInv ==
    /\ PortsUnique
    /\ pc = "fresh" => \A s \in used : port[s] = Target(req) => port[s] = 0

\* Two slots in use never serve the same port.
THEOREM PortsStayUnique == Spec => []PortsUnique
  <1>1. Init => PortInv
    BY DEF Init, PortInv, PortsUnique
  <1>2. TypeOK /\ PortInv /\ [Next]_vars => PortInv'
    <2> SUFFICES ASSUME TypeOK, PortInv, [Next]_vars PROVE PortInv'
      OBVIOUS
    <2> USE DEF PortInv, PortsUnique
    <2>1. ASSUME NEW p \in Proc, RegiScan(p) PROVE PortInv'
      BY <2>1 DEF RegiScan, Holders, Target, slots
    <2>2. CASE ClaimSlot
      <3> PICK s \in Slot : /\ s \notin used /\ used' = used \cup {s}
                            /\ port' = [port EXCEPT ![s] = Target(req)]
        BY <2>2 DEF ClaimSlot, SetSvcSlot, First
      <3>1. pc = "fresh" /\ pc' = "claimed"
        BY <2>2 DEF ClaimSlot, SetSvcSlot
      <3> QED
        BY <3>1 DEF TypeOK
    <2>3. ASSUME NEW f \in Field, Memset(f) PROVE PortInv'
      <3>1. /\ used' \subseteq used /\ pc' = pc /\ req' = req
            /\ \A s \in Slot : port'[s] \in {port[s], 0}
        BY <2>3 DEF Memset, TypeOK, regi
      <3> QED
        BY <3>1 DEF TypeOK, Target
    <2>4. CASE UNCHANGED slots /\ (pc' # "fresh" \/ UNCHANGED <<pc, req>>)
      BY <2>4 DEF slots, Target
    <2> QED
      BY <2>1, <2>2, <2>3, <2>4 DEF Next, RegiStep, ServiceStep, vars, regi, Tick,
         SweepStart, SlotsFull, NewService, AddToService, AddProc, SweepNode,
         SvcThreadInit, StartPolling, SvcRelease
  <1> QED
    BY <1>1, <1>2, TypeCorrect, PTL DEF Spec, PortInv

-----------------------------------------------------------------------------
(* Leases.                                                                 *)

\* While a registration is between its two heartbeats, its service's is at
\* most a second old; a process that is not in the tree has age 0.
LeaseInv ==
    /\ LeasesNested
    /\ pc = "proc" => SvcOf[req] \in nodes /\ node_age[SvcOf[req]] <= 1
    /\ \A p \in Proc \ procs : proc_age[p] = 0

LEMMA LeaseInvInit == Init => LeaseInv
  BY DEF Init, LeaseInv, LeasesNested

LEMMA LeaseInvStep == TypeOK /\ LeaseInv /\ [Next]_vars => LeaseInv'
  <1> SUFFICES ASSUME TypeOK, LeaseInv, [Next]_vars PROVE LeaseInv'
    OBVIOUS
  <1> USE ConstAssumption DEF LeaseInv, LeasesNested
  <1>1. CASE Tick
    BY <1>1 DEF Tick, Older, MaxAge, TypeOK, regi
  <1>2. CASE NewService
    BY <1>2 DEF NewService, ChkTreeSvc, TypeOK, MaxAge
  <1>3. CASE AddToService
    BY <1>3 DEF AddToService, ChkTreeSvc, TypeOK, MaxAge
  <1>4. CASE AddProc
    BY <1>4 DEF AddProc, TypeOK, MaxAge
  <1>5. ASSUME NEW v \in Svc, SweepNode(v) PROVE LeaseInv'
    <2>1. pc' # "proc"
      BY <1>5 DEF SweepNode
    <2>2. CASE RemoveService(v)
      <3>1. \A p \in procs' : p \in procs /\ SvcOf[p] # v
        BY <2>2 DEF RemoveService, ProcsOf
      <3>2. \A p \in procs' : SvcOf[p] \in nodes' /\ node_age'[SvcOf[p]] <= proc_age'[p] + 1
        BY <2>2, <3>1 DEF RemoveService, TypeOK
      <3>3. \A p \in Proc \ procs' : proc_age'[p] = 0
        BY <2>2 DEF RemoveService, ProcsOf, TypeOK
      <3> QED
        BY <2>1, <3>2, <3>3
    <2>3. CASE RemoveProcs(v)
      BY <2>1, <2>3 DEF RemoveProcs, ProcsOf, TypeOK
    <2> QED
      BY <1>5, <2>2, <2>3 DEF SweepNode
  <1>6. CASE UNCHANGED tree /\ (pc' # "proc" \/ UNCHANGED <<pc, req>>)
    BY <1>6 DEF tree
  <1> QED
    BY <1>1, <1>2, <1>3, <1>4, <1>5, <1>6 DEF Next, RegiStep, ServiceStep, vars, regi,
       RegiScan, ClaimSlot, SetSvcSlot, SweepStart, SlotsFull, SvcThreadInit, StartPolling,
       SvcRelease, Memset

\* A process hangs under its service, which is at most a second more silent.
THEOREM LeasesStayNested == Spec => []LeasesNested
  BY LeaseInvInit, LeaseInvStep, TypeCorrect, PTL DEF Spec, LeaseInv

\* A step of the registry is a step of the lease table of its processes, or
\* leaves it alone.
LEMMA LeaseStep ==
    ASSUME TypeOK, LeaseInv, [Next]_vars
    PROVE  [Lease!Next]_<<procs, proc_age>>
  <1> USE ConstAssumption DEF LeaseInv, LeasesNested
  <1>1. CASE Tick
    <2>1. Lease!Second
      BY <1>1 DEF Tick, Older, MaxAge, TypeOK, Lease!Second
    <2> QED
      BY <2>1 DEF Lease!Next
  <1>2. CASE AddProc
    <2>1. req \in Proc /\ Lease!Renew(req)
      BY <1>2 DEF AddProc, TypeOK, Lease!Renew
    <2> QED
      BY <2>1 DEF Lease!Next
  <1>3. ASSUME NEW v \in Svc, Expired(node_age[v]), RemoveService(v)
        PROVE  Lease!Next
    <2>1. Lease!Drop(ProcsOf(v))
      BY <1>3 DEF RemoveService, ProcsOf, Expired, TypeOK, MaxAge, Lease!Drop
    <2> QED
      BY <2>1 DEF Lease!Next, ProcsOf, TypeOK
  <1>4. ASSUME NEW v \in Svc, RemoveProcs(v)
        PROVE  Lease!Next
    <2> DEFINE gone == {p \in ProcsOf(v) : Expired(proc_age[p])}
    <2>1. Lease!Drop(gone)
      BY <1>4 DEF RemoveProcs, ProcsOf, Expired, TypeOK, MaxAge, Lease!Drop
    <2> QED
      BY <2>1 DEF Lease!Next, ProcsOf, TypeOK
  <1>5. CASE UNCHANGED <<procs, proc_age>>
    BY <1>5
  <1> QED
    BY <1>1, <1>2, <1>3, <1>4, <1>5 DEF Next, RegiStep, ServiceStep, vars, tree, SweepNode,
       RegiScan, ClaimSlot, SetSvcSlot, SweepStart, SlotsFull, NewService, AddToService,
       SvcThreadInit, StartPolling, SvcRelease, Memset

\* The processes in the tree are a lease table: the registry implements it.
THEOREM ProcsAreLeased == Spec => LeaseSpec
  <1>1. Init => Lease!Init
    BY DEF Init, Lease!Init
  <1> QED
    BY <1>1, LeaseStep, LeaseInvInit, LeaseInvStep, TypeCorrect, PTL
       DEF Spec, LeaseSpec, Lease!Spec

-----------------------------------------------------------------------------
(* The life of a slot.                                                     *)

Queued(e) == \E i \in 1..Len(evq) : evq[i] = e

\* A slot nothing refers to: no event waits for it, no node owns it and its
\* sockets are closed.
Untouched(s) ==
    /\ \A i \in 1..Len(evq) : evq[i].arg # s
    /\ \A v \in Svc : node_ctx[v] # s
    /\ s \notin opened

\* Waiting events are for slots in use, and no two are the same.
EventInv ==
    /\ \A i \in 1..Len(evq) : evq[i].arg \in used
    /\ \A i, j \in 1..Len(evq) : i # j => evq[i] # evq[j]

\* A slot waiting for start_svc_polling is closed; one waiting for svc_release
\* belongs to no node, and is open or will be by then.
QueueInv ==
    /\ \A i \in 1..Len(evq) : evq[i] = Start(evq[i].arg) => evq[i].arg \notin opened
    /\ \A i \in 1..Len(evq) : evq[i] = Release(evq[i].arg) =>
          /\ \A v \in Svc : node_ctx[v] # evq[i].arg
          /\ evq[i].arg \in opened \/ \E j \in 1..(i - 1) : evq[j] = Start(evq[i].arg)

\* Only a node in the tree owns a slot; when the slot can reach the service
\* thread it is open, or start_svc_polling waits for it.
OwnerInv ==
    /\ opened \subseteq used
    /\ \A v \in Svc : node_ctx[v] # NULL =>
          /\ v \in nodes
          /\ node_ctx[v] \in used
          /\ name[node_ctx[v]] \in {v, NULL}
          /\ \A w \in Svc \ {v} : node_ctx[w] # node_ctx[v]
          /\ node_ctx[v] \in based => node_ctx[v] \in opened \/ Queued(Start(node_ctx[v]))

\* A slot that was just claimed, and one whose used flag the memset has yet to
\* clear, are untouched, and are not the same.
FreshInv ==
    /\ pc = "claimed" =>
          /\ new_svc \in used /\ Untouched(new_svc)
          /\ name[new_svc] \in {SvcOf[req], NULL}
    /\ left # {} => clearing # NULL
    /\ "used" \in left =>
          /\ clearing \in used /\ Untouched(clearing)
          /\ pc = "claimed" => clearing # new_svc

SlotInv == EventInv /\ QueueInv /\ OwnerInv /\ FreshInv

LEMMA SlotInvInit == Init => SlotInv
  BY ConstAssumption DEF Init, SlotInv, EventInv, QueueInv, OwnerInv, FreshInv, Queued

LEMMA ClaimSlotInv == ASSUME TypeOK, SlotInv, ClaimSlot PROVE SlotInv'
  <1> USE DEF SlotInv
  <1> PICK s \in Slot :
        /\ s \notin used /\ used' = used \cup {s}
        /\ name' = [name EXCEPT ![s] = SvcOf[req]]
        /\ based' = IF booted THEN based \cup {s} ELSE based \ {s}
        /\ new_svc' = s
    BY DEF ClaimSlot, SetSvcSlot, First
  <1>1. UNCHANGED <<nodes, node_ctx, evq, clearing, left, opened, req>> /\ pc' = "claimed"
    BY DEF ClaimSlot, SetSvcSlot, tree, service
  <1>2. Untouched(s)
    BY ConstAssumption DEF Untouched, EventInv, OwnerInv, TypeOK, Slot
  <1>3. EventInv'
    BY <1>1 DEF EventInv
  <1>4. QueueInv'
    BY <1>1 DEF QueueInv
  <1>5. OwnerInv'
    <2>1. ASSUME NEW v \in Svc, node_ctx[v] # NULL PROVE node_ctx[v] \in Slot /\ node_ctx[v] # s
      BY <2>1 DEF OwnerInv, TypeOK
    <2> QED
      BY <1>1, <2>1 DEF OwnerInv, Queued, TypeOK
  <1>6. FreshInv'
    BY <1>1, <1>2, ConstAssumption DEF FreshInv, Untouched, TypeOK
  <1> QED
    BY <1>3, <1>4, <1>5, <1>6

LEMMA NewServiceInv == ASSUME TypeOK, SlotInv, NewService PROVE SlotInv'
  <1> USE DEF SlotInv
  <1> PICK s \in Slot, v \in Svc : s = new_svc /\ v = SvcOf[req]
    BY ConstAssumption DEF NewService, TypeOK
  <1>1. /\ pc = "claimed" /\ pc' = "idle"
        /\ UNCHANGED <<used, name, based, clearing, left, opened>>
        /\ nodes' = nodes \cup {v}
        /\ node_ctx' = IF v \in nodes THEN node_ctx ELSE [node_ctx EXCEPT ![v] = s]
        /\ evq' = IF s \in based THEN Append(evq, Start(s)) ELSE evq
    BY ConstAssumption DEF NewService, ChkTreeSvc, Once, TypeOK, slots
  <1>2. s \in used /\ Untouched(s) /\ name[s] \in {v, NULL}
    BY <1>1 DEF FreshInv
  <1>3. "used" \in left => clearing # s
    BY <1>1 DEF FreshInv
  <1>4. /\ Start(s) \in Event /\ evq \in Seq(Event) /\ Len(evq) \in Nat
        /\ Start(s).arg = s /\ Start(s) # Release(s)
    BY <1>1 DEF Start, Release, Event, TypeOK
  <1>5. CASE s \in based
    <2>1. /\ Len(evq') = Len(evq) + 1
          /\ \A i \in 1..Len(evq) : evq'[i] = evq[i]
          /\ evq'[Len(evq) + 1] = Start(s)
      BY <1>1, <1>4, <1>5, AppendEvent
    <2>2. \A i \in 1..Len(evq) : evq[i].arg # s /\ evq[i] # Start(s)
      BY <1>2, <1>4 DEF Untouched
    <2>3. EventInv'
      BY <1>1, <1>2, <1>4, <2>1, <2>2 DEF EventInv
    <2>4. QueueInv'
      <3>1. ASSUME NEW i \in 1..Len(evq'), evq'[i] = Start(evq'[i].arg)
            PROVE  evq'[i].arg \notin opened'
        BY <1>1, <1>2, <1>4, <2>1, <3>1 DEF QueueInv, Untouched
      <3>2. ASSUME NEW i \in 1..Len(evq'), evq'[i] = Release(evq'[i].arg)
            PROVE  /\ \A w \in Svc : node_ctx'[w] # evq'[i].arg
                   /\ evq'[i].arg \in opened' \/ \E j \in 1..(i - 1) : evq'[j] = Start(evq'[i].arg)
        <4>1. i \in 1..Len(evq) /\ evq'[i] = evq[i]
          BY <1>4, <2>1, <3>2
        <4>2. evq[i].arg # s
          BY <2>2, <4>1
        <4> QED
          BY <1>1, <1>4, <2>1, <3>2, <4>1, <4>2 DEF QueueInv, TypeOK
      <3> QED
        BY <3>1, <3>2 DEF QueueInv
    <2>5. Queued(Start(s))'
      BY <1>4, <2>1 DEF Queued
    <2>6. \A t \in Slot : Queued(Start(t)) => Queued(Start(t))'
      BY <1>4, <2>1 DEF Queued, Start
    <2>7. OwnerInv'
      BY <1>1, <1>2, <2>5, <2>6 DEF OwnerInv, Untouched, TypeOK
    <2>8. FreshInv'
      <3>1. ASSUME "used" \in left PROVE Untouched(clearing)'
        <4>1. Untouched(clearing) /\ clearing # s
          BY <1>3, <3>1 DEF FreshInv
        <4>2. \A i \in 1..Len(evq') : evq'[i].arg # clearing
          BY <1>4, <2>1, <4>1 DEF Untouched
        <4> QED
          BY <1>1, <4>1, <4>2 DEF Untouched, TypeOK
      <3> QED
        BY <1>1, <3>1 DEF FreshInv
    <2> QED
      BY <2>3, <2>4, <2>7, <2>8
  <1>6. CASE s \notin based
    <2>1. EventInv' /\ QueueInv'
      BY <1>1, <1>2, <1>6 DEF EventInv, QueueInv, Untouched, TypeOK
    <2>2. OwnerInv'
      BY <1>1, <1>2, <1>6 DEF OwnerInv, Untouched, Queued, TypeOK
    <2>3. FreshInv'
      BY <1>1, <1>3, <1>6 DEF FreshInv, Untouched, TypeOK
    <2> QED
      BY <2>1, <2>2, <2>3
  <1> QED
    BY <1>5, <1>6

LEMMA RemoveServiceInv ==
    ASSUME TypeOK, SlotInv, NEW v \in Svc, RemoveService(v),
           UNCHANGED <<used, name, based, clearing, left, opened, new_svc>>,
           pc # "claimed", pc' # "claimed"
    PROVE  SlotInv'
  <1> USE DEF SlotInv
  <1>1. /\ nodes' = nodes \ {v}
        /\ node_ctx' = [node_ctx EXCEPT ![v] = NULL]
    BY DEF RemoveService
  <1>2. evq \in Seq(Event) /\ Len(evq) \in Nat
    BY DEF TypeOK
  <1>3. CASE evq' = evq
    <2>1. \A i \in 1..Len(evq) : evq[i].arg # NULL
      BY <1>2, EventArg, ConstAssumption DEF Slot
    <2>4. EventInv'
      BY <1>3 DEF EventInv, SlotInv
    <2>5. QueueInv'
      BY <1>1, <1>3, <2>1 DEF QueueInv, TypeOK, SlotInv
    <2>2. OwnerInv'
      BY <1>1, <1>3 DEF OwnerInv, Queued, TypeOK, SlotInv
    <2>3. FreshInv'
      BY <1>1, <1>3, ConstAssumption DEF FreshInv, Untouched, TypeOK, Slot, SlotInv
    <2> QED
      BY <2>2, <2>3, <2>4, <2>5 DEF SlotInv
  <1>4. CASE node_ctx[v] \in based /\ evq' = Append(evq, Release(node_ctx[v]))
    <2> PICK s \in Slot : s = node_ctx[v]
      BY <1>4 DEF TypeOK
    <2>1. /\ Release(s) \in Event /\ Release(s).arg = s
          /\ \A t \in Slot : Release(s) # Start(t)
      BY DEF Release, Start, Event
    <2>2. /\ Len(evq') = Len(evq) + 1
          /\ \A i \in 1..Len(evq) : evq'[i] = evq[i]
          /\ evq'[Len(evq) + 1] = Release(s)
      BY <1>2, <1>4, <2>1, AppendEvent
    <2>3. /\ s \in used /\ s # NULL
          /\ \A w \in Svc \ {v} : node_ctx[w] # s
          /\ s \in opened \/ \E i \in 1..Len(evq) : evq[i] = Start(s)
      BY <1>4, ConstAssumption DEF OwnerInv, Queued, Slot
    <2>4. \A i \in 1..Len(evq) : evq[i] # Release(s)
      BY <2>1 DEF QueueInv
    <2>5. EventInv'
      BY <1>2, <2>1, <2>2, <2>3, <2>4 DEF EventInv
    <2>6. QueueInv'
      <3>1. ASSUME NEW i \in 1..Len(evq'), evq'[i] = Start(evq'[i].arg)
            PROVE  evq'[i].arg \notin opened'
        BY <1>2, <2>1, <2>2, <3>1 DEF QueueInv
      <3>2. ASSUME NEW i \in 1..Len(evq'), evq'[i] = Release(evq'[i].arg)
            PROVE  /\ \A w \in Svc : node_ctx'[w] # evq'[i].arg
                   /\ evq'[i].arg \in opened' \/ \E j \in 1..(i - 1) : evq'[j] = Start(evq'[i].arg)
        <4>1. CASE i = Len(evq) + 1
          BY <1>1, <1>2, <2>1, <2>2, <2>3, <4>1 DEF TypeOK
        <4>2. CASE i \in 1..Len(evq)
          <5>1. evq[i].arg \in Slot
            BY <1>2, <4>2, EventArg
          <5>2. evq'[i] = evq[i] /\ evq[i] = Release(evq[i].arg)
            BY <2>2, <3>2, <4>2
          <5>3. /\ \A w \in Svc : node_ctx[w] # evq[i].arg
                /\ evq[i].arg \in opened \/ \E j \in 1..(i - 1) : evq[j] = Start(evq[i].arg)
            BY <4>2, <5>2 DEF QueueInv
          <5>4. \A j \in 1..(i - 1) : evq'[j] = evq[j]
            BY <1>2, <2>2, <4>2
          <5> QED
            BY <1>1, <5>1, <5>2, <5>3, <5>4, ConstAssumption DEF TypeOK, Slot
        <4> QED
          BY <1>2, <2>2, <4>1, <4>2
      <3> QED
        BY <3>1, <3>2 DEF QueueInv
    <2>7. OwnerInv'
      <3>1. \A t \in Slot : Queued(Start(t)) => Queued(Start(t))'
        BY <1>2, <2>2 DEF Queued, Start
      <3> QED
        BY <1>1, <3>1 DEF OwnerInv, TypeOK
    <2>8. FreshInv'
      <3>1. ASSUME "used" \in left PROVE Untouched(clearing)'
        <4>1. Untouched(clearing) /\ clearing # s /\ clearing \in Slot
          BY <3>1 DEF FreshInv, Untouched, TypeOK
        <4>2. \A i \in 1..Len(evq') : evq'[i].arg # clearing
          BY <1>2, <2>1, <2>2, <4>1 DEF Untouched
        <4> QED
          BY <1>1, <4>1, <4>2, ConstAssumption DEF Untouched, TypeOK, Slot
      <3> QED
        BY <3>1 DEF FreshInv
    <2> QED
      BY <2>5, <2>6, <2>7, <2>8
  <1> QED
    BY <1>3, <1>4 DEF RemoveService, Once

LEMMA StartPollingInv == ASSUME TypeOK, SlotInv, StartPolling PROVE SlotInv'
  <1> USE DEF SlotInv
  <1>1. /\ UNCHANGED <<used, name, based, node_ctx, nodes, pc, req, new_svc, clearing, left>>
        /\ clearing = NULL /\ evq # <<>> /\ Head(evq).cb = "start_svc_polling"
        /\ evq' = Tail(evq)
        /\ opened' = opened \cup {Head(evq).arg}
    BY DEF StartPolling, Runs, slots, tree, regi
  <1>2. /\ evq \in Seq(Event) /\ Len(evq) \in Nat \ {0} /\ Len(evq') = Len(evq) - 1
        /\ \A i \in 1..Len(evq') : evq'[i] = evq[i + 1]
        /\ Head(evq) = evq[1] /\ evq[1] \in Event
    BY <1>1, TailEvent DEF TypeOK
  <1> PICK s \in Slot : evq[1] = Start(s) /\ s = Head(evq).arg /\ evq[1].arg = s
    BY <1>1, <1>2 DEF Event, Start
  <1>3. EventInv'
    BY <1>1, <1>2 DEF EventInv
  <1>4. QueueInv'
    <2>1. ASSUME NEW i \in 1..Len(evq'), evq'[i] = Start(evq'[i].arg)
          PROVE  evq'[i].arg \notin opened'
      <3>1. i + 1 \in 1..Len(evq) /\ evq[i + 1] # evq[1]
        BY <1>2 DEF EventInv
      <3> QED
        BY <1>1, <1>2, <2>1, <3>1 DEF QueueInv
    <2>2. ASSUME NEW i \in 1..Len(evq'), evq'[i] = Release(evq'[i].arg)
          PROVE  /\ \A w \in Svc : node_ctx'[w] # evq'[i].arg
                 /\ evq'[i].arg \in opened' \/ \E j \in 1..(i - 1) : evq'[j] = Start(evq'[i].arg)
      <3> DEFINE t == evq[i + 1].arg
      <3>1. i + 1 \in 1..Len(evq) /\ evq[i + 1] = Release(t) /\ evq'[i].arg = t
        BY <1>2, <2>2
      <3>2. CASE t \in opened
        BY <1>1, <3>1, <3>2 DEF QueueInv
      <3>3. ASSUME NEW j \in 1..i, evq[j] = Start(t)
            PROVE t = s \/ \E k \in 1..(i - 1) : evq'[k] = Start(t)
        <4>1. CASE j = 1
          BY <3>3, <4>1 DEF Start
        <4>2. CASE j # 1
          <5>1. j - 1 \in 1..(i - 1) /\ j - 1 \in 1..Len(evq') /\ evq'[j - 1] = evq[j]
            BY <1>2, <4>2
          <5> QED
            BY <3>3, <5>1
        <4> QED
          BY <4>1, <4>2
      <3>4. /\ \A w \in Svc : node_ctx[w] # t
            /\ t \in opened \/ \E j \in 1..i : evq[j] = Start(t)
        BY <3>1 DEF QueueInv
      <3> QED
        BY <1>1, <3>1, <3>2, <3>3, <3>4
    <2> QED
      BY <2>1, <2>2 DEF QueueInv
  <1>5. OwnerInv'
    <2>1. ASSUME NEW v \in Svc, node_ctx[v] # NULL, node_ctx[v] \in based
          PROVE  node_ctx[v] \in opened' \/ Queued(Start(node_ctx[v]))'
      <3> PICK t \in Slot : t = node_ctx[v]
        BY <2>1 DEF TypeOK
      <3>1. ASSUME NEW i \in 1..Len(evq), evq[i] = Start(t)
            PROVE  t = s \/ \E k \in 1..Len(evq') : evq'[k] = Start(t)
        <4>1. CASE i = 1
          BY <3>1, <4>1 DEF Start
        <4>2. CASE i # 1
          <5>1. i - 1 \in 1..Len(evq') /\ evq'[i - 1] = evq[i]
            BY <1>2, <4>2
          <5> QED
            BY <3>1, <5>1
        <4> QED
          BY <4>1, <4>2
      <3> QED
        BY <1>1, <2>1, <3>1 DEF OwnerInv, Queued
    <2>2. opened' \subseteq used
      BY <1>1, <1>2 DEF OwnerInv, EventInv
    <2> QED
      BY <1>1, <2>1, <2>2 DEF OwnerInv
  <1>6. FreshInv'
    <2>1. left = {}
      BY <1>1 DEF FreshInv
    <2>2. ASSUME pc = "claimed" PROVE Untouched(new_svc)'
      <3>1. Untouched(new_svc)
        BY <2>2 DEF FreshInv
      <3> QED
        BY <1>1, <1>2, <3>1 DEF Untouched
    <2> QED
      BY <1>1, <2>1, <2>2 DEF FreshInv
  <1> QED
    BY <1>3, <1>4, <1>5, <1>6

LEMMA SvcReleaseInv == ASSUME TypeOK, SlotInv, SvcRelease PROVE SlotInv'
  <1> USE DEF SlotInv
  <1>1. /\ UNCHANGED <<used, name, based, node_ctx, nodes, pc, req, new_svc>>
        /\ evq # <<>> /\ Head(evq).cb = "svc_release"
        /\ evq' = Tail(evq)
        /\ opened' = opened \ {Head(evq).arg}
        /\ clearing' = Head(evq).arg /\ left' = Field
    BY DEF SvcRelease, Runs, slots, tree, regi
  <1>2. /\ evq \in Seq(Event) /\ Len(evq) \in Nat \ {0} /\ Len(evq') = Len(evq) - 1
        /\ \A i \in 1..Len(evq') : evq'[i] = evq[i + 1]
        /\ Head(evq) = evq[1] /\ evq[1] \in Event
    BY <1>1, TailEvent DEF TypeOK
  <1> PICK s \in Slot : evq[1] = Release(s) /\ s = Head(evq).arg /\ evq[1].arg = s
    BY <1>1, <1>2 DEF Event, Release
  <1>3. s \in used /\ s \in opened /\ \A v \in Svc : node_ctx[v] # s
    BY <1>2 DEF EventInv, QueueInv
  <1>4. \A i \in 2..Len(evq) : evq[i].arg # s
    <2>1. SUFFICES ASSUME NEW i \in 2..Len(evq), evq[i].arg = s PROVE FALSE
      OBVIOUS
    <2>2. i \in 1..Len(evq) /\ evq[i] # Release(s) /\ evq[i] \in Event
      BY <1>2, <2>1 DEF EventInv
    <2>3. evq[i] = Start(s)
      BY <2>1, <2>2 DEF Event, Start, Release
    <2> QED
      BY <1>3, <2>1, <2>2, <2>3 DEF QueueInv
  <1>5. \A i \in 1..Len(evq') : i + 1 \in 2..Len(evq) /\ evq'[i].arg # s
    BY <1>2, <1>4
  <1>6. EventInv'
    BY <1>1, <1>2 DEF EventInv
  <1>7. QueueInv'
    <2>1. ASSUME NEW i \in 1..Len(evq'), evq'[i] = Start(evq'[i].arg)
          PROVE  evq'[i].arg \notin opened'
      BY <1>1, <1>2, <2>1 DEF QueueInv
    <2>2. ASSUME NEW i \in 1..Len(evq'), evq'[i] = Release(evq'[i].arg)
          PROVE  /\ \A w \in Svc : node_ctx'[w] # evq'[i].arg
                 /\ evq'[i].arg \in opened' \/ \E j \in 1..(i - 1) : evq'[j] = Start(evq'[i].arg)
      <3> DEFINE t == evq[i + 1].arg
      <3>1. i + 1 \in 1..Len(evq) /\ evq[i + 1] = Release(t) /\ evq'[i].arg = t /\ t # s
        BY <1>2, <1>5, <2>2
      <3>2. /\ \A w \in Svc : node_ctx[w] # t
            /\ t \in opened \/ \E j \in 1..i : evq[j] = Start(t)
        BY <3>1 DEF QueueInv
      <3>3. ASSUME NEW j \in 1..i, evq[j] = Start(t)
            PROVE  \E k \in 1..(i - 1) : evq'[k] = Start(t)
        <4>1. j # 1
          BY <3>1, <3>3 DEF Start, Release
        <4>2. j - 1 \in 1..(i - 1) /\ j - 1 \in 1..Len(evq') /\ evq'[j - 1] = evq[j]
          BY <1>2, <4>1
        <4> QED
          BY <3>3, <4>2
      <3> QED
        BY <1>1, <3>1, <3>2, <3>3
    <2> QED
      BY <2>1, <2>2 DEF QueueInv
  <1>8. OwnerInv'
    <2>1. ASSUME NEW v \in Svc, node_ctx[v] # NULL, node_ctx[v] \in based
          PROVE  node_ctx[v] \in opened' \/ Queued(Start(node_ctx[v]))'
      <3> PICK t \in Slot : t = node_ctx[v]
        BY <2>1 DEF TypeOK
      <3>1. t # s
        BY <1>3
      <3>2. ASSUME NEW i \in 1..Len(evq), evq[i] = Start(t)
            PROVE  \E k \in 1..Len(evq') : evq'[k] = Start(t)
        <4>1. i # 1
          BY <3>2 DEF Start, Release
        <4>2. i - 1 \in 1..Len(evq') /\ evq'[i - 1] = evq[i]
          BY <1>2, <4>1
        <4> QED
          BY <3>2, <4>2
      <3> QED
        BY <1>1, <2>1, <3>1, <3>2 DEF OwnerInv, Queued
    <2>2. opened' \subseteq used
      BY <1>1 DEF OwnerInv
    <2> QED
      BY <1>1, <2>1, <2>2 DEF OwnerInv
  <1>9. FreshInv'
    <2>1. clearing' = s /\ Untouched(s)' /\ clearing' # NULL
      <3>1. clearing' = s /\ s # NULL
        BY <1>1, ConstAssumption DEF Slot
      <3>2. Untouched(s)'
        BY <1>1, <1>3, <1>5 DEF Untouched
      <3> QED
        BY <3>1, <3>2
    <2>2. ASSUME pc = "claimed" PROVE Untouched(new_svc)' /\ new_svc # s
      <3>1. Untouched(new_svc)
        BY <2>2 DEF FreshInv
      <3> QED
        BY <1>1, <1>2, <1>3, <3>1 DEF Untouched
    <2> QED
      BY <1>1, <1>3, <2>1, <2>2 DEF FreshInv, Untouched
  <1> QED
    BY <1>6, <1>7, <1>8, <1>9

LEMMA MemsetInv == ASSUME TypeOK, SlotInv, NEW f \in Field, Memset(f) PROVE SlotInv'
  <1> USE DEF SlotInv
  <1>1. /\ UNCHANGED <<node_ctx, nodes, pc, req, new_svc, evq, opened>>
        /\ f \in left /\ left' = left \ {f} /\ based' \subseteq based
        /\ used' = IF f = "used" THEN used \ {clearing} ELSE used
        /\ \A s \in Slot : name'[s] \in {name[s], NULL}
        /\ clearing' = IF left' = {} THEN NULL ELSE clearing
        /\ clearing \in Slot
    BY DEF Memset, tree, regi, TypeOK
  <1>2. f = "used" => clearing \in used /\ Untouched(clearing)
    BY <1>1 DEF FreshInv
  <1>3. EventInv'
    BY <1>1, <1>2 DEF EventInv, Untouched
  <1>4. QueueInv'
    BY <1>1 DEF QueueInv
  <1>5. OwnerInv'
    <2>1. opened' \subseteq used'
      BY <1>1, <1>2 DEF OwnerInv, Untouched
    <2>2. ASSUME NEW v \in Svc, node_ctx[v] # NULL
          PROVE  /\ node_ctx[v] \in used' /\ node_ctx[v] \in Slot
                 /\ name'[node_ctx[v]] \in {v, NULL}
      BY <1>1, <1>2, <2>2 DEF OwnerInv, Untouched, TypeOK
    <2> QED
      BY <1>1, <2>1, <2>2 DEF OwnerInv, Queued
  <1>6. FreshInv'
    BY <1>1, <1>2 DEF FreshInv, Untouched, TypeOK
  <1> QED
    BY <1>3, <1>4, <1>5, <1>6

LEMMA SlotInvStep == TypeOK /\ SlotInv /\ [Next]_vars => SlotInv'
  <1> SUFFICES ASSUME TypeOK, SlotInv, [Next]_vars PROVE SlotInv'
    OBVIOUS
  <1>1. CASE ClaimSlot
    BY <1>1, ClaimSlotInv
  <1>2. CASE NewService
    BY <1>2, NewServiceInv
  <1>3. CASE AddToService
    <2>1. /\ UNCHANGED <<used, name, based, evq, clearing, left, opened>>
          /\ nodes \subseteq nodes' /\ node_ctx' = node_ctx /\ pc' = "proc"
      <3>1. node_ctx[SvcOf[req]] # NULL => SvcOf[req] \in nodes
        BY <1>3, ConstAssumption DEF AddToService, SlotInv, OwnerInv, TypeOK
      <3>2. SvcOf[req] \notin nodes => [node_ctx EXCEPT ![SvcOf[req]] = NULL] = node_ctx
        BY <1>3, <3>1, ConstAssumption DEF AddToService, TypeOK
      <3> QED
        BY <1>3, <3>2 DEF AddToService, ChkTreeSvc, slots, service
    <2> QED
      BY <2>1 DEF SlotInv, EventInv, QueueInv, OwnerInv, FreshInv, Untouched, Queued
  <1>4. ASSUME NEW v \in Svc, SweepNode(v) PROVE SlotInv'
    <2>1. /\ UNCHANGED <<used, name, based, clearing, left, opened, new_svc>>
          /\ pc # "claimed" /\ pc' # "claimed"
      BY <1>4 DEF SweepNode, slots
    <2>2. CASE RemoveService(v)
      BY <2>1, <2>2, RemoveServiceInv
    <2>3. CASE RemoveProcs(v)
      BY <2>1, <2>3 DEF RemoveProcs, SlotInv, EventInv, QueueInv, OwnerInv, FreshInv,
         Untouched, Queued
    <2> QED
      BY <1>4, <2>2, <2>3 DEF SweepNode
  <1>5. CASE StartPolling
    BY <1>5, StartPollingInv
  <1>6. CASE SvcRelease
    BY <1>6, SvcReleaseInv
  <1>7. ASSUME NEW f \in Field, Memset(f) PROVE SlotInv'
    BY <1>7, MemsetInv
  <1>8. CASE /\ UNCHANGED <<used, name, based, nodes, node_ctx, evq, clearing, left, opened>>
             /\ pc' # "claimed" \/ UNCHANGED <<pc, req, new_svc>>
    BY <1>8 DEF SlotInv, EventInv, QueueInv, OwnerInv, FreshInv, Untouched, Queued
  <1> QED
    BY <1>1, <1>2, <1>3, <1>4, <1>5, <1>6, <1>7, <1>8 DEF Next, RegiStep, ServiceStep,
       vars, slots, tree, regi, service, Tick, RegiScan, SweepStart, SlotsFull, AddProc,
       SvcThreadInit

\* Every slot is where SlotInv says in its life.
THEOREM SlotsLive == Spec => []SlotInv
  BY SlotInvInit, SlotInvStep, TypeCorrect, PTL DEF Spec

\* svc_release only ever runs on an open slot that no node refers to.
THEOREM ReleaseIsSafe == Spec => []ReleaseFindsOpenSlot
  <1>1. TypeOK /\ SlotInv => ReleaseFindsOpenSlot
    <2> SUFFICES ASSUME TypeOK, SlotInv, Runs("svc_release")
                 PROVE  /\ Head(evq).arg \in opened \cap used
                        /\ \A v \in nodes : node_ctx[v] # Head(evq).arg
      BY DEF ReleaseFindsOpenSlot
    <2>1. /\ Len(evq) \in Nat \ {0} /\ Head(evq) = evq[1] /\ evq[1] \in Event
          /\ evq[1].cb = "svc_release"
      BY TailEvent DEF Runs, TypeOK
    <2>2. evq[1] = Release(evq[1].arg)
      BY <2>1 DEF Event, Release
    <2> QED
      BY <2>1, <2>2 DEF SlotInv, QueueInv, EventInv, TypeOK
  <1> QED
    BY <1>1, SlotsLive, TypeCorrect, PTL

\* A service node's slot is in use, its own, and bears its name or none.
THEOREM NodesOwnSlots == Spec => []NodeOwnsSlot
  <1>1. TypeOK /\ SlotInv => NodeOwnsSlot
    BY DEF TypeOK, SlotInv, OwnerInv, NodeOwnsSlot
  <1> QED
    BY <1>1, SlotsLive, TypeCorrect, PTL
=============================================================================
