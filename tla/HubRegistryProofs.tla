-------------------------- MODULE HubRegistryProofs --------------------------
(***************************************************************************)
(* Proofs about HubRegistry for any number of brokers, services, processes *)
(* and slots.  TypeOK needs the tree's shape between the heartbeats of one *)
(* registration; HostsUnique is made inductive by what the scan found;     *)
(* SlotInv says where in its life each slot is, and gives the safety of    *)
(* broker_release; AgeInv, how far the ages of a node and the ones above   *)
(* it are apart, gives the refinement of LeaseTable.                       *)
(***************************************************************************)
EXTENDS HubRegistry, SequenceTheorems, TLAPS

-----------------------------------------------------------------------------
(* The nodes of the tree.                                                  *)

Name == Broker \cup Svc \cup Proc

\* The node of a registration at each depth.
LEMMA PathValue ==
    ASSUME NEW p \in Proc, NEW n \in 1..3
    PROVE  /\ Path(p, n) \in Seq(Name)
           /\ Len(Path(p, n)) = n
           /\ Path(p, n)[1] = BrokerOf[p]
           /\ n >= 2 => Path(p, n)[2] = SvcOf[p]
           /\ n = 3 => Path(p, n)[3] = p
  <1> DEFINE w == <<BrokerOf[p], SvcOf[p], p>>
  <1>1. w \in Seq(Name) /\ Len(w) = 3
    BY HubAssumption DEF Name
  <1>2. \A i \in 1..n : w[i] \in Name
    BY <1>1
  <1>3. /\ Path(p, n) \in Seq(Name)
        /\ Len(Path(p, n)) = n
        /\ \A i \in 1..n : Path(p, n)[i] = w[i]
    <2> HIDE DEF w
    <2>1. Path(p, n) = SubSeq(w, 1, n)
      BY DEF Path, w
    <2>2. /\ SubSeq(w, 1, n) \in Seq(Name)
         /\ Len(SubSeq(w, 1, n)) = n
         /\ \A i \in 1..n : SubSeq(w, 1, n)[i] = w[i]
      <3>1. n \in Int /\ 1 \in Int /\ 1 <= n /\ n - 1 + 1 = n /\ \A i \in 1..n : 1 + i - 1 = i
        OBVIOUS
      <3> QED
        BY <1>2, <3>1, SubSeqProperties
    <2> QED
      BY <2>1, <2>2
  <1> QED
    BY <1>3

\* What is above it is the same registration's, less deep.
LEMMA AbovePath ==
    ASSUME NEW p \in Proc, NEW n \in 1..3
    PROVE  Above(Path(p, n)) = {Path(p, k) : k \in 1..n}
  <1>1. Len(Path(p, n)) = n
    BY PathValue
  <1>2. ASSUME NEW k \in 1..n PROVE SubSeq(Path(p, n), 1, k) = Path(p, k)
    <2> DEFINE t == SubSeq(Path(p, n), 1, k)
    <2>1. \A i \in 1..k : Path(p, n)[i] \in Name
      BY PathValue, ElementOfSeq
    <2>2. k \in Int /\ 1 <= k /\ k - 1 + 1 = k /\ k \in 1..3
      OBVIOUS
    <2>3. /\ t \in Seq(Name) /\ Len(t) = k
          /\ \A i \in 1..k : t[i] = Path(p, n)[1 + i - 1]
      BY <2>1, <2>2, SubSeqProperties
    <2>4. \A i \in 1..k : t[i] = Path(p, k)[i]
      BY <2>2, <2>3, PathValue
    <2> HIDE DEF t
    <2> QED
      BY <2>2, <2>3, <2>4, PathValue, SeqEqual
  <1> QED
    BY <1>1, <1>2 DEF Above

\* The nodes above one of a registration are the registration's.
LEMMA Nodes ==
    ASSUME NEW p \in Proc, NEW n \in 1..3
    PROVE  /\ Path(p, n) \in Node
           /\ Path(p, n) \in Above(Path(p, n))
           /\ \A k \in 1..n : Path(p, k) \in Above(Path(p, n))
           /\ \A y \in Above(Path(p, n)) : \E k \in 1..n : y = Path(p, k)
  <1>1. n \in 1..n
    OBVIOUS
  <1> QED
    BY <1>1, AbovePath DEF Node

\* A process has a node of its own.
LEMMA ProcNode == \A p, q \in Proc : Path(p, 3) = Path(q, 3) => p = q
  BY PathValue

\* A broker node is named by the broker alone.
LEMMA BrokerNode ==
    ASSUME NEW p \in Proc
    PROVE  Path(p, 1) = <<BrokerOf[p]>> /\ BrokerOf[p] \in Broker
  <1>1. Path(p, 1) \in Seq(Name) /\ Len(Path(p, 1)) = 1 /\ Path(p, 1)[1] = BrokerOf[p]
    BY PathValue
  <1>2. BrokerOf[p] \in Broker
    BY HubAssumption
  <1>3. <<BrokerOf[p]>> \in Seq(Name) /\ Len(<<BrokerOf[p]>>) = 1 /\ <<BrokerOf[p]>>[1] = BrokerOf[p]
    BY <1>2 DEF Name
  <1> HIDE DEF Name
  <1>4. \A i \in 1..Len(Path(p, 1)) : Path(p, 1)[i] = <<BrokerOf[p]>>[i]
    BY <1>1, <1>3
  <1> QED
    BY <1>1, <1>2, <1>3, <1>4, SeqEqual

\* Everything above a node that is above x is above x.
LEMMA AboveAbove ==
    ASSUME NEW x \in Node, NEW y \in Above(x)
    PROVE  y \in Node /\ x \in Above(x) /\ Above(y) \subseteq Above(x)
  <1> PICK p \in Proc, n \in 1..3 : x = Path(p, n)
    BY DEF Node
  <1> PICK k \in 1..n : y = Path(p, k)
    BY Nodes
  <1>1. k \in 1..3 /\ \A i \in 1..k : i \in 1..n
    OBVIOUS
  <1>2. ASSUME NEW z \in Above(y) PROVE z \in Above(x)
    <2> PICK i \in 1..k : z = Path(p, i)
      BY <1>1, <1>2, Nodes
    <2> QED
      BY <1>1, Nodes
  <1> QED
    BY <1>1, <1>2, Nodes

-----------------------------------------------------------------------------
(* Types.                                                                  *)

\* Between the heartbeats of one registration the nodes above stay.
TreeInv ==
    /\ pc \in {"svc", "proc"} => Path(req, 1) \in tree
    /\ pc = "proc" => Path(req, 2) \in tree

\* chk_tree keeps the tree's types when the node's parents are there.
LEMMA ChkTreeType ==
    ASSUME TypeOK, req \in Proc, NEW n \in 1..3, NEW ctx \in Slot \cup {NULL},
           ChkTree(n, ctx), \A k \in 1..(n - 1) : Path(req, k) \in tree
    PROVE  /\ tree' \subseteq Node /\ \A x \in tree' : Above(x) \subseteq tree'
           /\ age' \in [Node -> 0..MaxAge]
           /\ node_ctx' \in [Broker -> Slot \cup {NULL}]
           /\ tree \subseteq tree' /\ Path(req, n) \in tree'
  <1>1. tree' = tree \cup {Path(req, n)} /\ Path(req, n) \in Node
    BY Nodes DEF ChkTree
  <1>2. Above(Path(req, n)) \subseteq tree'
    <2> SUFFICES ASSUME NEW y \in Above(Path(req, n)) PROVE y \in tree'
      OBVIOUS
    <2> PICK k \in 1..n : y = Path(req, k)
      BY Nodes
    <2>1. k \in 1..(n - 1) \/ k = n
      OBVIOUS
    <2> QED
      BY <1>1, <2>1
  <1>3. age' \in [Node -> 0..MaxAge]
    BY <1>1, HubAssumption DEF ChkTree, TypeOK, MaxAge
  <1>4. node_ctx' \in [Broker -> Slot \cup {NULL}]
    BY BrokerNode DEF ChkTree, TypeOK
  <1> QED
    BY <1>1, <1>2, <1>3, <1>4 DEF TypeOK

\* What the sweep leaves has its parents.
LEMMA SweepType ==
    ASSUME TypeOK, Sweep
    PROVE  tree' \subseteq Node /\ \A x \in tree' : Above(x) \subseteq tree'
  <1>1. tree' = tree \ Gone
    BY DEF Sweep
  <1> SUFFICES ASSUME NEW x \in tree', NEW y \in Above(x) PROVE y \in tree'
    BY <1>1 DEF TypeOK
  <1>2. x \in Node /\ y \in tree
    BY <1>1 DEF TypeOK
  <1>3. Above(y) \subseteq Above(x)
    BY <1>2, AboveAbove
  <1> QED
    BY <1>1, <1>2, <1>3 DEF Gone

LEMMA TypeInit == Init => TypeOK /\ TreeInv
  <1> SUFFICES ASSUME Init PROVE TypeOK /\ TreeInv
    OBVIOUS
  <1>1. age \in [Node -> 0..MaxAge]
    BY HubAssumption DEF Init, MaxAge
  <1>2. /\ name \in [Slot -> Broker \cup {NULL}] /\ host \in [Slot -> Host \cup {NULL}]
        /\ node_ctx \in [Broker -> Slot \cup {NULL}]
        /\ thread \in [Slot -> {"none", "created", "loop", "leaving"}]
        /\ left \in [Slot -> SUBSET Field]
    BY DEF Init
  <1> QED
    BY <1>1, <1>2 DEF Init, TypeOK, TreeInv

LEMMA TypeStep == TypeOK /\ TreeInv /\ [Next]_vars => TypeOK' /\ TreeInv'
  <1> SUFFICES ASSUME TypeOK, TreeInv, [Next]_vars PROVE TypeOK' /\ TreeInv'
    OBVIOUS
  <1>1. CASE Tick
    BY <1>1, HubAssumption DEF Tick, TypeOK, TreeInv, slots, regi, threads, MaxAge
  <1>2. ASSUME NEW p \in Proc, RegiScan(p) PROVE TypeOK' /\ TreeInv'
    BY <1>2 DEF RegiScan, TypeOK, TreeInv, slots, threads
  <1>3. CASE Reject
    BY <1>3 DEF Reject, Done, TypeOK, TreeInv, slots, threads
  <1>4. CASE ClaimSlot
    <2>1. req \in Proc /\ BrokerOf[req] \in Broker /\ HostOf[BrokerOf[req]] \in Host
      BY <1>4, HubAssumption DEF ClaimSlot, TypeOK, Host
    <2> QED
      BY <1>4, <2>1 DEF ClaimSlot, SetBrokerSlot, TypeOK, TreeInv, threads
  <1>5. CASE SlotsFull
    BY <1>5 DEF SlotsFull, Done, TypeOK, TreeInv, slots, threads
  <1>6. CASE NewBroker
    <2>1. req \in Proc /\ new_broker \in Slot /\ ChkTree(1, new_broker)
      BY <1>6 DEF NewBroker, TypeOK
    <2> QED
      BY <1>6, <2>1, ChkTreeType DEF NewBroker, Done, TypeOK, TreeInv, slots
  <1>7. CASE ChkBroker
    <2>1. req \in Proc /\ ChkTree(1, NULL)
      BY <1>7 DEF ChkBroker, TypeOK
    <2> QED
      BY <1>7, <2>1, ChkTreeType DEF ChkBroker, TypeOK, TreeInv, slots, threads
  <1>8. CASE ChkSvc
    <2>1. /\ req \in Proc /\ ChkTree(2, NULL)
          /\ \A k \in 1..(2 - 1) : Path(req, k) \in tree
      BY <1>8 DEF ChkSvc, TypeOK, TreeInv
    <2> QED
      BY <1>8, <2>1, ChkTreeType DEF ChkSvc, TypeOK, TreeInv, slots, threads
  <1>9. CASE ChkProc
    <2>1. /\ req \in Proc /\ ChkTree(3, NULL)
          /\ \A k \in 1..(3 - 1) : Path(req, k) \in tree
      <3>1. \A k \in 1..(3 - 1) : k = 1 \/ k = 2
        OBVIOUS
      <3> QED
        BY <1>9, <3>1 DEF ChkProc, TypeOK, TreeInv
    <2> QED
      BY <1>9, <2>1, ChkTreeType DEF ChkProc, Done, TypeOK, TreeInv, slots, threads
  <1>10. CASE Sweep
    <2>1. /\ age' \in [Node -> 0..MaxAge]
          /\ node_ctx' \in [Broker -> Slot \cup {NULL}]
          /\ releasing' \subseteq Slot
      BY <1>10, HubAssumption DEF Sweep, TypeOK, MaxAge
    <2> QED
      BY <1>10, <2>1, SweepType DEF Sweep, TypeOK, TreeInv, slots, regi
  <1>11. CASE MainInit
    BY <1>11 DEF MainInit, TypeOK, TreeInv, slots, regi
  <1>12. ASSUME NEW s \in Slot, CreateThread(s) PROVE TypeOK' /\ TreeInv'
    BY <1>12 DEF CreateThread, TypeOK, TreeInv, slots, regi
  <1>13. ASSUME NEW s \in Slot, ThreadStart(s) PROVE TypeOK' /\ TreeInv'
    BY <1>13 DEF ThreadStart, TypeOK, TreeInv, regi
  <1>14. ASSUME NEW s \in Slot, BrokerRelease(s) PROVE TypeOK' /\ TreeInv'
    BY <1>14 DEF BrokerRelease, TypeOK, TreeInv, slots, regi
  <1>15. ASSUME NEW s \in Slot, ThreadEnd(s) PROVE TypeOK' /\ TreeInv'
    BY <1>15 DEF ThreadEnd, TypeOK, TreeInv, slots, regi
  <1>16. ASSUME NEW s \in Slot, NEW f \in Field, Memset(s, f) PROVE TypeOK' /\ TreeInv'
    <2>1. left' \in [Slot -> SUBSET Field]
      BY <1>16 DEF Memset, TypeOK
    <2>2. /\ used' \subseteq Slot /\ based' \subseteq Slot
          /\ name' \in [Slot -> Broker \cup {NULL}]
          /\ host' \in [Slot -> Host \cup {NULL}]
      BY <1>16 DEF Memset, TypeOK
    <2> QED
      BY <1>16, <2>1, <2>2 DEF Memset, TypeOK, TreeInv, regi
  <1>17. CASE UNCHANGED vars
    BY <1>17 DEF vars, TypeOK, TreeInv, slots, regi, threads
  <1> QED
    BY <1>1, <1>2, <1>3, <1>4, <1>5, <1>6, <1>7, <1>8, <1>9, <1>10, <1>11, <1>12,
       <1>13, <1>14, <1>15, <1>16, <1>17 DEF Next, RegiStep, ThreadStep

\* Every variable keeps its type, and the tree of brokers, services and
\* processes that chk_tree builds and expiry prunes keeps its shape.
THEOREM TypeCorrect == Spec => [](TypeOK /\ TreeInv)
  BY TypeInit, TypeStep, PTL DEF Spec

-----------------------------------------------------------------------------
(* Hosts.                                                                  *)

\* Between the scan that found no slot of a host and the claim of one, no slot
\* of the host appears: only this thread gives slots a host.
HostInv ==
    /\ HostsUnique
    /\ pc = "fresh" => \A s \in used : host[s] # HostOf[BrokerOf[req]]

\* Two slots in use never serve the same host, although the scan for the host,
\* the claim of a free slot and the memset of an earlier release interleave
\* without a lock (regi_action, broker_release).
THEOREM HostsStayUnique == Spec => []HostsUnique
  <1>1. Init => HostInv
    BY DEF Init, HostInv, HostsUnique
  <1>2. TypeOK /\ HostInv /\ [Next]_vars => HostInv'
    <2> SUFFICES ASSUME TypeOK, HostInv, [Next]_vars PROVE HostInv'
      OBVIOUS
    <2> USE DEF HostInv, HostsUnique
    <2>1. ASSUME NEW p \in Proc, RegiScan(p) PROVE HostInv'
      BY <2>1 DEF RegiScan, SameHost, slots
    <2>2. CASE ClaimSlot
      <3> PICK s \in Slot : /\ s \notin used /\ used' = used \cup {s}
                            /\ host' = [host EXCEPT ![s] = HostOf[BrokerOf[req]]]
        BY <2>2 DEF ClaimSlot, SetBrokerSlot
      <3>1. pc = "fresh" /\ pc' = "claimed"
        BY <2>2 DEF ClaimSlot
      <3> QED
        BY <3>1 DEF TypeOK
    <2>3. ASSUME NEW s \in Slot, NEW f \in Field, Memset(s, f) PROVE HostInv'
      <3>1. /\ used' \subseteq used /\ UNCHANGED <<pc, req>>
            /\ \A t \in Slot : host'[t] \in {host[t], NULL}
        BY <2>3 DEF Memset, TypeOK, regi
      <3>2. pc = "fresh" => HostOf[BrokerOf[req]] # NULL
        BY HubAssumption DEF TypeOK, Host
      <3> QED
        BY <3>1, <3>2 DEF TypeOK
    <2>4. CASE UNCHANGED <<used, host>> /\ (pc' # "fresh" \/ UNCHANGED <<pc, req>>)
      BY <2>4
    <2> QED
      BY <2>1, <2>2, <2>3, <2>4 DEF Next, RegiStep, ThreadStep, vars, slots, regi, Done,
         Tick, Reject, SlotsFull, NewBroker, ChkBroker, ChkSvc, ChkProc, Sweep, MainInit,
         CreateThread, ThreadStart, BrokerRelease, ThreadEnd
  <1> QED
    BY <1>1, <1>2, TypeCorrect, PTL DEF Spec, HostInv

-----------------------------------------------------------------------------
(* The life of a slot.                                                     *)

\* No thread has the slot, or is on its way to.
Idle(s) ==
    /\ s \notin creating /\ s \notin releasing
    /\ thread[s] = "none" /\ "used" \notin left[s]

Unowned(s) == \A b \in Broker : node_ctx[b] # s

\* A slot that is free, and one that was just claimed, is idle and no node's.
FreeInv ==
    /\ \A s \in Slot \ used : Idle(s) /\ Unowned(s)
    /\ pc = "claimed" => /\ new_broker \in used
                         /\ Idle(new_broker) /\ Unowned(new_broker)

\* A thread is created once, runs on a slot whose used flag no memset is about
\* to clear, and is released from its loop; from the request for its release
\* on, the slot is no node's.  The event base pointer is only set while the
\* thread runs it, or until the memset gets to it.
ThreadInv ==
    \A s \in Slot :
        /\ s \in creating => thread[s] = "none"
        /\ s \in creating \/ thread[s] # "none" => "used" \notin left[s]
        /\ s \in releasing => thread[s] = "loop"
        /\ s \in releasing \/ thread[s] = "leaving" \/ "used" \in left[s] => Unowned(s)
        /\ s \in based => thread[s] \in {"loop", "leaving"} \/ "evbase" \in left[s]

\* Only a broker node in the tree owns a slot, which is its own.  Once a second
\* has passed without a heartbeat no memset of an earlier thread is left.
OwnerInv ==
    \A b \in Broker : node_ctx[b] # NULL =>
        /\ <<b>> \in tree
        /\ \A c \in Broker \ {b} : node_ctx[c] # node_ctx[b]
        /\ age[<<b>>] > 0 => "evbase" \notin left[node_ctx[b]]

SlotInv == FreeInv /\ ThreadInv /\ OwnerInv

LEMMA NullSlot == NULL \notin Slot
  BY HubAssumption DEF Slot

LEMMA SlotInvInit == Init => SlotInv
  BY HubAssumption DEF Init, SlotInv, FreeInv, ThreadInv, OwnerInv, Idle, Unowned, Slot

LEMMA ClaimSlotInv == ASSUME TypeOK, SlotInv, ClaimSlot PROVE SlotInv'
  <1> PICK s \in Slot : s \notin used /\ used' = used \cup {s} /\ new_broker' = s
    BY DEF ClaimSlot, SetBrokerSlot
  <1>1. /\ UNCHANGED <<based, tree, age, node_ctx, creating, thread, releasing, left>>
        /\ pc' = "claimed"
    BY DEF ClaimSlot, SetBrokerSlot, threads
  <1> QED
    BY <1>1 DEF SlotInv, FreeInv, ThreadInv, OwnerInv, Idle, Unowned, TypeOK

LEMMA NewBrokerInv == ASSUME TypeOK, SlotInv, NewBroker PROVE SlotInv'
  <1> PICK s \in Slot, b \in Broker : s = new_broker /\ b = BrokerOf[req]
    BY HubAssumption DEF NewBroker, TypeOK
  <1>1. /\ req \in Proc /\ Path(req, 1) = <<b>> /\ Path(req, 1) \in Node /\ s # NULL
    BY BrokerNode, Nodes, HubAssumption DEF NewBroker, TypeOK, Slot
  <1>2. /\ pc = "claimed" /\ pc' = "idle"
        /\ UNCHANGED <<used, based, thread, releasing, left>>
        /\ creating' \in {creating, creating \cup {s}}
        /\ tree' = tree \cup {<<b>>}
        /\ age' = [age EXCEPT ![<<b>>] = 0]
        /\ node_ctx' = IF <<b>> \in tree THEN node_ctx ELSE [node_ctx EXCEPT ![b] = s]
    BY <1>1 DEF NewBroker, ChkTree, Done, slots
  <1>3. s \in used /\ Idle(s) /\ Unowned(s)
    BY <1>2 DEF SlotInv, FreeInv
  <1>4. FreeInv'
    BY <1>2, <1>3 DEF SlotInv, FreeInv, Idle, Unowned, TypeOK
  <1>5. ThreadInv'
    BY <1>2, <1>3 DEF SlotInv, ThreadInv, Idle, Unowned, TypeOK
  <1>6. OwnerInv'
    <2>1. \A c \in Broker : age'[<<c>>] > 0 /\ <<c>> \in tree => age[<<c>>] > 0 /\ <<c>> # <<b>>
      BY <1>1, <1>2 DEF TypeOK
    <2> QED
      BY <1>1, <1>2, <1>3, <2>1 DEF SlotInv, OwnerInv, Unowned, TypeOK
  <1> QED
    BY <1>4, <1>5, <1>6 DEF SlotInv

\* A heartbeat of a broker that has its slot leaves the slots alone.
LEMMA ChkTreeInv ==
    ASSUME TypeOK, SlotInv, req \in Proc, NEW n \in 1..3, ChkTree(n, NULL),
           UNCHANGED <<slots, threads>>, pc # "claimed", pc' # "claimed"
    PROVE  SlotInv'
  <1> PICK b \in Broker : b = BrokerOf[req] /\ Path(req, 1) = <<b>>
    BY BrokerNode
  <1>1. /\ Path(req, n) \in Node
        /\ tree' = tree \cup {Path(req, n)}
        /\ age' = [age EXCEPT ![Path(req, n)] = 0]
    BY Nodes DEF ChkTree
  <1>2. node_ctx' = node_ctx
    <2>1. CASE n = 1 /\ <<b>> \notin tree
      <3>1. node_ctx' = [node_ctx EXCEPT ![b] = NULL]
        BY <2>1 DEF ChkTree
      <3>2. node_ctx[b] = NULL
        BY <2>1 DEF SlotInv, OwnerInv
      <3> QED
        BY <3>1, <3>2 DEF TypeOK
    <2> QED
      BY <2>1 DEF ChkTree
  <1>3. \A x \in tree : age'[x] > 0 => age[x] > 0
    BY <1>1 DEF TypeOK
  <1>4. UNCHANGED <<used, based, creating, thread, releasing, left>>
    BY DEF slots, threads
  <1> QED
    BY <1>1, <1>2, <1>3, <1>4 DEF SlotInv, FreeInv, ThreadInv, OwnerInv, Idle, Unowned

LEMMA SweepInv == ASSUME TypeOK, SlotInv, Sweep PROVE SlotInv'
  <1>1. /\ UNCHANGED <<used, based, creating, thread, left>>
        /\ pc # "claimed" /\ pc' # "claimed"
        /\ tree' = tree \ Gone
        /\ \A x \in tree' : age'[x] = age[x]
        /\ \A b \in Broker : node_ctx'[b] = IF <<b>> \in Expired THEN NULL ELSE node_ctx[b]
    BY DEF Sweep, slots, regi, TypeOK
  <1>2. \A s \in Slot : s \in releasing' => s \in releasing \/
            /\ s \in based
            /\ \E b \in Broker : <<b>> \in Expired /\ node_ctx[b] = s
    BY DEF Sweep
  <1>3. ASSUME NEW b \in Broker, <<b>> \in Expired, node_ctx[b] \in Slot, node_ctx[b] \in based
        PROVE  thread[node_ctx[b]] = "loop"
    <2>1. node_ctx[b] # NULL /\ age[<<b>>] > 0
      BY <1>3, HubAssumption DEF Expired, Slot, TypeOK
    <2> QED
      BY <1>3, <2>1 DEF SlotInv, OwnerInv, ThreadInv, Unowned
  <1>4. \A s \in Slot : Unowned(s) => Unowned(s)'
    BY <1>1, NullSlot DEF Unowned
  <1>5. FreeInv'
    <2>1. ASSUME NEW s \in Slot, Idle(s), Unowned(s) PROVE Idle(s)'
      BY <1>1, <1>2, <2>1 DEF Idle, Unowned
    <2> QED
      BY <1>1, <1>4, <2>1 DEF SlotInv, FreeInv
  <1>6. ThreadInv'
    <2>1. ASSUME NEW s \in Slot, s \in releasing' PROVE thread'[s] = "loop" /\ Unowned(s)'
      <3>1. CASE s \in releasing
        BY <1>1, <1>4, <3>1 DEF SlotInv, ThreadInv
      <3>2. CASE s \notin releasing
        <4> PICK b \in Broker : <<b>> \in Expired /\ node_ctx[b] = s /\ s \in based
          BY <1>2, <2>1, <3>2
        <4>1. \A c \in Broker \ {b} : node_ctx[c] # s
          BY NullSlot DEF SlotInv, OwnerInv
        <4> QED
          BY <1>1, <1>3, <4>1, NullSlot DEF Unowned
      <3> QED
        BY <3>1, <3>2
    <2> QED
      BY <1>1, <1>4, <2>1 DEF SlotInv, ThreadInv
  <1>7. OwnerInv'
    <2>1. ASSUME NEW b \in Broker, node_ctx'[b] # NULL PROVE <<b>> \in tree'
      <3>1. <<b>> \notin Expired /\ <<b>> \in tree /\ <<b>> \in Node
        BY <1>1, <2>1 DEF SlotInv, OwnerInv, TypeOK
      <3>2. Above(<<b>>) = {<<b>>}
        <4> PICK p \in Proc, n \in 1..3 : <<b>> = Path(p, n)
          BY <3>1 DEF Node
        <4>1. n = 1
          <5>1. Len(<<b>>) = n
            BY PathValue
          <5> QED
            BY <5>1
        <4>2. Above(<<b>>) = {Path(p, k) : k \in 1..1}
          BY <4>1, AbovePath
        <4> QED
          BY <4>1, <4>2
      <3> QED
        BY <1>1, <3>1, <3>2 DEF Gone
    <2> QED
      BY <1>1, <2>1 DEF SlotInv, OwnerInv
  <1> QED
    BY <1>5, <1>6, <1>7 DEF SlotInv

LEMMA MemsetInv ==
    ASSUME TypeOK, SlotInv, NEW s \in Slot, NEW f \in Field, Memset(s, f) PROVE SlotInv'
  <1>1. /\ UNCHANGED <<tree, age, node_ctx, pc, new_broker, creating, thread, releasing>>
        /\ f \in left[s]
        /\ \A t \in Slot : left'[t] = IF t = s THEN left[t] \ {f} ELSE left[t]
        /\ used' = IF f = "used" THEN used \ {s} ELSE used
        /\ based' = IF f = "evbase" THEN based \ {s} ELSE based
    BY DEF Memset, TypeOK, regi
  <1>2. f = "used" => Unowned(s) /\ s \notin creating /\ s \notin releasing /\ thread[s] = "none"
    BY <1>1 DEF SlotInv, ThreadInv
  <1>3. FreeInv'
    <2>1. \A t \in Slot : Idle(t) => Idle(t)'
      BY <1>1 DEF Idle
    <2>2. \A t \in Slot : Unowned(t) => Unowned(t)'
      BY <1>1 DEF Unowned
    <2>3. f = "used" => Idle(s)'
      BY <1>1, <1>2 DEF Idle
    <2>4. ASSUME NEW t \in Slot, t \notin used' PROVE Idle(t)' /\ Unowned(t)'
      BY <1>1, <1>2, <2>1, <2>2, <2>3, <2>4 DEF SlotInv, FreeInv
    <2>5. ASSUME pc' = "claimed" PROVE /\ new_broker' \in used'
                                       /\ Idle(new_broker)' /\ Unowned(new_broker)'
      <3>1. new_broker \in Slot /\ new_broker \in used /\ Idle(new_broker) /\ Unowned(new_broker)
        BY <1>1, <2>5 DEF SlotInv, FreeInv, TypeOK
      <3>2. new_broker' = new_broker /\ (f = "used" => new_broker # s)
        BY <1>1, <3>1 DEF Idle
      <3> QED
        BY <1>1, <2>1, <2>2, <3>1, <3>2
    <2> QED
      BY <2>4, <2>5 DEF FreeInv
  <1>4. ThreadInv'
    BY <1>1 DEF SlotInv, ThreadInv, Unowned
  <1>5. OwnerInv'
    BY <1>1 DEF SlotInv, OwnerInv, TypeOK
  <1> QED
    BY <1>3, <1>4, <1>5 DEF SlotInv

LEMMA SlotInvStep == TypeOK /\ SlotInv /\ [Next]_vars => SlotInv'
  <1> SUFFICES ASSUME TypeOK, SlotInv, [Next]_vars PROVE SlotInv'
    OBVIOUS
  <1>1. CASE Tick
    <2>1. /\ UNCHANGED <<used, based, tree, node_ctx, pc, new_broker, creating, thread,
                         releasing, left>>
          /\ \A s \in Slot : left[s] = {}
      BY <1>1 DEF Tick, slots, regi, threads
    <2> QED
      BY <2>1 DEF SlotInv, FreeInv, ThreadInv, OwnerInv, Idle, Unowned, TypeOK
  <1>2. CASE ClaimSlot
    BY <1>2, ClaimSlotInv
  <1>3. CASE NewBroker
    BY <1>3, NewBrokerInv
  <1>4. CASE ChkBroker \/ ChkSvc \/ ChkProc
    <2>1. \E n \in 1..3 : req \in Proc /\ ChkTree(n, NULL)
      BY <1>4 DEF ChkBroker, ChkSvc, ChkProc, TypeOK
    <2>2. UNCHANGED <<slots, threads>> /\ pc # "claimed" /\ pc' # "claimed"
      BY <1>4 DEF ChkBroker, ChkSvc, ChkProc, Done
    <2> QED
      BY <2>1, <2>2, ChkTreeInv
  <1>5. CASE Sweep
    BY <1>5, SweepInv
  <1>6. ASSUME NEW s \in Slot, CreateThread(s) PROVE SlotInv'
    BY <1>6 DEF CreateThread, slots, regi, SlotInv, FreeInv, ThreadInv, OwnerInv, Idle,
       Unowned, TypeOK
  <1>7. ASSUME NEW s \in Slot, ThreadStart(s) PROVE SlotInv'
    BY <1>7 DEF ThreadStart, regi, SlotInv, FreeInv, ThreadInv, OwnerInv, Idle, Unowned,
       TypeOK
  <1>8. ASSUME NEW s \in Slot, BrokerRelease(s) PROVE SlotInv'
    BY <1>8 DEF BrokerRelease, slots, regi, SlotInv, FreeInv, ThreadInv, OwnerInv, Idle,
       Unowned, TypeOK
  <1>9. ASSUME NEW s \in Slot, ThreadEnd(s) PROVE SlotInv'
    <2>1. /\ UNCHANGED <<used, based, tree, age, node_ctx, pc, new_broker, creating, releasing>>
          /\ thread[s] = "leaving" /\ Unowned(s)
          /\ \A t \in Slot : /\ thread'[t] = IF t = s THEN "none" ELSE thread[t]
                            /\ left'[t] = IF t = s THEN Field ELSE left[t]
      BY <1>9 DEF ThreadEnd, slots, regi, SlotInv, ThreadInv, TypeOK
    <2>2. FreeInv'
      BY <2>1 DEF SlotInv, FreeInv, Idle, Unowned, TypeOK
    <2>3. ThreadInv'
      BY <2>1 DEF SlotInv, ThreadInv, Unowned, Field
    <2>4. OwnerInv'
      BY <2>1 DEF SlotInv, OwnerInv, Unowned, TypeOK
    <2> QED
      BY <2>2, <2>3, <2>4 DEF SlotInv
  <1>10. ASSUME NEW s \in Slot, NEW f \in Field, Memset(s, f) PROVE SlotInv'
    BY <1>10, MemsetInv
  <1>11. CASE /\ UNCHANGED <<used, based, tree, age, node_ctx, creating, thread, releasing, left>>
              /\ pc' # "claimed" \/ UNCHANGED <<pc, new_broker>>
    BY <1>11 DEF SlotInv, FreeInv, ThreadInv, OwnerInv, Idle, Unowned
  <1> QED
    BY <1>1, <1>2, <1>3, <1>4, <1>5, <1>6, <1>7, <1>8, <1>9, <1>10, <1>11 DEF Next,
       RegiStep, ThreadStep, vars, slots, regi, threads, Done, RegiScan, Reject, SlotsFull,
       MainInit

\* Every slot is where SlotInv says in its life.
THEOREM SlotsLive == Spec => []SlotInv
  BY SlotInvInit, SlotInvStep, TypeCorrect, PTL DEF Spec

\* No slot is ever served by two threads: create_thread_action starts one only
\* when the last one of that slot has ended.
THEOREM OneThreadEach == Spec => []OneThreadPerSlot
  <1>1. TypeOK /\ SlotInv => OneThreadPerSlot
    BY DEF TypeOK, SlotInv, ThreadInv, OneThreadPerSlot
  <1> QED
    BY <1>1, SlotsLive, TypeCorrect, PTL

\* A broker's slot is in use and its own; broker_release is only ever given to
\* the event base of a thread in its loop, never to one that was freed.
THEOREM ReleaseIsSafe == Spec => []ReleaseOnLiveLoop
  <1>1. TypeOK /\ SlotInv => ReleaseOnLiveLoop
    <2> SUFFICES ASSUME TypeOK, SlotInv, NEW b \in Broker, node_ctx[b] # NULL
                 PROVE  /\ node_ctx[b] \in used
                        /\ \A c \in Broker \ {b} : node_ctx[c] # node_ctx[b]
                        /\ <<b>> \in Expired /\ node_ctx[b] \in based => thread[node_ctx[b]] = "loop"
      BY DEF ReleaseOnLiveLoop
    <2>1. node_ctx[b] \in Slot /\ ~Unowned(node_ctx[b])
      BY DEF TypeOK, Unowned
    <2>2. ASSUME <<b>> \in Expired PROVE age[<<b>>] > 0
      BY <2>2, HubAssumption DEF Expired, TypeOK
    <2> QED
      BY <2>1, <2>2 DEF SlotInv, FreeInv, ThreadInv, OwnerInv
  <1> QED
    BY <1>1, SlotsLive, TypeCorrect, PTL

-----------------------------------------------------------------------------
(* Leases.                                                                 *)

\* A node is at most a second more silent than any below it: a registration's
\* heartbeats go to the broker, the service and the process within a second of
\* each other.  A node that is not in the tree has age 0.
AgeInv ==
    /\ \A x \in tree : \A y \in Above(x) : age[y] <= age[x] + 1
    /\ pc \in {"svc", "proc"} => age[Path(req, 1)] <= 1
    /\ pc = "proc" => age[Path(req, 2)] <= age[Path(req, 1)]
    /\ \A x \in Node \ tree : age[x] = 0

LEMMA AgeInvInit == Init => AgeInv
  BY DEF Init, AgeInv

\* The heartbeat of a node of which every node above is at most a second old.
LEMMA ChkTreeAge ==
    ASSUME TypeOK, AgeInv, req \in Proc, NEW n \in 1..3, NEW ctx, ChkTree(n, ctx),
           \A k \in 1..(n - 1) : age[Path(req, k)] <= 1
    PROVE  /\ \A x \in tree' : \A y \in Above(x) : age'[y] <= age'[x] + 1
           /\ \A x \in Node : age'[x] <= age[x]
           /\ age'[Path(req, n)] = 0
           /\ \A x \in Node \ tree' : age'[x] = 0
  <1> DEFINE z == Path(req, n)
  <1>1. z \in Node /\ tree' = tree \cup {z} /\ age' = [age EXCEPT ![z] = 0]
    BY Nodes DEF ChkTree
  <1> HIDE DEF z
  <1>2. \A x \in Node : age'[x] <= age[x] /\ age'[x] \in Nat /\ age[x] \in Nat
    BY <1>1, HubAssumption DEF TypeOK, MaxAge
  <1>3. \A y \in Above(z) : y \in Node /\ age'[y] <= 1
    <2> SUFFICES ASSUME NEW y \in Above(z) PROVE y \in Node /\ age'[y] <= 1
      OBVIOUS
    <2>1. y \in Node
      BY <1>1, AboveAbove
    <2> PICK k \in 1..n : y = Path(req, k)
      BY Nodes DEF z
    <2>2. CASE k = n
      BY <1>1, <2>1, <2>2 DEF z, TypeOK
    <2>3. CASE k # n
      <3>1. k \in 1..(n - 1)
        BY <2>3
      <3> QED
        BY <1>2, <2>1, <3>1
    <2> QED
      BY <2>2, <2>3
  <1>4. ASSUME NEW x \in tree', NEW y \in Above(x) PROVE age'[y] <= age'[x] + 1
    <2>1. x \in Node /\ y \in Node
      BY <1>1, AboveAbove DEF TypeOK
    <2>2. CASE x = z
      BY <1>2, <1>3, <1>4, <2>1, <2>2
    <2>3. CASE x # z
      <3>1. age'[x] = age[x] /\ age[y] <= age[x] + 1
        BY <1>1, <1>4, <2>1, <2>3 DEF AgeInv, TypeOK
      <3> QED
        BY <1>2, <2>1, <3>1
    <2> QED
      BY <2>2, <2>3
  <1>5. age'[z] = 0 /\ \A x \in Node \ tree' : age'[x] = 0
    BY <1>1 DEF AgeInv, TypeOK
  <1> QED
    BY <1>2, <1>4, <1>5 DEF z

LEMMA AgeInvStep == TypeOK /\ TreeInv /\ AgeInv /\ [Next]_vars => AgeInv'
  <1> SUFFICES ASSUME TypeOK, TreeInv, AgeInv, [Next]_vars PROVE AgeInv'
    OBVIOUS
  <1>1. CASE Tick
    <2>1. /\ UNCHANGED <<tree, pc, req>>
          /\ \A x \in Node : age'[x] = IF x \in tree /\ age[x] < MaxAge THEN age[x] + 1 ELSE age[x]
          /\ pc \in {"svc", "proc"} => age[Path(req, 1)] = 0
      <3>1. \A n \in 1..2 : pc = <<"svc", "proc">>[n] => age[Path(req, 1)] = 0
        BY <1>1 DEF Tick
      <3>2. 1 \in 1..2 /\ 2 \in 1..2 /\ <<"svc", "proc">>[1] = "svc" /\ <<"svc", "proc">>[2] = "proc"
        OBVIOUS
      <3> QED
        BY <1>1, <3>1, <3>2 DEF Tick, slots, regi
    <2>2. \A x \in Node : age[x] \in Nat /\ age[x] <= MaxAge /\ MaxAge \in Nat
      BY HubAssumption DEF TypeOK, MaxAge
    <2>3. ASSUME NEW x \in tree', NEW y \in Above(x) PROVE age'[y] <= age'[x] + 1
      <3>1. x \in Node /\ y \in tree /\ y \in Node /\ age[y] <= age[x] + 1
        BY <2>1, <2>3 DEF AgeInv, TypeOK
      <3> QED
        BY <2>1, <2>2, <2>3, <3>1
    <2>4. pc \in {"svc", "proc"} =>
             /\ Path(req, 1) \in Node /\ Path(req, 2) \in Node
             /\ Path(req, 1) \in Above(Path(req, 2))
      <3>1. 1 \in 1..3 /\ 2 \in 1..3 /\ 1 \in 1..2
        OBVIOUS
      <3> QED
        BY <3>1, Nodes DEF TypeOK
    <2>5. pc \in {"svc", "proc"} => age'[Path(req, 1)] <= 1
      BY <2>1, <2>2, <2>4
    <2>6. pc = "proc" => age'[Path(req, 2)] <= age'[Path(req, 1)]
      BY <2>1, <2>2, <2>4 DEF AgeInv, TreeInv
    <2>7. \A x \in Node \ tree' : age'[x] = 0
      BY <2>1 DEF AgeInv
    <2> QED
      BY <2>1, <2>3, <2>5, <2>6, <2>7 DEF AgeInv
  <1>2. CASE NewBroker
    <2>1. req \in Proc /\ ChkTree(1, new_broker) /\ pc' = "idle"
      BY <1>2 DEF NewBroker, Done, TypeOK
    <2> QED
      BY <2>1, ChkTreeAge DEF AgeInv
  <1>3. CASE ChkBroker
    <2>1. req \in Proc /\ ChkTree(1, NULL) /\ pc' = "svc" /\ req' = req
      BY <1>3 DEF ChkBroker, TypeOK
    <2>2. age'[Path(req, 1)] = 0
      BY <2>1, ChkTreeAge
    <2> QED
      BY <2>1, <2>2, ChkTreeAge DEF AgeInv
  <1>4. CASE ChkSvc
    <2>1. /\ req \in Proc /\ ChkTree(2, NULL) /\ pc = "svc" /\ pc' = "proc" /\ req' = req
          /\ \A k \in 1..(2 - 1) : age[Path(req, k)] <= 1
      BY <1>4 DEF ChkSvc, TypeOK, AgeInv
    <2>2. /\ age'[Path(req, 2)] = 0 /\ Path(req, 1) \in Node
          /\ age'[Path(req, 1)] <= age[Path(req, 1)] /\ age[Path(req, 1)] <= 1
          /\ age'[Path(req, 2)] <= age'[Path(req, 1)]
          /\ age[Path(req, 1)] \in Int /\ age'[Path(req, 1)] \in Int
      <3>1. Path(req, 1) \in Node /\ Path(req, 2) \in Node
        BY <2>1, Nodes
      <3>2. age'[Path(req, 2)] = 0 /\ age'[Path(req, 1)] <= age[Path(req, 1)]
        BY <2>1, <3>1, ChkTreeAge
      <3>3. age[Path(req, 1)] \in Nat /\ age'[Path(req, 1)] \in Nat
        BY <1>4, <3>1, HubAssumption DEF ChkSvc, ChkTree, TypeOK, MaxAge
      <3> QED
        BY <2>1, <3>1, <3>2, <3>3 DEF AgeInv
    <2> QED
      BY <2>1, <2>2, ChkTreeAge DEF AgeInv
  <1>5. CASE ChkProc
    <2>1. /\ req \in Proc /\ ChkTree(3, NULL) /\ pc' = "idle"
          /\ \A k \in 1..(3 - 1) : age[Path(req, k)] <= 1
      <3>1. \A k \in 1..(3 - 1) : k = 1 \/ k = 2
        OBVIOUS
      <3>2. /\ req \in Proc /\ ChkTree(3, NULL) /\ pc' = "idle"
            /\ age[Path(req, 1)] <= 1 /\ age[Path(req, 2)] <= age[Path(req, 1)]
        BY <1>5 DEF ChkProc, Done, TypeOK, AgeInv
      <3>3. age[Path(req, 1)] \in Nat /\ age[Path(req, 2)] \in Nat
        BY <3>2, Nodes DEF TypeOK
      <3> QED
        BY <3>1, <3>2, <3>3
    <2> QED
      BY <2>1, ChkTreeAge DEF AgeInv
  <1>6. CASE Sweep
    <2>1. /\ tree' = tree \ Gone /\ pc' = "idle"
          /\ \A x \in Node : age'[x] = IF x \in Gone THEN 0 ELSE age[x]
      BY <1>6 DEF Sweep, regi
    <2>2. ASSUME NEW x \in tree', NEW y \in Above(x) PROVE age'[y] <= age'[x] + 1
      <3>1. y \in tree' /\ x \in Node /\ y \in Node
        BY <1>6, <2>2, SweepType DEF TypeOK
      <3> QED
        BY <2>1, <2>2, <3>1 DEF AgeInv
    <2>3. \A x \in Node \ tree' : age'[x] = 0
      BY <2>1 DEF AgeInv
    <2> QED
      BY <2>1, <2>2, <2>3 DEF AgeInv
  <1>7. CASE UNCHANGED <<tree, age>> /\ (pc' \notin {"svc", "proc"} \/ UNCHANGED <<pc, req>>)
    BY <1>7 DEF AgeInv
  <1> QED
    BY <1>1, <1>2, <1>3, <1>4, <1>5, <1>6, <1>7 DEF Next, RegiStep, ThreadStep, vars, regi,
       Done, RegiScan, Reject, ClaimSlot, SlotsFull, MainInit, CreateThread, ThreadStart,
       BrokerRelease, ThreadEnd, Memset

\* What the lease table sees of the tree.
Leased    == {p \in Proc : Path(p, 3) \in tree}
LeasedAge == [p \in Proc |-> age[Path(p, 3)]]

\* A step of the registry is a step of the lease table of its processes, or
\* leaves it alone.
LEMMA LeaseStep ==
    ASSUME TypeOK, AgeInv, [Next]_vars
    PROVE  [Lease!Next]_<<Leased, LeasedAge>>
  <1>1. \A p \in Proc : Path(p, 3) \in Node /\ LeasedAge[p] = age[Path(p, 3)]
    BY Nodes DEF LeasedAge
  <1>2. CASE Tick
    <2>1. tree' = tree /\ age' = [x \in Node |-> IF x \in tree /\ age[x] < MaxAge THEN age[x] + 1 ELSE age[x]]
      BY <1>2 DEF Tick
    <2>2. \A p \in Proc : age'[Path(p, 3)] = IF p \in Leased /\ LeasedAge[p] <= TMCHK_NORESP
                                            THEN LeasedAge[p] + 1 ELSE LeasedAge[p]
      BY <1>1, <2>1, HubAssumption DEF Leased, MaxAge, TypeOK
    <2>3. Lease!Second
      BY <2>1, <2>2 DEF Lease!Second, Leased, LeasedAge
    <2> QED
      BY <2>3 DEF Lease!Next
  <1>3. CASE ChkProc
    <2>1. req \in Proc /\ tree' = tree \cup {Path(req, 3)} /\ age' = [age EXCEPT ![Path(req, 3)] = 0]
      BY <1>3 DEF ChkProc, ChkTree, TypeOK
    <2>2. Leased' = Leased \cup {req}
      BY <2>1, ProcNode DEF Leased
    <2>3. LeasedAge' = [LeasedAge EXCEPT ![req] = 0]
      BY <1>1, <2>1, ProcNode DEF LeasedAge, TypeOK
    <2>4. Lease!Renew(req)
      BY <2>2, <2>3 DEF Lease!Renew, Leased, LeasedAge
    <2> QED
      BY <2>1, <2>4 DEF Lease!Next
  <1>4. CASE Sweep
    <2> DEFINE gone == {p \in Proc : Path(p, 3) \in Gone}
    <2>1. tree' = tree \ Gone /\ age' = [x \in Node |-> IF x \in Gone THEN 0 ELSE age[x]]
      BY <1>4 DEF Sweep
    <2>2. gone \subseteq Leased /\ Leased' = Leased \ gone
      BY <2>1 DEF Gone, Leased
    <2>3. LeasedAge' = [p \in Proc |-> IF p \in gone THEN 0 ELSE LeasedAge[p]]
      BY <1>1, <2>1 DEF LeasedAge
    <2>4. ASSUME NEW p \in gone PROVE LeasedAge[p] + 1 > TMCHK_NORESP
      <3> PICK y \in Above(Path(p, 3)) : y \in tree /\ age[y] > TMCHK_NORESP
        BY DEF Gone, Expired
      <3>1. age[y] <= age[Path(p, 3)] + 1 /\ y \in Node /\ Path(p, 3) \in Node
        BY <1>1 DEF Gone, AgeInv, TypeOK
      <3> QED
        BY <1>1, <3>1, HubAssumption DEF TypeOK, MaxAge
    <2>5. Lease!Drop(gone)
      BY <2>2, <2>3, <2>4 DEF Lease!Drop, Leased, LeasedAge
    <2> QED
      BY <2>5 DEF Lease!Next
  <1>5. CASE NewBroker \/ ChkBroker \/ ChkSvc
    <2> PICK n \in 1..2 : req \in Proc /\ tree' = tree \cup {Path(req, n)}
                          /\ age' = [age EXCEPT ![Path(req, n)] = 0]
      <3>1. req \in Proc /\ 1 \in 1..2 /\ 2 \in 1..2
        BY <1>5 DEF NewBroker, ChkBroker, ChkSvc, TypeOK
      <3> QED
        BY <1>5, <3>1 DEF NewBroker, ChkBroker, ChkSvc, ChkTree
    <2>1. \A p \in Proc : Path(p, 3) # Path(req, n)
      <3>1. Len(Path(req, n)) = n /\ \A p \in Proc : Len(Path(p, 3)) = 3
        BY PathValue
      <3> QED
        BY <3>1
    <2> QED
      BY <1>1, <2>1 DEF Leased, LeasedAge, TypeOK
  <1>6. CASE UNCHANGED <<tree, age>>
    BY <1>6 DEF Leased, LeasedAge
  <1> QED
    BY <1>2, <1>3, <1>4, <1>5, <1>6 DEF Next, RegiStep, ThreadStep, vars, RegiScan, Reject,
       ClaimSlot, SlotsFull, MainInit, CreateThread, ThreadStart, BrokerRelease, ThreadEnd,
       Memset

\* The processes in the tree are a lease table: the registry implements it.
THEOREM ProcsAreLeased == Spec => LeaseSpec
  <1>1. Init => Lease!Init
    BY Nodes DEF Init, Lease!Init
  <1>2. TypeOK /\ AgeInv /\ [Next]_vars =>
          [Lease!Next]_<<{p \in Proc : Path(p, 3) \in tree}, [p \in Proc |-> age[Path(p, 3)]]>>
    BY LeaseStep DEF Leased, LeasedAge
  <1> QED
    BY <1>1, <1>2, AgeInvInit, AgeInvStep, TypeCorrect, PTL DEF Spec, LeaseSpec, Lease!Spec
=============================================================================
