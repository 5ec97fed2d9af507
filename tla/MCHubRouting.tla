----------------------------- MODULE MCHubRouting -----------------------------
(***************************************************************************)
(* Small instances of HubRouting: the brokers x and y, both with the       *)
(* service s, and a request for s from each of them.                       *)
(***************************************************************************)
EXTENDS HubRouting, TLC

CONSTANTS x, y, s, m1, m2

OffersTwo == [b \in {x, y} |-> {s}]
Src  == (m1 :> x) @@ (m2 :> y)
Dst  == (m1 :> s) @@ (m2 :> s)

\* The brokers can be exchanged together with their requests.
Swap == {p \in Permutations({x, y, m1, m2}) :
           p[x] \in {x, y} /\ p[m1] \in {m1, m2} /\ (p[x] = x <=> p[m1] = m1)}

ASSUME InstanceOffers == OneEach
=============================================================================
