---------------------------- MODULE MCHubRegistry ----------------------------
(***************************************************************************)
(* Small instances of HubRegistry: the brokers x and y, each passing on    *)
(* the registrations of one process of the service a.                      *)
(***************************************************************************)
EXTENDS HubRegistry, TLC

CONSTANTS x, y, h1, h2, a, b, px, px2, py

\* y runs on x's host: x restarted under a new pid.
SameHosts == (x :> h1) @@ (y :> h1)
TwoHosts  == (x :> h1) @@ (y :> h2)

PerBroker == (px :> x) @@ (py :> y)
OneSvc    == (px :> a) @@ (py :> a)

\* Two services of one broker.
OneBroker == (px :> x) @@ (px2 :> x)
TwoSvc    == (px :> a) @@ (px2 :> b)
OneHost   == (x :> h1)

\* Brokers of one host can be exchanged together with their processes.
Swap == {p \in Permutations({x, y, px, py}) :
           p[x] \in {x, y} /\ p[px] \in {px, py} /\ (p[x] = x <=> p[px] = px)}
=============================================================================
