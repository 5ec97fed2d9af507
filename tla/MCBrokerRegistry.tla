--------------------------- MODULE MCBrokerRegistry ---------------------------
(***************************************************************************)
(* Small instances of BrokerRegistry: the services a and b, processes a1   *)
(* and a2 of a, b1 of b.                                                   *)
(***************************************************************************)
EXTENDS BrokerRegistry, TLC

CONSTANTS a, b, a1, a2, b1

\* Two services, each with one process and a port of its own.
SvcOfAB == (a1 :> a) @@ (b1 :> b)
PortsAB == (a1 :> 5550) @@ (b1 :> 5563)

\* The processes of one service disagree on its port, and share it with the
\* other service once the ports are rounded.
SvcOfAAB == (a1 :> a) @@ (a2 :> a) @@ (b1 :> b)
PortsAAB == (a1 :> 5550) @@ (a2 :> 5560) @@ (b1 :> 5553)
=============================================================================
