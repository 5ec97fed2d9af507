---------------------------- MODULE MCServiceRelay ----------------------------
(***************************************************************************)
(* Small instances of ServiceRelay: the process a of service s, and b and  *)
(* c of service t.                                                         *)
(***************************************************************************)
EXTENDS ServiceRelay, TLC

CONSTANTS s, t, a, b, c, m1, m2

\* a and b use tcp, c uses ipc.
SvcOfABC == (a :> s) @@ (b :> t) @@ (c :> t)
Ports    == (a :> 5550) @@ (b :> 5560) @@ (c :> 5560)

\* Names that begin others: t begins s, and b (in t) begins a (in s).
SvcNames  == {<<t, s>>}
ProcNames == {<<b, a>>}

\* Two requests from a for t.
Senders   == (m1 :> a) @@ (m2 :> a)
Receivers == (m1 :> t) @@ (m2 :> t)

ASSUME InstancePorts == PortsApart
=============================================================================
