---------------------------- MODULE MCBrokerRouter ----------------------------
(***************************************************************************)
(* Small instances of BrokerRouter: the services s and t, six messages.    *)
(***************************************************************************)
EXTENDS BrokerRouter, TLC

CONSTANTS s, t, m1, m2, m3, m4, m5, m6

\* A request each way, one that came through the hub, a response for the hub
\* and one to a process of s, and a log line.
Kinds == (m1 :> "svc_req") @@ (m2 :> "svc_req") @@ (m3 :> "svc_req")
           @@ (m4 :> "svc_res_interhub") @@ (m5 :> "svc_res") @@ (m6 :> "svc_log")
Srcs  == (m1 :> s) @@ (m2 :> t) @@ (m3 :> HUB) @@ (m4 :> s) @@ (m5 :> t) @@ (m6 :> s)
Dsts  == (m1 :> t) @@ (m2 :> s) @@ (m3 :> t) @@ (m4 :> t) @@ (m5 :> s) @@ (m6 :> t)
=============================================================================
