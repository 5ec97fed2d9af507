------------------------------ MODULE LeaseTable ------------------------------
(***************************************************************************)
(* What a heartbeat table promises its members.  A member is in the table  *)
(* from its first heartbeat on, each heartbeat makes its age 0, and it is  *)
(* dropped only after it was silent for more than Limit seconds, less the  *)
(* Slack that the table's own clock readings may lose.                     *)
(***************************************************************************)
EXTENDS Naturals

CONSTANTS Member, Limit, Slack

VARIABLES members, age

Init ==
    /\ members = {}
    /\ age = [m \in Member |-> 0]

Renew(m) ==
    /\ members' = members \cup {m}
    /\ age' = [age EXCEPT ![m] = 0]

Drop(gone) ==
    /\ gone \subseteq members
    /\ \A m \in gone : age[m] + Slack > Limit
    /\ members' = members \ gone
    /\ age' = [m \in Member |-> IF m \in gone THEN 0 ELSE age[m]]

Second ==
    /\ members' = members
    /\ age' = [m \in Member |-> IF m \in members /\ age[m] <= Limit THEN age[m] + 1 ELSE age[m]]

Next ==
    \/ \E m \in Member : Renew(m)
    \/ \E gone \in SUBSET Member : Drop(gone)
    \/ Second

Spec == Init /\ [][Next]_<<members, age>>
=============================================================================
