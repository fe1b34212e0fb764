---------------------------- MODULE LeaseHandover ----------------------------
(***************************************************************************)
(* What the singleton Lease promises, whatever happens to the calls: it     *)
(* changes hands only after it expired, and never goes to an instance that  *)
(* has stepped aside.                                                       *)
(***************************************************************************)
CONSTANTS Instances, None

VARIABLES
    holder,  \* identity in the Lease
    expired, \* its renew time is older than its duration
    aside    \* instances that terminated because another one holds it

vars == <<holder, expired, aside>>

Init == holder = None /\ expired = FALSE /\ aside = {}

\* A claim or a renewal lands; a late one may be written already expired.
Write(i) ==
    /\ i \notin aside
    /\ holder \in {None, i} \/ expired
    /\ holder' = i
    /\ expired' \in BOOLEAN
    /\ aside' = aside

Expire ==
    /\ holder # None
    /\ expired' = TRUE
    /\ UNCHANGED <<holder, aside>>

StepAside(i) ==
    /\ holder \notin {None, i}
    /\ aside' = aside \cup {i}
    /\ UNCHANGED <<holder, expired>>

Return(i) ==
    /\ aside' = aside \ {i}
    /\ UNCHANGED <<holder, expired>>

Next == Expire \/ \E i \in Instances : Write(i) \/ StepAside(i) \/ Return(i)

Spec == Init /\ [][Next]_vars
=============================================================================
