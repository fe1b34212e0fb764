----------------------------- MODULE MCOnDemand -----------------------------
(* Small instances of OnDemand for TLC. *)
EXTENDS OnDemand, TLC

CONSTANTS n1, n2

MCNodes == {n1, n2}
MCAnyNode == [p \in Pods |-> MCNodes]
One == [p \in Pods |-> 1]

\* Pod 1 takes any node, pod 2 only n1.
MCAllowed == (1 :> MCNodes) @@ (2 :> {n1})
MCAlloc == (n1 :> 2) @@ (n2 :> 1)
MCGpus == (1 :> 2) @@ (2 :> 2)

\* A single GPU left.
MCScarce == (n1 :> 1) @@ (n2 :> 0)

=============================================================================
