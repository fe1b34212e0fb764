---------------------------- MODULE MCPreemption ----------------------------
(* Small instances of Preemption for TLC. *)
EXTENDS Preemption

CONSTANTS a, b, r1, r2, l1, p1, p2, n1

\* User a has a lease and a booking that starts before the lease ends; user b
\* books the same node from 1.
MCBookings == {r1, r2}
MCLeases == {l1}
MCOwner == (r1 :> a) @@ (l1 :> a) @@ (r2 :> b) @@ (p1 :> a)
MCSize == [r \in {r1, r2, l1} |-> 2]
MCStart == (r1 :> 1) @@ (l1 :> 0) @@ (r2 :> 1)
MCEnd == (r1 :> 3) @@ (l1 :> 2) @@ (r2 :> 9)
MCOrder == <<p1>>
MCGpus == [p \in {p1} |-> 2]
MCNodeOf == [p \in {p1} |-> n1]
MCNodeGpus == [n \in {n1} |-> 2]

\* The lease ends when the booking starts, which outlasts the run.
MCEndLive == (r1 :> 9) @@ (l1 :> 1) @@ (r2 :> 9)

\* User a overstays a lease with one GPU; user b has a booking of two and a pod
\* that takes one.
MCPairBookings == {r2}
MCPairOwner == (l1 :> a) @@ (r2 :> b) @@ (p1 :> a) @@ (p2 :> b)
MCPairSize == (l1 :> 1) @@ (r2 :> 2)
MCPairStart == (l1 :> 0) @@ (r2 :> 1)
MCPairEnd == (l1 :> 1) @@ (r2 :> 9)
MCPairOrder == <<p1, p2>>
MCPairGpus == [p \in {p1, p2} |-> 1]
MCPairNodeOf == [p \in {p1, p2} |-> n1]
=============================================================================
