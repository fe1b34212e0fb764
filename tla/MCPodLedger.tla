---------------------------- MODULE MCPodLedger ----------------------------
(* Small instances of PodLedger for TLC. *)
EXTENDS PodLedger

CONSTANTS p1, n1, n2, a, b

MCGpus == p1 :> 1
MCNodeOf == p1 :> n1
MCAlloc == n1 :> 2 @@ n2 :> 1
MCLabel == p1 :> a
MCTaints == n1 :> {a, b} @@ n2 :> {b}
=============================================================================
