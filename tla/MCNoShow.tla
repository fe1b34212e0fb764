------------------------------ MODULE MCNoShow ------------------------------
(* Small instances of NoShow for TLC. *)
EXTENDS NoShow, TLC

CONSTANTS r1, r2

\* r1 is open at the start and r2 follows it, for longer than the clock runs.
MCBookings == {r1, r2}
MCStart == (r1 :> 0) @@ (r2 :> 1)
MCEnd == (r1 :> 1) @@ (r2 :> 4)
MCOwner == [r \in MCBookings |-> "u"]
MCSize == (r1 :> 1) @@ (r2 :> 1)
=============================================================================
