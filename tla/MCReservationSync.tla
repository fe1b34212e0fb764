------------------------- MODULE MCReservationSync -------------------------
(* Small instances of ReservationSync for TLC. *)
EXTENDS ReservationSync, TLC

CONSTANTS a, b, pa, pb, r1, r2, l1, h1

\* Users a and b have one pod each; lease l1 is for the pod of a.
MCUserOf == (pa :> a) @@ (pb :> b)
MCUserOfA == pa :> a
MCLeaseFor == l1 :> pa
NoLease == [l \in {} |-> pa]

\* r1 is booked by a at startup, r2 by nobody.
MCFirst1 == r1 :> a
MCFirst2 == (r1 :> a) @@ (r2 :> None)

Zero == [r \in Resv |-> 0]
One == [r \in Resv |-> 1]
=============================================================================
