---------------------------- MODULE MCAdmission ----------------------------
(* Small instances of Admission for TLC. *)
EXTENDS Admission, TLC

CONSTANTS p1, p2, r1, r2

\* One booking, too small for both pods.
OneBooking == [r \in {r1} |-> 2]
MCGpus == (p1 :> 1) @@ (p2 :> 2)
MCMatchesOne == [p \in {p1, p2} |-> {r1}]
MCStartOne == r1 :> 0
MCEndOne == r1 :> 1

\* Two bookings of one owner; they overlap at time 1.
TwoBookings == (r1 :> 2) @@ (r2 :> 1)
MCMatches == [p \in {p1, p2} |-> {r1, r2}]
MCStart == (r1 :> 0) @@ (r2 :> 1)
MCEnd == (r1 :> 2) @@ (r2 :> 3)
=============================================================================
