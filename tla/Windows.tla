------------------------------ MODULE Windows ------------------------------
(***************************************************************************)
(* Reservation windows and the chains they form: what a pod's runtime      *)
(* guarantee spans and which bookings it claims.  L is the set of bookings *)
(* a chain may go through (ControllerState._chain_for).  One GPU class and *)
(* one usage group; instants are numbers.                                  *)
(***************************************************************************)
EXTENDS Integers, FiniteSets

CONSTANTS
    Owner,         \* the user of each reservation (and of each pod)
    Size,          \* the GPUs of each reservation
    Start, End     \* its window: [Start, End)

IsOpen(r, t) == Start[r] <= t /\ t < End[r]

\* Bookings of L that follow r back to back, for the same owner and size.
Abutting(L, r, t) ==
    {s \in L \ {r} : /\ Owner[s] = Owner[r] /\ Size[s] = Size[r]
                     /\ Start[s] = End[r] /\ End[s] > t}

\* Every window of the chain of r, with r itself; of several that follow, the
\* longest goes on.
Chain(L, r, t) ==
    LET Longest(s) == CHOOSE x \in Abutting(L, s, t) :
                         \A y \in Abutting(L, s, t) : End[x] >= End[y]
        from[k \in Nat] ==
            IF k = 0 THEN {r}
            ELSE from[k - 1] \cup
                 {Longest(s) : s \in {x \in from[k - 1] : Abutting(L, x, t) # {}}}
    IN from[Cardinality(L)]

\* guarantee_end of r, as known at t, is no later than at.
OverBy(L, r, t, at) == \A s \in Chain(L, r, t) : End[s] <= at
=============================================================================
