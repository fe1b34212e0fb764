------------------------------- MODULE Bookings -------------------------------
(***************************************************************************)
(* What admission promises the owner of a booking: a pod gets GPUs of a     *)
(* booking that is its own, that has begun and that has room for it next to *)
(* the pods that have GPUs of it already.                                   *)
(***************************************************************************)
EXTENDS Integers, FiniteSets

CONSTANTS
    Pods, Resv,
    MaxGpus, Gpus,  \* Gpus[p], at most MaxGpus: GPUs pod p requests
    GpuCount,       \* GpuCount[r]: GPUs booked by r
    Start,          \* Start[r]: when r begins
    Matches         \* Matches[p]: bookings that are p's own

VARIABLES
    clock,
    holders         \* holders[r]: pods that have GPUs of r

vars == <<clock, holders>>

SumGpus(S) == Cardinality({x \in S \X (1..MaxGpus) : x[2] <= Gpus[x[1]]})

Init == clock = 0 /\ holders = [r \in Resv |-> {}]

Tick == clock' = clock + 1 /\ holders' = holders

Take(r, p) ==
    /\ r \in Matches[p]
    /\ Start[r] <= clock
    /\ SumGpus(holders[r] \cup {p}) <= GpuCount[r]
    /\ holders' = [holders EXCEPT ![r] = @ \cup {p}]
    /\ clock' = clock

\* Any number of pods give up what they have, at once.
Leave ==
    /\ holders' \in [Resv -> SUBSET Pods]
    /\ \A r \in Resv : holders'[r] \subseteq holders[r]
    /\ clock' = clock

Next == Tick \/ Leave \/ \E r \in Resv, p \in Pods : Take(r, p)

Spec == Init /\ [][Next]_vars
=============================================================================
