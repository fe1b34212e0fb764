--------------------------- MODULE SingletonLease ---------------------------
(***************************************************************************)
(* The coordination Lease that keeps a second controller from running:     *)
(* acquire_singleton_lease at startup, lease_guard_loop afterwards.        *)
(*                                                                         *)
(* Times are ages, kept relative so that the state is finite: clock[i]     *)
(* runs from the `now` a call captured before its first request (or from   *)
(* the start of a sleep), lease.age from the renew time in the Lease.      *)
(* A resourceVersion is modelled by what it decides: whether the Lease was *)
(* written since the caller read it.                                       *)
(***************************************************************************)
EXTENDS Integers, FiniteSets

CONSTANTS
    Instances,  \* pod names of controllers (the holder identities)
    None,       \* no Lease object yet
    Duration,   \* LEASE_DURATION_SECONDS
    RenewEvery, \* LEASE_RENEW_INTERVAL_SECONDS
    MaxCall,    \* bound: time a lease call takes
    MaxBoot,    \* bound: time from the claim to the background loops
    MaxFaults,  \* bound: requests that fail
    MaxCrashes  \* bound: instances that crash

ASSUME ConstantsAssumption ==
    /\ None \notin Instances
    /\ Duration \in Nat /\ RenewEvery \in Nat
    /\ MaxCall \in Nat /\ MaxBoot \in Nat
    /\ MaxFaults \in Nat /\ MaxCrashes \in Nat

VARIABLES
    st,      \* st[i]: life cycle of the process
    held,    \* held[i]: the guard believes it holds the Lease
    call,    \* call[i]: the request of i the API server has not answered
    current, \* instances whose write carries the Lease's current version
    clock,   \* clock[i]: time since `now` was captured or a sleep began
    late,    \* late[i]: age of a write of i still on its way after i gave up
    lease,   \* the Lease object: holder and age
    faults, crashes

process == <<st, held, call, clock>>
object == <<lease, late, current>>
vars == <<process, object, faults, crashes>>

NoWrite == -1
\* Bound: older than this, every reader finds a Lease expired.
MaxAge == Duration + MaxCall + 1
Older(a) == IF a < MaxAge THEN a + 1 ELSE a

\* Calls, startup and sleeps last no longer than their bounds.
Limit(i) == IF call[i] # "none" THEN MaxCall
            ELSE IF st[i] = "booting" THEN MaxBoot ELSE RenewEvery
Runs(i) == st[i] \in {"starting", "booting", "up"}

Fault == faults < MaxFaults /\ faults' = faults + 1

Init ==
    /\ st = [i \in Instances |-> "down"]
    /\ held = [i \in Instances |-> FALSE]
    /\ call = [i \in Instances |-> "none"]
    /\ current = {}
    /\ clock = [i \in Instances |-> 0]
    /\ late = [i \in Instances |-> NoWrite]
    /\ lease = [holder |-> None, age |-> 0]
    /\ faults = 0 /\ crashes = 0

-----------------------------------------------------------------------------
(* What a call decides and how it ends *)

\* _lease_age_seconds(lease, now) > duration, with the `now` of i's call.
Expired(i) == lease.age - clock[i] > Duration

HeldByOther(i) == lease.holder \notin {None, i} /\ ~Expired(i)

\* A body with the current version is stored; other versions are now stale.
Land(i, age) ==
    /\ lease' = [holder |-> i, age |-> age]
    /\ current' = {}
    /\ late' = [j \in Instances |-> NoWrite]

\* The call of i returns; h is what the guard believes from then on.
Settle(i, h) ==
    /\ st' = [st EXCEPT ![i] = IF @ = "starting" THEN "booting" ELSE @]
    /\ held' = [held EXCEPT ![i] = h]
    /\ call' = [call EXCEPT ![i] = "none"]
    /\ clock' = [clock EXCEPT ![i] = 0]

\* Mutant: a process that stops leaves its belief behind.
StopKeepsHeld(i, how) ==
    /\ st' = [st EXCEPT ![i] = how]
    /\ call' = [call EXCEPT ![i] = "none"]
    /\ clock' = [clock EXCEPT ![i] = 0]
    /\ UNCHANGED held

Stop(i, how) ==
    /\ st' = [st EXCEPT ![i] = how]
    /\ held' = [held EXCEPT ![i] = FALSE]
    /\ call' = [call EXCEPT ![i] = "none"]
    /\ clock' = [clock EXCEPT ![i] = 0]

\* The write of i is left on its way: it may land later.  Bound: one each.
MayDelay(i) ==
    late' \in {late} \cup
        (IF i \in current /\ late[i] = NoWrite
         THEN {[late EXCEPT ![i] = clock[i]]} ELSE {})

-----------------------------------------------------------------------------
(* The process *)

\* The kubelet starts the container: lifespan, _claim_singleton_lease.
Start(i) ==
    /\ st[i] \in {"down", "fenced"}
    /\ st' = [st EXCEPT ![i] = "starting"]
    /\ call' = [call EXCEPT ![i] = "read"]
    /\ UNCHANGED <<held, clock, object, faults, crashes>>

Crash(i) ==
    /\ crashes < MaxCrashes /\ crashes' = crashes + 1
    /\ st[i] \in {"starting", "booting", "up"}
    /\ Stop(i, "down")
    /\ MayDelay(i)
    /\ current' = current \ {i}
    /\ UNCHANGED <<lease, faults>>

\* The first fetch and audit are done; the loops start, the guard sleeps first.
Booted(i) ==
    /\ st[i] = "booting"
    /\ st' = [st EXCEPT ![i] = "up"]
    /\ clock' = [clock EXCEPT ![i] = 0]
    /\ UNCHANGED <<held, call, object, faults, crashes>>

\* lease_guard_loop wakes up: renew if held, else acquire.
Wake(i) ==
    /\ st[i] = "up" /\ call[i] = "none" /\ clock[i] = RenewEvery
    /\ call' = [call EXCEPT ![i] = "read"]
    /\ clock' = [clock EXCEPT ![i] = 0]
    /\ UNCHANGED <<st, held, object, faults, crashes>>

\* Mutant: the age is not looked at.
ReadTakesOver(i) ==
    /\ call[i] = "read"
    /\ call' = [call EXCEPT ![i] = "write"]
    /\ current' = current \cup {i}
    /\ UNCHANGED <<st, held, clock, lease, late, faults, crashes>>

\* Mutant: an instance that started unguarded ignores the live holder.
ReadStaysUp(i) ==
    /\ call[i] = "read"
    /\ IF HeldByOther(i)
       THEN Settle(i, held[i]) /\ UNCHANGED <<object, faults>>
       ELSE /\ call' = [call EXCEPT ![i] = "write"]
            /\ current' = current \cup {i}
            /\ UNCHANGED <<st, held, clock, lease, late, faults>>
    /\ UNCHANGED crashes

\* The Lease is read: create or replace it, stop because another live instance
\* holds it, or fail.  A renewal of a Lease that is not there fails too.
Read(i) ==
    /\ call[i] = "read"
    /\ \/ /\ ~HeldByOther(i) /\ (lease.holder = None => ~held[i])
          /\ call' = [call EXCEPT ![i] = "write"]
          /\ current' = current \cup {i}
          /\ UNCHANGED <<st, held, clock, faults>>
       \/ /\ HeldByOther(i)
          /\ Stop(i, "fenced")
          /\ UNCHANGED <<current, faults>>
       \/ /\ Fault \/ (lease.holder = None /\ held[i] /\ faults' = faults)
          /\ Settle(i, held[i])
          /\ UNCHANGED current
    /\ UNCHANGED <<lease, late, crashes>>

\* Mutant: the body carries no resourceVersion.
WriteBlind(i) ==
    /\ call[i] = "write"
    /\ Land(i, clock[i])
    /\ Settle(i, TRUE)
    /\ UNCHANGED <<faults, crashes>>

\* The Lease is written and the answer arrives or is lost; or the version is
\* stale (409, also of a second create); or the request fails or is delayed.
Write(i) ==
    /\ call[i] = "write"
    /\ \/ /\ i \in current
          /\ Land(i, clock[i])
          /\ \/ Settle(i, TRUE) /\ faults' = faults
             \/ Settle(i, held[i]) /\ Fault
       \/ /\ i \notin current
          /\ Settle(i, held[i])
          /\ UNCHANGED <<object, faults>>
       \/ /\ Fault
          /\ MayDelay(i)
          /\ current' = current \ {i}
          /\ Settle(i, held[i])
          /\ lease' = lease
    /\ UNCHANGED crashes

\* A delayed write reaches the API server while its version is still current.
LateWrite(i) ==
    /\ late[i] # NoWrite
    /\ Land(i, late[i])
    /\ UNCHANGED <<process, faults, crashes>>

ClockTick ==
    /\ \A i \in Instances : Runs(i) => clock[i] < Limit(i)
    /\ clock' = [i \in Instances |-> IF Runs(i) THEN clock[i] + 1 ELSE clock[i]]
    /\ late' = [i \in Instances |-> IF late[i] = NoWrite THEN NoWrite ELSE Older(late[i])]
    /\ lease' = [lease EXCEPT !.age = IF lease.holder = None THEN 0 ELSE Older(lease.age)]
    /\ UNCHANGED <<st, held, call, current, faults, crashes>>

Guard(i) == Booted(i) \/ Wake(i) \/ Read(i) \/ Write(i)

Next ==
    \/ ClockTick
    \/ \E i \in Instances : Start(i) \/ Crash(i) \/ Guard(i) \/ LateWrite(i)

Spec == Init /\ [][Next]_vars

\* Time passes, processes run, the kubelet restarts a container that exited.
Fairness ==
    /\ SF_vars(ClockTick)
    /\ \A i \in Instances : WF_vars(Start(i)) /\ WF_vars(Guard(i))

FairSpec == Spec /\ Fairness

-----------------------------------------------------------------------------
(* Properties *)

\* Types; only running processes have calls, a write in flight is the only one
\* that carries a version, and no clock runs over the bound of its phase.
TypeOK ==
    /\ st \in [Instances -> {"down", "starting", "booting", "up", "fenced"}]
    /\ held \in [Instances -> BOOLEAN]
    /\ call \in [Instances -> {"none", "read", "write"}]
    /\ current \in SUBSET {i \in Instances : call[i] = "write"}
    /\ clock \in [Instances -> Nat]
    /\ \A i \in Instances :
          /\ st[i] = "starting" => call[i] # "none"
          /\ call[i] # "none" => st[i] \in {"starting", "up"}
          /\ IF Runs(i) THEN clock[i] <= Limit(i) ELSE clock[i] = 0
          /\ held[i] => st[i] \in {"booting", "up"}
    /\ late \in [Instances -> {NoWrite} \cup 0..MaxAge]
    /\ lease \in [holder : Instances \cup {None}, age : 0..MaxAge]
    /\ faults \in 0..MaxFaults /\ crashes \in 0..MaxCrashes

\* A write that can still be stored, in flight or delayed, was decided rightly:
\* the Lease is absent, the writer's own, or expired by the clock it used.
WritesJustified ==
    /\ \A i \in current : lease.holder \in {None, i} \/ Expired(i)
    /\ \A i \in Instances : late[i] # NoWrite =>
          \/ lease.holder \in {None, i}
          \/ lease.age > Duration /\ (call[i] # "none" => Expired(i))
    /\ \A i \in Instances : st[i] = "fenced" => late[i] = NoWrite

Handover == INSTANCE LeaseHandover WITH
    holder <- lease.holder,
    expired <- lease.holder # None /\ lease.age > Duration,
    aside <- {i \in Instances : st[i] = "fenced"}

\* A live Lease never changes hands, and an instance that stopped because of
\* another one never becomes the holder, not even by a write it sent before:
\* the version acquire and renew carry over from their read sees to it.
LeasePromise == Handover!Spec

\* The guard of a running instance that believes it holds the Lease is right:
\* the Lease names it and no other instance can find it expired.
HeldIsHolder ==
    \A i \in Instances : held[i] => lease.holder = i /\ lease.age <= Duration

\* In the end exactly one controller runs, whatever failed or crashed before.
OneInstance == <>[](Cardinality({i \in Instances : st[i] = "up"}) = 1)

=============================================================================
