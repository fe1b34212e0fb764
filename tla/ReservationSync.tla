-------------------------- MODULE ReservationSync --------------------------
(***************************************************************************)
(* The controller's copy of the reservation list: the periodic fetch, the  *)
(* push endpoint, and the grant and teardown of on-demand leases, which    *)
(* replace or edit it under reservation_lock; the queue entries that point *)
(* into it; and the evictions a cancelled or reassigned reservation causes.*)
(*                                                                         *)
(* A row of the app is the user who owns an active reservation, Cancelled, *)
(* or None.  The same values describe a fetch, a push (None: an id that is *)
(* not part of it) and the controller's list, which has active rows only.  *)
(***************************************************************************)
EXTENDS Integers, FiniteSets

CONSTANTS
    Bookings, Leases,  \* reservation ids, by kind
    Users, Pods,
    None, Cancelled,
    UserOf,      \* UserOf[p]: the namespace of pod p
    LeaseFor,    \* LeaseFor[l]: the pod whose uid is the idempotency key of l
    FirstOwner,  \* FirstOwner[r]: owner of booking r at startup, or None
    Start, End,  \* the slot [Start[r], End[r]) of reservation r
    Handlers,    \* push requests handled at the same time
    MaxTime,     \* bound on the clock
    MaxChanges,  \* bound: changes made in the app
    MaxFaults    \* bound: failed calls

Resv == Bookings \cup Leases
Fetch == "fetch"
Jobs == Handlers \cup {Fetch}
Row == Users \cup {None, Cancelled}

ASSUME ConstantsAssumption ==
    /\ Bookings \cap Leases = {} /\ Fetch \notin Handlers
    /\ None # Cancelled /\ {None, Cancelled} \cap Users = {} /\ None \notin Resv
    /\ UserOf \in [Pods -> Users] /\ LeaseFor \in [Leases -> Pods]
    /\ FirstOwner \in [Bookings -> Users \cup {None}]
    /\ Start \in [Resv -> Nat] /\ End \in [Resv -> Nat]
    /\ MaxTime \in Nat /\ MaxChanges \in Nat /\ MaxFaults \in Nat

VARIABLES
    now,
    app,       \* app[r]: the app's row
    pushes,    \* push requests the app sent that have not arrived
    list,      \* state.reservations: owner of each listed reservation, or None
    job,       \* the fetch cycle and the push requests being handled
    queue,     \* queue[p]: booking of pod p's entry in the task queue, or None
    attempt,   \* attempt[p]: booking of an admission of p in flight, or None
    grant,     \* grant[l]: where the grant or teardown of lease l is
    pod,       \* pod[p]: life of pod p
    ref,       \* ref[p]: booking reference of pod p
    changes, faults,
    raced,     \* history: pods whose patch raced the list or the occupancy rebuild
    slipped,   \* history: bookings that left their listed owner undetected
    failed     \* history: pods whose eviction or admission under a lease failed

control == <<list, job, queue, attempt, grant>>
cluster == <<pod, ref>>
history == <<raced, slipped, failed>>
bounds == <<changes, faults>>
vars == <<now, app, pushes, control, cluster, history, bounds>>

Idle == [pc |-> "idle", rows |-> [r \in Resv |-> None], at |-> 0,
         cancelled |-> {}, moved |-> {}, todo |-> {}, plan |-> {}]

Open(r, t) == Start[r] <= t /\ t < End[r]
Fault == faults < MaxFaults /\ faults' = faults + 1

\* reservation_lock is free: nobody is in a step that awaits while holding it.
LockFree ==
    /\ \A h \in Jobs : job[h].pc \notin {"snapshot", "adopt"}
    /\ \A l \in Leases : grant[l] \notin {"admit", "revoke", "cancel"}

Init ==
    /\ now = 0
    /\ app = [r \in Resv |-> IF r \in Bookings THEN FirstOwner[r] ELSE None]
    /\ pushes = {}
    /\ list = app
    /\ job = [h \in Jobs |-> Idle]
    /\ queue = [p \in Pods |-> None]
    /\ attempt = [p \in Pods |-> None]
    /\ grant = [l \in Leases |-> "none"]
    /\ pod = [p \in Pods |-> "waiting"]
    /\ ref = [p \in Pods |-> None]
    /\ changes = 0 /\ faults = 0
    /\ raced = {} /\ slipped = {} /\ failed = {}

-----------------------------------------------------------------------------
(* The reservation app, users and time *)

ClockTick ==
    /\ now < MaxTime
    /\ now' = now + 1
    /\ UNCHANGED <<app, pushes, control, cluster, history, bounds>>

\* Reservations in S get the rows of new; one push tells the controller.
AppChange(S, new) ==
    /\ changes < MaxChanges
    /\ changes' = changes + 1
    /\ \A r \in S : now < End[r]
    /\ app' = [r \in Resv |-> IF r \in S THEN new[r] ELSE app[r]]
    /\ pushes' = pushes \cup {[r \in Resv |-> IF r \in S THEN new[r] ELSE None]}
    /\ UNCHANGED <<now, control, cluster, history, faults>>

Book(r, u) == app[r] = None /\ AppChange({r}, [x \in {r} |-> u])
Cancel(r) == app[r] \in Users /\ AppChange({r}, [x \in {r} |-> Cancelled])
Reassign(r, u) == app[r] \in Users \ {u} /\ AppChange({r}, [x \in {r} |-> u])
\* Continue: the source is superseded and its replacement booked at once.
Supersede(r, s) ==
    /\ app[r] \in Users /\ app[s] = None
    /\ AppChange({r, s}, [x \in {r, s} |-> IF x = r THEN Cancelled ELSE app[r]])

Lose(m) ==
    /\ m \in pushes
    /\ pushes' = pushes \ {m}
    /\ UNCHANGED <<now, app, control, cluster, history, bounds>>

\* A pod completes or is deleted; its watch event is on the way.
PodEnds(p) ==
    /\ pod[p] \in {"waiting", "running"}
    /\ pod' = [pod EXCEPT ![p] = "ended"]
    /\ UNCHANGED <<now, app, pushes, control, ref, history, bounds>>

-----------------------------------------------------------------------------
(* Detection and the new list, from the rows of a fetch or a push *)

\* Mutant: compared with the list that is already replaced.
CancelledAfterReplace(rows, t) ==
    {r \in Resv : rows[r] = Cancelled /\ t < End[r] /\ list'[r] # None}

\* Mutant: a reservation the rows do not mention counts as cancelled.
CancelledOrMissing(rows, t) ==
    {r \in Resv : rows[r] \in {None, Cancelled} /\ t < End[r] /\ list[r] # None}

CancelledInWindow(rows, t) ==
    {r \in Resv : rows[r] = Cancelled /\ t < End[r] /\ list[r] # None}

\* Bookings in progress that changed hands, with the owner they were listed for.
OwnerChanged(rows, t) ==
    {<<r, list[r]>> : r \in {b \in Bookings : /\ rows[b] \in Users /\ Open(b, t)
                                              /\ list[b] \notin {None, rows[b]}}}

\* Mutant: only the active rows are looked at.
PreservedUnlessActive(rows, t) ==
    {l \in Leases : rows[l] \notin Users /\ list[l] # None /\ t < End[l]}

\* preserve_local_ondemand_leases
Preserved(rows, t) ==
    {l \in Leases : rows[l] = None /\ list[l] # None /\ t < End[l]}

\* The wholesale replace of a fetch; the upsert of a push.
Fetched(rows, t) ==
    [r \in Resv |-> IF rows[r] \in Users THEN rows[r]
                    ELSE IF r \in Preserved(rows, t) THEN list[r] ELSE None]
\* Mutant: every entry is upserted.
MergedAnyStatus(rows) ==
    [r \in Resv |-> IF rows[r] = None THEN list[r] ELSE rows[r]]

Merged(rows) ==
    [r \in Resv |-> IF rows[r] = None THEN list[r]
                    ELSE IF rows[r] = Cancelled THEN None ELSE rows[r]]

Matches(p, new) == {b \in Bookings : new[b] = UserOf[p] /\ now < End[b]}

\* reconcile_queue: an entry stays while its booking is listed, whoever owns it;
\* otherwise its pod is matched anew or dropped.
Requeued(new) ==
    LET choice(p) ==
            IF queue[p] = None \/ new[queue[p]] # None THEN {queue[p]}
            ELSE IF Matches(p, new) = {} THEN {None} ELSE Matches(p, new)
    IN {q \in [Pods -> Bookings \cup {None}] : \A p \in Pods : q[p] \in choice(p)}

\* Bookings taken from their listed owner that neither detector can see: a fetch
\* that began before they were booked drops them, or they change hands with a
\* clock read before their slot.
Undetected(rows, t, new) ==
    {b \in Bookings : /\ list[b] \notin {None, new[b]}
                      /\ rows[b] = None \/ (rows[b] \in Users /\ t < Start[b])}

-----------------------------------------------------------------------------
(* The fetch cycle and the push endpoint *)

\* GET /api/reservations; the class maps are resolved next.
FetchRead ==
    /\ job[Fetch].pc = "idle"
    /\ job' = [job EXCEPT ![Fetch].pc = "maps", ![Fetch].rows = app]
    /\ UNCHANGED <<now, app, pushes, list, queue, attempt, grant, cluster, history, bounds>>

FetchNow ==
    /\ job[Fetch].pc = "maps"
    /\ job' = [job EXCEPT ![Fetch].pc = "lock", ![Fetch].at = now]
    /\ UNCHANGED <<now, app, pushes, list, queue, attempt, grant, cluster, history, bounds>>

\* A push reads the clock before it resolves the class maps.
Receive(h, m) ==
    /\ job[h].pc = "idle"
    /\ m \in pushes
    /\ pushes' = pushes \ {m}
    /\ job' = [job EXCEPT ![h].pc = "lock", ![h].rows = m, ![h].at = now]
    /\ UNCHANGED <<now, app, list, queue, attempt, grant, cluster, history, bounds>>

\* The lock is taken: detect against the old list, replace it, reconcile the
\* queue.  With nothing to evict this is the whole critical section.
Apply(h) ==
    LET rows == job[h].rows
        t == job[h].at
        new == IF h = Fetch THEN Fetched(rows, t) ELSE Merged(rows)
    IN
    /\ job[h].pc = "lock" /\ LockFree
    /\ list' = new
    /\ queue' \in Requeued(new)
    /\ LET cancelled == CancelledInWindow(rows, t)
           moved == OwnerChanged(rows, t)
       IN job' = [job EXCEPT ![h] =
                     IF cancelled \cup moved = {} THEN Idle
                     ELSE [@ EXCEPT !.pc = "snapshot", !.cancelled = cancelled, !.moved = moved]]
    /\ slipped' = slipped \cup Undetected(rows, t, new)
    /\ UNCHANGED <<now, app, pushes, attempt, grant, cluster, raced, failed, bounds>>

\* One snapshot for both planners: pods under a cancelled reservation may be
\* adopted, pods of the prior owner of a reassigned one are doomed.  A snapshot
\* that fails is an empty one.
Snapshot(h) ==
    LET running == {p \in Pods : pod[p] = "running"}
        under == {q \in running : ref[q] \in job[h].cancelled}
        prior == {q \in running : <<ref[q], UserOf[q]>> \in job[h].moved} IN
    /\ job[h].pc = "snapshot"
    /\ \/ /\ job' = [job EXCEPT ![h].pc = "adopt",
                ![h].todo = {<<p, ref[p]>> : p \in under},
                ![h].plan = {<<p, ref[p], "reassigned">> : p \in prior}]
          /\ UNCHANGED <<faults, failed>>
       \/ /\ Fault /\ job' = [job EXCEPT ![h].pc = "adopt"]
          /\ failed' = failed \cup under \cup prior
    /\ UNCHANGED <<now, app, pushes, list, queue, attempt, grant, cluster, raced, slipped, changes>>

\* _adopt_pods under the lock, for a pod x[1] of the cancelled reservation x[2]:
\* it moves to another open booking of its user with room for it, or, if there
\* is none or its patch fails, will be evicted.
Adopt(h, x) ==
    /\ job[h].pc = "adopt" /\ x \in job[h].todo
    /\ \/ \E b \in Bookings \ {x[2]} :
             /\ list[b] = UserOf[x[1]] /\ Open(b, job[h].at)
             /\ pod[x[1]] = "running"
             /\ ref' = [ref EXCEPT ![x[1]] = b]
             /\ job' = [job EXCEPT ![h].todo = @ \ {x}]
       \/ /\ job' = [job EXCEPT ![h].todo = @ \ {x},
                                ![h].plan = @ \cup {<<x[1], x[2], "cancelled">>}]
          /\ ref' = ref
    /\ UNCHANGED <<now, app, pushes, list, queue, attempt, grant, pod, history, bounds>>

Release(h) ==
    /\ job[h].pc = "adopt" /\ job[h].todo = {}
    /\ job' = [job EXCEPT ![h].pc = "evict"]
    /\ UNCHANGED <<now, app, pushes, list, queue, attempt, grant, cluster, history, bounds>>

\* _execute_evictions, the lock released: the pod is deleted, or the call fails
\* and nobody retries.
Execute(h, x) ==
    /\ job[h].pc = "evict" /\ x \in job[h].plan
    /\ job' = [job EXCEPT ![h].plan = @ \ {x}]
    /\ \/ /\ pod' = [pod EXCEPT ![x[1]] = IF @ = "running" THEN "ended" ELSE @]
          /\ UNCHANGED <<faults, failed>>
       \/ Fault /\ pod' = pod /\ failed' = failed \cup {x[1]}
    /\ UNCHANGED <<now, app, pushes, list, queue, attempt, grant, ref, raced, slipped, changes>>

Finish(h) ==
    /\ job[h].pc = "evict" /\ job[h].plan = {}
    /\ job' = [job EXCEPT ![h] = Idle]
    /\ UNCHANGED <<now, app, pushes, list, queue, attempt, grant, cluster, history, bounds>>

-----------------------------------------------------------------------------
(* Pods under bookings (module Admission has budgets, retries and failures) *)

\* The watch, or a later tick, queues p for a booking that matches it.
Route(p) ==
    /\ pod[p] = "waiting"
    /\ \E b \in Matches(p, list) : b # queue[p] /\ queue' = [queue EXCEPT ![p] = b]
    /\ UNCHANGED <<now, app, pushes, list, job, attempt, grant, cluster, history, bounds>>

\* An attempt for a queued pod begins: the fast path, the tick or a waiter's retry.
BeginAttempt(p) ==
    /\ queue[p] # None /\ attempt[p] = None
    /\ Start[queue[p]] <= now /\ now <= End[queue[p]]
    /\ attempt' = [attempt EXCEPT ![p] = queue[p]]
    /\ UNCHANGED <<now, app, pushes, list, job, queue, grant, cluster, history, bounds>>

\* Pod p gets the toleration and the reference r.  Read and patch are two calls:
\* one that read the pod before another admission patched it overwrites the
\* reference, one that reads it later changes nothing.
Tolerate(p, r) ==
    \/ /\ pod[p] \in {"waiting", "running"}
       /\ pod' = [pod EXCEPT ![p] = "running"]
       /\ ref' = [ref EXCEPT ![p] = r]
    \/ pod[p] = "running" /\ UNCHANGED cluster

PatchPod(p) ==
    LET r == attempt[p] IN
    /\ r # None
    /\ Tolerate(p, r) \/ (pod[p] \notin {"waiting", "running"} /\ UNCHANGED cluster)
    /\ attempt' = [attempt EXCEPT ![p] = None]
    /\ queue' = [queue EXCEPT ![p] = None]
    /\ raced' = IF ref' # ref /\ list[r] # UserOf[p] THEN raced \cup {p} ELSE raced
    /\ UNCHANGED <<now, app, pushes, list, job, grant, slipped, failed, bounds>>

\* The watch sees that p is gone: its entry is dropped and, under the lock, the
\* lease it ran under, if that is listed, is cancelled.
WatchGone(p) ==
    LET lease == IF ref[p] \in Leases THEN {l \in {ref[p]} : list[l] # None} ELSE {} IN
    /\ pod[p] = "ended"
    /\ ref[p] = None \/ LockFree
    /\ pod' = [pod EXCEPT ![p] = "gone"]
    /\ queue' = [queue EXCEPT ![p] = None]
    /\ grant' = [l \in Leases |-> IF l \in lease THEN "cancel" ELSE grant[l]]
    /\ UNCHANGED <<now, app, pushes, list, job, attempt, ref, history, bounds>>

-----------------------------------------------------------------------------
(* On-demand leases *)

\* A candidate passes the preflight and the app grants its lease; the answer is
\* on its way.
Request(l) ==
    LET p == LeaseFor[l] IN
    /\ app[l] = None /\ grant[l] = "none" /\ Open(l, now)
    /\ pod[p] = "waiting" /\ queue[p] = None /\ attempt[p] = None
    /\ app' = [app EXCEPT ![l] = UserOf[p]]
    /\ grant' = [grant EXCEPT ![l] = "granted"]
    /\ UNCHANGED <<now, pushes, list, job, queue, attempt, cluster, history, bounds>>

\* _grant_and_admit takes the lock, lists the lease and tries the admission.
ListLease(l) ==
    /\ grant[l] = "granted" /\ LockFree
    /\ list' = [list EXCEPT ![l] = UserOf[LeaseFor[l]]]
    /\ grant' = [grant EXCEPT ![l] = "admit"]
    /\ UNCHANGED <<now, app, pushes, job, queue, attempt, cluster, history, bounds>>

\* The attempt succeeds; or it does and the queue tick, from an older snapshot,
\* rebuilds the occupancy that is asked whether it did; or it finds the pod gone;
\* or it fails with its patch applied or not.
AdmitLease(l) ==
    LET p == LeaseFor[l] IN
    /\ grant[l] = "admit"
    /\ \/ /\ Tolerate(p, l)
          /\ \/ grant' = [grant EXCEPT ![l] = "none"] /\ raced' = raced
             \/ grant' = [grant EXCEPT ![l] = "revoke"] /\ raced' = raced \cup {p}
          /\ UNCHANGED <<faults, failed>>
       \/ /\ \/ pod[p] \notin {"waiting", "running"} /\ UNCHANGED <<cluster, faults, failed>>
             \/ /\ Fault /\ (Tolerate(p, l) \/ UNCHANGED cluster)
                /\ failed' = failed \cup {p}
          /\ grant' = [grant EXCEPT ![l] = "revoke"]
          /\ raced' = raced
    /\ UNCHANGED <<now, app, pushes, list, job, queue, attempt, slipped, changes>>

\* The compensating cancel; the lease leaves the list whether it worked or not.
Revoke(l) ==
    /\ grant[l] = "revoke"
    /\ \/ app' = [app EXCEPT ![l] = Cancelled] /\ faults' = faults
       \/ Fault /\ app' = app
    /\ list' = [list EXCEPT ![l] = None]
    /\ grant' = [grant EXCEPT ![l] = "none"]
    /\ UNCHANGED <<now, pushes, job, queue, attempt, cluster, history, changes>>

\* The cancel of a teardown: only one that worked removes the lease.
Teardown(l) ==
    /\ grant[l] = "cancel"
    /\ \/ /\ app' = [app EXCEPT ![l] = Cancelled]
          /\ list' = [list EXCEPT ![l] = None]
          /\ faults' = faults
       \/ Fault /\ UNCHANGED <<app, list>>
    /\ grant' = [grant EXCEPT ![l] = "none"]
    /\ UNCHANGED <<now, pushes, job, queue, attempt, cluster, history, changes>>

-----------------------------------------------------------------------------
(* The specification *)

AppStep ==
    \/ \E r \in Bookings, u \in Users : Book(r, u) \/ Reassign(r, u)
    \/ \E r \in Resv : Cancel(r)
    \/ \E r \in Resv, s \in Bookings : Supersede(r, s)
LockStep(h) ==
    \/ Apply(h) \/ Snapshot(h)
    \/ \E x \in job[h].todo : Adopt(h, x)
    \/ Release(h)
    \/ \E x \in job[h].plan : Execute(h, x)
    \/ Finish(h)
FetchStep == FetchRead \/ FetchNow \/ LockStep(Fetch)
PodStep(p) == PodEnds(p) \/ Route(p) \/ BeginAttempt(p) \/ PatchPod(p) \/ WatchGone(p)
LeaseStep(l) == ListLease(l) \/ AdmitLease(l) \/ Revoke(l) \/ Teardown(l)

Next ==
    \/ ClockTick \/ AppStep \/ FetchStep
    \/ \E m \in pushes : Lose(m) \/ \E h \in Handlers : Receive(h, m)
    \/ \E h \in Handlers : LockStep(h)
    \/ \E p \in Pods : PodStep(p)
    \/ \E l \in Leases : Request(l) \/ LeaseStep(l)

Spec == Init /\ [][Next]_vars

\* The fetch loop runs forever, handlers and coroutines finish, and the lock is
\* handed out in order, so that a waiter gets it.
Fairness ==
    /\ SF_vars(FetchStep)
    /\ \A h \in Handlers : SF_vars(LockStep(h))
    /\ \A l \in Leases : SF_vars(LeaseStep(l))

FairSpec == Spec /\ Fairness
-----------------------------------------------------------------------------
(* Properties *)

JobType == [pc : {"idle", "maps", "lock", "snapshot", "adopt", "evict"},
            rows : [Resv -> Row], at : Nat,
            cancelled : SUBSET Resv, moved : SUBSET (Bookings \X Users),
            todo : SUBSET (Pods \X Resv),
            plan : SUBSET (Pods \X Resv \X {"cancelled", "reassigned"})]

\* Only active rows are listed, and whatever is in flight refers to pods,
\* bookings and leases of the right kind.
TypeOK ==
    /\ now \in Nat /\ changes \in Nat /\ faults \in Nat
    /\ app \in [Resv -> Row] /\ pushes \subseteq [Resv -> Row]
    /\ list \in [Resv -> Users \cup {None}]
    /\ job \in [Jobs -> JobType]
    /\ queue \in [Pods -> Bookings \cup {None}]
    /\ attempt \in [Pods -> Bookings \cup {None}]
    /\ grant \in [Leases -> {"none", "granted", "admit", "revoke", "cancel"}]
    /\ pod \in [Pods -> {"waiting", "running", "ended", "gone"}]
    /\ ref \in [Pods -> Resv \cup {None}]
    /\ raced \subseteq Pods /\ slipped \subseteq Bookings /\ failed \subseteq Pods

\* Job h is about to adopt or evict the pod p that runs under r.
Doomed(h, p, r) ==
    \/ job[h].pc = "snapshot" /\ (r \in job[h].cancelled \/ <<r, UserOf[p]>> \in job[h].moved)
    \/ <<p, r>> \in job[h].todo
    \/ \E why \in {"cancelled", "reassigned"} : <<p, r, why>> \in job[h].plan

\* Inside its window, a pod runs under a reservation that is listed for its user
\* or somebody is about to adopt or evict it: neither the fetch's wholesale
\* replace, nor a push, nor a lease's teardown leaves it behind, whatever calls
\* fail for others.  Excepted: a pod whose own patch raced or failed, or whose
\* eviction failed and is never tried again, and a booking that slipped past the
\* detectors (detect_cancelled_in_window, detect_owner_changed_in_window,
\* preserve_local_ondemand_leases).
HolderListedOrDoomed ==
    \A p \in Pods \ (raced \cup failed) : \A r \in Resv \ slipped :
        pod[p] = "running" /\ ref[p] = r /\ now < End[r] =>
            list[r] = UserOf[p] \/ \E h \in Jobs : Doomed(h, p, r)

\* A pod is adopted away from, or evicted for, a cancelled reservation only if
\* the app cancelled it: rows that are merely missing, stale or out of order
\* never cost a pod its reservation that way (_plan_cancelled_reservations).
EvictionsJustified ==
    \A h \in Jobs :
        /\ \A x \in job[h].todo : app[x[2]] = Cancelled
        /\ \A x \in job[h].plan : x[3] = "cancelled" => app[x[2]] = Cancelled

\* Whatever pushes are lost, late or out of order, the list ends up as the app's
\* active rows ("The next full pull remains the source of truth").
Converges ==
    <>[](\A r \in Resv : list[r] = IF app[r] \in Users THEN app[r] ELSE None)

\* A reassigned booking's "GPUs go to the new owner's pods": no attempt begins
\* for a pod whose user is not the booking's listed owner.
OwnPodsOnly ==
    [][\A p \in Pods : attempt'[p] # attempt[p] /\ attempt'[p] # None =>
           list[attempt'[p]] = UserOf[p]]_vars

=============================================================================
