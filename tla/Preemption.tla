----------------------------- MODULE Preemption -----------------------------
(***************************************************************************)
(* The preemption sweep and the queue tick's re-linking of pods.           *)
(*                                                                         *)
(* The sweep lists pods and nodes, takes reservation_lock, merges the pods *)
(* of on-demand leases into their owners' open bookings, adopts pods past  *)
(* their guarantee, chooses victims at the boundaries in scope and for the *)
(* standing headroom, deletes them, and after the lock annotates the pods  *)
(* still at risk.  The tick merges and adopts from a list of its own.      *)
(*                                                                         *)
(* One GPU class.  Left out: a restart; no-shows (module NoShow); retired  *)
(* rows, which are like rows whose window has ended; the teardown of the   *)
(* lease of a pod that ends (OnDemand).  An admission is one step here     *)
(* (module Admission has its calls), and pod names are not reused.         *)
(***************************************************************************)
EXTENDS Windows, SequencesExt

CONSTANTS
    Bookings, Leases,   \* reservation ids
    Order,              \* the pods, in the order the API server lists them
    None,
    Gpus, NodeOf,       \* Gpus[p], and the node p runs on
    Nodes, NodeGpus,
    Lead,               \* PREEMPTION_LEAD_MINUTES
    WarnLead,           \* TERMINATION_WARNING_LEAD_MINUTES
    Headroom,           \* HEADROOM_TARGET_PERCENT; 0 is off
    Delegates,          \* the app selects the victims
    MaxTime,            \* bound: the clock
    MaxFaults           \* bound: failed calls and nodes that come and go

Reservations == Bookings \cup Leases
Pods == ToSet(Order)
Loops == {"sweep", "tick"}

ASSUME ConstantsAssumption ==
    /\ IsFiniteSet(Reservations) /\ IsFiniteSet(Nodes) /\ Bookings \cap Leases = {}
    /\ None \notin Reservations \cup Pods /\ IsInjective(Order)
    /\ DOMAIN Owner = Reservations \cup Pods
    /\ Start \in [Reservations -> Nat] /\ End \in [Reservations -> Nat]
    /\ \A r \in Reservations : Start[r] < End[r]
    /\ Size \in [Reservations -> Nat] /\ Gpus \in [Pods -> Nat \ {0}]
    /\ NodeOf \in [Pods -> Nodes] /\ NodeGpus \in [Nodes -> Nat]
    /\ Lead \in Nat /\ WarnLead \in Nat /\ Headroom \in Nat /\ Delegates \in BOOLEAN
    /\ MaxTime \in Nat /\ MaxFaults \in Nat

VARIABLES
    clock,
    row,           \* the app's row: absent, active or cancelled
    pod,           \* absent, waiting (tolerated, not bound), running, leaving, gone
    ref,           \* the reservation a pod is tolerated under
    warn,          \* termination-warning-at: none, or an instant given or elapsed
    up,            \* the nodes the inventory counts
    listed,        \* state.reservations
    occupancy,     \* the reservation a pod is recorded under
    loop,          \* each loop's pc, time, list of pods and re-links planned
    sweep,         \* the rest of the sweep's own state
    fired,         \* state.preemption_fired: pairs of boundary and phase
    pending,       \* state.pending_ondemand_merge_cancels
    outstanding,   \* state.termination_warnings_outstanding
    faults,
    moved,         \* history: pods re-linked behind the back of a sweep
    judged,        \* history: the boundaries and phases evaluated
    merged         \* history: leases whose pod was merged

cluster == <<pod, ref, warn, up>>
marks == <<fired, pending, outstanding>>
history == <<moved, judged, merged>>
vars == <<clock, row, cluster, listed, occupancy, loop, sweep, marks, faults, history>>

NoPlan == [p \in Pods |-> None]
AtRest == [pc |-> "idle", at |-> 0, view |-> NoPlan, resident |-> {}, plan |-> NoPlan,
           lease |-> None, todo |-> {}]
SweepAtRest == [bounds |-> {}, ahead |-> {}, due |-> FALSE, capacity |-> 0, counted |-> {},
                doomed |-> {}, kills |-> {}, want |-> [p \in Pods |-> "none"]]

Init ==
    /\ clock = 0
    /\ row = [r \in Reservations |-> IF r \in Bookings THEN "active" ELSE "absent"]
    /\ pod = [p \in Pods |-> "absent"] /\ ref = NoPlan /\ up = Nodes
    /\ warn = [p \in Pods |-> "none"]
    /\ listed = Bookings /\ occupancy = NoPlan
    /\ loop = [w \in Loops |-> AtRest] /\ sweep = SweepAtRest
    /\ fired = {} /\ pending = {} /\ outstanding = FALSE
    /\ faults = 0 /\ moved = {} /\ judged = {} /\ merged = {}

Fault == faults < MaxFaults /\ faults' = faults + 1

At(w, pcs) == loop[w].pc \in pcs

\* reservation_lock is held.
Locked == \/ At("sweep", {"merge", "adopt", "plan", "kill"})
          \/ At("tick", {"merge", "adopt", "drain"})

-----------------------------------------------------------------------------
(* Planning *)

Total(S) == MapThenSumSet(LAMBDA p : Gpus[p], S)

Above0(n) == IF n < 0 THEN 0 ELSE n

\* available()
Available(r) == Above0(Size[r] - Total({p \in Pods : occupancy[p] = r}))

Chainable == listed \cap Bookings

\* _past_guarantee as of the instant at, known at t.
Over(r, t, at) == r \notin listed \/ OverBy(Chainable, r, t, at)

\* find_open_booking_for p, given the assignments a of the pass.
Rooms(p, t, a) ==
    LET spare(r) == Available(r) - Total({q \in Pods : a[q] = r})
        rooms == {r \in Chainable : Owner[r] = Owner[p] /\ IsOpen(r, t) /\ spare(r) >= Gpus[p]}
    IN {r \in rooms : \A s \in rooms : \/ End[r] > End[s]
                                       \/ End[r] = End[s] /\ spare(r) >= spare(s)}

\* The pods a list has before p.
Before(p) == {q \in Pods : \E i, j \in DOMAIN Order : i < j /\ Order[i] = q /\ Order[j] = p}

\* What one pass over the eligible pods S of the list v may assign.
Assignments(S, v, t) ==
    LET sofar(a, p) == [q \in Pods |-> IF q \in Before(p) THEN a[q] ELSE None]
        best(a, p) == IF p \in S THEN Rooms(p, t, sofar(a, p)) ELSE {}
    IN {a \in [Pods -> Bookings \cup {None}] :
           \A p \in Pods : IF best(a, p) = {} \/ v[p] \in best(a, p)
                          THEN a[p] = None ELSE a[p] \in best(a, p)}

\* plan_ondemand_merges, plan_pod_adoptions
MergePlans(w) ==
    Assignments({p \in w.resident : w.view[p] \in Leases \cap listed}, w.view, w.at)
AdoptPlans(w) ==
    Assignments({p \in w.resident : w.view[p] # None /\ Over(w.view[p], w.at, w.at)},
                w.view, w.at)

\* boundary_demand at b, over the listed pods V still there.
Demand(b, V, w) ==
    LET claimed(p) == IF w.view[p] \in Chainable
                      THEN Chain(Chainable, w.view[p], w.at) ELSE {w.view[p]}
        need(r) == Above0(Available(r) - Total({p \in V : r \in claimed(p)}))
    IN MapThenSumSet(need, {r \in Chainable : Start[r] = b})

\* free_capacity_by_class
Free(V) == sweep.capacity - Total(V \cap sweep.counted)

\* Pods of V that may be taken once their guarantee is over by at.
Pool(V, w, at) ==
    {p \in V \cap sweep.counted : w.view[p] # None /\ Over(w.view[p], w.at, at)}

\* The victims that may be chosen: the app takes any of the pool, the fallback
\* goes through it in random order until the need is covered.
Victims(need, pool) ==
    IF need <= 0 THEN {{}}
    ELSE {S \in SUBSET pool :
             \/ Delegates
             \/ /\ S = pool \/ Total(S) >= need
                /\ S # {} => \E p \in S : Total(S \ {p}) < need}

-----------------------------------------------------------------------------
(* The app, users and the cluster *)

Passes ==
    /\ clock < MaxTime
    /\ clock' = clock + 1
    /\ UNCHANGED <<row, cluster, listed, occupancy, loop, sweep, marks, faults, history>>

\* p is admitted under r: one of its owner's open bookings with room, or a lease
\* the app grants.
Admit(p, r) ==
    /\ pod[p] = "absent" /\ Owner[r] = Owner[p] /\ IsOpen(r, clock)
    /\ \/ /\ r \in Chainable /\ Available(r) >= Gpus[p]
          /\ UNCHANGED <<row, listed>>
       \/ /\ r \in Leases /\ row[r] = "absent" /\ Size[r] = Gpus[p] /\ ~ Locked
          /\ row' = [row EXCEPT ![r] = "active"] /\ listed' = listed \cup {r}
    /\ pod' = [pod EXCEPT ![p] = "waiting"] /\ ref' = [ref EXCEPT ![p] = r]
    /\ occupancy' = [occupancy EXCEPT ![p] = r]
    /\ UNCHANGED <<clock, warn, up, loop, sweep, marks, faults, history>>

Bind(p) ==
    /\ pod[p] = "waiting" /\ NodeOf[p] \in up
    /\ Total({q \in Pods : NodeOf[q] = NodeOf[p] /\ pod[q] \in {"running", "leaving"}})
          + Gpus[p] <= NodeGpus[NodeOf[p]]
    /\ pod' = [pod EXCEPT ![p] = "running"]
    /\ UNCHANGED <<clock, row, ref, warn, up, listed, occupancy, loop, sweep, marks, faults,
                   history>>

\* A pod ends, or a deleted one is gone at last.
PodEnds(p) ==
    /\ pod[p] \in {"waiting", "running", "leaving"}
    /\ pod' = [pod EXCEPT ![p] = "gone"]
    /\ UNCHANGED <<clock, row, ref, warn, up, listed, occupancy, loop, sweep, marks, faults,
                   history>>

\* The watch hears of it.
WatchGone(p) ==
    /\ pod[p] = "gone" /\ occupancy[p] # None
    /\ occupancy' = [occupancy EXCEPT ![p] = None]
    /\ UNCHANGED <<clock, row, cluster, listed, loop, sweep, marks, faults, history>>

NodeTurns(n) ==
    /\ Fault
    /\ up' = IF n \in up THEN up \ {n} ELSE up \cup {n}
    /\ UNCHANGED <<clock, row, pod, ref, warn, listed, occupancy, loop, sweep, marks, history>>

\* The instant a warning names passes.  A sweep judges it by the time it began.
NoticeElapses(p) ==
    /\ warn[p] = "given" /\ At("sweep", {"idle"})
    /\ warn' = [warn EXCEPT ![p] = "elapsed"]
    /\ UNCHANGED <<clock, row, pod, ref, up, listed, occupancy, loop, sweep, marks, faults,
                   history>>

-----------------------------------------------------------------------------
(* reservation_fetch_loop *)

\* The list is replaced by the active rows (ReservationSync has the calls).
Refresh ==
    /\ ~ Locked
    /\ listed' = {r \in Reservations : row[r] = "active"}
    /\ UNCHANGED <<clock, row, cluster, occupancy, loop, sweep, marks, faults, history>>

-----------------------------------------------------------------------------
(* Merging and adopting, in either loop *)

Goes(w, pc) == loop' = [loop EXCEPT ![w].pc = pc]

\* The pods a list shows: those that run or wait, with what it shows of them.
Listing(w, pc) ==
    loop' = [loop EXCEPT
        ![w].pc = pc,
        ![w].view = [p \in Pods |-> IF pod[p] \in {"waiting", "running", "leaving"}
                                    THEN ref[p] ELSE None],
        ![w].resident = {p \in Pods : pod[p] = "running"}]

\* The lock is free: the merges are planned.
TakesLock(w) ==
    /\ ~ Locked
    /\ \E a \in MergePlans(loop[w]) :
          loop' = [loop EXCEPT ![w].pc = "merge", ![w].plan = a]

Planned(w) == {p \in Pods : loop[w].plan[p] # None}

\* Mutant: the list keeps the reference the pod had.
ReviewedNot(w, p, r) == loop[w].view

\* The view of a pod re-linked is replaced.
Reviewed(w, p, r) == [loop[w].view EXCEPT ![p] = r]

\* The next pod planned is re-linked; or its patch fails, whether it landed or
\* not.  Of a merge, the lease is cancelled next.
Relinks(w, p) ==
    LET r == loop[w].plan[p]
        done == [loop[w] EXCEPT !.plan[p] = None] IN
    /\ At(w, {"merge", "adopt"}) /\ loop[w].lease = None
    /\ p \in Planned(w) /\ Planned(w) \cap Before(p) = {}
    /\ \/ /\ pod[p] # "gone" /\ faults' = faults
          /\ ref' = [ref EXCEPT ![p] = r]
          /\ occupancy' = [occupancy EXCEPT ![p] = r]
          /\ loop' = [loop EXCEPT ![w] =
                        [done EXCEPT !.view = Reviewed(w, p, r),
                                     !.lease = IF At(w, {"merge"}) THEN done.view[p] ELSE None]]
          /\ moved' = IF w = "tick" /\ ~ At("sweep", {"idle", "pods"})
                      THEN moved \cup {p} ELSE moved
          /\ merged' = IF At(w, {"merge"}) THEN merged \cup {loop[w].view[p]} ELSE merged
       \/ /\ pod[p] = "gone" /\ faults' = faults
          /\ loop' = [loop EXCEPT ![w] = done]
          /\ UNCHANGED <<ref, occupancy, moved, merged>>
       \/ /\ Fault
          /\ ref' \in {ref, [ref EXCEPT ![p] = r]}
          /\ loop' = [loop EXCEPT ![w] = done]
          /\ moved' = IF ref' # ref THEN moved \cup {p} ELSE moved
          /\ UNCHANGED <<occupancy, merged>>
    /\ UNCHANGED <<clock, row, pod, warn, up, listed, sweep, marks, judged>>

\* Mutant: a lease whose cancel failed is not kept.
ParkedNot(l) == pending

\* A lease whose cancel failed is kept for the tick.
Parked(l) == pending \cup {l}

\* Mutant: a lease that is no longer listed stays.
SettledListed(l) == IF l \in listed THEN pending \ {l} ELSE pending

\* A lease cancelled, or no longer listed, need not be cancelled again.
Settled(l) == pending \ {l}

\* _cancel_merged_lease
CancelLease(l) ==
    \/ /\ l \notin listed /\ faults' = faults
       /\ pending' = Settled(l)
       /\ UNCHANGED <<row, listed>>
    \/ /\ l \in listed /\ faults' = faults
       /\ row' = [row EXCEPT ![l] = "cancelled"]
       /\ listed' = listed \ {l} /\ pending' = Settled(l)
    \/ /\ l \in listed /\ Fault
       /\ row' \in {row, [row EXCEPT ![l] = "cancelled"]}
       /\ pending' = Parked(l) /\ listed' = listed

RetiresLease(w) ==
    /\ loop[w].lease # None /\ At(w, {"merge"})
    /\ CancelLease(loop[w].lease)
    /\ loop' = [loop EXCEPT ![w].lease = None]
    /\ UNCHANGED <<clock, cluster, occupancy, sweep, fired, outstanding, history>>

MergesDone(w) ==
    /\ At(w, {"merge"}) /\ Planned(w) = {} /\ loop[w].lease = None
    /\ \E a \in AdoptPlans(loop[w]) :
          loop' = [loop EXCEPT ![w].pc = "adopt", ![w].plan = a]
    /\ UNCHANGED <<clock, row, cluster, listed, occupancy, sweep, marks, faults, history>>

AdoptionsDone(w) ==
    /\ At(w, {"adopt"}) /\ Planned(w) = {}
    /\ IF w = "sweep" THEN Goes("sweep", "plan")
       ELSE loop' = [loop EXCEPT !["tick"] = [AtRest EXCEPT !.pc = "retry"]]
    /\ UNCHANGED <<clock, row, cluster, listed, occupancy, sweep, marks, faults, history>>

-----------------------------------------------------------------------------
(* _run_queue_tick, as far as it re-links *)

TickStarts ==
    /\ At("tick", {"idle"})
    /\ loop' = [loop EXCEPT !["tick"] = [AtRest EXCEPT !.pc = "pods", !.at = clock]]
    /\ UNCHANGED <<clock, row, cluster, listed, occupancy, sweep, marks, faults, history>>

\* The list fails: nothing is merged or adopted, cancels are retried.
TickLists ==
    /\ At("tick", {"pods"})
    /\ \/ Listing("tick", "rebuild") /\ faults' = faults
       \/ Fault /\ Goes("tick", "retry")
    /\ UNCHANGED <<clock, row, cluster, listed, occupancy, sweep, marks, history>>

\* reconcile_occupancy, without the lock.
TickRebuilds ==
    /\ At("tick", {"rebuild"})
    /\ occupancy' = loop["tick"].view
    /\ Goes("tick", "lock")
    /\ UNCHANGED <<clock, row, cluster, listed, sweep, marks, faults, history>>

TickLocks ==
    /\ At("tick", {"lock"}) /\ TakesLock("tick")
    /\ UNCHANGED <<clock, row, cluster, listed, occupancy, sweep, marks, faults, history>>

TickRetries ==
    /\ At("tick", {"retry"})
    /\ IF pending = {} THEN loop' = [loop EXCEPT !["tick"] = AtRest]
       ELSE ~ Locked /\ loop' = [loop EXCEPT !["tick"].pc = "drain", !["tick"].todo = pending]
    /\ UNCHANGED <<clock, row, cluster, listed, occupancy, sweep, marks, faults, history>>

\* _drain_pending_merge_cancels
TickDrains ==
    LET w == loop["tick"] IN
    /\ At("tick", {"drain"})
    /\ \E l \in w.todo :
          /\ CancelLease(l)
          /\ loop' = [loop EXCEPT !["tick"] = IF w.todo = {l} THEN AtRest
                                              ELSE [w EXCEPT !.todo = @ \ {l}]]
    /\ UNCHANGED <<clock, cluster, occupancy, sweep, fired, outstanding, history>>

-----------------------------------------------------------------------------
(* _run_preemption_sweep *)

\* upcoming_boundaries, forecast_boundaries
Starts(from, to) == {Start[r] : r \in {s \in Chainable : from < Start[s] /\ Start[s] <= to}}

\* Mutant: marks go as soon as the window is open.
PrunedEarly(t) == {m \in fired : m[1] > t}

\* prune_preemption_marks
Pruned(t) == {m \in fired : m[1] > t - Lead}

\* Something to kill, to warn about, to check or to clear.
Worth(bounds, ahead, due) == bounds \cup ahead # {} \/ due \/ outstanding

\* A sweep begins; its headroom check is due or not.
SweepStarts(due) ==
    LET bounds == Starts(clock - Lead, clock + Lead)
        ahead == bounds \cup Starts(clock, clock + WarnLead) IN
    /\ At("sweep", {"idle"})
    /\ due => Headroom > 0
    /\ fired' = Pruned(clock)
    /\ Worth(bounds, ahead, due)
    /\ loop' = [loop EXCEPT !["sweep"] = [AtRest EXCEPT !.pc = "pods", !.at = clock]]
    /\ sweep' = [SweepAtRest EXCEPT !.bounds = bounds, !.ahead = ahead, !.due = due]
    /\ moved' = {}
    /\ UNCHANGED <<clock, row, cluster, listed, occupancy, pending, outstanding, faults,
                   judged, merged>>

SweepSkips ==
    /\ At("sweep", {"pods", "nodes"}) /\ Fault
    /\ Goes("sweep", "idle") /\ sweep' = SweepAtRest
    /\ UNCHANGED <<clock, row, cluster, listed, occupancy, marks, history>>

SweepListsPods ==
    /\ At("sweep", {"pods"})
    /\ Listing("sweep", "nodes")
    /\ UNCHANGED <<clock, row, cluster, listed, occupancy, sweep, marks, faults, history>>

\* The GPUs of the nodes S together: a node gives NodeGpus of them.
ClassCapacity(S) == Cardinality(UNION {{n} \X (1..NodeGpus[n]) : n \in S})

\* Capacity is that of the nodes counted, and so are the pods on them.  The lock
\* is taken next.
SweepListsNodes ==
    /\ At("sweep", {"nodes"}) /\ TakesLock("sweep")
    /\ sweep' = [sweep EXCEPT !.capacity = ClassCapacity(up),
                              !.counted = {p \in Pods : NodeOf[p] \in up}]
    /\ UNCHANGED <<clock, row, cluster, listed, occupancy, marks, faults, history>>

Remaining == loop["sweep"].resident \ sweep.doomed

\* Mutant: the pods taken stay in the list that the next choice starts from.
DoomListed(S) == [sweep EXCEPT !.kills = @ \cup S]

Doom(S) == [sweep EXCEPT !.doomed = @ \cup S, !.kills = @ \cup S]

\* The first boundary left: marked, and evaluated if it was not in this phase.
SweepPlans ==
    LET w == loop["sweep"]
        next == CHOOSE x \in sweep.bounds : \A y \in sweep.bounds : x <= y
        mark == <<next, IF next <= w.at THEN "B" ELSE "A">>
        demand == Demand(next, Remaining, w)
        need == IF demand = 0 THEN 0 ELSE demand - Free(Remaining) IN
    /\ At("sweep", {"plan"}) /\ sweep.bounds # {}
    /\ fired' = fired \cup {mark}
    /\ IF mark \in fired
       THEN sweep' = [sweep EXCEPT !.bounds = @ \ {next}] /\ judged' = judged
       ELSE /\ \E S \in Victims(need, Pool(Remaining, w, w.at)) :
                  sweep' = [Doom(S) EXCEPT !.bounds = @ \ {next}]
            /\ judged' = judged \cup {mark}
    /\ UNCHANGED <<clock, row, cluster, listed, occupancy, loop, pending, outstanding, faults,
                   moved, merged>>

\* headroom_shortfall_by_class
Shortfall(V) == (sweep.capacity * Headroom + 99) \div 100 - Free(V)

\* Mutant: the headroom takes any overstayer, warned or not.
HeadroomPoolUnwarned(V, w) == Pool(V, w, w.at)

\* The overstayers whose notice has elapsed.
HeadroomPool(V, w) == {p \in Pool(V, w, w.at) : warn[p] = "elapsed"}

\* A notice once given stays.
Notice(p) == IF warn[p] = "none" THEN "given" ELSE warn[p]

\* plan_termination_warnings for the survivors V: of the boundaries ahead that
\* lack capacity, the first that p is at risk at names the instant.
Projected(p, V, w) ==
    LET short == {b \in sweep.ahead : /\ Demand(b, V, w) > 0
                                      /\ Demand(b, V, w) > Free(V)
                                      /\ p \in Pool(V, w, b)}
        next == CHOOSE x \in short : \A y \in short : x <= y
    IN IF short = {} THEN "none"
       ELSE IF next - Lead <= w.at /\ Over(w.view[p], w.at, w.at) THEN "elapsed" ELSE "given"

\* plan_headroom_warnings
Noticed(p, V, w) ==
    IF Shortfall(V) > 0 /\ p \in Pool(V, w, w.at) THEN Notice(p) ELSE "none"

\* The sooner of the two.
Wanted(p, V, w) ==
    LET both == {Projected(p, V, w), Noticed(p, V, w)}
    IN IF "elapsed" \in both THEN "elapsed" ELSE IF "given" \in both THEN "given" ELSE "none"

\* Victims for the headroom from what the boundaries left; then the warnings of
\* the survivors.
SweepReclaims ==
    LET w == loop["sweep"] IN
    /\ At("sweep", {"plan"}) /\ sweep.bounds = {}
    /\ \E S \in Victims(IF sweep.due THEN Shortfall(Remaining) ELSE 0,
                        HeadroomPool(Remaining, w)) :
          sweep' = [Doom(S) EXCEPT
                      !.want = [p \in Pods |-> Wanted(p, Remaining \ S, w)],
                      !.capacity = 0, !.counted = {}]
    /\ loop' = [loop EXCEPT !["sweep"].pc = "kill", !["sweep"].resident = {}]
    /\ UNCHANGED <<clock, row, cluster, listed, occupancy, marks, faults, history>>

\* _preempt_pod: deleted and released, or a failed call, which may have landed.
SweepKills(p) ==
    LET deleted == [pod EXCEPT ![p] = IF @ = "gone" THEN "gone" ELSE "leaving"] IN
    /\ At("sweep", {"kill"}) /\ p \in sweep.kills
    /\ sweep' = [sweep EXCEPT !.kills = @ \ {p}]
    /\ \/ pod' = deleted /\ occupancy' = [occupancy EXCEPT ![p] = None] /\ faults' = faults
       \/ Fault /\ pod' \in {pod, deleted} /\ occupancy' = occupancy
    /\ UNCHANGED <<clock, row, ref, warn, up, listed, loop, marks, history>>

\* Mutant: only the warnings planned count as outstanding.
OutstandingPlanned(S, tried) == \E p \in tried : sweep.want[p] # "none"

\* A warning may be left on a pod: planned, on a pod being deleted, or where a
\* patch failed.
Outstanding(S, tried) ==
    \/ \E p \in Pods : sweep.want[p] # "none"
    \/ \E p \in sweep.doomed : warn[p] # "none"
    \/ S # {}

\* _apply_termination_warnings, after the lock; of the patches S fail.
SweepWarns ==
    LET w == loop["sweep"]
        tried == {p \in Pods : w.view[p] # None /\ p \notin sweep.doomed
                                 /\ sweep.want[p] # warn[p]} IN
    /\ At("sweep", {"kill"}) /\ sweep.kills = {}
    /\ \E S \in SUBSET tried :
          /\ IF S = {} THEN faults' = faults ELSE Fault
          /\ warn' = [p \in Pods |-> IF p \in tried \ S /\ pod[p] # "gone"
                                     THEN sweep.want[p] ELSE warn[p]]
          /\ outstanding' = Outstanding(S, tried \ S)
    /\ Goes("sweep", "idle") /\ sweep' = SweepAtRest
    /\ UNCHANGED <<clock, row, pod, ref, up, listed, occupancy, fired, pending, history>>

-----------------------------------------------------------------------------
RelinkStep(w) == \/ \E p \in Pods : Relinks(w, p)
                 \/ RetiresLease(w) \/ MergesDone(w) \/ AdoptionsDone(w)
TickStep == TickLists \/ TickRebuilds \/ TickLocks \/ TickRetries \/ TickDrains
SweepStep == \/ SweepListsPods \/ SweepListsNodes \/ SweepPlans \/ SweepReclaims
             \/ SweepWarns \/ \E p \in Pods : SweepKills(p)

Next ==
    \/ Passes \/ Refresh
    \/ \E p \in Pods, r \in Reservations : Admit(p, r)
    \/ \E p \in Pods : Bind(p) \/ PodEnds(p) \/ WatchGone(p) \/ NoticeElapses(p)
    \/ \E n \in Nodes : NodeTurns(n)
    \/ \E w \in Loops : RelinkStep(w)
    \/ TickStarts \/ TickStep
    \/ \E due \in BOOLEAN : SweepStarts(due)
    \/ SweepSkips \/ SweepStep

Spec == Init /\ [][Next]_vars

\* The loops come round and their calls answer; asyncio.Lock wakes its waiters in
\* turn, so that neither loop waits for the other for ever.
FairSpec ==
    /\ Spec
    /\ SF_vars(TickStarts \/ TickStep \/ RelinkStep("tick"))
    /\ SF_vars((\E due \in BOOLEAN : SweepStarts(due)) \/ SweepStep \/ RelinkStep("sweep"))

-----------------------------------------------------------------------------
(* Properties *)

\* Every variable holds a value of its kind.
TypeOK ==
    LET Refs == Reservations \cup {None}
        Warnings == {"none", "given", "elapsed"}
        Marks == (0..MaxTime + Lead) \X {"A", "B"} IN
    /\ clock \in 0..MaxTime
    /\ row \in [Reservations -> {"absent", "active", "cancelled"}]
    /\ pod \in [Pods -> {"absent", "waiting", "running", "leaving", "gone"}]
    /\ ref \in [Pods -> Refs] /\ occupancy \in [Pods -> Refs]
    /\ warn \in [Pods -> Warnings] /\ up \subseteq Nodes
    /\ listed \subseteq {r \in Reservations : row[r] # "absent"}
    /\ loop \in [Loops -> [
          pc : {"idle", "pods", "nodes", "rebuild", "lock", "merge", "adopt", "plan", "kill",
                "retry", "drain"},
          at : 0..MaxTime, view : [Pods -> Refs], resident : SUBSET Pods,
          plan : [Pods -> Bookings \cup {None}], lease : Leases \cup {None},
          todo : SUBSET Leases]]
    /\ sweep \in [bounds : SUBSET (0..MaxTime + Lead),
                  ahead : SUBSET (0..MaxTime + Lead + WarnLead),
                  due : BOOLEAN, capacity : Nat, counted : SUBSET Pods, doomed : SUBSET Pods,
                  kills : SUBSET Pods, want : [Pods -> Warnings]]
    /\ sweep.kills \subseteq sweep.doomed
    /\ fired \subseteq Marks /\ judged \subseteq Marks
    /\ pending \subseteq Leases /\ merged \subseteq Leases
    /\ outstanding \in BOOLEAN /\ faults \in 0..MaxFaults /\ moved \subseteq Pods

\* The sweep deletes p, which is still there.
Preempts(p) == /\ p \in sweep.kills \ sweep'.kills
               /\ pod[p] \in {"waiting", "running"} /\ pod'[p] = "leaving"

\* A pod preempted is past its guarantee under the reservation it has by then,
\* adopted or merged by this very sweep or not.  Excepted: a pod the tick has
\* re-linked since the list, or whose own re-link is thought to have failed.
GuaranteeKept ==
    [][\A p \in Pods : Preempts(p) /\ p \notin moved =>
          Over(ref[p], loop["sweep"].at, loop["sweep"].at)]_vars

\* A boundary is evaluated at most once in each phase.
OncePerPhase == [][\A m \in judged : m \notin fired => m \notin fired']_vars

\* A lease whose pod was merged is cancelled, being cancelled, or waits for the
\* tick to cancel it: it is not left to charge its owner unnoticed.
MergedAccounted ==
    \A l \in merged : row[l] = "active" /\ clock < End[l] =>
        l \in pending \/ \E w \in Loops : loop[w].lease = l

\* A pod is not preempted for the headroom before the notice on the pod itself
\* has elapsed, whichever patches fail: pods no boundary in scope wants are not
\* touched without one.
NoticeGiven ==
    [][\A p \in Pods : Preempts(p) /\ sweep.ahead = {} => warn[p] = "elapsed"]_vars

\* p runs under a guarantee no boundary to come can end.
Secure(p) ==
    /\ pod[p] = "running" /\ ref[p] \in Bookings /\ row[ref[p]] = "active"
    /\ End[ref[p]] > MaxTime + Lead + WarnLead

\* A warning does not stay on a pod that has become safe.
WarningsCleared ==
    \A p \in Pods : [](Secure(p) => <>(warn[p] = "none" \/ ~ Secure(p)))

\* A merged lease does not wait for its cancel for ever.
MergesSettle == \A l \in Leases : [](l \in pending => <>(l \notin pending))

\* What no pod admitted under the bookings from b, nor chained into them, claims.
Unclaimed(b, V, w) ==
    LET claims(p, r) == \/ occupancy[p] = r
                        \/ p \in V /\ w.view[p] = r
                        \/ /\ p \in V /\ w.view[p] \in Chainable
                           /\ r \in Chain(Chainable, w.view[p], w.at)
    IN MapThenSumSet(LAMBDA r : Above0(Size[r] - Total({p \in Pods : claims(p, r)})),
                     {r \in Chainable : Start[r] = b})

\* When a boundary has been evaluated, the unclaimed GPUs of its bookings are free,
\* or nothing past its guarantee is left to take.
UnclaimedCovered ==
    [][LET w == loop["sweep"]
           left == w.resident \ sweep'.doomed
       IN \A m \in judged' \ judged :
             \/ Unclaimed(m[1], Remaining, w) <= Free(left)
             \/ Pool(left, w, w.at) = {}]_vars
=============================================================================
