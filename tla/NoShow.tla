------------------------------- MODULE NoShow -------------------------------
(***************************************************************************)
(* No-show tracking: a booking nobody starts a pod under, or that its last *)
(* pod has left, gets a deadline; the queue tick declares it a no-show     *)
(* once the deadline has passed and cancels it in the reservation app,     *)
(* unless the pods it has listed at its start hold it.                     *)
(*                                                                         *)
(* One owner with bookings of one class.  A booking has room for every pod *)
(* here (Admission has the budget).  Deadlines are not numbers: an armed   *)
(* one comes due some time after the window opens.                         *)
(***************************************************************************)
EXTENDS Windows

CONSTANTS
    Bookings,      \* ids of the bookings
    Pods,          \* pod uids
    None,          \* no booking, no pod
    MaxTime,       \* bound: the clock
    MaxFaults      \* bound: calls that fail, and restarts of the controller

ASSUME ConstantsAssumption ==
    /\ None \notin Bookings \cup Pods
    /\ IsFiniteSet(Bookings) /\ IsFiniteSet(Pods)
    /\ MaxTime \in Nat /\ MaxFaults \in Nat
    /\ Start \in [Bookings -> Nat] /\ End \in [Bookings -> Nat]
    /\ \A r \in Bookings : Start[r] < End[r]
    /\ DOMAIN Owner = Bookings /\ Size \in [Bookings -> Nat]

VARIABLES
    clock,
    row,           \* the app's row of each booking: active, cancelled or over
    pod,           \* each pod in the cluster: absent, live or gone
    ref,           \* the booking a pod is tolerated under
    listed,        \* state.reservations
    deadline,      \* state.noshow_deadlines: none, armed or due
    noshow,        \* state.noshow_reservation_ids
    pending,       \* state.pending_noshow_cancels
    claimed,       \* state.claimed_reservation_ids
    queue,         \* the booking each pod of state.task_queue waits for
    watch,         \* the attempt of the pod watch: its pod, or None
    fetch,         \* where the fetch loop is
    tick,          \* where the queue tick is; it holds reservation_lock from
                   \* the first cancel to the last
    faults,
    steady         \* history: pods tolerated when the tick called for its list

cluster == <<pod, ref>>
tracking == <<deadline, noshow, pending, claimed>>
vars == <<clock, row, cluster, listed, tracking, queue, watch, fetch, tick, faults, steady>>

Windows == Bookings \cup {None}
TickAtRest == [pc |-> "idle", at |-> 0, snap |-> [p \in Pods |-> None], todo |-> {}, cur |-> None]

-----------------------------------------------------------------------------
(* Claims and matching *)

\* The bookings a chain may go through.
Chainable == listed \ noshow

\* reservations_claimed_by: a reservation no longer listed claims only itself.
ClaimedBy(r, t) == IF r \in listed THEN Chain(Chainable, r, t) ELSE {r}

\* Mutant: a holder claims only the window it was admitted under.
ClaimsBooked(H, t) == H

\* refresh_claimed_reservations: what the holders' bookings H claim.
Claims(H, t) == {r \in Bookings : \E h \in H : r \in ClaimedBy(h, t)}

\* guarantee_end has passed, or cannot be resolved.
PastGuarantee(r, t) == r \notin listed \/ OverBy(Chainable, r, t, t)

Soonest(S) == {r \in S : \A s \in S : Start[r] <= Start[s]}

\* find_best_reservation among the bookings of L.
Best(L) == Soonest({r \in L \ noshow : End[r] > clock})

\* Deadlines popped for the bookings of S.
Popped(S) == [r \in Bookings |-> IF r \in S THEN "none" ELSE deadline[r]]

-----------------------------------------------------------------------------
\* Mutant: only the bookings that are new to the list are armed.
ArmedNew(L, d, n, c) ==
    [r \in Bookings |-> IF r \in L \ (listed \cup n \cup c) /\ End[r] > clock
                        THEN "armed" ELSE d[r]]

\* update_noshow_tracking on the list L and the deadlines d, with the
\* declared bookings n and the claims c.
Armed(L, d, n, c) ==
    [r \in Bookings |-> IF r \in L \ (n \cup c) /\ d[r] = "none" /\ End[r] > clock
                        THEN "armed" ELSE d[r]]

Init ==
    /\ clock = 0
    /\ row = [r \in Bookings |-> "active"]
    /\ pod = [p \in Pods |-> "absent"] /\ ref = [p \in Pods |-> None]
    /\ listed = Bookings
    /\ deadline = Armed(Bookings, [r \in Bookings |-> "none"], {}, {})
    /\ noshow = {} /\ pending = {} /\ claimed = {}
    /\ queue = [p \in Pods |-> None]
    /\ watch = None /\ fetch = [pc |-> "idle", rows |-> {}] /\ tick = TickAtRest
    /\ faults = 0 /\ steady = {}

Fault == faults < MaxFaults /\ faults' = faults + 1

-----------------------------------------------------------------------------
(* Time, the app and the cluster *)

Passes ==
    /\ clock < MaxTime
    /\ clock' = clock + 1
    /\ UNCHANGED <<row, cluster, listed, tracking, queue, watch, fetch, tick, faults, steady>>

\* A deadline passes.  The tick compares it with the time read before its list
\* was called for, so one that passes meanwhile waits for the next tick.
DeadlinePasses(r) ==
    /\ deadline[r] = "armed" /\ clock >= Start[r] /\ tick.pc \notin {"list", "check"}
    /\ deadline' = [deadline EXCEPT ![r] = "due"]
    /\ UNCHANGED <<clock, row, cluster, listed, noshow, pending, claimed, queue, watch,
                   fetch, tick, faults, steady>>

\* The app retires the row of a window that has ended.
RowEnds(r) ==
    /\ row[r] = "active" /\ End[r] <= clock
    /\ row' = [row EXCEPT ![r] = "over"]
    /\ UNCHANGED <<clock, cluster, listed, tracking, queue, watch, fetch, tick, faults, steady>>

CreatePod(p) ==
    /\ pod[p] = "absent"
    /\ pod' = [pod EXCEPT ![p] = "live"]
    /\ UNCHANGED <<clock, row, ref, listed, tracking, queue, watch, fetch, tick, faults, steady>>

PodEnds(p) ==
    /\ pod[p] = "live"
    /\ pod' = [pod EXCEPT ![p] = "gone"]
    /\ steady' = steady \ {p}
    /\ UNCHANGED <<clock, row, ref, listed, tracking, queue, watch, fetch, tick, faults>>

-----------------------------------------------------------------------------
(* pod_watch_loop *)

\* enqueue_pod: p waits for r, whose deadline it clears.
Enqueue(p, r) ==
    /\ queue' = [queue EXCEPT ![p] = r]
    /\ deadline' = Popped({r})

\* A waiting pod is routed, and attempted at once if its window is open.
WatchRoutes(p) ==
    /\ watch = None /\ pod[p] = "live" /\ ref[p] = None
    /\ \E r \in Best(listed) :
          /\ Enqueue(p, r)
          /\ watch' \in IF IsOpen(r, clock) THEN {None, p} ELSE {None}
    /\ <<queue', deadline', watch'>> # <<queue, deadline, watch>>
    /\ UNCHANGED <<clock, row, cluster, listed, noshow, pending, claimed, fetch, tick,
                   faults, steady>>

\* The attempt's patch lands, unless the pod has gone or the call fails.
WatchAttempts ==
    /\ watch # None /\ queue[watch] # None
    /\ watch' = None
    /\ \/ /\ pod[watch] = "live"
          /\ ref' = [ref EXCEPT ![watch] = IF @ = None THEN queue[watch] ELSE @]
          /\ queue' = [queue EXCEPT ![watch] = None]
          /\ faults' = faults
       \/ /\ (pod[watch] = "gone" /\ faults' = faults) \/ Fault
          /\ UNCHANGED <<ref, queue>>
    /\ UNCHANGED <<clock, row, pod, listed, tracking, fetch, tick, steady>>

\* The entry of the attempt went in the meantime.
WatchGivesUp ==
    /\ watch # None /\ queue[watch] = None
    /\ watch' = None
    /\ UNCHANGED <<clock, row, cluster, listed, tracking, queue, fetch, tick, faults, steady>>

\* A tolerated pod vouches for every window it claims.
WatchSeen(p) ==
    /\ watch = None /\ pod[p] = "live" /\ ref[p] # None
    /\ queue' = [queue EXCEPT ![p] = None]
    /\ deadline' = IF ref[p] \in listed THEN Popped(ClaimedBy(ref[p], clock)) ELSE deadline
    /\ <<queue', deadline'>> # <<queue, deadline>>
    /\ UNCHANGED <<clock, row, cluster, listed, noshow, pending, claimed, watch, fetch,
                   tick, faults, steady>>

WatchGone(p) ==
    /\ watch = None /\ pod[p] = "gone" /\ queue[p] # None
    /\ queue' = [queue EXCEPT ![p] = None]
    /\ UNCHANGED <<clock, row, cluster, listed, tracking, watch, fetch, tick, faults, steady>>

-----------------------------------------------------------------------------
(* reservation_fetch_loop *)

\* The app answers: every active row.
FetchAnswered ==
    /\ fetch.pc = "idle"
    /\ fetch' = [pc |-> "apply", rows |-> {r \in Bookings : row[r] = "active"}]
    /\ UNCHANGED <<clock, row, cluster, listed, tracking, queue, watch, tick, faults, steady>>

Locked == tick.pc \in {"cancel", "answer"}

\* Mutant: the cancels of bookings that left the list stay pending.
PrunedNever(L) == pending

\* Mutant: a refresh starts with no cancel pending.
PrunedAll(L) == {}

\* reconcile_noshow on the new list L: the cancels that stay pending.
Pruned(L) == pending \cap L

\* The list is replaced, entries are re-matched, and the tracking is pruned and
\* armed again.
FetchApplied ==
    LET L == fetch.rows
        kept == [r \in Bookings |-> IF r \in L THEN deadline[r] ELSE "none"] IN
    /\ fetch.pc = "apply" /\ ~ Locked
    /\ fetch' = [pc |-> "idle", rows |-> {}]
    /\ listed' = L
    /\ \E r \in IF Best(L) = {} THEN {None} ELSE Best(L) :
          queue' = [p \in Pods |-> IF queue[p] \in L \cup {None} THEN queue[p] ELSE r]
    /\ noshow' = noshow \cap L
    /\ pending' = Pruned(L)
    /\ deadline' = Armed(L, kept, noshow', claimed)
    /\ UNCHANGED <<clock, row, cluster, claimed, watch, tick, faults, steady>>

-----------------------------------------------------------------------------
(* _run_queue_tick *)

Proceed(pc) == tick' = [tick EXCEPT !.pc = pc]

\* The tick reads the time and calls for the list of tolerated pods.
TickStarts ==
    /\ tick.pc = "idle"
    /\ tick' = [TickAtRest EXCEPT !.pc = "list", !.at = clock]
    /\ steady' = {p \in Pods : pod[p] = "live" /\ ref[p] # None}
    /\ UNCHANGED <<clock, row, cluster, listed, tracking, queue, watch, fetch, faults>>

\* check_noshow_deadlines at the time the tick began, given the claims c.
Declare(d, c) ==
    LET expired == {r \in Bookings : d[r] = "due" /\ r \notin c}
        declared == {r \in expired : r \notin listed \/ End[r] > tick.at} IN
    /\ deadline' = [r \in Bookings |-> IF r \in expired THEN "none" ELSE d[r]]
    /\ noshow' = noshow \cup declared
    /\ pending' = pending \cup declared

\* The API server answers with the pods it has.
TickListed ==
    /\ tick.pc = "list"
    /\ tick' = [tick EXCEPT !.pc = "check",
                            !.snap = [p \in Pods |-> IF pod[p] = "live" THEN ref[p] ELSE None]]
    /\ UNCHANGED <<clock, row, cluster, listed, tracking, queue, watch, fetch, faults, steady>>

\* The answer is taken up: the windows its holders claim are cleared, and what
\* is left past its deadline is a no-show.
TickChecks ==
    LET c == Claims({tick.snap[p] : p \in Pods} \ {None}, tick.at) IN
    /\ tick.pc = "check"
    /\ claimed' = c
    /\ Declare(Popped(c), c)
    /\ tick' = [tick EXCEPT !.pc = IF pending' = {} THEN "queue" ELSE "cancel", !.todo = pending']
    /\ UNCHANGED <<clock, row, cluster, listed, queue, watch, fetch, faults, steady>>

\* The list fails: deadlines are checked against the claims of the last tick.
TickListFails ==
    /\ tick.pc = "list" /\ Fault
    /\ Declare(deadline, claimed)
    /\ Proceed("queue")
    /\ UNCHANGED <<clock, row, cluster, listed, claimed, queue, watch, fetch, steady>>

\* Mutant: a declared booking is cancelled whoever holds it now.
SparedNone == {}

\* The bookings the tick's pods are admitted under.
Spared == {tick.snap[p] : p \in Pods} \ {None}

\* The next declared booking, if none of the listed pods is under it, is
\* cancelled in the app; the call may fail, having got there or not.
TickCancels ==
    /\ tick.pc = "cancel"
    /\ \E r \in tick.todo \ Spared :
          /\ \/ row' = [row EXCEPT ![r] = "cancelled"] /\ faults' = faults
                /\ tick' = [tick EXCEPT !.pc = "answer", !.cur = r, !.todo = @ \ {r}]
             \/ Fault /\ row' \in {row, [row EXCEPT ![r] = "cancelled"]}
                /\ tick' = [tick EXCEPT !.todo = @ \ {r}]
    /\ UNCHANGED <<clock, cluster, listed, tracking, queue, watch, fetch, steady>>

\* The cancel has answered: the booking leaves the list.
TickCancelled ==
    /\ tick.pc = "answer"
    /\ listed' = listed \ {tick.cur}
    /\ pending' = pending \ {tick.cur}
    /\ tick' = [tick EXCEPT !.pc = "cancel", !.cur = None]
    /\ UNCHANGED <<clock, row, cluster, deadline, noshow, claimed, queue, watch, fetch,
                   faults, steady>>

TickCancelsDone ==
    /\ tick.pc = "cancel" /\ tick.todo \subseteq Spared
    /\ tick' = [tick EXCEPT !.pc = "queue", !.todo = {}]
    /\ UNCHANGED <<clock, row, cluster, listed, tracking, queue, watch, fetch, faults, steady>>

\* An overstay pod of the list is linked to the open booking that ends last.
TickAdopts(p) ==
    LET open == {r \in listed \ noshow : IsOpen(r, tick.at)} IN
    /\ tick.pc = "queue" /\ pod[p] = "live"
    /\ tick.snap[p] # None /\ tick.snap[p] = ref[p] /\ PastGuarantee(ref[p], tick.at)
    /\ \E r \in open \ {ref[p]} : /\ \A s \in open : End[r] >= End[s]
                                /\ ref' = [ref EXCEPT ![p] = r]
    /\ UNCHANGED <<clock, row, pod, listed, tracking, queue, watch, fetch, tick, faults, steady>>

\* The booking the tick tries p under: one that is open beats one that is not.
Target(p) ==
    LET open == {r \in listed \ noshow : IsOpen(r, tick.at)}
    IN IF ~ IsOpen(queue[p], tick.at) /\ open # {} THEN Soonest(open) ELSE {queue[p]}

\* A queued pod is attempted at the time the tick began.
TickAttempts(p) ==
    /\ tick.pc = "queue" /\ queue[p] # None
    /\ \E r \in Target(p) :
          /\ Start[r] <= tick.at /\ tick.at <= End[r]
          /\ IF r = queue[p] THEN UNCHANGED <<queue, deadline>> ELSE Enqueue(p, r)
    /\ tick' = [tick EXCEPT !.pc = "patch", !.cur = p]
    /\ UNCHANGED <<clock, row, cluster, listed, noshow, pending, claimed, watch, fetch,
                   faults, steady>>

TickPatches ==
    LET p == tick.cur IN
    /\ tick.pc = "patch"
    /\ tick' = [tick EXCEPT !.pc = "queue", !.cur = None]
    /\ \/ /\ pod[p] = "live" /\ queue[p] # None
          /\ ref' = [ref EXCEPT ![p] = IF @ = None THEN queue[p] ELSE @]
          /\ queue' = [queue EXCEPT ![p] = None]
          /\ faults' = faults
       \/ /\ ((pod[p] = "gone" \/ queue[p] = None) /\ faults' = faults) \/ Fault
          /\ UNCHANGED <<ref, queue>>
    /\ UNCHANGED <<clock, row, pod, listed, tracking, watch, fetch, steady>>

\* Entries whose window has ended are dropped; the rest waits for the next tick.
TickEnds ==
    /\ tick.pc = "queue"
    /\ tick' = TickAtRest
    /\ queue' = [p \in Pods |-> IF queue[p] # None /\ tick.at > End[queue[p]]
                                THEN None ELSE queue[p]]
    /\ steady' = {}
    /\ UNCHANGED <<clock, row, cluster, listed, tracking, watch, fetch, faults>>

\* The controller restarts: what it knew is gone, and the first fetch arms the
\* bookings again.
Restart ==
    LET L == {r \in Bookings : row[r] = "active"} IN
    /\ Fault
    /\ listed' = L
    /\ deadline' = Armed(L, [r \in Bookings |-> "none"], {}, {})
    /\ noshow' = {} /\ pending' = {} /\ claimed' = {}
    /\ queue' = [p \in Pods |-> None]
    /\ watch' = None /\ fetch' = [pc |-> "idle", rows |-> {}] /\ tick' = TickAtRest
    /\ steady' = {}
    /\ UNCHANGED <<clock, row, cluster>>

-----------------------------------------------------------------------------
WatchStep == \/ WatchAttempts \/ WatchGivesUp
             \/ \E p \in Pods : WatchRoutes(p) \/ WatchSeen(p) \/ WatchGone(p)
FetchStep == FetchAnswered \/ FetchApplied
TickStep == \/ TickStarts \/ TickListed \/ TickChecks \/ TickListFails
            \/ TickCancels \/ TickCancelled \/ TickCancelsDone \/ TickPatches \/ TickEnds
            \/ \E p \in Pods : TickAdopts(p) \/ TickAttempts(p)

Next ==
    \/ Passes \/ Restart
    \/ \E r \in Bookings : DeadlinePasses(r) \/ RowEnds(r)
    \/ \E p \in Pods : CreatePod(p) \/ PodEnds(p)
    \/ WatchStep \/ FetchStep \/ TickStep

Spec == Init /\ [][Next]_vars

\* Time passes, the loops come round and calls answer.  Users need not act.
FairSpec ==
    /\ Spec
    /\ WF_vars(Passes) /\ \A r \in Bookings : SF_vars(DeadlinePasses(r))
    /\ WF_vars(WatchStep) /\ WF_vars(FetchAnswered) /\ SF_vars(FetchApplied)
    /\ WF_vars(TickStarts) /\ WF_vars(TickListed) /\ WF_vars(TickChecks)
    /\ WF_vars(TickCancels) /\ WF_vars(TickCancelled) /\ WF_vars(TickCancelsDone)
    /\ WF_vars(TickPatches) /\ SF_vars(TickEnds)

-----------------------------------------------------------------------------
(* Properties *)

\* Every variable holds a value of its kind.
TypeOK ==
    /\ clock \in 0..MaxTime
    /\ row \in [Bookings -> {"active", "cancelled", "over"}]
    /\ pod \in [Pods -> {"absent", "live", "gone"}]
    /\ ref \in [Pods -> Windows] /\ queue \in [Pods -> Windows]
    /\ listed \subseteq Bookings /\ claimed \subseteq Bookings
    /\ deadline \in [Bookings -> {"none", "armed", "due"}]
    /\ noshow \subseteq Bookings /\ pending \subseteq noshow
    /\ watch \in Pods \cup {None}
    /\ fetch \in [pc : {"idle", "apply"}, rows : SUBSET Bookings]
    /\ tick \in [pc : {"idle", "list", "check", "cancel", "answer", "queue", "patch"},
                 at : 0..MaxTime, snap : [Pods -> Windows], todo : SUBSET Bookings,
                 cur : Bookings \cup Pods \cup {None}]
    /\ faults \in 0..MaxFaults /\ steady \subseteq Pods

CancelsNow(r) == row[r] # "cancelled" /\ row'[r] = "cancelled"

\* The controller never cancels a booking under a pod that was already running
\* under it when the tick began, whatever the tick knew and however often the
\* cancel was retried.
HoldersSpared ==
    [][\A r \in Bookings : CancelsNow(r) => \A p \in steady : ref[p] # r]_vars

\* A booking is not declared a no-show while a pod running since before the tick
\* began holds it through its chain of windows.  Excepted: a call failed.
ChainsSpared ==
    [][\A r \in noshow' \ noshow : faults' = 0 =>
          \A p \in steady : r \notin ClaimedBy(ref[p], tick.at)]_vars

\* A booking the controller gave up on is cancelled, or still to be cancelled:
\* none is shut to its owner while the app keeps it.
NoLimbo == \A r \in noshow \cap listed : row[r] = "active" => r \in pending

Empty(r) ==
    /\ row[r] = "active" /\ IsOpen(r, clock)
    /\ \A p \in Pods : /\ queue[p] # r
                       /\ pod[p] = "live" => ref[p] = None \/ r \notin ClaimedBy(ref[p], clock)

\* An open booking nobody holds or waits for does not stay booked.
EmptyReleased == \A r \in Bookings : []<>(~ Empty(r))
=============================================================================
