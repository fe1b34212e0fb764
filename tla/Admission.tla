------------------------------ MODULE Admission ------------------------------
(***************************************************************************)
(* Admission of pods under reservations: the watch loop, the queue tick,   *)
(* the reservation refresh and the Kubernetes API they race over.          *)
(*                                                                         *)
(* Everything runs on one asyncio loop, so code between two awaits is one  *)
(* step and every await is a place where another task may run.  Modelled   *)
(* with on-demand leases, adoption, merging and no-show cancellation off.  *)
(*                                                                         *)
(* A pod is tolerated (admitted) exactly when its booking reference, ref,  *)
(* is set: the two travel in one patch.                                    *)
(***************************************************************************)
EXTENDS Integers, Sequences, FiniteSets

CONSTANTS
    Pods,       \* pod uids
    Resv,       \* reservation ids
    None,       \* no reservation, no pod
    MaxGpus,    \* bound: the largest GPU request of a pod
    Gpus,       \* Gpus[p]: GPUs pod p requests
    GpuCount,   \* GpuCount[r]: GPUs booked by r
    Start, End, \* the slot [Start[r], End[r]) of r
    Matches,    \* Matches[p]: bookings of p's owner, GPU class and group
    Horizon,    \* ondemand_horizon_minutes
    Mortal,     \* bound: the pods that users delete or that finish
    MaxTime,    \* bound on the clock
    EventCap,   \* _WATCH_QUEUE_MAXSIZE
    MaxFaults,  \* bound: API calls that fail
    MaxEdits    \* bound: reservation refreshes that change something

ASSUME ConstantsAssumption ==
    /\ IsFiniteSet(Pods)
    /\ None \notin Pods \cup Resv
    /\ Mortal \in SUBSET Pods
    /\ MaxGpus \in Nat /\ Horizon \in Nat /\ MaxTime \in Nat
    /\ EventCap \in Nat \ {0} /\ MaxFaults \in Nat /\ MaxEdits \in Nat
    /\ Gpus \in [Pods -> 1..MaxGpus]
    /\ GpuCount \in [Resv -> Nat]
    /\ Start \in [Resv -> Nat] /\ End \in [Resv -> Nat]
    /\ Matches \in [Pods -> SUBSET Resv]

VARIABLES
    now,          \* the wall clock
    phase,        \* phase[p]: life cycle of the pod object in the API server
    ref,          \* ref[p]: booking reference on the pod object
    events,       \* watch events waiting for the consumer
    reservations, \* state.reservations: ids listed as active
    occupancy,    \* state.occupancy: pods recorded under each reservation
    task_queue,   \* state.task_queue: reservation each queued pod waits for
    cooling,      \* queued pods whose next_attempt_at is in the future
    attempt,      \* _try_apply_toleration call in flight in each task
    held,         \* queue entries each task captured that are still current
    watch,        \* where the watch loop is
    tick,         \* where the queue tick is
    to_remove,    \* pods the tick dequeues when it ends
    sync,         \* where the reservation refresh is (it holds the lock)
    evict,        \* pods whose deletion is planned
    faults, edits,\* failures and refreshes so far
    slipped       \* history: holders whose ledger record was dropped

api == <<phase, ref, events>>
ledger == <<reservations, occupancy>>
queue == <<task_queue, cooling>>
watching == <<watch>>
ticking == <<tick, to_remove>>
syncing == <<sync, evict, edits>>
vars == <<now, api, ledger, queue, attempt, held, watching, ticking, syncing,
          faults, slipped>>

Tasks == {"watch", "tick"}
Phases == {"absent", "live", "terminating", "done", "gone"}
Event == [type : {"ADDED", "MODIFIED", "DELETED"}, pod : Pods,
          phase : Phases, ref : Resv \cup {None}]
NoAttempt == [st |-> "idle", pod |-> None, res |-> None]

-----------------------------------------------------------------------------
(* Helpers *)

\* GPUs requested by the pods of S: every pod contributes Gpus[p] pairs.
SumGpus(S) == Cardinality({x \in S \X (1..MaxGpus) : x[2] <= Gpus[x[1]]})

\* available(): room left in r, not counting the records of the pods in x.
Available(r, x) ==
    LET used == SumGpus(occupancy[r] \ x)
    IN IF used > GpuCount[r] THEN 0 ELSE GpuCount[r] - used

\* Mutant: only the end of the slot is tested.
OpenUntilEnd(r, t) == t < End[r]

Open(r, t) == Start[r] <= t /\ t < End[r]

\* min(candidates, key=slot_start): any earliest one, list order is not kept.
Earliest(S) == {r \in S : \A s \in S : Start[r] <= Start[s]}

FindBest(listed, p) ==
    LET current == {r \in listed \cap Matches[p] : End[r] > now}
        big == {r \in current : GpuCount[r] >= Gpus[p]}
    IN Earliest(IF big # {} THEN big ELSE current)

FindAdmittable(p, t, horizon) ==
    Earliest({r \in reservations \cap Matches[p] :
                 /\ End[r] > t
                 /\ Start[r] <= t + horizon
                 /\ Available(r, {}) >= Gpus[p]})

\* Mutant: the event queue is unbounded.
OfferUnbounded(e) == events' = Append(events, e)

\* _offer: a full event queue loses its oldest event.
Offer(e) ==
    events' = Append(IF Len(events) >= EventCap THEN Tail(events) ELSE events, e)

\* The watch event for pod p in its next state.
Notify(type, p) ==
    Offer([type |-> type, pod |-> p, phase |-> phase'[p], ref |-> ref'[p]])

\* A captured entry stops being `state.task_queue.get(uid) is entry`.
Forget(h, P) == [t \in Tasks |-> h[t] \ P]

DequeuePod(p) ==
    /\ task_queue' = [task_queue EXCEPT ![p] = None]
    /\ cooling' = cooling \ {p}

\* enqueue_pod: the entry of a pod that already waits for r stays as it is.
Kept(p, r) == task_queue[p] = r

RecordPlacement(r, p) == occupancy' = [occupancy EXCEPT ![r] = @ \cup {p}]

\* release_pod: drops p from the first bucket that has it; rid is the result.
ReleasePod(p, rid) ==
    IF \E r \in Resv : p \in occupancy[r]
    THEN /\ rid \in Resv /\ p \in occupancy[rid]
         /\ occupancy' = [occupancy EXCEPT ![rid] = @ \ {p}]
    ELSE rid = None /\ occupancy' = occupancy

Fault == faults < MaxFaults /\ faults' = faults + 1

-----------------------------------------------------------------------------
(* Initial state: an empty cluster, the first fetch already applied. *)

Init ==
    /\ now = 0
    /\ phase = [p \in Pods |-> "absent"]
    /\ ref = [p \in Pods |-> None]
    /\ events = <<>>
    /\ reservations \in SUBSET Resv
    /\ occupancy = [r \in Resv |-> {}]
    /\ task_queue = [p \in Pods |-> None]
    /\ cooling = {}
    /\ attempt = [t \in Tasks |-> NoAttempt]
    /\ held = [t \in Tasks |-> {}]
    /\ watch = [pc |-> "idle", res |-> None, at |-> 0]
    /\ tick = [pc |-> "idle", at |-> 0, snap |-> [r \in Resv |-> {}]]
    /\ to_remove = {}
    /\ sync = [pc |-> "idle", cancelled |-> {}]
    /\ evict = {}
    /\ faults = 0 /\ edits = 0
    /\ slipped = {}

-----------------------------------------------------------------------------
(* The environment: time, users and the cluster *)

ClockTick ==
    /\ now < MaxTime
    /\ now' = now + 1
    /\ UNCHANGED <<api, ledger, queue, attempt, held, watching, ticking,
                   syncing, faults>>

ControllerIdle ==
    UNCHANGED <<now, ledger, queue, attempt, held, watching, ticking, syncing,
                faults>>

CreatePod(p) ==
    /\ phase[p] = "absent"
    /\ phase' = [phase EXCEPT ![p] = "live"]
    /\ ref' = ref
    /\ Notify("ADDED", p)
    /\ ControllerIdle

FinishPod(p) ==
    /\ p \in Mortal /\ phase[p] = "live"
    /\ phase' = [phase EXCEPT ![p] = "done"]
    /\ ref' = ref
    /\ Notify("MODIFIED", p)
    /\ ControllerIdle

DeletePod(p) ==
    /\ p \in Mortal /\ phase[p] = "live"
    /\ phase' = [phase EXCEPT ![p] = "terminating"]
    /\ ref' = ref
    /\ Notify("MODIFIED", p)
    /\ ControllerIdle

PodGone(p) ==
    /\ phase[p] \in {"terminating", "done"}
    /\ phase' = [phase EXCEPT ![p] = "gone"]
    /\ ref' = ref
    /\ Notify("DELETED", p)
    /\ ControllerIdle

\* The periodic LIST replays a pod as ADDED.  Bound: not while an event of the
\* pod is still waiting, whose newest one already carries the same object.
Resync(p) ==
    /\ phase[p] \in {"live", "terminating", "done"}
    /\ \A i \in 1..Len(events) : events[i].pod # p
    /\ UNCHANGED <<phase, ref>>
    /\ Notify("ADDED", p)
    /\ ControllerIdle

\* The 2-5 minute jitter of a queue entry has run out.
CooldownOver(p) ==
    /\ p \in cooling
    /\ cooling' = cooling \ {p}
    /\ UNCHANGED <<now, api, ledger, task_queue, attempt, held, watching,
                   ticking, syncing, faults>>

-----------------------------------------------------------------------------
(* Reservation refresh: fetch or push, under reservation_lock *)

\* reconcile_queue: the entries whose reservation left the new list R move to
\* their pod's best match in it, as new entries, or are dropped.
ReconcileQueue(R) ==
    LET stale == {p \in Pods : task_queue[p] \in Resv \ R} IN
    /\ \E home \in [stale -> Resv \cup {None}] :
          /\ \A p \in stale : LET best == FindBest(R, p)
                              IN IF best = {} THEN home[p] = None ELSE home[p] \in best
          /\ task_queue' = [p \in Pods |-> IF p \in stale THEN home[p] ELSE task_queue[p]]
    /\ cooling' = cooling \ stale
    /\ held' = Forget(held, stale)

\* _reconcile_after_reservation_change up to its first await: R is the active
\* list, C the listed reservations it reports as cancelled.
ReservationsChange(R, C) ==
    LET cancelled == {r \in C : End[r] > now} IN
    /\ sync.pc = "idle"
    /\ edits < MaxEdits
    /\ R # reservations /\ C \subseteq reservations \ R
    /\ edits' = edits + 1
    /\ reservations' = R
    /\ ReconcileQueue(R)
    /\ sync' = IF cancelled = {} THEN sync
               ELSE [pc |-> "snapshot", cancelled |-> cancelled]
    /\ UNCHANGED <<now, api, occupancy, attempt, watching, ticking, evict, faults>>

\* The eviction snapshot answers; the plan is made and the lock released.
SyncSnapshot ==
    /\ sync.pc = "snapshot"
    /\ sync' = [pc |-> "idle", cancelled |-> {}]
    /\ \/ /\ evict' = evict \cup {p \in Pods : /\ phase[p] \in {"live", "terminating", "done"}
                                              /\ ref[p] \in sync.cancelled}
          /\ faults' = faults
       \/ Fault /\ evict' = evict
    /\ UNCHANGED <<now, api, ledger, queue, attempt, held, watching, ticking, edits>>

\* _execute_evictions: delete_pod (a 404 is success), then release_pod.
ExecuteEviction(p) ==
    /\ p \in evict
    /\ evict' = evict \ {p}
    /\ \/ /\ phase' = [phase EXCEPT ![p] = CASE @ = "live" -> "terminating"
                                         [] @ = "done" -> "gone"
                                         [] OTHER -> @]
          /\ ref' = ref
          /\ IF phase'[p] = phase[p] THEN events' = events
             ELSE Notify(IF phase'[p] = "gone" THEN "DELETED" ELSE "MODIFIED", p)
          /\ \E rid \in Resv \cup {None} : ReleasePod(p, rid)
          /\ faults' = faults
       \/ /\ Fault
          /\ UNCHANGED <<api, occupancy>>
    /\ UNCHANGED <<now, reservations, queue, attempt, held, watching, ticking, sync, edits>>

-----------------------------------------------------------------------------
(* _try_apply_toleration *)

\* Mutant: the record is left to the watch event the patch causes.
BeginAttemptUnrecorded(t, p, r, cool, h) ==
    LET fits == Gpus[p] <= Available(r, {p}) IN
    /\ cooling' = IF fits THEN cool ELSE cool \cup {p}
    /\ held' = IF fits THEN [h EXCEPT ![t] = @ \cup {p}] ELSE [h EXCEPT ![t] = @ \ {p}]
    /\ attempt' = IF fits THEN [attempt EXCEPT ![t] = [st |-> "read", pod |-> p, res |-> r]]
                  ELSE attempt
    /\ UNCHANGED occupancy

\* The budget check, and the record made before the first await.  The entry of
\* p is in the queue with cooldowns cool, captured as h.
BeginAttempt(t, p, r, cool, h) ==
    \/ /\ Gpus[p] > Available(r, {p})
       /\ cooling' = cool \cup {p}
       /\ held' = [h EXCEPT ![t] = @ \ {p}]
       /\ UNCHANGED <<occupancy, attempt>>
    \/ /\ Gpus[p] <= Available(r, {p})
       /\ cooling' = cool
       /\ held' = [h EXCEPT ![t] = @ \cup {p}]
       /\ RecordPlacement(r, p)
       /\ attempt' = [attempt EXCEPT ![t] = [st |-> "read", pod |-> p, res |-> r]]

\* return True: the watch loop dequeues at once, the tick when it ends.
AttemptTrue(t) ==
    LET p == attempt[t].pod IN
    /\ attempt' = [attempt EXCEPT ![t] = NoAttempt]
    /\ \/ /\ t = "watch"
          /\ DequeuePod(p)
          /\ held' = Forget(held, {p})
          /\ to_remove' = to_remove
       \/ /\ t = "tick"
          /\ to_remove' = to_remove \cup {p}
          /\ held' = [held EXCEPT ![t] = @ \ {p}]
          /\ UNCHANGED queue

\* except: roll the record back and push the entry's next attempt out.
AttemptFails(t) ==
    LET p == attempt[t].pod IN
    /\ attempt' = [attempt EXCEPT ![t] = NoAttempt]
    /\ \E rid \in Resv \cup {None} : ReleasePod(p, rid)
    /\ cooling' = IF p \in held[t] THEN cooling \cup {p} ELSE cooling
    /\ held' = [held EXCEPT ![t] = @ \ {p}]
    /\ UNCHANGED <<task_queue, to_remove>>

AttemptFrame == UNCHANGED <<now, reservations, watching, tick, syncing>>

\* read_pod answers, and what the code does up to its next await.
ReadPod(t) ==
    LET p == attempt[t].pod IN
    /\ attempt[t].st = "read"
    /\ \/ /\ phase[p] \in {"live", "terminating"} /\ ref[p] = None
          /\ attempt' = [attempt EXCEPT ![t].st = "patch"]
          /\ UNCHANGED <<occupancy, queue, held, to_remove, faults>>
       \/ /\ phase[p] \in {"live", "terminating"} /\ ref[p] # None
          /\ AttemptTrue(t)
          /\ UNCHANGED <<occupancy, faults>>
       \/ /\ phase[p] = "done"
          /\ AttemptTrue(t)
          /\ \E rid \in Resv \cup {None} : ReleasePod(p, rid)
          /\ faults' = faults
       \/ /\ (phase[p] = "gone" /\ faults' = faults) \/ Fault
          /\ AttemptFails(t)
    /\ UNCHANGED api
    /\ AttemptFrame

\* apply_toleration reaches the API server, or fails before it changes anything.
PatchPod(t) ==
    LET p == attempt[t].pod IN
    /\ attempt[t].st = "patch"
    /\ \/ /\ phase[p] # "gone"
          /\ phase' = phase
          /\ ref' = [ref EXCEPT ![p] = attempt[t].res]
          /\ Notify("MODIFIED", p)
          /\ attempt' = [attempt EXCEPT ![t].st = "applied"]
          /\ UNCHANGED <<occupancy, queue, held, to_remove, faults>>
       \/ /\ (phase[p] = "gone" /\ faults' = faults) \/ Fault
          /\ AttemptFails(t)
          /\ UNCHANGED api
    /\ AttemptFrame

\* The answer to the patch arrives, or is lost although the patch was applied.
\* The annotation and gate patches that follow a success swallow their errors.
PatchReturns(t) ==
    /\ attempt[t].st = "applied"
    /\ \/ /\ AttemptTrue(t)
          /\ UNCHANGED <<occupancy, faults>>
       \/ Fault /\ AttemptFails(t)
    /\ UNCHANGED api
    /\ AttemptFrame

-----------------------------------------------------------------------------
(* pod_watch_loop *)

\* The loop is between events and one is waiting.
WatchReady == watch.pc = "idle" /\ attempt["watch"] = NoAttempt /\ events # <<>>

Consume == events' = Tail(events)
WatchFrame == UNCHANGED <<now, phase, ref, reservations, ticking, syncing, faults>>

\* DELETED, or a terminal phase: forget the pod and remember whose room it freed.
WatchGone ==
    LET e == Head(events) IN
    /\ WatchReady
    /\ e.type = "DELETED" \/ e.phase = "done"
    /\ Consume
    /\ DequeuePod(e.pod)
    /\ held' = Forget(held, {e.pod})
    /\ \E rid \in Resv \cup {None} :
          /\ ReleasePod(e.pod, rid)
          /\ watch' = IF rid = None THEN watch ELSE [watch EXCEPT !.pc = "freed", !.res = rid]
    /\ UNCHANGED attempt
    /\ WatchFrame

\* Mutant: the record moves to the reference of the event.
WatchToleratedMoves ==
    LET e == Head(events) IN
    /\ WatchReady
    /\ e.type # "DELETED" /\ e.phase # "done" /\ e.ref # None
    /\ Consume
    /\ DequeuePod(e.pod)
    /\ held' = Forget(held, {e.pod})
    /\ occupancy' = [r \in Resv |-> IF r = e.ref THEN occupancy[r] \cup {e.pod}
                                   ELSE occupancy[r] \ {e.pod}]
    /\ UNCHANGED <<attempt, watch>>
    /\ WatchFrame

\* A tolerated pod leaves the queue and is recorded under its own reference.
WatchTolerated ==
    LET e == Head(events) IN
    /\ WatchReady
    /\ e.type # "DELETED" /\ e.phase # "done" /\ e.ref # None
    /\ Consume
    /\ DequeuePod(e.pod)
    /\ held' = Forget(held, {e.pod})
    /\ RecordPlacement(e.ref, e.pod)
    /\ UNCHANGED <<attempt, watch>>
    /\ WatchFrame

\* A waiting pod: enqueue_pod under an admittable booking, and on ADDED try at
\* once; otherwise enqueue it under the best booking it matches, if any.
WatchRoute ==
    LET e == Head(events)
        p == e.pod
        admittable == FindAdmittable(p, now, Horizon)
        best == FindBest(reservations, p)
    IN
    /\ WatchReady
    /\ e.type # "DELETED" /\ e.phase # "done" /\ e.ref = None
    /\ Consume
    /\ \/ \E r \in IF admittable # {} THEN admittable ELSE best :
             LET cool == IF Kept(p, r) THEN cooling ELSE cooling \ {p}
                 h == IF Kept(p, r) THEN held ELSE Forget(held, {p})
             IN
             /\ task_queue' = [task_queue EXCEPT ![p] = r]
             /\ IF admittable # {} /\ e.type = "ADDED" /\ Open(r, now) /\ p \notin cool
                THEN BeginAttempt("watch", p, r, cool, h)
                ELSE /\ cooling' = cool
                     /\ held' = h
                     /\ UNCHANGED <<occupancy, attempt>>
       \/ /\ admittable = {} /\ best = {}
          /\ UNCHANGED <<occupancy, queue, attempt, held>>
    /\ UNCHANGED watch
    /\ WatchFrame

\* _retry_waiters: capture the entries waiting for the freed reservation.
RetryStart ==
    /\ watch.pc = "freed"
    /\ watch' = [watch EXCEPT !.pc = "retry", !.at = now]
    /\ held' = [held EXCEPT !["watch"] = {p \in Pods : task_queue[p] = watch.res}]
    /\ UNCHANGED <<now, api, ledger, queue, attempt, ticking, syncing, faults>>

\* One captured entry that is still the queue's: skipped, or attempted.
RetryEntry(p) ==
    LET r == watch.res
        skip == ~Open(r, watch.at) \/ p \in occupancy[r]
    IN
    /\ watch.pc = "retry" /\ attempt["watch"] = NoAttempt
    /\ p \in held["watch"]
    /\ \/ /\ skip
          /\ held' = [held EXCEPT !["watch"] = @ \ {p}]
          /\ UNCHANGED <<occupancy, attempt, cooling>>
       \/ /\ ~skip
          /\ BeginAttempt("watch", p, r, cooling, held)
    /\ UNCHANGED <<task_queue, events, watch>>
    /\ WatchFrame

RetryEnd ==
    /\ watch.pc = "retry" /\ attempt["watch"] = NoAttempt /\ held["watch"] = {}
    /\ watch' = [watch EXCEPT !.pc = "idle", !.res = None, !.at = 0]
    /\ UNCHANGED <<now, api, ledger, queue, attempt, held, ticking, syncing, faults>>

-----------------------------------------------------------------------------
(* _run_queue_tick *)

TickBegin ==
    /\ tick.pc = "idle"
    /\ tick' = [tick EXCEPT !.pc = "list", !.at = now]
    /\ UNCHANGED <<now, api, ledger, queue, attempt, held, watching, to_remove,
                   syncing, faults>>

\* snapshot_tolerated_pods is served, live pods by reference; or it fails and
\* the tick goes on without one.
TickSnapshot ==
    /\ tick.pc = "list"
    /\ \/ /\ tick' = [tick EXCEPT
                !.pc = "listed",
                !.snap = [r \in Resv |-> {p \in Pods : /\ phase[p] \in {"live", "terminating"}
                                                       /\ ref[p] = r}]]
          /\ faults' = faults
       \/ Fault /\ tick' = [tick EXCEPT !.pc = "drain"]
    /\ UNCHANGED <<now, api, ledger, queue, attempt, held, watching, to_remove, syncing>>

\* Mutant: the snapshot is added to the ledger, nothing is dropped.
TickReconcileMerges ==
    /\ tick.pc = "listed"
    /\ occupancy' = [r \in Resv |-> occupancy[r] \cup tick.snap[r]]
    /\ tick' = [tick EXCEPT !.pc = "drain", !.snap = [r \in Resv |-> {}]]
    /\ UNCHANGED <<now, api, reservations, queue, attempt, held, watching,
                   to_remove, syncing, faults>>

\* reconcile_occupancy: the ledger is rebuilt wholesale from the snapshot.
TickReconcile ==
    /\ tick.pc = "listed"
    /\ occupancy' = tick.snap
    /\ tick' = [tick EXCEPT !.pc = "drain", !.snap = [r \in Resv |-> {}]]
    /\ UNCHANGED <<now, api, reservations, queue, attempt, held, watching,
                   to_remove, syncing, faults>>

\* list(state.task_queue.items())
TickLoop ==
    /\ tick.pc = "drain"
    /\ tick' = [tick EXCEPT !.pc = "loop"]
    /\ held' = [held EXCEPT !["tick"] = {p \in Pods : task_queue[p] # None}]
    /\ UNCHANGED <<now, api, ledger, queue, attempt, watching, to_remove,
                   syncing, faults>>

\* One captured entry that is still the queue's: move it to a booking that can
\* admit it now if its own cannot, then expire, skip or attempt it.
TickEntry(p) ==
    LET cur == task_queue[p]
        fits == Open(cur, tick.at) /\ Available(cur, {p}) >= Gpus[p]
        better == FindAdmittable(p, tick.at, 0)
    IN
    /\ tick.pc = "loop" /\ attempt["tick"] = NoAttempt
    /\ p \in held["tick"]
    /\ \E r \in IF fits \/ better = {} THEN {cur} ELSE better :
          LET cool == IF Kept(p, r) THEN cooling ELSE cooling \ {p}
              h == IF Kept(p, r) THEN held ELSE [held EXCEPT !["watch"] = @ \ {p}]
              expired == tick.at > End[r]
              skip == tick.at < Start[r] \/ p \in cool
          IN
          /\ task_queue' = [task_queue EXCEPT ![p] = r]
          /\ \/ /\ expired \/ skip
                /\ to_remove' = IF expired THEN to_remove \cup {p} ELSE to_remove
                /\ cooling' = cool
                /\ held' = [h EXCEPT !["tick"] = @ \ {p}]
                /\ UNCHANGED <<occupancy, attempt>>
             \/ /\ ~expired /\ ~skip
                /\ BeginAttempt("tick", p, r, cool, h)
                /\ to_remove' = to_remove
    /\ UNCHANGED <<now, api, reservations, watching, tick, syncing, faults>>

\* dequeue_pod for every uid of to_remove, whatever entry it has by now.
TickEnd ==
    /\ tick.pc = "loop" /\ attempt["tick"] = NoAttempt /\ held["tick"] = {}
    /\ task_queue' = [p \in Pods |-> IF p \in to_remove THEN None ELSE task_queue[p]]
    /\ cooling' = cooling \ to_remove
    /\ held' = Forget(held, to_remove)
    /\ to_remove' = {}
    /\ tick' = [tick EXCEPT !.pc = "idle", !.at = 0]
    /\ UNCHANGED <<now, api, ledger, attempt, watching, syncing, faults>>

-----------------------------------------------------------------------------
(* The specification *)

\* Pod p holds GPUs of r: it runs under r, or an attempt is about to let it.
Holds(r, p) ==
    /\ phase[p] = "live"
    /\ \/ ref[p] = r
       \/ \E t \in Tasks : attempt[t].pod = p /\ attempt[t].res = r

\* A holder slips when its record leaves the ledger, until it holds no more.
Track ==
    slipped' = {x \in Resv \X Pods :
                  /\ Holds(x[1], x[2])'
                  /\ \/ x \in slipped
                     \/ x[2] \in occupancy[x[1]] /\ x[2] \notin occupancy'[x[1]]}

PodStep(p) == CreatePod(p) \/ FinishPod(p) \/ DeletePod(p) \/ PodGone(p)
SyncStep == SyncSnapshot \/ \E p \in Pods : ExecuteEviction(p)
AttemptStep(t) == ReadPod(t) \/ PatchPod(t) \/ PatchReturns(t)
WatchStep ==
    \/ AttemptStep("watch")
    \/ WatchGone \/ WatchTolerated \/ WatchRoute
    \/ RetryStart \/ (\E p \in Pods : RetryEntry(p)) \/ RetryEnd
TickStep ==
    \/ AttemptStep("tick")
    \/ TickBegin \/ TickSnapshot \/ TickReconcile \/ TickLoop
    \/ (\E p \in Pods : TickEntry(p)) \/ TickEnd

Step ==
    \/ ClockTick
    \/ \E p \in Pods : PodStep(p) \/ Resync(p) \/ CooldownOver(p)
    \/ \E R, C \in SUBSET Resv : ReservationsChange(R, C)
    \/ SyncStep \/ WatchStep \/ TickStep

Next == Step /\ Track

Spec == Init /\ [][Next]_vars

\* The code's own tasks run forever, the watcher re-LISTs periodically and a
\* cooldown ends; users, the clock and the reservation app owe nothing.
Fairness ==
    /\ WF_vars(WatchStep /\ Track) /\ WF_vars(TickStep /\ Track) /\ WF_vars(SyncStep /\ Track)
    /\ \A p \in Pods : /\ WF_vars(PodGone(p) /\ Track)
                       /\ WF_vars(Resync(p) /\ Track)
                       /\ WF_vars(CooldownOver(p) /\ Track)

FairSpec == Spec /\ Fairness

-----------------------------------------------------------------------------
(* Properties *)

\* Types; the event queue never exceeds the watcher's bound (_offer drops).
TypeOK ==
    /\ now \in 0..MaxTime
    /\ phase \in [Pods -> Phases]
    /\ ref \in [Pods -> Resv \cup {None}]
    /\ events \in Seq(Event) /\ Len(events) <= EventCap
    /\ reservations \in SUBSET Resv
    /\ occupancy \in [Resv -> SUBSET Pods]
    /\ task_queue \in [Pods -> Resv \cup {None}]
    /\ cooling \in SUBSET Pods
    /\ attempt \in [Tasks -> [st : {"idle", "read", "patch", "applied"},
                              pod : Pods \cup {None}, res : Resv \cup {None}]]
    /\ held \in [Tasks -> SUBSET Pods]
    /\ watch \in [pc : {"idle", "freed", "retry"},
                  res : Resv \cup {None}, at : 0..MaxTime]
    /\ tick \in [pc : {"idle", "list", "listed", "drain", "loop"},
                 at : 0..MaxTime, snap : [Resv -> SUBSET Pods]]
    /\ to_remove \in SUBSET Pods
    /\ sync \in [pc : {"idle", "snapshot"}, cancelled : SUBSET Resv]
    /\ evict \in SUBSET Pods
    /\ faults \in 0..MaxFaults /\ edits \in 0..MaxEdits
    /\ slipped \in SUBSET (Resv \X Pods)

\* A reservation is never handed to more GPUs than it books by pods whose
\* record stayed in the ledger: the record made before the first await in
\* _try_apply_toleration keeps two interleaved attempts off the same slot.
UnslippedHoldersFit ==
    \A r \in Resv :
        SumGpus({p \in Pods : Holds(r, p) /\ <<r, p>> \notin slipped}) <= GpuCount[r]

\* A pod not created yet is unknown to the controller.
Unknown ==
    \A p \in Pods : phase[p] = "absent" =>
        /\ ref[p] = None /\ task_queue[p] = None
        /\ \A t \in Tasks : attempt[t].pod # p
        /\ \A i \in 1..Len(events) : events[i].pod # p
\* An attempt in flight is about a pod and a booking; captured entries are queued.
Captured ==
    /\ \A t \in Tasks : /\ attempt[t] # NoAttempt =>
                            /\ attempt[t].pod \in Pods /\ attempt[t].res \in Resv
                            /\ attempt[t].st # "idle"
                        /\ \A p \in held[t] : task_queue[p] \in Resv
    /\ watch.pc # "idle" => watch.res \in Resv
\* The ledger has a record of every holder that has not slipped.
Recorded ==
    \A r \in Resv, p \in Pods :
        Holds(r, p) /\ <<r, p>> \notin slipped => p \in occupancy[r]
\* The inductive form of UnslippedHoldersFit: room is judged by the ledger, so
\* it must hold every unslipped holder, and nothing about a pod may survive in
\* the queue, the captured entries or the events before the pod exists.
LedgerInv == Unknown /\ Captured /\ Recorded /\ UnslippedHoldersFit

\* Whatever the watch loop, the tick and a refresh do to each other, a pod gets
\* GPUs only of a booking that matches it, has begun and has room for it next
\* to every holder whose record was kept: the record made before the first
\* await of _try_apply_toleration, the clock read before it and the entry it
\* was captured with are still good when the attempt starts.
Promise == INSTANCE Bookings
    WITH clock <- now,
         holders <- [r \in Resv |-> {p \in Pods : Holds(r, p) /\ <<r, p>> \notin slipped}]
BookingsPromise == Promise!Spec

\* The record of a live holder leaves the ledger only by the tick's rebuild
\* from a snapshot that lacks it or by the rollback of an attempt of that pod;
\* no watch event, eviction or retry takes it.
SlipsOnlyByRebuildOrRollback ==
    [][\A x \in slipped' \ slipped :
          \/ tick.pc = "listed" /\ tick'.pc = "drain" /\ x[2] \notin tick.snap[x[1]]
          \/ \E t \in Tasks : attempt[t].pod = x[2] /\ attempt'[t] = NoAttempt]_vars

\* No pod is admitted before its reservation's slot starts, although the tick
\* and _retry_waiters judge the slot by a clock they read before an await.
NeverBeforeWindow ==
    \A p \in Pods : ref[p] # None => Start[ref[p]] <= now

\* Pod p could run now: a booking of its own is listed, open and has room.
Starved(p) ==
    /\ phase[p] = "live" /\ ref[p] = None
    /\ \E r \in reservations \cap Matches[p] :
          /\ Open(r, now)
          /\ SumGpus({q \in Pods : phase[q] \in {"live", "terminating"} /\ ref[q] = r})
               + Gpus[p] <= GpuCount[r]

\* A pod never waits forever while a booking of its own is open with room, in
\* spite of lost events, failed calls, re-homed entries and stale records.
NoStarvation == \A p \in Pods : []<>~Starved(p)

=============================================================================
