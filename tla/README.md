# GPU reservation controller: specifications

TLA+ modules that model the controller under `src/app/`, TLC configurations that
check them on small instances, and TLAPS proofs for every instance. Line numbers
refer to `src/app/`; *main* is `main.py`, *controller* is `controller.py`,
*k8s* is `k8s_client.py`.

## 1. The system

The controller admits pods that wait behind a scheduling gate onto GPUs booked in
a reservation app. It is one Python process with one asyncio event loop: between
two `await`s a task runs alone, and at every `await` any other task may run. All
state is in memory (`ControllerState`); the cluster and the app are the only
things that survive a restart.

| Component | Code | State it keeps | Operations |
|---|---|---|---|
| Reservation refresh | main 468-599, 3086-3122, 5578-5668; controller 74-97 | `reservations`, `reservation_lock`, class maps | periodic fetch, HTTP push, reconcile after a change, eviction of cancelled bookings, owner changes |
| Reserved admission | main 960-1125, 3236-3690, 3926-4159; controller 1504-1748, 1898-1949, 2196-2298, 2577-2606 | `task_queue`, `occupancy` (the ledger), retry times | watch events, attempts (`_try_apply_toleration`), `_retry_waiters`, queue tick |
| Pod watcher | k8s 2144-2380 | bounded event queue, resourceVersion | LIST and WATCH, replay, drop oldest |
| On-demand leases | main 1205-1607, 2734-3169; controller 1955-2138 | candidates, gates, in-flight grants | preflight, batch admission, grant, teardown |
| No-show tracking | main 3693-3726; controller 1309-1498 | deadlines, claimed and armed reservations | arm, check, mark seen, cancel |
| Preemption and headroom | main 4246, 4801-5018; controller 757-813, 2612-2867, 2895-3062 | marks, victims per boundary | boundary sweep, victim selection, eviction |
| Guarantees, chains, warnings | controller 1750-1877, 3308-3460 | guarantee annotations, warned pods | chain computation, guarantee end, warnings |
| Adoption and lease merging | main 4504-4700; controller 2642-2760 | references on running pods | move a running pod to a booking, merge a lease into it |
| Node feasibility and capacity audit | controller 171-387, 467-500, 2462-2610; main 5044-5230 | pod ledger per node, node inventory, paused classes | fit tests, inventory refresh, audit |
| Singleton lease | k8s 2384-2547; main 5259-5342 | the coordination Lease, `held` | claim, renew, terminate |
| Startup, supervision, health | main 296-382, 5351-5540 | task health | lifespan, done callbacks, `/health` |
| Preemption risk forecast | controller 827-, 3078-3306; main 5740 | none | request handler |
| App client | `reservation_client.py`, `schemas.py` | none | HTTP calls |
| Owner-facing messages, configuration, logging, tracing | `config.py`, `log_fields.py`, `trace.py`, parts of main and k8s | throttles | formatting |

How they interact. The watch loop and the queue tick share `task_queue` and
`occupancy` without a lock: their only discipline is what they do before the next
`await`. The refresh replaces `reservations` and re-homes queue entries under
`reservation_lock`, which the other two tasks do not take. The watcher feeds the
watch loop through a queue that drops its oldest event when it is full; the tick
rebuilds the ledger from a cluster snapshot to heal what was dropped. On-demand
admission, adoption and merging write the same ledger. Preemption and evictions
delete pods, which come back as watch events. The singleton Lease is the only
thing two controller processes share besides the cluster.

What makes each part correct, and what is hard about it:

* *Admission.* Never more GPUs in use under a booking than it books; no pod before
  its slot; every waiting pod with room is admitted in the end. Hard: attempts of
  two tasks around each other's awaits, the ledger rebuilt under an attempt in
  flight, patches that were applied although the call failed, entries replaced
  while a copy of the queue is walked, lost events.
* *Refresh.* The list converges to the app's; a cancellation evicts exactly once
  and exactly the pods of the cancelled booking. Hard: the app is read before the
  lock is taken, so pushes and fetches cross.
* *On-demand.* A lease that is granted is used or cancelled; a pod that is granted
  finds its node; a class the app over-counts is not oversold; no trigger is lost. Hard: partial failure between grant, patch and record; coalesced
  triggers; feasibility computed before an await.
* *No-show.* A held booking is never cancelled; an empty one is, in the end; none is
  given up on and kept. Hard: the deadline races the admission and its watch event,
  the cancel is judged by a list older than the lock, declarations die with the
  process.
* *Preemption.* Only pods past their guarantee are evicted, and for the headroom only
  after a notice; enough of them for the boundary; merged leases are retired. Hard:
  one evaluation per boundary and phase, lists older than the lock, the tick
  re-linking pods meanwhile, patches that fail.
* *Watcher and node ledger.* The ledger follows the cluster and never goes back, and
  the free map follows the ledger; a waiting pod is found. Hard: deletions between
  two LISTs; snapshots older than the events already applied; dropped events.
* *Singleton lease.* A live Lease never changes hands; duplicates leave. Hard:
  clocks, delayed writes, fail-open errors, startup races.

The full list, with lines and the properties that watch over each item, is
`PROJECT.json` `hazards`.

## 2. Modules and how they compose

| Module | Component | Checked by | Proved in |
|---|---|---|---|
| `Bookings` | the promise of a booking | through `Admission` | |
| `Admission` | reserved path: queue, ledger, attempts | `admission_faults`, `admission_refresh` | `AdmissionProofs` |
| `LeaseHandover` | the promise of the singleton Lease | through `SingletonLease` | |
| `SingletonLease` | the Lease, its calls and the guard | `lease` | `SingletonLeaseProofs` |
| `ReservationSync` | fetch, push, grants against the list | `sync`, `sync_queued` | `ReservationSyncProofs` |
| `OnDemand` | candidates, batch, leases, teardown | `ondemand`, `ondemand_live` | `OnDemandProofs`, `OnDemandRoomProofs` |
| `Windows` | chains, guarantee ends (functions) | through the next two | |
| `NoShow` | deadlines, declarations, cancels | `noshow` | `NoShowProofs` |
| `Preemption` | sweep, merges, adoption, warnings | `preemption`, `preemption_live`, `preemption_short` | `PreemptionProofs` |
| `PodLedger` | watcher, queue, pod ledger, free map | `pod_ledger` | `PodLedgerProofs` |

Each module keeps the tasks that contend for its state and abstracts the others to
the steps that reach it: the tick appears in `Admission`, `NoShow`, `Preemption` and
`PodLedger`, each time with the part of `_run_queue_tick` that touches that state, in
the order of the code and with its awaits. Composing all of them in one instance is
out of TLC's reach; what one module assumes of another is named in its header.

Left for later, in this order: the stuck-holder interlock; the capacity algorithms
(`free_capacity_by_class`, `reconcile_capacity`, `forecast_buckets`) against reference
definitions.

## 3. Modules

### Admission

One step per stretch of code between two `await`s. `watch`, `tick` and `sync` are
the program counters of the watch loop, the queue tick and the refresh; an
`attempt` per task is a `_try_apply_toleration` call in flight (`read`: waiting
for the pod, `patch`: waiting for the toleration patch to be served, `applied`:
served, the answer not back yet). The API server's side is `phase`, `ref` and the
watcher's `events`.

* `held[t]` are the entries of a copy of the queue (`list(task_queue.items())`,
  `_retry_waiters`) that are still the queue's own: the code compares object
  identity, so replacing an entry for the same booking removes it from `held`.
* `cooling` stands for `next_attempt_at` in the future; the jitter is a choice.
* A pod is tolerated exactly when its booking reference is set: one patch sets both.
* The choice of a booking (`FindBest`, `FindAdmittable`) keeps the order of the
  code's preferences and leaves ties open, because the list's order is the app's.
* `slipped` is a history variable: the holders whose ledger record was dropped
  while they held. It splits the over-commitment the code can produce from the one
  it must not.

The module has the on-demand, adoption, merge and no-show features switched off
(they are settings), and abstracts annotations, Events, logs and the class maps.
Guarantee and gate patches that follow a successful admission swallow their
errors and change none of this state.

`Bookings` is the promise to the owner of a booking: a pod takes GPUs only of a booking
that is its own, that has begun and that has room next to those who have GPUs of it.
`BookingsPromise` maps its `holders` to the holders whose record was kept, so that
losing a record is a pod leaving; `SlipsOnlyByRebuildOrRollback` says when that happens.

### SingletonLease and LeaseHandover

`LeaseHandover` is the promise: the Lease changes hands only after it expired, and
an instance that stepped aside does not get it. `SingletonLease` is
`acquire_singleton_lease`, `renew_singleton_lease`, the startup claim and the guard
loop of every instance, with the Lease object and the network between them.

* Times are ages. `clock[i]` runs from the `now` a call took before its first
  request, and from the start of a sleep or of the startup; `lease.age` from the
  renew time. This keeps the state finite without a bound on the run.
* `current` are the calls whose read is still the newest version; a write by
  anyone else makes the others a 409, which the code treats as any error.
* A request can fail before it is served, after it is served, or be delayed
  (`late`): the process gives up on it or dies, and the write lands later.
* The answer to a read and the decision are one step: an answer that is slow only
  delays the decision, and the version it carries was fixed by the read.
* `MaxCall` is an assumption: the code sets no request timeout. Operators deleting
  the Lease, and clocks of instances running apart, are not modelled.

The refinement `Handover` maps the Lease's holder, its expiry and the fenced
instances; TLC checks it as a property and `LeaseKept` proves it.

### ReservationSync

A row of the app is the owner of an active reservation, `Cancelled` or `None`; the
same values make up a fetch's answer, a push (a delta) and `state.reservations`.
`job[h]` is the fetch cycle or a push request: waiting for the class maps, for the
lock (`lock`), for the snapshot or for adoptions while it holds it (`snapshot`,
`adopt`), or deleting pods after it released it (`evict`). `grant[l]` is the
coroutine of lease `l`: its create was answered, or it holds the lock to admit, to
revoke, or to cancel after the pod's end. `LockFree` says that nobody is in a step
that awaits under `reservation_lock`; a critical section without an `await` is one
action.

* The rows a fetch carries are the app's at its request (`FetchRead`); its clock is
  read after the class maps (`FetchNow`), a push's before them (`Receive`).
* `AppChange` sends one push per change. Pushes form a set: any may be lost, late
  or overtaken.
* Reading and patching a pod are two calls, so an admission that read the pod
  before another one patched it overwrites its reference (`Tolerate`).
* Whether a booking has room is a choice: budgets are `Admission`'s subject. The
  class maps, the no-show calls after a cycle, the tick's own adoption and merging
  and the best-effort stubs are left out.
* `raced`, `slipped` and `failed` are history variables: the pods whose patch landed
  after their booking had left the list or had been handed over, or whose lease was
  revoked under them; the bookings that left their owner unseen by both detectors; and
  the pods whose own eviction (its LIST or its delete) or admission under a lease
  failed, which nothing in the code retries. `HolderListedOrDoomed` says that nothing
  else goes unnoticed, also after calls have failed for others.

### OnDemand

The watch registers or wakes candidates and, when it may run a batch, runs one; the
tick runs one too. `batch` is the coroutine `_run_ondemand_admission`
(`pc`: between passes, reading the app's selection, creating a lease, waiting for
`reservation_lock`, admitting, patching, revoking), `watch` is the loop's teardown of
the lease of a pod that has gone. `rerun` is the coalesced trigger.

* A lease is known by its pod: the uid is the idempotency key of the create.
* Each pod is judged by the operators of guards 4 and 5 (`Overcommitted`, `Fits`),
  over the ledger the code has at that await, not over the cluster.
* The app grants an ask when its own calendar has room (`CalendarRoom`); with
  delegation it selects which waiters may ask, of whose answer two pods are kept
  (`MapGranted`).
* Scheduling gates, node-fit holds and capacity holds are sets of candidates
  (`awaiting_schedule_signal`, `held_by_node_fit`, `awaiting_capacity`); the
  retry time is `cooling`.
* `urgent` is a history variable: candidates the watch made due and no pass has tried.
* `Startable` and the other exceptions state what the code cannot make up for: a call
  that failed, a pod that a booking took while its create was in flight, and pods
  guard 5 does not judge. `Undisturbed` asks the last of every pod admitted, bound ones
  included: a pod of one GPU on any node passes unjudged (`Checked`), and once bound it
  may have taken the place that the grants before it were promised.

### Windows and NoShow

`Windows` has chains and guarantee ends as functions: the bookings that follow one
another back to back for the same owner and size, the longest first.

In `NoShow` the tick lists the pods (`list`), checks claims and deadlines (`check`),
cancels under the lock (`cancel`, `answer`), and takes the queue (`queue`, `patch`).
The watch routes and attempts pods between its steps; the fetch replaces the list,
arms and prunes. Deadlines are not numbers: an armed one comes due some time after
its window opens, so timeouts and grace periods of any length are covered.
A failed call or a restart may come at any step, and a restart forgets deadlines and
declarations. `steady` is a history variable: the pods tolerated when the tick began.
A pod admitted after the tick's list was served is not in it, and its booking may be
cancelled under it: nothing in the code looks again, and the properties claim nothing
for such a pod.

### Preemption

Two loops share one shape (`loop`): the sweep, with `sweep` for the rest of its
state, and the tick. Each lists pods, takes the lock, merges pods of leases into open
bookings and adopts pods past their guarantee (`plan`, one patch after the other,
each of which may fail after it landed). The sweep goes on to the boundaries in scope
(`Starts` within the lead of its time, phase A before and B after the boundary), their
demand, the victims (any of the pool if the app selects, a minimal covering set of it in
the random fallback), the deletions, and the warnings of the pods left. The tick also
drains the cancels of merged leases that failed. `Assignments` are the outcomes of one
pass over the list in its order, each pod seeing what the pods before it took.

* An instant is a number; `Lead` and `WarnLead` are the settings, in steps of the clock.
* `moved`, `judged` and `merged` are history variables: pods the tick re-linked after
  the sweep's list, boundaries evaluated, leases whose pod was merged.
* `ClassCapacity` counts the GPUs of the nodes as pairs of a node and a number, which is
  their sum and can be reasoned about without induction.
* `OncePerPhase` and `NoticeGiven` compare the marks and the annotations, which are
  pruned and can fail, with what was done.

### PodLedger

The watcher lists, streams, resyncs and breaks; its queue drops the oldest event. The
loop handles an event at a time; admissions read, patch and record the pod
(`Admits`, `Notes`); the tick lists pods, reconciles the occupancy, lists nodes and
rebuilds the ledger under what changed since it took its time (`fresh`). A record is
named by the stage of the pod it was made from, so that an older record can be told
from a newer one. The first tick is startup's seed, before the watch runs.

The free map is kept the way the code keeps it, per GPU class. An inventory that was
listed replaces it wholesale (`FreeOf`, `install_node_inventory`). Every other change
goes through `Derived` (`_derive_node_free`): in place, only for the classes it is given
and only for those the inventory knows. `set_gpu_pod` gives it the class of the previous
and the new record, and none when they are equal (`Touched`); a rebuild without an
inventory gives it every known class. A node may be in several classes, and a class
leaves the inventory with its last node and comes back. A pod's class does not change
while it lives. `node_free_by_class`, the largest opening of each class, is written in
the same two places from the same values and is left out.

`WatchFloods` stands for the events of pods the controller does not care for.
`relisted` is a history variable: pods that had gone and that a tick's older LIST made
occupied again; `NoGhostClaim` excepts them, because `reconcile_occupancy` gives no
sign of a pod deleted since that LIST.

## 4. Runs

| Run | Question | Instance and bounds |
|---|---|---|
| `admission_faults` | Can pods whose record was kept exceed the booking? Can a pod starve? | 2 pods (1 and 2 GPUs), 1 booking of 2, one failed call, one refresh, one pod that may end, event queue of one; clock still; fairness |
| `admission_refresh` | Is the promise of `Bookings` kept while the list changes? Is a pod ever admitted before its slot, a holder's record lost in a way not named? | the same pods, 2 overlapping bookings of one owner, clock 0..1, one refresh, event queue of one |
| `lease` | Is the promise kept, the guard right, and does one controller remain? | 3 instances, one failed or delayed request, one crash; the tightest timing the theorem allows; fairness |
| `sync` | Does every holder keep a listed reservation or get evicted, only if it should, and does the list converge? | 1 pod, 2 bookings, 1 lease, clock 0..1, 1 change in the app, 1 push handler, 1 failed call; fairness |
| `sync_queued` | Are pods admitted to bookings of their own user only? (violated) | 2 users with a pod each, 1 booking, 1 change |
| `ondemand` | Can the granted pods start? Is every lease accounted for, every trigger kept, every create an offered one? | 2 pods of 2 GPUs, one tied to a node and best effort, one for whose owner a booking appears; nodes of 2 and 1; with and without delegation; one failed call |
| `ondemand_live` | Is a class the app over-counts oversold? Does a pod that can go wait for ever? | 2 pods, 1 GPU, an app that counts 2, one failed call; fairness |
| `noshow` | Is a held booking ever cancelled, a given-up one ever kept, an empty one left? | 1 pod that comes and goes, a booking and the one that continues it, clock 0..2, one failed call or restart; fairness |
| `preemption` | Is a guarantee, a notice or a merged lease ever forgotten, a boundary judged twice? | 1 pod of 2 GPUs, its owner's lease and booking, another user's booking of the same node, clock 0..3, lead 1, headroom 50 %, one failed call or node |
| `preemption_live` | Do stale warnings and merged leases go in the end? | the same pod, lead 0, no headroom, clock 0..2, one failed call; fairness |
| `preemption_short` | Are the unclaimed GPUs of a boundary freed? (violated) | 2 pods of 1 GPU, a lease that ends when a booking of 2 GPUs starts, nothing fails |
| `pod_ledger` | Does the ledger go back, or differ from the free map, or from the cluster for ever? Is a waiting pod found? | 1 pod of 1 GPU, a node of 2 GPUs in both of two classes and one of 1 GPU in one of them, queue of 2, two failures, floods, restarts or node changes; fairness |

Why the bounds are enough. *Admission:* two pods that do not fit together are the
smallest contention, the sizes 1 and 2 tell a missing record from a record counted
twice, and the event queue of one overflows in every run. The clock in
`admission_refresh` starts a booking during the run, so its properties about time are
about the start. One failure reaches every failure path, because every call may be
the one that fails; the theorems cover any number. *Lease:* three instances are the
smallest in which a takeover can be contended while the old holder has a write
delayed. *Sync:* one change is enough for a fetch and a push to disagree about it and
for a push to be late, and two bookings for a pod to be adopted from one to the other;
the one failed call may hit the pod itself or a cancel of its lease; the theorems cover
any number of each, and pods beside the one a call fails for. *On-demand:* two pods are the
smallest batch whose second grant is judged after the first, and the node sizes let
each fit alone and both only in one way; pod 2 fits only where pod 1 may also go.
*No-show:* one pod holds, leaves and comes back; the second window makes a chain; the
clock lets a declaration, a restart and a second declaration happen. *Preemption:* the
lease and the owner's booking make a merge, the other user's booking a boundary that
wants the same GPUs, and the clock runs from before the boundary to a sweep past the
headroom's notice. *Pod ledger:* the records of different pods meet only in the free
map's sum and in the queue, where floods stand for the other pods. The two nodes are in
different sets of classes, so that the pod's class can leave the inventory while the
other class stays, and its record can change while it is away; two failures let a
broken stream meet a failed rebuild or a restart. The theorems cover any number
of pods, nodes, classes and failures.

No run switches deadlock checking off: the controller's loops never end, and a state
in which nothing can move would be an error.

Fairness. The tasks of the controller are fair (each loop iterates forever and catches
its own exceptions), a pod being deleted disappears, a cooldown ends, and the watcher
lists again (`_WATCH_RESYNC_INTERVAL_S`, 600 s). Users, the app and failures owe
nothing. For the Lease, calls return, startup and sleeps end, the kubelet restarts a
container that exited, and time is strongly fair because every instance's bound can
hold it back for a while. Strong fairness elsewhere is for steps that need
`reservation_lock` or an idle loop, which others take away for a while: `asyncio.Lock`
hands the lock to its waiters in order (`ReservationSync`, `NoShow`'s `FetchApplied` and
`TickEnds`, the two loops of `Preemption`); `DeadlinePasses`, because a deadline passes
with time whatever else runs; `WatchResyncs`, because the interval of ten minutes is
long enough for the loop to have emptied its queue (`ResyncDue`). In `OnDemand` the batch,
the watch loop and the tick are weakly fair; the conjunct `Urgency` only keeps the
history `urgent`. In `NoShow`
time goes on while the clock may.

## 5. What the runs found

* `sync_queued`: `reconcile_queue` (controller 1917-1920) points a queue entry at the
  reassigned booking whoever owns it now, and no later check compares the pod's
  namespace with the booking's user. The prior owner's waiting pod is admitted to the
  new owner's booking. No race is needed: the eviction of the prior owner's running
  pod triggers the retry of the waiting one.
* `preemption_short`: `boundary_demand` (controller 2808) takes what `available()`
  leaves, which has the pods recorded under the booking subtracted, and subtracts what
  the holders claim once more, their own booking included. A booking of two GPUs with a
  pod of one GPU has demand 0, and the overstayer on the second GPU stays.

Other behaviour the modules have and their properties make an exception for. No run
checks it for itself; it is listed for whoever changes this code:

* a tick's ledger rebuilt from a snapshot older than an admission lets a second pod onto
  the slot (`slipped` in `Admission`; `BudgetKept` shows this and the rollback of a
  patch that may have landed to be the only ways);
* an attempt between its budget check and its patch survives the cancellation of its
  booking;
* a 409 counts as a failed API, so of two instances that start together the second runs
  until its next renewal, where `src/README.md:647` says that it refuses to run;
* main 322 says that 60 s renewed every 20 s tolerate two failed renewals; the 20 s begin
  after each call, so the third renewal comes after 60 s and whatever the calls took.
  `GuardRight` has the condition that does hold;
* a fetch that was answered before a push takes the list back to the older rows until
  the next fetch (`raced` in `ReservationSync`);
* a grant whose occupancy was rebuilt meanwhile cancels the lease of a pod it admitted,
  and the lease of a pod that a booking took is left until its window ends;
* a teardown whose cancel fails is not retried;
* a pod admitted after the tick's list was served is not spared a no-show cancellation;
* a pod the tick re-links between the sweep's list and its lock is judged as listed.

## 6. Proofs

`AdmissionProofs` proves, for any pods, bookings, matches, bounds and number of
failures and refreshes:

* `TypeCorrect`: `Spec => []TypeOK`, with the bound of the event queue.
* `LedgerKept`: `Spec => []LedgerInv`, and `BudgetKept`: `Spec =>
  []UnslippedHoldersFit`, a part of it. `LedgerInv` is inductive with the types: an
  attempt judges room by the ledger, so the ledger must have a record of every holder
  that did not slip (`Recorded`); a record may only be made for a real attempt
  (`Captured`); and a pod that does not exist yet must be
  unknown to the controller (`Unknown`), or its first event could meet a stale
  entry. The sums are cardinalities of sets of pairs, so that monotonicity and the
  addition of one pod are lemmas about finite sets (`SumGpusMonotonic`,
  `SumGpusAdd`) and need no induction.
* `WindowKept`: `Spec => []NeverBeforeWindow`. Whether the slot has begun is decided
  before the awaits of an attempt, by a clock read earlier still, on an entry that may
  have been re-homed. `Booked` says that each of these is good: an entry or a reference
  is to a booking of the pod's own, an attempt is for one that has begun (`AttemptBooked`),
  the clocks the loops hold only lag (`ClocksPast`), and what a retry has captured waits
  for the booking it was captured for (`RetryCaptured`).
* `BookingsKept`: `Spec => BookingsPromise`, from `LedgerInv` and `Booked`: only the
  serving of a patch takes GPUs, and it does so for an attempt whose record counted.
* `SlipsNamed`: `Spec => SlipsOnlyByRebuildOrRollback`. It needs that an event of an end
  is about a pod that has ended (`EventsPast`), so the watch releases no live holder.

`SingletonLeaseProofs` proves, for any instances and timing constants:

* `TypeCorrect`, and `WritesAreJustified`: a write that can still be stored was
  decided rightly, a delayed one included. The invariant ties the age the caller
  saw (through its `now`) to the Lease as it is, and says that a fenced instance
  has no write on its way.
* `LeaseKept`: `Spec => LeasePromise`, from the two above, step by step.
* `GuardRight`: under `Timely`, `MaxBoot + MaxCall + (MaxFaults + 1) * (RenewEvery +
  MaxCall) <= Duration`, a guard that believes it holds the Lease is right. The
  inductive invariant `Punctual` bounds the Lease's age by what was spent since
  the last renewal, and the age of a delayed write by the fault that delayed it,
  because such a write can turn the clock of the Lease back.

`ReservationSyncProofs` proves, for any users, pods, bookings, leases, slots,
handlers and bounds:

* `TypeCorrect`: `Spec => []TypeOK`.
* `HoldersKept`: `Spec => []HolderListedOrDoomed`, and `EvictionsAreJustified`:
  `Spec => []EvictionsJustified`. The inductive invariant `IInv` adds what a step of
  a job relies on: rows in flight never lie about a lease and call nothing
  cancelled that is not (`RowsInv`, because a cancellation in the app is final); a
  job's clock was read in the past and it has pods to adopt or evict only after
  its snapshot (`JobInv`); a lease is listed while its admission is under way, is
  the reference of its own pod only, and is torn down after its pod is gone
  (`LeaseInv`). `TakenDetected` is the heart: whatever rows take a reservation
  from its listed owner inside its window, one of the two detectors sees it or the
  booking counts as slipped. The rest follows a doomed pod from the detection to
  its snapshot and on to its adoption or eviction (`DoomedKept`).

`NoShowProofs` proves, for any pods, bookings, windows and number of failures:

* `TypeCorrect`: `Spec => []TypeOK`, and `NoneInLimbo`: `Spec => []NoLimbo`.
  `NoLimbo` is not inductive: an older answer of the app may list a booking again, so
  `GivenUp` says the same of every booking given up on, listed or not, and `Answered`
  that a cancel stops pending only because the app has taken it.
* `HoldersAreSpared`: `Spec => HoldersSpared`, and `ChainsAreSpared`: `Spec =>
  ChainsSpared`. Both rest on `Known`: from its list to its last cancel the tick knows
  every pod that ran when it began by the booking it is under, since nobody changes the
  reference of a tolerated pod but the tick itself, later.

`PodLedgerProofs` proves, for any pods, GPUs, nodes, queue bound and number of failures:

* `TypeCorrect`: `Spec => []TypeOK`, with the bound of the queue.
* `FreeAlwaysAgrees`: `Spec => []FreeAgrees`. A class that is not derived again keeps
  its map, which is right because its openings depend on the records of its own pods
  only (`FreeInSame`). So deriving any set of classes is as good as deriving them all
  when no record outside the set changed (`DerivedAgrees`), and the classes of the
  previous and the new record, if they differ, are such a set (`TouchedEnough`). A class
  the inventory does not know has no map to go stale: it gets one, from the whole
  ledger, with the inventory that brings it back.
* `RebuildsGoForward`: `Spec => NeverBack`. No event, record or list is ahead of the pod
  it is about (`Behind`), so a list taken after the tick took its time is no older than
  the records it replaces (`Listed`).
* `NoGhostsClaim`: `Spec => NoGhostClaim`. A pod recorded as occupying has not gone as
  far as the ledger knows, nor will a rebuild under way say so (`Ghosts`), unless a
  list brought it back.

`PreemptionProofs` proves, for any windows, pods, nodes, leads, headroom and number of
failures:

* `GuaranteesKept`: `Spec => GuaranteeKept`, and `NoticesGiven`: `Spec => NoticeGiven`.
  The deletion comes steps after the decision. `KillsInv` carries the decision to it:
  what is to be deleted is past its guarantee under the list of reservations as it is
  now, which no refresh, grant or tick changes while the lock is held (`Exclusive`).
  `ViewInv` carries what was listed: it is true of every pod not re-linked behind the
  sweep's back, through the sweep's own merges and adoptions.
* `BoundariesOnce`: `Spec => OncePerPhase`. A mark is pruned when its boundary is a lead
  behind, and a sweep has in scope only what is not (`MarksInv`).
* `MergesAccounted`: `Spec => []MergedAccounted`. It needs the rows (`RowsInv`: a row
  active in the app is listed) and what the plans of both loops refer to (`Sound`).
* `TypeCorrect`: `Spec => []TypeOK`, with the bounds that the rest does not need
  (`Kinds`): the times of both loops are times the clock has had (`TimeKinds`), so the
  boundaries in scope and the marks are within the lead of the clock's bound
  (`ScopeKinds`), and the capacity counted is a number (`ClassCapacityNat`).
* `ChainsLinked` and `ChainsComplete`: what the recursion of `Chain` returns, for any
  bookings. A chain is one owner's, of one size and without a gap, and a booking in it
  that another continues is continued by the one that ends last, so as many unfoldings
  as there are bookings are enough. Instead of by induction the recursion is followed
  to a least counterexample: the first step at which linkage would fail
  (`LinkedGrows`), or at which the chain would neither be complete nor have grown by a
  booking at every step before (`GrowFacts`).
* `GuaranteesSpent`: `Spec => NothingContinues`, from `GuaranteesKept` and the two above.
  A pod under a listed booking is preempted, unless the tick re-linked it since the
  sweep's list, only when that window has ended and no booking of the same owner and
  size that may be chained continues it.

`OnDemandProofs` proves, for any pods, nodes, GPUs, bookings, queue bound and number of
failures:

* `TypeCorrect`: `Spec => []TypeOK`, and `OnlyOfferedAsked`: `Spec => []CreatesOffered`.
* `LeasesAccounted`: `Spec => []LeaseAccounted`. A lease is handed from the batch to its
  pod and from the pod to the watch. When the batch lets go, it asks only whether the pod
  is still recorded, so a record must mean that the pod is there or that the watch will
  hear that it went (`OccupiedInv`, from the order of its events, `GoneInv`), and a pod
  admitted under a lease must not be tried again (`RefInv`; `NewInv` keeps pods the watch
  has yet to hear of out of the batch). The watch cancels only what is listed, so every
  active lease is, but for one just created (`ListedInv`).
* `TriggersKept`: `Spec => []TriggerKept`. A batch clears the flags of every candidate it
  takes up (`UrgentInv`), and only candidates with a flag, or new ones, are made due, so
  what a trigger adds while a batch runs is still to be tried or in none of its hands.

`OnDemandRoomProofs` goes on from there, to the sums:

* `GrantsFit`: `Spec => []PhysicalKept`, and from it `OversoldKept`: `Spec =>
  []OversoldFits`. On a class the app over-counts only guard 4 holds the batch back, and
  it judges a grant before the create's await. `PhysicalKept` says that what it judged
  still fits when the app carries the create out, while no call fails, because nobody
  else adds to what is sold (`SoldShrinks`) and the list has what the grants before it
  took. That the app keeps to its own calendar (`CalendarKept`) is assumed of it and
  only used where the class is not over-counted.
* `StartableKept`: `Spec => []Startable`. Guard 5 places the next grant against the pods
  the controller tracks, which lag behind the cluster. The invariant `RoomInv` says that
  while nothing disturbs them they miss nobody (`Tracked`: an admitted pod is a claim or
  on its node, or its patch has just landed), that some node has room for all pods that
  may still come to it (`RoomLeft`), and that the pod in hand still has the room it was
  judged to have, over the create, the lock, the read and the patch (`GrantHasRoom`).
  `Standing` adds what holds even when disturbed and lets `Calm` come back: pods are
  where their reference and placement allow (`PodsPlaced`), events in the queue are still
  true (`EventsTrue`), and a pod being admitted is recorded unless it is over
  (`StillRecorded`). `GrantRoom` is guard 5's arithmetic.

The proofs rest on the named assumptions on the constants only. Every invariant and
every safety action property of a passing run has a theorem. Only model-checked are the
liveness properties (`NoStarvation`, `OneInstance`, `Converges`, `WaiterAdmitted`,
`EmptyReleased`, `WarningsCleared`, `MergesSettle`, `LedgerConverges`, `Discovered`),
because liveness under fairness is out of the prover's reach.

## 7. Not modelled

* The stuck-holder interlock (guard 3) and the hourly capacity audit (guard 4's input,
  `PhysicalGpus` in `OnDemand`), and the pauses of a whole class they set.
* The preemption risk forecast: a computation that changes no state.
* Owner-facing events, messages and the guarantee annotations: nothing the controller
  decides reads them.
* Health and supervision of tasks: a crashed task is reported, never restarted, and
  nothing else depends on the report. Startup is modelled as far as the Lease and the
  seed of the ledger go.
* The HTTP client beyond the outcomes its callers see; configuration, logging, tracing.
* Several GPU classes or usage groups at once, except in `PodLedger`'s free map:
  decisions are per class, and the class maps only say which class a booking or pod
  belongs to.
