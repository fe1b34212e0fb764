------------------------------ MODULE OnDemand ------------------------------
(***************************************************************************)
(* Just-in-time leases: the candidates the pod watch collects, the batch   *)
(* that judges them, asks the reservation app and admits those it grants,  *)
(* and the teardown that gives a lease back when its pod has gone.         *)
(*                                                                         *)
(* One GPU class.  A pod's lease is known by the pod, since its uid is the *)
(* idempotency key of the create.  The batch and the watch interleave at   *)
(* their awaits; ref, the booking reference of a pod, is set by the patch  *)
(* that tolerates it.  Left out: the class-wide pauses (an unknown class,  *)
(* guards 1b and 3), a pod no lease can help, the rebuild of the ledger by *)
(* the tick (PodLedger) and the reserved path's own queue (Admission).     *)
(***************************************************************************)
EXTENDS Integers, Sequences, SequencesExt, FiniteSets

CONSTANTS
    Pods,          \* pod uids, numbered in the order the pods are created
    Nodes,         \* nodes of the class
    None,          \* no pod, no node
    Alloc,         \* Alloc[n]: allocatable GPUs of n
    MaxGpus,       \* bound: the largest request
    Gpus,          \* Gpus[p]: GPUs p requests
    Allowed,       \* Allowed[p]: nodes the placement of p allows
    BestEffort,    \* pods that declare no runtime guarantee
    Booked,        \* bound: pods whose owner comes to hold a booking for them
    CalendarGpus,  \* GPUs of the class as the app counts them
    PhysicalGpus,  \* GPUs of the class as the capacity audit counts them
    MaxEvents,     \* bound: watch events waiting when the cluster makes one more
    MaxFaults      \* bound: calls that fail

ASSUME ConstantsAssumption ==
    /\ Pods \subseteq Nat /\ IsFiniteSet(Pods)
    /\ None \notin Pods \cup Nodes /\ "claim" \notin Nodes /\ "none" \notin Nodes
    /\ MaxGpus \in Nat /\ MaxEvents \in Nat /\ MaxFaults \in Nat
    /\ Gpus \in [Pods -> 1..MaxGpus]
    /\ Alloc \in [Nodes -> Nat]
    /\ Allowed \in [Pods -> SUBSET Nodes]
    /\ BestEffort \subseteq Pods /\ Booked \subseteq Pods
    /\ CalendarGpus \in Nat /\ PhysicalGpus \in Nat

VARIABLES
    phase, ref, node, \* the pod objects in the API server
    ruled,            \* pods the scheduler has recorded a verdict for
    events,           \* watch events waiting for the consumer
    lease,            \* the app's row for each pod: none, active or over
    booked,           \* pods a booking can take: find_admittable_reservation
    delegate,         \* config.ondemand_delegate_admission
    listed,           \* pods whose lease is in state.reservations
    candidates,       \* state.ondemand_candidates
    cooling,          \* candidates whose next_attempt_at is in the future
    awaiting_capacity, held_by_node_fit, awaiting_schedule_signal,
    queued,           \* pods in state.task_queue
    occupied,         \* pods state.occupancy records under their lease
    gpu_pods,         \* state.gpu_pods: none, claim, or the node of each pod
    lock,             \* who holds reservation_lock
    watch,            \* where the watch loop is
    batch,            \* where the admission batch is
    rerun,            \* state.ondemand_rerun_requested
    faults,           \* calls that failed so far
    urgent            \* history: candidates the watch made due, not yet tried

cluster == <<phase, ref, node, ruled>>
app == <<lease, booked>>
flags == <<cooling, awaiting_capacity, held_by_node_fit, awaiting_schedule_signal>>
vars == <<cluster, events, app, delegate, listed, candidates, flags, queued,
          occupied, gpu_pods, lock, watch, batch, rerun, faults, urgent>>

Refs == {"none", "lease", "booking"}
Phases == {"absent", "pending", "bound", "done", "gone"}
Event == [type : {"ADDED", "MODIFIED", "DELETED"}, pod : Pods, phase : Phases,
          ref : Refs, node : Nodes \cup {None}, ruled : BOOLEAN]
NoBatch == [pc |-> "idle", by |-> "none", todo |-> {}, due |-> {}, ready |-> {},
            cur |-> None, granted |-> <<>>, answered |-> FALSE]
WatchAtRest == [pc |-> "idle", pod |-> None, freed |-> FALSE]

-----------------------------------------------------------------------------
(* Guards 4 and 5 *)

\* GPUs requested by the pods of S: every pod contributes Gpus[p] pairs.
SumGpus(S) == Cardinality({x \in S \X (1..MaxGpus) : x[2] <= Gpus[x[1]]})

\* node_free_by_node_class, as the ledger L of pods has it.
Free(L, n) == Alloc[n] - SumGpus({q \in Pods : L[q] = n})

\* node_claims: admitted pods not yet bound whose nodes overlap those of p.
Claims(L, p) == SumGpus({q \in Pods \ {p} : L[q] = "claim" /\ Allowed[q] \cap Allowed[p] # {}})

\* Guard 5 judges every ask but a guaranteed one of a single GPU for any node.
Checked(p) == Allowed[p] # Nodes \/ Gpus[p] >= 2 \/ p \in BestEffort

Fits(L, p) == Checked(p) => \E n \in Allowed[p] : Free(L, n) - Claims(L, p) >= Gpus[p]

\* Mutant: only this pod's ask is compared with the physical count.
OvercommittedAlone(p) == p \notin BestEffort /\ Gpus[p] > PhysicalGpus

\* Guard 4, on a class the app over-counts: bookings count, drawn on or not.
Overcommitted(p) ==
    /\ p \notin BestEffort /\ CalendarGpus > PhysicalGpus
    /\ SumGpus(booked \cup (listed \ BestEffort)) + Gpus[p] > PhysicalGpus

-----------------------------------------------------------------------------
(* Helpers *)

Oldest(S) == CHOOSE p \in S : \A q \in S : p <= q
Fault == faults < MaxFaults /\ faults' = faults + 1
Alive == {p \in Pods : phase[p] \in {"pending", "bound", "done"}}

\* The watch event for pod p in its next state.
Notify(type, p) ==
    events' = Append(events, [type |-> type, pod |-> p, phase |-> phase'[p],
                              ref |-> ref'[p], node |-> node'[p], ruled |-> p \in ruled'])

\* remove_ondemand_candidate: its flags go with it.
Unregister(p) == candidates' = candidates \ {p}

\* Mutant: the flags of a candidate outlive it.
SetFlagsOfAll(cool, await, fit, signal) ==
    /\ cooling' = cool
    /\ awaiting_capacity' = await
    /\ held_by_node_fit' = fit
    /\ awaiting_schedule_signal' = signal

\* Every flag belongs to a registered candidate.
SetFlags(cool, await, fit, signal) ==
    /\ cooling' = cool \cap candidates'
    /\ awaiting_capacity' = await \cap candidates'
    /\ held_by_node_fit' = fit \cap candidates'
    /\ awaiting_schedule_signal' = signal \cap candidates'

KeepFlags == SetFlags(cooling, awaiting_capacity, held_by_node_fit, awaiting_schedule_signal)

\* One pass starts: the candidates to try are read off the registry at once.
StartPass(by) ==
    /\ batch' = [NoBatch EXCEPT
                    !.pc = "next", !.by = by, !.due = candidates' \ cooling',
                    !.todo = (candidates' \ cooling')
                             \cup (IF delegate THEN awaiting_capacity' ELSE {})]
    /\ rerun' = FALSE

\* Mutant: a trigger that finds a batch running is dropped.
TriggerLost(by) == IF batch.pc = "idle" THEN StartPass(by) ELSE UNCHANGED <<batch, rerun>>

\* _run_ondemand_admission: start a batch, or ask the running one to go again.
Trigger(by) ==
    IF batch.pc = "idle" THEN StartPass(by) ELSE rerun' = TRUE /\ batch' = batch

NoTrigger == UNCHANGED <<batch, rerun>>

\* The end of a pass: the trailing pass, or the end of the batch.
EndPass ==
    IF rerun THEN StartPass(batch.by)
    ELSE batch' = NoBatch /\ rerun' = rerun

\* capacity_frees_up
FreesUp(old, new) == \/ old = "claim" /\ new # "claim"
                     \/ old \in Nodes /\ new # old

\* _note_gpu_pod: the candidates guard 5 held that fit once p holds rec.
Woken(p, rec) ==
    IF FreesUp(gpu_pods[p], rec)
    THEN {q \in held_by_node_fit \cap candidates' : Fits(gpu_pods', q)}
    ELSE {}

NoteGpuPod(p, rec) ==
    LET woken == Woken(p, rec) IN
    /\ gpu_pods' = [gpu_pods EXCEPT ![p] = rec]
    /\ SetFlags(cooling \ woken, awaiting_capacity, held_by_node_fit \ woken,
                awaiting_schedule_signal)

-----------------------------------------------------------------------------
Init ==
    /\ phase = [p \in Pods |-> "absent"]
    /\ ref = [p \in Pods |-> "none"]
    /\ node = [p \in Pods |-> None]
    /\ ruled = {} /\ events = <<>>
    /\ lease = [p \in Pods |-> "none"]
    /\ booked = {} /\ delegate \in BOOLEAN
    /\ listed = {} /\ candidates = {} /\ cooling = {} /\ awaiting_capacity = {}
    /\ held_by_node_fit = {} /\ awaiting_schedule_signal = {}
    /\ queued = {} /\ occupied = {}
    /\ gpu_pods = [p \in Pods |-> "none"]
    /\ lock = "free" /\ watch = WatchAtRest /\ batch = NoBatch
    /\ rerun = FALSE /\ faults = 0 /\ urgent = {}

-----------------------------------------------------------------------------
(* The cluster, the users and the app *)

ClusterStep == Len(events) < MaxEvents
Controller == <<delegate, listed, candidates, flags, queued, occupied, gpu_pods,
                lock, watch, batch, rerun, faults>>

CreatePod(p) ==
    /\ ClusterStep /\ phase[p] = "absent"
    /\ \A q \in Pods : q < p => phase[q] # "absent"
    /\ phase' = [phase EXCEPT ![p] = "pending"]
    /\ UNCHANGED <<ref, node, ruled, app, Controller>>
    /\ Notify("ADDED", p)

\* The scheduler records PodScheduled=False for a pod no lease covers yet.
Rule(p) ==
    /\ ClusterStep /\ phase[p] = "pending" /\ p \notin ruled
    /\ ruled' = ruled \cup {p}
    /\ UNCHANGED <<phase, ref, node, app, Controller>>
    /\ Notify("MODIFIED", p)

Bind(p, n) ==
    /\ ClusterStep /\ phase[p] = "pending" /\ ref[p] # "none"
    /\ n \in Allowed[p]
    /\ SumGpus({q \in Pods : node[q] = n /\ phase[q] = "bound"}) + Gpus[p] <= Alloc[n]
    /\ phase' = [phase EXCEPT ![p] = "bound"]
    /\ node' = [node EXCEPT ![p] = n]
    /\ UNCHANGED <<ref, ruled, app, Controller>>
    /\ Notify("MODIFIED", p)

Finish(p) ==
    /\ ClusterStep /\ phase[p] = "bound"
    /\ phase' = [phase EXCEPT ![p] = "done"]
    /\ UNCHANGED <<ref, node, ruled, app, Controller>>
    /\ Notify("MODIFIED", p)

Delete(p) ==
    /\ ClusterStep /\ p \in Alive
    /\ phase' = [phase EXCEPT ![p] = "gone"]
    /\ UNCHANGED <<ref, node, ruled, app, Controller>>
    /\ Notify("DELETED", p)

\* A booking that can take p opens within the horizon.
BookingOpens(p) ==
    /\ p \in Booked \ booked
    /\ booked' = booked \cup {p}
    /\ UNCHANGED <<cluster, events, lease, Controller>>

\* The reserved path tolerates a queued pod under its booking.
AdmitBooked(p) ==
    /\ p \in queued /\ phase[p] = "pending" /\ ref[p] = "none"
    /\ ref' = [ref EXCEPT ![p] = "booking"]
    /\ queued' = queued \ {p}
    /\ gpu_pods' = IF gpu_pods[p] = "none" THEN [gpu_pods EXCEPT ![p] = "claim"] ELSE gpu_pods
    /\ UNCHANGED <<phase, node, ruled, app, delegate, listed, candidates, flags,
                   occupied, lock, watch, batch, rerun, faults>>
    /\ Notify("MODIFIED", p)

\* The window of a lease ends; its pod may run on, past its guarantee.  Bound:
\* while its pod is placed.
LeaseExpires(p) ==
    /\ lease[p] = "active" /\ phase[p] = "bound"
    /\ lease' = [lease EXCEPT ![p] = "over"]
    /\ listed' = listed \ {p}
    /\ UNCHANGED <<cluster, events, booked, delegate, candidates, flags, queued,
                   occupied, gpu_pods, lock, watch, batch, rerun, faults>>

\* A candidate's next_attempt_at comes round.
RetryTimeComes(p) ==
    /\ p \in cooling
    /\ cooling' = cooling \ {p}
    /\ UNCHANGED <<cluster, events, app, delegate, listed, candidates,
                   awaiting_capacity, held_by_node_fit, awaiting_schedule_signal,
                   queued, occupied, gpu_pods, lock, watch, batch, rerun, faults>>

\* A full fetch lists the app's active rows, best-effort stubs left out.
Fetch ==
    /\ lock = "free"
    /\ listed' = {p \in Pods \ BestEffort : lease[p] = "active"}
    /\ listed' # listed
    /\ UNCHANGED <<cluster, events, app, delegate, candidates, flags, queued,
                   occupied, gpu_pods, lock, watch, batch, rerun, faults>>

-----------------------------------------------------------------------------
(* pod_watch_loop *)

WatchReady ==
    /\ watch.pc = "idle" /\ events # <<>>
    /\ ~ (batch.pc # "idle" /\ batch.by = "watch")

WatchFrame == UNCHANGED <<cluster, app, delegate, faults>>

\* DELETED, or a terminal phase: forget the pod, then give its lease back.
WatchGone ==
    LET e == Head(events)
        p == e.pod IN
    /\ WatchReady
    /\ e.type = "DELETED" \/ e.phase = "done"
    /\ events' = Tail(events)
    /\ Unregister(p)
    /\ queued' = queued \ {p}
    /\ occupied' = occupied \ {p}
    /\ NoteGpuPod(p, "none")
    /\ IF e.ref = "none"
       THEN /\ watch' = watch
            /\ IF Woken(p, "none") # {} THEN Trigger("watch") ELSE NoTrigger
       ELSE /\ watch' = [pc |-> IF e.ref = "lease" THEN "teardown" ELSE "locking",
                         pod |-> p, freed |-> Woken(p, "none") # {}]
            /\ NoTrigger
    /\ UNCHANGED <<listed, lock>>
    /\ WatchFrame

\* A tolerated pod: it waits for nothing, and its GPUs are where the event says.
WatchTolerated ==
    LET e == Head(events)
        p == e.pod
        rec == IF e.node = None THEN "claim" ELSE e.node IN
    /\ WatchReady
    /\ e.type # "DELETED" /\ e.phase # "done" /\ e.ref # "none"
    /\ events' = Tail(events)
    /\ Unregister(p)
    /\ queued' = queued \ {p}
    /\ occupied' = IF e.ref = "lease" THEN occupied \cup {p} ELSE occupied
    /\ NoteGpuPod(p, rec)
    /\ IF Woken(p, rec) # {} THEN Trigger("watch") ELSE NoTrigger
    /\ UNCHANGED <<listed, lock, watch>>
    /\ WatchFrame

\* A waiting pod a booking can take leaves the candidates for the queue.
WatchRoute ==
    LET e == Head(events)
        p == e.pod IN
    /\ WatchReady
    /\ e.type # "DELETED" /\ e.phase = "pending" /\ e.ref = "none" /\ p \in booked
    /\ events' = Tail(events)
    /\ Unregister(p)
    /\ KeepFlags
    /\ queued' = queued \cup {p}
    /\ NoTrigger
    /\ UNCHANGED <<listed, occupied, gpu_pods, lock, watch>>
    /\ WatchFrame

\* Any other waiting pod: ADDED registers it and starts a batch; MODIFIED only
\* carries the verdict a candidate was parked for.
WatchCandidate ==
    LET e == Head(events)
        p == e.pod IN
    /\ WatchReady
    /\ e.type # "DELETED" /\ e.phase = "pending" /\ e.ref = "none" /\ p \notin booked
    /\ events' = Tail(events)
    /\ \/ /\ e.type = "ADDED"
          /\ candidates' = IF p \in occupied \/ ref[p] = "booking" THEN candidates
                           ELSE candidates \cup {p}
          /\ KeepFlags
          /\ queued' = queued \ {p}
          /\ Trigger("watch")
       \/ /\ e.type = "MODIFIED" /\ e.ruled /\ p \in awaiting_schedule_signal
          /\ candidates' = candidates
          /\ SetFlags(cooling \ {p}, awaiting_capacity, held_by_node_fit,
                      awaiting_schedule_signal \ {p})
          /\ queued' = queued
          /\ Trigger("watch")
       \/ /\ e.type = "MODIFIED" /\ ~ (e.ruled /\ p \in awaiting_schedule_signal)
          /\ UNCHANGED <<candidates, flags, queued>>
          /\ NoTrigger
    /\ UNCHANGED <<listed, occupied, gpu_pods, lock, watch>>
    /\ WatchFrame

TeardownFrame == UNCHANGED <<cluster, events, booked, delegate, candidates, flags,
                             queued, occupied, gpu_pods>>

\* The event of the pod that went is handled: start a batch if it freed anything.
WatchDone(released) ==
    /\ watch' = WatchAtRest
    /\ IF released \/ watch.freed THEN Trigger("watch") ELSE NoTrigger

\* _teardown_ondemand_lease: nothing to do unless the row is listed as a lease.
TeardownFinds ==
    /\ watch.pc \in {"teardown", "locking"} /\ lock = "free"
    /\ TeardownFrame
    /\ \/ /\ watch.pc = "teardown" /\ watch.pod \in listed \ BestEffort
          /\ lock' = "watch"
          /\ watch' = [watch EXCEPT !.pc = "cancel"]
          /\ NoTrigger
       \/ /\ watch.pc = "locking" \/ watch.pod \notin listed \ BestEffort
          /\ WatchDone(FALSE)
          /\ lock' = lock
    /\ UNCHANGED <<lease, listed, faults>>

\* The cancel answers, or fails before or after the app carried it out.
TeardownCancels ==
    /\ watch.pc = "cancel" /\ lock' = "free"
    /\ TeardownFrame
    /\ \/ /\ lease' = [lease EXCEPT ![watch.pod] = "over"]
          /\ listed' = listed \ {watch.pod}
          /\ WatchDone(TRUE)
          /\ faults' = faults
       \/ /\ Fault
          /\ lease' \in {lease, [lease EXCEPT ![watch.pod] = "over"]}
          /\ WatchDone(FALSE)
          /\ listed' = listed

-----------------------------------------------------------------------------
(* _run_ondemand_admission: the batch *)

\* The queue tick ends with a batch of every due candidate.
TickBatch ==
    /\ batch.by # "tick" /\ ~ rerun
    /\ UNCHANGED <<cluster, events, app, delegate, listed, candidates, flags, queued,
                   occupied, gpu_pods, lock, watch, faults>>
    /\ Trigger("tick")

BatchFrame == UNCHANGED <<delegate, watch>>
AppFrame == UNCHANGED <<cluster, events, app>>

\* The next candidate of the pass, in creation order: read_pod is called.
NextCandidate ==
    /\ batch.pc = "next" /\ batch.todo # {}
    /\ LET p == Oldest(batch.todo) IN
          /\ batch' = [batch EXCEPT !.pc = "read", !.cur = p, !.todo = @ \ {p}]
          /\ candidates' = candidates
          /\ SetFlags(cooling, awaiting_capacity, held_by_node_fit \ {p},
                      awaiting_schedule_signal)
    /\ UNCHANGED <<listed, queued, occupied, gpu_pods, lock, rerun, faults>>
    /\ BatchFrame /\ AppFrame

PreflightFrame ==
    /\ batch' = [batch EXCEPT !.pc = "next", !.cur = None]
    /\ UNCHANGED <<listed, occupied, gpu_pods, lock, rerun>>
    /\ BatchFrame /\ AppFrame

\* Hold candidate p: its retry time is pushed out and it awaits no capacity.
Hold(p, fit, signal) ==
    /\ candidates' = candidates
    /\ SetFlags(cooling \cup {p}, awaiting_capacity \ {p}, fit, signal)

\* Mutant: a candidate whose pod cannot be read is dropped.
ReadFailureDrops(p) == Unregister(p) /\ KeepFlags

ReadFailure(p) == Hold(p, held_by_node_fit, awaiting_schedule_signal)

\* read_pod raises: the pod is gone, or the API failed.
PreflightFails ==
    /\ batch.pc = "read"
    /\ (phase[batch.cur] = "gone" /\ faults' = faults) \/ Fault
    /\ ReadFailure(batch.cur)
    /\ queued' = queued
    /\ PreflightFrame

\* The pod is finished, or a booking can take it.
PreflightRemoves ==
    LET p == batch.cur IN
    /\ batch.pc = "read"
    /\ \/ phase[p] = "done" /\ queued' = queued
       \/ phase[p] \in {"pending", "bound"} /\ p \in booked /\ queued' = queued \cup {p}
    /\ Unregister(p)
    /\ KeepFlags
    /\ faults' = faults
    /\ PreflightFrame

Judged(p) == batch.pc = "read" /\ phase[p] \in {"pending", "bound"} /\ p \notin booked

\* Guard 1a: the scheduler has not ruled, or the pod is no longer Pending.
Unruled(p) == p \notin ruled \/ phase[p] # "pending"

PreflightHolds ==
    LET p == batch.cur IN
    /\ Judged(p)
    /\ \/ /\ Unruled(p)
          /\ Hold(p, held_by_node_fit, awaiting_schedule_signal \cup {p})
       \/ /\ ~ Unruled(p) /\ Overcommitted(p)
          /\ Hold(p, held_by_node_fit, awaiting_schedule_signal \ {p})
       \/ /\ ~ Unruled(p) /\ ~ Overcommitted(p) /\ ~ Fits(gpu_pods, p)
          /\ Hold(p, held_by_node_fit \cup {p}, awaiting_schedule_signal \ {p})
    /\ UNCHANGED <<queued, faults>>
    /\ PreflightFrame

PreflightReady ==
    LET p == batch.cur IN
    /\ Judged(p)
    /\ ~ Unruled(p) /\ ~ Overcommitted(p) /\ Fits(gpu_pods, p)
    /\ batch' = [batch EXCEPT !.pc = "next", !.cur = None, !.ready = @ \cup {p}]
    /\ candidates' = candidates
    /\ SetFlags(cooling, awaiting_capacity, held_by_node_fit, awaiting_schedule_signal \ {p})
    /\ UNCHANGED <<listed, queued, occupied, gpu_pods, lock, rerun, faults>>
    /\ BatchFrame /\ AppFrame

\* The pods of S, oldest first: the one such sequence.
InCreationOrder(S) ==
    {s \in [1..Cardinality(S) -> S] : \A i, j \in DOMAIN s : i < j => s[i] < s[j]}

\* _map_granted_uids keeps the offered pods, each once, in the app's order: what
\* the answers come to, those that name other pods or one twice included.
\* Bound: two pods of an answer are kept.
MapGranted(ready) ==
    {s \in UNION {[1..k -> ready] : k \in 0..2} : IsInjective(s)}

\* Mutant: without an answer every survivor is granted, due or not.
FallbackAll == InCreationOrder(batch.ready)

Fallback == InCreationOrder(batch.ready \cap batch.due)

\* The survivors are offered to the app: it answers with an order, or the call
\* fails.
Selected ==
    /\ batch.pc = "next" /\ batch.todo = {} /\ batch.ready # {}
    /\ \/ /\ delegate
          /\ \E s \in MapGranted(batch.ready) :
                batch' = [batch EXCEPT !.pc = "grant", !.granted = s, !.answered = TRUE,
                                       !.todo = @ \cup (batch.ready \ ToSet(s))]
          /\ faults' = faults
       \/ /\ (~ delegate /\ faults' = faults) \/ (delegate /\ Fault)
          /\ \E s \in Fallback : batch' = [batch EXCEPT !.pc = "grant", !.granted = s]
    /\ UNCHANGED <<listed, candidates, flags, queued, occupied, gpu_pods, lock, rerun>>
    /\ BatchFrame /\ AppFrame

\* The next grant is judged again, against what the grants before it took.
GrantNext ==
    LET p == Head(batch.granted) IN
    /\ batch.pc = "grant" /\ batch.granted # <<>>
    /\ \/ /\ Overcommitted(p) \/ ~ Fits(gpu_pods, p)
          /\ batch' = [batch EXCEPT !.granted = Tail(@)]
          /\ Hold(p, IF Overcommitted(p) THEN held_by_node_fit ELSE held_by_node_fit \cup {p},
                  awaiting_schedule_signal)
       \/ /\ ~ Overcommitted(p) /\ Fits(gpu_pods, p)
          /\ batch' = [batch EXCEPT !.pc = "create", !.cur = p, !.granted = Tail(@)]
          /\ UNCHANGED <<candidates, flags>>
    /\ UNCHANGED <<listed, queued, occupied, gpu_pods, lock, rerun, faults>>
    /\ BatchFrame /\ AppFrame

NextGrant == batch' = [batch EXCEPT !.pc = "grant", !.cur = None]

CalendarRoom(p) ==
    \/ p \in BestEffort
    \/ SumGpus(booked \cup {q \in Pods \ BestEffort : lease[q] = "active"}) + Gpus[p]
          <= CalendarGpus

\* The create reaches the app, which keeps one active row per pod.  It is
\* granted, refused for capacity, or its answer is lost.
CreateLease ==
    LET p == batch.cur
        granted == [lease EXCEPT ![p] = "active"] IN
    /\ batch.pc = "create"
    /\ candidates' = candidates
    /\ \/ /\ lease[p] = "active" \/ CalendarRoom(p)
          /\ lease' = granted
          /\ SetFlags(cooling, awaiting_capacity \ {p}, held_by_node_fit, awaiting_schedule_signal)
          /\ batch' = [batch EXCEPT !.pc = "lock"]
          /\ faults' = faults
       \/ /\ lease[p] # "active" /\ ~ CalendarRoom(p)
          /\ lease' = lease
          /\ \E await \in {awaiting_capacity \cup {p}, awaiting_capacity \ {p}} :
                SetFlags(cooling \cup {p}, await, held_by_node_fit, awaiting_schedule_signal)
          /\ NextGrant
          /\ faults' = faults
       \/ /\ Fault
          /\ lease' \in {lease} \cup (IF CalendarRoom(p) THEN {granted} ELSE {})
          /\ Hold(p, held_by_node_fit, awaiting_schedule_signal)
          /\ NextGrant
    /\ UNCHANGED <<cluster, events, booked, listed, queued, occupied, gpu_pods, lock, rerun>>
    /\ BatchFrame

\* Under reservation_lock: the lease is listed, its pod recorded, read_pod called.
AdmitBegins ==
    /\ batch.pc = "lock" /\ lock = "free"
    /\ lock' = "batch"
    /\ listed' = listed \cup {batch.cur}
    /\ occupied' = occupied \cup {batch.cur}
    /\ batch' = [batch EXCEPT !.pc = "admit"]
    /\ UNCHANGED <<candidates, flags, queued, gpu_pods, rerun, faults>>
    /\ BatchFrame /\ AppFrame

\* Mutant: the batch leaves the claim to the watch event of the patch.
ClaimLeftToWatch(p, unbound) == gpu_pods' = gpu_pods

\* _note_admitted: a pod read unbound, which the watch does not track yet.
Claim(p, unbound) ==
    gpu_pods' = IF unbound /\ gpu_pods[p] = "none" THEN [gpu_pods EXCEPT ![p] = "claim"]
                ELSE gpu_pods

\* The attempt returned True: the pod is admitted if it is still recorded.
AttemptTrue(p, unbound) ==
    \/ /\ p \in occupied
       /\ Claim(p, unbound)
       /\ NextGrant
       /\ lock' = "free"
       /\ Unregister(p)
       /\ KeepFlags
    \/ /\ p \notin occupied
       /\ batch' = [batch EXCEPT !.pc = "revoke"]
       /\ UNCHANGED <<gpu_pods, lock, candidates, flags>>

\* Mutant: the lease of a pod that was not admitted is left to its window.
AttemptEndsKept(p, pc) ==
    /\ occupied' = occupied \ {p}
    /\ NextGrant
    /\ lock' = "free"
    /\ Unregister(p)
    /\ KeepFlags
    /\ gpu_pods' = gpu_pods

\* The attempt did not admit the pod: its record goes, its lease will.
AttemptEnds(p, pc) ==
    /\ occupied' = occupied \ {p}
    /\ batch' = [batch EXCEPT !.pc = pc]
    /\ UNCHANGED <<gpu_pods, lock, candidates, flags>>

\* read_pod answers.
AdmitReads ==
    LET p == batch.cur IN
    /\ batch.pc = "admit"
    /\ \/ /\ phase[p] = "pending" /\ ref[p] = "none"
          /\ batch' = [batch EXCEPT !.pc = "patch"]
          /\ UNCHANGED <<occupied, gpu_pods, lock, candidates, flags, faults>>
       \/ /\ phase[p] \in {"pending", "bound"} /\ ref[p] # "none"
          /\ AttemptTrue(p, phase[p] = "pending")
          /\ UNCHANGED <<occupied, faults>>
       \/ /\ phase[p] = "done"
          /\ AttemptEnds(p, "revoke")
          /\ faults' = faults
       \/ /\ (phase[p] = "gone" /\ faults' = faults) \/ Fault
          /\ AttemptEnds(p, "revoke_retry")
    /\ UNCHANGED <<listed, queued, rerun>>
    /\ BatchFrame /\ AppFrame

\* apply_toleration reaches the API server, or fails before it changes anything.
AdmitPatches ==
    LET p == batch.cur IN
    /\ batch.pc = "patch"
    /\ \/ /\ phase[p] # "gone"
          /\ ref' = [ref EXCEPT ![p] = "lease"]
          /\ UNCHANGED <<phase, node, ruled>>
          /\ Notify("MODIFIED", p)
          /\ batch' = [batch EXCEPT !.pc = "applied"]
          /\ UNCHANGED <<occupied, gpu_pods, lock, candidates, flags, faults>>
       \/ /\ (phase[p] = "gone" /\ faults' = faults) \/ Fault
          /\ AttemptEnds(p, "revoke_retry")
          /\ UNCHANGED <<cluster, events>>
    /\ UNCHANGED <<app, listed, queued, rerun>>
    /\ BatchFrame

\* The patch and those after it have answered, or the first answer is lost.
AdmitEnds ==
    LET p == batch.cur IN
    /\ batch.pc = "applied"
    /\ \/ AttemptTrue(p, TRUE) /\ UNCHANGED <<occupied, faults>>
       \/ Fault /\ AttemptEnds(p, "revoke_retry")
    /\ UNCHANGED <<listed, queued, rerun>>
    /\ BatchFrame /\ AppFrame

\* The compensating cancel; its outcome is not looked at.
Revoke ==
    LET p == batch.cur IN
    /\ batch.pc \in {"revoke", "revoke_retry"}
    /\ lock' = "free"
    /\ listed' = listed \ {p}
    /\ \/ lease' = [lease EXCEPT ![p] = "over"] /\ faults' = faults
       \/ lease' = lease /\ Fault
    /\ \/ batch.pc = "revoke" /\ Unregister(p) /\ KeepFlags
       \/ /\ batch.pc = "revoke_retry"
          /\ candidates' = candidates
          /\ SetFlags(cooling \cup {p}, awaiting_capacity, held_by_node_fit,
                      awaiting_schedule_signal)
    /\ NextGrant
    /\ UNCHANGED <<cluster, events, booked, queued, occupied, gpu_pods, rerun>>
    /\ BatchFrame

\* _handle_withheld: refused by a gate, or passed over for capacity.
Withhold ==
    /\ batch.pc = "grant" /\ batch.granted = <<>> /\ batch.todo # {}
    /\ LET p == Oldest(batch.todo) IN
          /\ batch' = [batch EXCEPT !.todo = @ \ {p}]
          /\ candidates' = candidates
          /\ \E await \in {awaiting_capacity \cup {p}, awaiting_capacity \ {p}} :
                SetFlags(cooling \cup {p}, await, held_by_node_fit, awaiting_schedule_signal)
    /\ UNCHANGED <<listed, queued, occupied, gpu_pods, lock, rerun, faults>>
    /\ BatchFrame /\ AppFrame

\* The pass is over: its trailing pass starts, or the batch ends.
PassEnds ==
    /\ batch.todo = {} /\ batch.granted = <<>>
    /\ batch.pc = "grant" \/ (batch.pc = "next" /\ batch.ready = {})
    /\ UNCHANGED <<listed, candidates, flags, queued, occupied, gpu_pods, lock, faults>>
    /\ BatchFrame /\ AppFrame
    /\ EndPass

-----------------------------------------------------------------------------
PodStep(p) == CreatePod(p) \/ Rule(p) \/ Finish(p) \/ Delete(p) \/ (\E n \in Nodes : Bind(p, n))
AppStep(p) == BookingOpens(p) \/ AdmitBooked(p) \/ LeaseExpires(p) \/ RetryTimeComes(p)
WatchStep == \/ WatchGone \/ WatchTolerated \/ WatchRoute \/ WatchCandidate
             \/ TeardownFinds \/ TeardownCancels
BatchStep == \/ NextCandidate \/ PreflightFails \/ PreflightRemoves \/ PreflightHolds
             \/ PreflightReady \/ Selected \/ GrantNext \/ CreateLease \/ AdmitBegins
             \/ AdmitReads \/ AdmitPatches \/ AdmitEnds \/ Revoke \/ Withhold \/ PassEnds

\* History: the watch made candidates due with the event it handled; the batch
\* takes one up.
Urgency ==
    LET due == candidates' \ cooling'
        woken == IF Len(events') < Len(events) THEN due \ (candidates \ cooling) ELSE {}
    IN urgent' = ((urgent \cap candidates') \cup woken)
                 \ (IF batch'.pc = "read" THEN {batch'.cur} ELSE {})

Step ==
    \/ \E p \in Pods : PodStep(p) \/ AppStep(p)
    \/ Fetch \/ TickBatch
    \/ WatchStep \/ BatchStep

Next == Step /\ Urgency

Spec == Init /\ [][Next]_vars

\* Calls answer, the tick comes round, and so does every retry time.
FairSpec ==
    /\ Spec
    /\ WF_vars(WatchStep /\ Urgency) /\ WF_vars(BatchStep /\ Urgency)
    /\ WF_vars(TickBatch /\ Urgency)
    /\ \A p \in Pods : WF_vars(RetryTimeComes(p) /\ Urgency)

-----------------------------------------------------------------------------
(* Properties *)

\* Every variable holds a value of its kind; flags belong to candidates.
TypeOK ==
    /\ phase \in [Pods -> Phases] /\ ref \in [Pods -> Refs]
    /\ node \in [Pods -> Nodes \cup {None}]
    /\ ruled \subseteq Pods /\ events \in Seq(Event)
    /\ lease \in [Pods -> {"none", "active", "over"}]
    /\ booked \subseteq Booked /\ delegate \in BOOLEAN
    /\ listed \subseteq Pods /\ candidates \subseteq Pods
    /\ cooling \subseteq candidates /\ awaiting_capacity \subseteq candidates
    /\ held_by_node_fit \subseteq candidates /\ awaiting_schedule_signal \subseteq candidates
    /\ queued \subseteq Pods /\ occupied \subseteq Pods
    /\ gpu_pods \in [Pods -> {"none", "claim"} \cup Nodes]
    /\ lock \in {"free", "batch", "watch"}
    /\ watch \in [pc : {"idle", "teardown", "locking", "cancel"}, pod : Pods \cup {None},
                  freed : BOOLEAN]
    /\ batch \in [pc : {"idle", "next", "read", "grant", "create", "lock", "admit", "patch",
                        "applied", "revoke", "revoke_retry"},
                  by : {"none", "watch", "tick"}, todo : SUBSET Pods, due : SUBSET Pods,
                  ready : SUBSET Pods, cur : Pods \cup {None}, granted : Seq(Pods),
                  answered : BOOLEAN]
    /\ rerun \in BOOLEAN /\ faults \in 0..MaxFaults
    /\ urgent \subseteq candidates

Unbound == {p \in Pods : phase[p] = "pending" /\ ref[p] # "none"}
Room(n) == Alloc[n] - SumGpus({q \in Pods : phase[q] = "bound" /\ node[q] = n})

\* No call failed, no booking was drawn on, and guard 5 judged every pod admitted
\* so far: one it let pass may run where the others were promised room.
Undisturbed == faults = 0 /\ \A q \in Pods : ref[q] # "booking" /\ (ref[q] # "none" => Checked(q))

\* A pod admitted on demand that takes any node has a node with room for it and
\* for every other admitted pod that may be placed there, whatever the batch
\* granted while the watch lagged behind the cluster.
Startable ==
    Undisturbed
        => \A p \in Unbound : Allowed[p] = Nodes =>
              \E n \in Nodes : SumGpus({q \in Unbound : n \in Allowed[q]}) <= Room(n)

\* On a class the app over-counts, the leases in use stay within the GPUs that
\* exist, although the app sells more and the batch judges each grant alone.
OversoldFits ==
    faults = 0 =>
        SumGpus({p \in Pods \ BestEffort : /\ lease[p] = "active" /\ ref[p] = "lease"
                                           /\ phase[p] \in {"pending", "bound"}})
            <= PhysicalGpus

PodGoing(e, p) == e.pod = p /\ e.ref = "lease" /\ (e.type = "DELETED" \/ e.phase = "done")

\* An active lease is in use by its pod, or being admitted or revoked by the
\* batch, or about to be torn down.  Excepted: a call failed, or a booking took
\* the pod.
LeaseAccounted ==
    \A p \in Pods \ BestEffort : lease[p] = "active" /\ faults = 0 /\ p \notin booked =>
        \/ ref[p] = "lease" /\ phase[p] \in {"pending", "bound"}
        \/ batch.cur = p /\ batch.pc # "create"
        \/ watch.pod = p
        \/ \E i \in 1..Len(events) : PodGoing(events[i], p)

\* A candidate the watch registered or woke is tried by a pass that starts
\* later: its trigger is never lost in a batch that had already passed it by.
TriggerKept ==
    \A p \in urgent : \/ batch.pc # "idle" /\ (rerun \/ p \in batch.todo)
                      \/ watch.freed

\* The app is asked for a lease only for a candidate offered in this pass, and
\* without its answer only for those whose retry time had come.
CreatesOffered ==
    batch.pc = "create" => /\ batch.cur \in batch.ready
                           /\ batch.answered \/ batch.cur \in batch.due

CanGo(p) ==
    /\ p \notin booked /\ phase[p] = "pending" /\ ref[p] = "none"
    /\ p \in ruled /\ ~ Overcommitted(p) /\ Fits(gpu_pods, p)
    /\ lease[p] = "active" \/ CalendarRoom(p)

\* Without delegation, a pod nothing stands in the way of does not wait for
\* ever.
WaiterAdmitted == \A p \in Pods : []<>(delegate \/ ~ CanGo(p))
=============================================================================
