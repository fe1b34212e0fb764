----------------------------- MODULE PodLedger -----------------------------
(***************************************************************************)
(* What the controller knows of the pods: PodWatcher's LIST and WATCH, the *)
(* bounded queue to pod_watch_loop, and the ledger gpu_pods that node      *)
(* feasibility is derived from, which admissions and the watch change and  *)
(* startup and every queue tick rebuild from a LIST of their own.          *)
(*                                                                         *)
(* A record of the ledger is named by the stage of the pod it was made     *)
(* from; a pod keeps its GPU class, which nothing in the code changes.     *)
(* Left out: what an admission asks first (Admission, OnDemand), and the   *)
(* leases and batches an event sets off.                                   *)
(***************************************************************************)
EXTENDS Integers, SequencesExt

CONSTANTS
    Pods,               \* pod uids
    Gpus, NodeOf,       \* Gpus[p], and the node p is bound to
    Old,                \* the pods bound before the controller starts
    Nodes, Alloc,
    Classes, Label,     \* the GPU classes, and the one each pod asks for
    Taints,             \* the classes each node is in
    QueueCap,           \* _WATCH_QUEUE_MAXSIZE
    MaxFaults           \* bound: failures, floods, restarts, nodes that come and go

ASSUME ConstantsAssumption ==
    /\ IsFiniteSet(Pods) /\ Old \subseteq Pods /\ Gpus \in [Pods -> Nat \ {0}]
    /\ NodeOf \in [Pods -> Nodes] /\ Alloc \in [Nodes -> Nat]
    /\ Label \in [Pods -> Classes] /\ Taints \in [Nodes -> SUBSET Classes]
    /\ QueueCap \in Nat \ {0} /\ QueueCap >= Cardinality(Pods) /\ MaxFaults \in Nat

VARIABLES
    pod,           \* the stage of each pod
    up,            \* the nodes an inventory counts
    thread,        \* of the watch: off, list or stream
    stream,        \* events of the open stream not read yet
    queue,         \* events handed to the loop: pairs of pod and stage
    routed,        \* pods in task_queue or ondemand_candidates
    occupied,      \* pods recorded in state.occupancy
    attempt,       \* an admission under way: none, or its pod as read, unbound or bound
    gpu_pods,      \* state.gpu_pods: the stage the record of each pod shows
    fresh,         \* pods changed there since the tick took its time
    inventory,     \* state.node_inventory: the nodes it counts, each in its classes
    free,          \* state.node_free_by_node_class
    tick,          \* pc and the stages listed
    faults,
    relisted       \* history: pods a tick's list made occupied after they had gone

loopvars == <<routed, occupied, attempt>>
ledger == <<gpu_pods, fresh, inventory, free>>
watchvars == <<thread, stream, queue>>
vars == <<pod, up, watchvars, loopvars, ledger, tick, faults, relisted>>

\* The stages a pod goes through, and their order.
Stages == {"absent", "waiting", "claim", "bound", "leaving", "gone"}
Rank(st) == [absent |-> 0, waiting |-> 1, claim |-> 2, bound |-> 3, leaving |-> 4, gone |-> 5][st]
Tolerated == {"claim", "bound", "leaving"}

\* gpu_pod_record: a pod that waits for its node, one bound to it, or nothing.
Holds(st) == st \in {"claim", "bound"}

Nothing == [p \in Pods |-> "absent"]

\* The classes an inventory of these nodes knows.
Known(nodes) == UNION {Taints[n] : n \in nodes}

\* node_free_from_pods: for a class, and for all of them.
Taken(c, n, records) ==
    MapThenSumSet(LAMBDA p : Gpus[p],
                  {p \in Pods : records[p] = "bound" /\ NodeOf[p] = n /\ Label[p] = c})
FreeIn(c, nodes, records) ==
    [n \in {m \in nodes : c \in Taints[m]} |-> Alloc[n] - Taken(c, n, records)]
FreeOf(nodes, records) == [c \in Known(nodes) |-> FreeIn(c, nodes, records)]

\* What the process starts with: nothing, and the seed of node feasibility.
Starts ==
    /\ thread' = "off" /\ stream' = <<>> /\ queue' = <<>>
    /\ routed' = {} /\ occupied' = {} /\ attempt' = [p \in Pods |-> "none"]
    /\ gpu_pods' = Nothing /\ fresh' = {} /\ inventory' = {} /\ free' = FreeOf({}, Nothing)
    /\ tick' = [pc |-> "pods", list |-> Nothing] /\ relisted' = {}

Init ==
    /\ pod = [p \in Pods |-> IF p \in Old THEN "bound" ELSE "absent"] /\ up = Nodes
    /\ thread = "off" /\ stream = <<>> /\ queue = <<>>
    /\ routed = {} /\ occupied = {} /\ attempt = [p \in Pods |-> "none"]
    /\ gpu_pods = Nothing /\ fresh = {} /\ inventory = {} /\ free = FreeOf({}, Nothing)
    /\ tick = [pc |-> "pods", list |-> Nothing]
    /\ faults = 0 /\ relisted = {}

Fault == faults < MaxFaults /\ faults' = faults + 1

-----------------------------------------------------------------------------
(* The cluster *)

\* An open stream carries every change.
Becomes(p, st) ==
    /\ pod' = [pod EXCEPT ![p] = st]
    /\ stream' = IF thread = "stream" THEN Append(stream, <<p, st>>) ELSE stream

CreatePod(p) ==
    /\ pod[p] = "absent" /\ Becomes(p, "waiting")
    /\ UNCHANGED <<up, thread, queue, loopvars, ledger, tick, faults, relisted>>

Bind(p) ==
    /\ pod[p] = "claim" /\ Becomes(p, "bound")
    /\ UNCHANGED <<up, thread, queue, loopvars, ledger, tick, faults, relisted>>

\* Deleted: a bound pod terminates first.
EndPod(p) ==
    /\ pod[p] \in {"waiting"} \cup Tolerated
    /\ Becomes(p, IF pod[p] = "bound" THEN "leaving" ELSE "gone")
    /\ UNCHANGED <<up, thread, queue, loopvars, ledger, tick, faults, relisted>>

NodeTurns(n) ==
    /\ Fault
    /\ up' = IF n \in up THEN up \ {n} ELSE up \cup {n}
    /\ UNCHANGED <<pod, watchvars, loopvars, ledger, tick, relisted>>

Restart ==
    /\ Fault /\ Starts
    /\ UNCHANGED <<pod, up>>

-----------------------------------------------------------------------------
(* PodWatcher *)

\* Mutant: the queue is not bounded.
OfferUnbounded(q, es) == q \o es

\* _offer, one after the other: a full queue drops its oldest event.
Offer(q, es) ==
    IF Len(q \o es) <= QueueCap THEN q \o es
    ELSE SubSeq(q \o es, Len(q \o es) - QueueCap + 1, Len(q \o es))

\* Every pod there is, as ADDED; the stream goes on from the list.
WatchLists ==
    /\ thread = "list"
    /\ \E there \in SetToSeqs({p \in Pods : pod[p] \notin {"absent", "gone"}}) :
          queue' = Offer(queue, [i \in DOMAIN there |-> <<there[i], pod[there[i]]>>])
    /\ thread' = "stream" /\ stream' = <<>>
    /\ UNCHANGED <<pod, up, loopvars, ledger, tick, faults, relisted>>

WatchReads ==
    /\ thread = "stream" /\ stream # <<>>
    /\ queue' = Offer(queue, <<Head(stream)>>) /\ stream' = Tail(stream)
    /\ UNCHANGED <<pod, up, thread, loopvars, ledger, tick, faults, relisted>>

\* Mutant: a stream that closes is always resumed.
ResyncDueNever == FALSE

\* The interval has passed; it is long enough for the queue to run empty.
ResyncDue == queue = <<>>

\* The next cycle lists again: what the stream still held is not read.
Relists == thread' = "list" /\ stream' = <<>>

WatchResyncs ==
    /\ thread = "stream" /\ ResyncDue /\ Relists
    /\ UNCHANGED <<pod, up, queue, loopvars, ledger, tick, faults, relisted>>

\* An error, or a resourceVersion that has expired.
WatchBreaks ==
    /\ thread = "stream" /\ Fault /\ Relists
    /\ UNCHANGED <<pod, up, queue, loopvars, ledger, tick, relisted>>

\* Events of pods the controller does not care for push out the oldest held.
WatchFloods ==
    /\ thread = "stream" /\ queue # <<>> /\ Fault
    /\ \E k \in 1..Len(queue) : queue' = SubSeq(queue, k + 1, Len(queue))
    /\ UNCHANGED <<pod, up, thread, stream, loopvars, ledger, tick, relisted>>

-----------------------------------------------------------------------------
(* The ledger *)

\* The record a stage makes.
Record(st) == IF Holds(st) THEN st ELSE "none"

\* Mutant: only a record that is made changes the free map.
TouchedBy(p, st) == IF Holds(st) THEN {Label[p]} ELSE {}

\* The class of the previous record and of the new one, if they differ.
Touched(p, st) == IF Record(st) = Record(gpu_pods[p]) THEN {} ELSE {Label[p]}

\* _derive_node_free: of these classes the ones the inventory knows, in place.
Derived(classes, records) ==
    LET targets == classes \cap Known(inventory) IN
    [c \in DOMAIN free \cup targets |->
        IF c \in targets THEN FreeIn(c, inventory, records) ELSE free[c]]

\* set_gpu_pod
SetGpuPod(p, st) ==
    /\ gpu_pods' = [gpu_pods EXCEPT ![p] = st]
    /\ free' = Derived(Touched(p, st), [gpu_pods EXCEPT ![p] = st])
    /\ fresh' = IF tick.pc = "idle" THEN fresh ELSE fresh \cup {p}
    /\ inventory' = inventory

\* Mutant: a pod in the ledger keeps its record.
RebuiltKept ==
    [p \in Pods |-> IF p \in fresh \/ Holds(gpu_pods[p]) THEN gpu_pods[p] ELSE tick.list[p]]

\* Mutant: the snapshot replaces the ledger.
RebuiltListed == tick.list

\* rebuild_gpu_pods: the snapshot, under the changes made since it was asked for.
Rebuilt == [p \in Pods |-> IF p \in fresh THEN gpu_pods[p] ELSE tick.list[p]]

-----------------------------------------------------------------------------
(* pod_watch_loop *)

\* Gone, admitted, or to be admitted.
Receives ==
    LET p == Head(queue)[1]
        st == Head(queue)[2] IN
    /\ queue # <<>> /\ queue' = Tail(queue)
    /\ routed' = IF st = "waiting" THEN routed \cup {p} ELSE routed \ {p}
    /\ CASE st = "gone" -> occupied' = occupied \ {p} /\ SetGpuPod(p, st)
         [] st \in Tolerated -> occupied' = occupied \cup {p} /\ SetGpuPod(p, st)
         [] OTHER -> occupied' = occupied /\ UNCHANGED ledger
    /\ UNCHANGED <<pod, up, thread, stream, attempt, tick, faults, relisted>>

-----------------------------------------------------------------------------
(* _try_apply_toleration, from the watch, the tick or a batch *)

\* Patched, or found tolerated; or gone, or failed, when it may have landed.
Admits(p) ==
    /\ p \in routed /\ attempt[p] = "none"
    /\ \/ /\ pod[p] = "waiting" /\ Becomes(p, "claim") /\ faults' = faults
          /\ attempt' = [attempt EXCEPT ![p] = "unbound"] /\ occupied' = occupied \cup {p}
       \/ /\ pod[p] \in Tolerated /\ faults' = faults
          /\ attempt' = [attempt EXCEPT ![p] = IF pod[p] = "claim" THEN "unbound" ELSE "bound"]
          /\ occupied' = occupied \cup {p} /\ UNCHANGED <<pod, stream>>
       \/ /\ Fault /\ attempt' = attempt /\ occupied' = occupied \ {p}
          /\ \/ pod[p] = "waiting" /\ Becomes(p, "claim")
             \/ UNCHANGED <<pod, stream>>
    /\ UNCHANGED <<up, thread, queue, routed, ledger, tick, relisted>>

\* Mutant: the claim is recorded whatever became of the pod meanwhile.
NotableAlways(p) == attempt[p] = "unbound"

\* Neither released while the patch was in flight, nor known better.
Notable(p) == p \in occupied /\ ~ Holds(gpu_pods[p]) /\ attempt[p] = "unbound"

\* _note_admitted; the entry goes.
Notes(p) ==
    /\ attempt[p] # "none"
    /\ attempt' = [attempt EXCEPT ![p] = "none"] /\ routed' = routed \ {p}
    /\ IF Notable(p) THEN SetGpuPod(p, "claim") ELSE UNCHANGED ledger
    /\ UNCHANGED <<pod, up, watchvars, occupied, tick, faults, relisted>>

-----------------------------------------------------------------------------
(* _run_queue_tick; the seed before the watch starts is the first one *)

TickStarts ==
    /\ tick.pc = "idle"
    /\ tick' = [tick EXCEPT !.pc = "pods"] /\ fresh' = {}
    /\ UNCHANGED <<pod, up, watchvars, loopvars, gpu_pods, inventory, free, faults, relisted>>

\* After the first one, the watch starts.
TickEnds ==
    /\ tick' = [pc |-> "idle", list |-> Nothing] /\ fresh' = {}
    /\ thread' = IF thread = "off" THEN "list" ELSE thread

\* The list is served.
TickLists ==
    /\ tick.pc = "pods" /\ tick' = [pc |-> "listed", list |-> pod]
    /\ UNCHANGED <<pod, up, watchvars, loopvars, ledger, faults, relisted>>

\* It comes back: reconcile_occupancy.
TickReconciles ==
    /\ tick.pc = "listed" /\ tick' = [tick EXCEPT !.pc = "nodes"]
    /\ occupied' = IF thread = "off" THEN occupied
                   ELSE {p \in Pods : tick.list[p] \in Tolerated}
    /\ relisted' = relisted \cup {p \in occupied' : gpu_pods[p] = "gone"}
    /\ UNCHANGED <<pod, up, watchvars, routed, attempt, ledger, faults>>

\* The pods cannot be listed: nothing is rebuilt.
TickFails ==
    /\ tick.pc = "pods" /\ Fault /\ TickEnds
    /\ UNCHANGED <<pod, up, stream, queue, loopvars, gpu_pods, inventory, free, relisted>>

\* _refresh_node_feasibility: an inventory replaces the free map wholesale.  Without
\* one the map is derived again over the inventory there was; the seed is given up.
TickRebuilds ==
    /\ tick.pc = "nodes" /\ TickEnds
    /\ \/ /\ faults' = faults /\ inventory' = up
          /\ gpu_pods' = Rebuilt /\ free' = FreeOf(up, Rebuilt)
       \/ /\ Fault /\ inventory' = inventory
          /\ IF thread = "off" THEN UNCHANGED <<gpu_pods, free>>
             ELSE gpu_pods' = Rebuilt /\ free' = Derived(Known(inventory), Rebuilt)
    /\ UNCHANGED <<pod, up, stream, queue, loopvars, relisted>>

-----------------------------------------------------------------------------
PodStep(p) == CreatePod(p) \/ Bind(p) \/ EndPod(p)
WatchStep == WatchLists \/ WatchReads \/ Receives
TickStep == TickStarts \/ TickLists \/ TickReconciles \/ TickRebuilds

Next ==
    \/ \E p \in Pods : PodStep(p) \/ Admits(p) \/ Notes(p)
    \/ \E n \in Nodes : NodeTurns(n)
    \/ WatchStep \/ WatchResyncs \/ WatchBreaks \/ WatchFloods
    \/ TickStep \/ TickFails
    \/ Restart

Spec == Init /\ [][Next]_vars

\* The watch and the ticks go on.
FairSpec ==
    /\ Spec
    /\ WF_vars(WatchLists) /\ WF_vars(WatchReads) /\ WF_vars(Receives)
    /\ SF_vars(WatchResyncs) /\ WF_vars(TickStep)
    /\ \A p \in Pods : WF_vars(Notes(p))

-----------------------------------------------------------------------------
(* Properties *)

\* Every variable holds a value of its kind.
TypeOK ==
    LET Events == Pods \X (Stages \ {"absent"}) IN
    /\ pod \in [Pods -> Stages] /\ up \subseteq Nodes
    /\ thread \in {"off", "list", "stream"}
    /\ stream \in Seq(Events) /\ queue \in Seq(Events) /\ Len(queue) <= QueueCap
    /\ routed \subseteq Pods /\ occupied \subseteq Pods
    /\ attempt \in [Pods -> {"none", "unbound", "bound"}]
    /\ gpu_pods \in [Pods -> Stages] /\ fresh \subseteq Pods
    /\ inventory \subseteq Nodes /\ DOMAIN free = Known(inventory)
    /\ tick \in [pc : {"idle", "pods", "listed", "nodes"}, list : [Pods -> Stages]]
    /\ faults \in 0..MaxFaults /\ relisted \subseteq Pods

\* The free map, though only the classes a record touches are derived again, and
\* none that the inventory does not know, is what the whole ledger leaves on each
\* node: "the live map and a rebuild from a snapshot agree" (set_gpu_pod,
\* _derive_node_free, install_node_inventory).
FreeAgrees == free = FreeOf(inventory, gpu_pods)

\* A rebuild never puts back an older record than the one there is: a pod that
\* bound, or was deleted, while the list was in flight is not undone
\* (rebuild_gpu_pods).
NeverBack ==
    [][TickRebuilds => \A p \in Pods : Rank(gpu_pods'[p]) >= Rank(gpu_pods[p])]_vars

\* A claim is not recorded for a pod whose deletion has been handled since the
\* patch went out: "it was deleted or went terminal, and a claim for it would hold
\* guard 5" (_note_admitted).  Excepted: a pod that a tick's older list has made
\* occupied again.
NoGhostClaim ==
    [][\A p \in Pods \ relisted :
          Notes(p) /\ gpu_pods[p] = "gone" => gpu_pods'[p] = "gone"]_vars

\* Whatever events are dropped, skipped or stale, the ledger ends up as the cluster,
\* and the free map with what is free on its nodes.
LedgerConverges ==
    <>[](/\ \A p \in Pods : Record(gpu_pods[p]) = Record(pod[p])
         /\ free = FreeOf(up, pod))

\* A pod that waits is found, whichever event of it is lost.
Discovered ==
    \A p \in Pods : [](pod[p] = "waiting" => <>(p \in routed \/ pod[p] # "waiting"))
=============================================================================
