----------------------- MODULE ReservationSyncProofs -----------------------
(* Proofs about ReservationSync. *)
EXTENDS ReservationSync, TLAPS

(***************************************************************************)
(* The inductive invariant.  HolderListedOrDoomed alone is not inductive:  *)
(* a step of a job could apply rows that lie about a lease, or read its    *)
(* clock in the future; a revoke could take the lease of an admitted pod.  *)
(***************************************************************************)

\* Rows the app can have sent: a lease is its pod's user's or nobody's, and
\* what they call cancelled is cancelled for good.
Sent(rows) ==
    /\ \A l \in Leases : rows[l] \in {None, Cancelled, UserOf[LeaseFor[l]]}
    /\ \A r \in Resv : rows[r] = Cancelled => app[r] = Cancelled

RowsInv ==
    /\ Sent(app)
    /\ \A m \in pushes : Sent(m)
    /\ \A h \in Jobs : Sent(job[h].rows)
    /\ \A l \in Leases : list[l] \in {None, UserOf[LeaseFor[l]]}

\* A job has pods to adopt or to evict only after its snapshot, and its clock
\* was read in the past.
JobInv ==
    \A h \in Jobs :
        /\ job[h].at <= now
        /\ job[h].pc # "adopt" => job[h].todo = {}
        /\ job[h].pc \notin {"adopt", "evict"} => job[h].plan = {}
        /\ \A r \in job[h].cancelled : app[r] = Cancelled

\* A lease is the reference of its own pod only, is listed while its admission
\* is under way, and is torn down once its pod is gone; it is revoked only if its
\* pod does not run under it, or its patch raced or failed.
LeaseInv ==
    /\ \A p \in Pods : /\ ref[p] \in Leases => LeaseFor[ref[p]] = p
                       /\ pod[p] = "waiting" => ref[p] = None
    /\ \A l \in Leases :
        /\ grant[l] = "admit" => list[l] = UserOf[LeaseFor[l]]
        /\ grant[l] = "cancel" => pod[LeaseFor[l]] = "gone"
        /\ grant[l] = "revoke" /\ LeaseFor[l] \notin raced \cup failed
               => ~(pod[LeaseFor[l]] = "running" /\ ref[LeaseFor[l]] = l)

IInv == RowsInv /\ JobInv /\ LeaseInv /\ EvictionsJustified /\ HolderListedOrDoomed
-----------------------------------------------------------------------------
(* Type correctness *)

LEMMA InitType ==
    ASSUME Init PROVE TypeOK
<1>1. Idle \in JobType
    BY DEF Idle, JobType, Row
<1> QED BY <1>1, ConstantsAssumption DEF Init, TypeOK, Row, Resv

\* The app changes rows to rows.
LEMMA AppChangeType ==
    ASSUME TypeOK, NEW S, NEW new, AppChange(S, new), \A r \in S : new[r] \in Row
    PROVE  TypeOK'
<1>1. \A r \in Resv : (IF r \in S THEN new[r] ELSE app[r]) \in Row
    BY DEF TypeOK
<1>2. \A r \in Resv : (IF r \in S THEN new[r] ELSE None) \in Row
    BY DEF Row
<1>3. app' \in [Resv -> Row] /\ pushes' \subseteq [Resv -> Row]
    BY <1>1, <1>2 DEF AppChange, TypeOK
<1>4. changes' \in Nat
    BY DEF AppChange, TypeOK
<1> QED BY <1>3, <1>4 DEF AppChange, TypeOK, control, cluster, history

LEMMA AppStepType ==
    ASSUME TypeOK, AppStep PROVE TypeOK'
<1> USE DEF Row
<1>1. ASSUME NEW r \in Bookings, NEW u \in Users, Book(r, u) \/ Reassign(r, u) PROVE TypeOK'
    BY <1>1, AppChangeType DEF Book, Reassign
<1>2. ASSUME NEW r \in Resv, Cancel(r) PROVE TypeOK'
    BY <1>2, AppChangeType DEF Cancel
<1>3. ASSUME NEW r \in Resv, NEW s \in Bookings, Supersede(r, s) PROVE TypeOK'
    <2>1. app[r] \in Row
        BY <1>3 DEF Supersede
    <2> QED BY <1>3, <2>1, AppChangeType DEF Supersede
<1> QED BY <1>1, <1>2, <1>3 DEF AppStep

\* The new list has active rows only.
LEMMA NewListType ==
    ASSUME TypeOK, NEW rows \in [Resv -> Row], NEW t
    PROVE  /\ Fetched(rows, t) \in [Resv -> Users \cup {None}]
           /\ Merged(rows) \in [Resv -> Users \cup {None}]
BY DEF TypeOK, Fetched, Merged, Row

LEMMA DetectedType ==
    ASSUME TypeOK, NEW rows \in [Resv -> Row], NEW t
    PROVE  /\ CancelledInWindow(rows, t) \subseteq Resv
           /\ OwnerChanged(rows, t) \subseteq Bookings \X Users
<1>1. \A b \in Bookings : list[b] \in Users \cup {None}
    BY DEF TypeOK, Resv
<1> QED BY <1>1 DEF CancelledInWindow, OwnerChanged

LEMMA ApplyType ==
    ASSUME TypeOK, NEW h \in Jobs, Apply(h) PROVE TypeOK'
<1> DEFINE rows == job[h].rows
           t == job[h].at
           new == IF h = Fetch THEN Fetched(rows, t) ELSE Merged(rows)
<1>1. job[h] \in JobType /\ rows \in [Resv -> Row]
    BY DEF TypeOK, JobType
<1>2. list' \in [Resv -> Users \cup {None}]
    <2>1. list' = new
        BY DEF Apply
    <2> QED BY <1>1, <2>1, NewListType
<1>3. queue' \in [Pods -> Bookings \cup {None}]
    BY DEF Apply, Requeued
<1>4. job' \in [Jobs -> JobType]
    <2> DEFINE cancelled == CancelledInWindow(rows, t)
               moved == OwnerChanged(rows, t)
               next == [job[h] EXCEPT !.pc = "snapshot", !.cancelled = cancelled,
                                      !.moved = moved]
    <2>1. Idle \in JobType
        BY DEF Idle, JobType, Row
    <2>2. cancelled \subseteq Resv /\ moved \subseteq Bookings \X Users
        BY <1>1, DetectedType
    <2> HIDE DEF cancelled, moved
    <2>3. next \in JobType
        BY <1>1, <2>2 DEF JobType
    <2> HIDE DEF next
    <2>4. job' = [job EXCEPT ![h] = Idle] \/ job' = [job EXCEPT ![h] = next]
        BY DEF Apply, next, cancelled, moved
    <2> QED BY <2>1, <2>3, <2>4 DEF TypeOK
<1>5. slipped' \subseteq Bookings
    BY DEF Apply, Undetected, TypeOK
<1> QED BY <1>2, <1>3, <1>4, <1>5 DEF Apply, TypeOK, cluster, bounds

\* The steps of job h that change nothing but its record.
LEMMA JobStepType ==
    ASSUME TypeOK, NEW h \in Jobs, NEW j \in JobType, job' = [job EXCEPT ![h] = j],
           UNCHANGED <<now, app, list, queue, attempt, grant, raced, slipped, changes>>,
           pushes' \subseteq pushes, faults' \in Nat, failed' \subseteq Pods,
           pod' \in [Pods -> {"waiting", "running", "ended", "gone"}],
           ref' \in [Pods -> Resv \cup {None}]
    PROVE  TypeOK'
BY DEF TypeOK

LEMMA FaultType ==
    ASSUME TypeOK, faults' = faults \/ Fault PROVE faults' \in Nat
BY DEF TypeOK, Fault

\* Snapshots, adoptions and evictions keep a job's pods and reservations typed.
LEMMA SnapshotType ==
    ASSUME TypeOK, NEW h \in Jobs, Snapshot(h) PROVE TypeOK'
<1> DEFINE running == {p \in Pods : pod[p] = "running"}
           todo == {<<p, ref[p]>> : p \in {q \in running : ref[q] \in job[h].cancelled}}
           plan == {<<p, ref[p], "reassigned">> :
                       p \in {q \in running : <<ref[q], UserOf[q]>> \in job[h].moved}}
           full == [job[h] EXCEPT !.pc = "adopt", !.todo = todo, !.plan = plan]
           empty == [job[h] EXCEPT !.pc = "adopt"]
<1>1. job[h] \in JobType /\ job[h].cancelled \subseteq Resv
      /\ job[h].moved \subseteq Bookings \X Users
    BY DEF TypeOK, JobType
<1>2. todo \subseteq Pods \X Resv
    BY <1>1
<1>3. plan \subseteq Pods \X Resv \X {"cancelled", "reassigned"}
    <2>1. ASSUME NEW p \in Pods, <<ref[p], UserOf[p]>> \in job[h].moved
          PROVE  <<p, ref[p], "reassigned">> \in Pods \X Resv \X {"cancelled", "reassigned"}
        <3>1. <<ref[p], UserOf[p]>> \in Bookings \X Users
            BY <1>1, <2>1
        <3>2. ref[p] \in Resv
            BY <3>1 DEF Resv
        <3> QED BY <3>2
    <2> QED BY <2>1
<1>4. full \in JobType /\ empty \in JobType
    <2> HIDE DEF todo, plan
    <2> QED BY <1>1, <1>2, <1>3 DEF JobType
<1>5. job' = [job EXCEPT ![h] = full] \/ job' = [job EXCEPT ![h] = empty]
    <2>1. CASE job' = [job EXCEPT ![h].pc = "adopt", ![h].todo = todo, ![h].plan = plan]
        BY <2>1
    <2>2. CASE job' = [job EXCEPT ![h].pc = "adopt"]
        BY <2>2
    <2> QED BY <2>1, <2>2 DEF Snapshot
<1> HIDE DEF full, empty
<1>6. faults' \in Nat
    BY FaultType DEF Snapshot
<1>7. /\ UNCHANGED <<now, app, list, queue, attempt, grant, raced, slipped, changes>>
      /\ UNCHANGED <<pushes, pod, ref>>
    BY DEF Snapshot, cluster
<1>8. failed' \subseteq Pods
    BY DEF Snapshot, TypeOK
<1> QED BY <1>8, <1>4, <1>5, <1>6, <1>7, JobStepType DEF TypeOK

LEMMA AdoptType ==
    ASSUME TypeOK, NEW h \in Jobs, NEW x \in job[h].todo, Adopt(h, x) PROVE TypeOK'
<1> DEFINE plan == job[h].plan \cup {<<x[1], x[2], "cancelled">>}
           moved == [job[h] EXCEPT !.todo = @ \ {x}]
           doomed == [job[h] EXCEPT !.todo = @ \ {x}, !.plan = plan]
<1>1. job[h] \in JobType /\ x \in Pods \X Resv
    BY DEF TypeOK, JobType
<1>2. plan \subseteq Pods \X Resv \X {"cancelled", "reassigned"}
    BY <1>1 DEF JobType
<1>3. moved \in JobType /\ doomed \in JobType
    <2> HIDE DEF plan
    <2> QED BY <1>1, <1>2 DEF JobType
<1>4. job' = [job EXCEPT ![h] = moved] \/ job' = [job EXCEPT ![h] = doomed]
    BY DEF Adopt
<1>5. ref' \in [Pods -> Resv \cup {None}]
    BY DEF Adopt, TypeOK, Resv
<1> HIDE DEF moved, doomed
<1>6. /\ UNCHANGED <<now, app, list, queue, attempt, grant, raced, slipped, changes>>
      /\ UNCHANGED <<pushes, pod, faults, failed>>
    BY DEF Adopt, bounds, history
<1> QED BY <1>3, <1>4, <1>5, <1>6, JobStepType DEF TypeOK

LEMMA ExecuteType ==
    ASSUME TypeOK, NEW h \in Jobs, NEW x \in job[h].plan, Execute(h, x) PROVE TypeOK'
<1> DEFINE next == [job[h] EXCEPT !.plan = @ \ {x}]
<1>1. job[h] \in JobType
    BY DEF TypeOK
<1>2. next \in JobType
    BY <1>1 DEF JobType
<1>3. job' = [job EXCEPT ![h] = next]
    BY DEF Execute
<1>4. pod' \in [Pods -> {"waiting", "running", "ended", "gone"}]
    BY DEF Execute, TypeOK
<1>5. faults' \in Nat
    BY FaultType DEF Execute
<1> HIDE DEF next
<1>6. /\ UNCHANGED <<now, app, list, queue, attempt, grant, raced, slipped, changes>>
      /\ UNCHANGED <<pushes, ref>>
    BY DEF Execute
<1>7. failed' \subseteq Pods
    BY <1>1 DEF Execute, TypeOK, JobType
<1> QED BY <1>7, <1>2, <1>3, <1>4, <1>5, <1>6, JobStepType DEF TypeOK

LEMMA LockStepType ==
    ASSUME TypeOK, NEW h \in Jobs, LockStep(h) PROVE TypeOK'
<1>1. job[h] \in JobType /\ Idle \in JobType
    BY DEF TypeOK, Idle, JobType, Row
<1>2. CASE Release(h)
    <2>1. [job[h] EXCEPT !.pc = "evict"] \in JobType
        BY <1>1 DEF JobType
    <2>2. job' = [job EXCEPT ![h] = [job[h] EXCEPT !.pc = "evict"]]
        BY <1>2 DEF Release
    <2>3. /\ UNCHANGED <<now, app, list, queue, attempt, grant, raced, slipped, changes>>
          /\ UNCHANGED <<pushes, pod, ref, faults, failed>>
        BY <1>2 DEF Release, cluster, bounds, history
    <2> QED BY <2>1, <2>2, <2>3, JobStepType DEF TypeOK
<1>3. CASE Finish(h)
    <2>1. job' = [job EXCEPT ![h] = Idle]
        BY <1>3 DEF Finish
    <2>2. /\ UNCHANGED <<now, app, list, queue, attempt, grant, raced, slipped, changes>>
          /\ UNCHANGED <<pushes, pod, ref, faults, failed>>
        BY <1>3 DEF Finish, cluster, bounds, history
    <2> QED BY <1>1, <2>1, <2>2, JobStepType DEF TypeOK
<1> QED BY <1>2, <1>3, ApplyType, SnapshotType, AdoptType, ExecuteType DEF LockStep

LEMMA FetchStepType ==
    ASSUME TypeOK, FetchStep PROVE TypeOK'
<1> Fetch \in Jobs
    BY DEF Jobs
<1>1. job[Fetch] \in JobType
    BY DEF TypeOK
<1>2. CASE FetchRead
    <2>1. [job[Fetch] EXCEPT !.pc = "maps", !.rows = app] \in JobType
        BY <1>1 DEF JobType, TypeOK
    <2>2. job' = [job EXCEPT ![Fetch] = [job[Fetch] EXCEPT !.pc = "maps", !.rows = app]]
        BY <1>2 DEF FetchRead
    <2>3. /\ UNCHANGED <<now, app, list, queue, attempt, grant, raced, slipped, changes>>
          /\ UNCHANGED <<pushes, pod, ref, faults, failed>>
        BY <1>2 DEF FetchRead, cluster, bounds, history
    <2> QED BY <2>1, <2>2, <2>3, JobStepType DEF TypeOK
<1>3. CASE FetchNow
    <2>1. [job[Fetch] EXCEPT !.pc = "lock", !.at = now] \in JobType
        BY <1>1 DEF JobType, TypeOK
    <2>2. job' = [job EXCEPT ![Fetch] = [job[Fetch] EXCEPT !.pc = "lock", !.at = now]]
        BY <1>3 DEF FetchNow
    <2>3. /\ UNCHANGED <<now, app, list, queue, attempt, grant, raced, slipped, changes>>
          /\ UNCHANGED <<pushes, pod, ref, faults, failed>>
        BY <1>3 DEF FetchNow, cluster, bounds, history
    <2> QED BY <2>1, <2>2, <2>3, JobStepType DEF TypeOK
<1> QED BY <1>2, <1>3, LockStepType DEF FetchStep

LEMMA PushType ==
    ASSUME TypeOK, NEW m \in pushes, Lose(m) \/ \E h \in Handlers : Receive(h, m)
    PROVE  TypeOK'
<1>1. CASE Lose(m)
    BY <1>1 DEF Lose, TypeOK, control, cluster, history, bounds
<1>2. ASSUME NEW h \in Handlers, Receive(h, m) PROVE TypeOK'
    <2> DEFINE next == [job[h] EXCEPT !.pc = "lock", !.rows = m, !.at = now]
    <2> h \in Jobs
        BY DEF Jobs
    <2>1. job[h] \in JobType /\ m \in [Resv -> Row]
        BY DEF TypeOK
    <2>2. next \in JobType
        BY <2>1 DEF JobType, TypeOK
    <2>3. job' = [job EXCEPT ![h] = next]
        BY <1>2 DEF Receive
    <2> HIDE DEF next
    <2>4. /\ UNCHANGED <<now, app, list, queue, attempt, grant, raced, slipped, changes>>
          /\ UNCHANGED <<pod, ref, faults, failed>> /\ pushes' \subseteq pushes
        BY <1>2 DEF Receive, cluster, bounds, history
    <2> QED BY <2>2, <2>3, <2>4, JobStepType DEF TypeOK
<1> QED BY <1>1, <1>2

LEMMA PodStepType ==
    ASSUME TypeOK, NEW p \in Pods, PodStep(p) PROVE TypeOK'
<1>1. CASE PodEnds(p)
    BY <1>1 DEF PodEnds, TypeOK, control, history, bounds
<1>2. CASE Route(p)
    BY <1>2 DEF Route, Matches, TypeOK, cluster, history, bounds
<1>3. CASE BeginAttempt(p)
    BY <1>3 DEF BeginAttempt, TypeOK, cluster, history, bounds
<1>4. CASE PatchPod(p)
    BY <1>4 DEF PatchPod, Tolerate, TypeOK, cluster, bounds, Resv
<1>5. CASE WatchGone(p)
    BY <1>5 DEF WatchGone, TypeOK, history, bounds
<1> QED BY <1>1, <1>2, <1>3, <1>4, <1>5 DEF PodStep

LEMMA LeaseStepType ==
    ASSUME TypeOK, NEW l \in Leases, Request(l) \/ LeaseStep(l) PROVE TypeOK'
<1> USE ConstantsAssumption DEF Row, Resv
<1>1. CASE Request(l)
    BY <1>1 DEF Request, TypeOK, cluster, history, bounds
<1>2. CASE ListLease(l)
    BY <1>2 DEF ListLease, TypeOK, cluster, history, bounds
<1>3. CASE AdmitLease(l)
    <2>1. faults' \in Nat
        BY <1>3, FaultType DEF AdmitLease
    <2>2. /\ grant' \in [Leases -> {"none", "granted", "admit", "revoke", "cancel"}]
          /\ raced' \subseteq Pods /\ failed' \subseteq Pods
        BY <1>3 DEF AdmitLease, TypeOK
    <2>3. /\ pod' \in [Pods -> {"waiting", "running", "ended", "gone"}]
          /\ ref' \in [Pods -> Resv \cup {None}]
        BY <1>3 DEF AdmitLease, Tolerate, TypeOK, cluster
    <2> QED BY <1>3, <2>1, <2>2, <2>3 DEF AdmitLease, TypeOK
<1>4. CASE Revoke(l)
    <2>1. faults' \in Nat
        BY <1>4, FaultType DEF Revoke
    <2> QED BY <1>4, <2>1 DEF Revoke, TypeOK, cluster, history
<1>5. CASE Teardown(l)
    <2>1. faults' \in Nat
        BY <1>5, FaultType DEF Teardown
    <2> QED BY <1>5, <2>1 DEF Teardown, TypeOK, cluster, history
<1> QED BY <1>1, <1>2, <1>3, <1>4, <1>5 DEF LeaseStep

LEMMA StepType ==
    ASSUME TypeOK, [Next]_vars PROVE TypeOK'
<1>1. CASE ClockTick
    BY <1>1 DEF ClockTick, TypeOK, control, cluster, history, bounds
<1>2. ASSUME NEW h \in Handlers, LockStep(h) PROVE TypeOK'
    BY <1>2, LockStepType DEF Jobs
<1>3. CASE UNCHANGED vars
    BY <1>3 DEF vars, TypeOK, control, cluster, history, bounds
<1> QED BY <1>1, <1>2, <1>3, AppStepType, FetchStepType, PushType, PodStepType,
           LeaseStepType DEF Next

\* Only active rows are listed, and every queue entry, admission, adoption and
\* eviction in flight refers to pods and reservations of the right kind
\* (ControllerState.reservations is replaced with active rows only).
THEOREM TypeCorrect == Spec => []TypeOK
<1>1. Init => TypeOK
    BY InitType
<1>2. TypeOK /\ [Next]_vars => TypeOK'
    BY StepType
<1> QED BY <1>1, <1>2, PTL DEF Spec

-----------------------------------------------------------------------------
(* The rows of the app, and of what is in flight *)

\* A cancelled reservation is never booked again, and a lease never changes hands.
LEMMA AppKept ==
    ASSUME TypeOK, Sent(app), [Next]_vars
    PROVE  Sent(app)' /\ \A r \in Resv : app[r] = Cancelled => app'[r] = Cancelled
<1> USE ConstantsAssumption DEF Resv
<1>1. CASE app' = app
    BY <1>1 DEF Sent
<1>2. ASSUME NEW r \in Bookings, NEW u \in Users, Book(r, u) \/ Reassign(r, u)
      PROVE  Sent(app)' /\ \A x \in Resv : app[x] = Cancelled => app'[x] = Cancelled
    BY <1>2 DEF Book, Reassign, AppChange, Sent, TypeOK
<1>3. ASSUME NEW r \in Resv, Cancel(r)
      PROVE  Sent(app)' /\ \A x \in Resv : app[x] = Cancelled => app'[x] = Cancelled
    BY <1>3 DEF Cancel, AppChange, Sent, TypeOK
<1>4. ASSUME NEW r \in Resv, NEW s \in Bookings, Supersede(r, s)
      PROVE  Sent(app)' /\ \A x \in Resv : app[x] = Cancelled => app'[x] = Cancelled
    BY <1>4 DEF Supersede, AppChange, Sent, TypeOK
<1>5. ASSUME NEW l \in Leases, Request(l) \/ Revoke(l) \/ Teardown(l)
      PROVE  Sent(app)' /\ \A x \in Resv : app[x] = Cancelled => app'[x] = Cancelled
    BY <1>5 DEF Request, Revoke, Teardown, Sent, TypeOK
<1>6. ASSUME NEW h \in Jobs, LockStep(h) PROVE app' = app
    BY <1>6 DEF LockStep, Apply, Snapshot, Adopt, Release, Execute, Finish
<1>7. CASE FetchStep
    BY <1>1, <1>6, <1>7 DEF FetchStep, FetchRead, FetchNow, Jobs
<1>8. ASSUME NEW p \in Pods, PodStep(p) PROVE app' = app
    BY <1>8 DEF PodStep, PodEnds, Route, BeginAttempt, PatchPod, WatchGone
<1>9. ASSUME NEW l \in Leases, ListLease(l) \/ AdmitLease(l) PROVE app' = app
    BY <1>9 DEF ListLease, AdmitLease
<1>10. ASSUME NEW m \in pushes, Lose(m) \/ \E h \in Handlers : Receive(h, m) PROVE app' = app
    BY <1>10 DEF Lose, Receive
<1>11. CASE ClockTick \/ UNCHANGED vars
    BY <1>1, <1>11 DEF ClockTick, vars
<1>12. \A h \in Handlers : h \in Jobs
    BY DEF Jobs
<1>13. CASE AppStep
    BY <1>2, <1>3, <1>4, <1>13 DEF AppStep
<1> QED BY <1>1, <1>5, <1>6, <1>7, <1>8, <1>9, <1>10, <1>11, <1>12, <1>13 DEF Next, LeaseStep

\* What the app sends is its new rows, or none.
LEMMA PushesSent ==
    ASSUME TypeOK, Sent(app), \A m \in pushes : Sent(m), [Next]_vars
    PROVE  \A m \in pushes' : Sent(m)'
<1> USE ConstantsAssumption DEF Resv
<1>1. Sent(app)' /\ \A r \in Resv : app[r] = Cancelled => app'[r] = Cancelled
    BY AppKept
<1>2. \A m : Sent(m) => Sent(m)'
    BY <1>1 DEF Sent
<1>3. ASSUME NEW S, NEW new, AppChange(S, new) PROVE \A m \in pushes' : Sent(m)'
    <2> DEFINE push == [r \in Resv |-> IF r \in S THEN new[r] ELSE None]
    <2>1. \A r \in Resv : push[r] \in {None, app'[r]}
        BY <1>3 DEF AppChange
    <2>2. pushes' = pushes \cup {push}
        BY <1>3 DEF AppChange
    <2> HIDE DEF push
    <2>3. Sent(push)'
        BY <1>1, <2>1 DEF Sent
    <2> QED BY <1>2, <2>2, <2>3
<1>4. CASE AppStep
    BY <1>3, <1>4 DEF AppStep, Book, Reassign, Cancel, Supersede
<1>5. ASSUME NEW h \in Jobs, LockStep(h) PROVE pushes' = pushes
    BY <1>5 DEF LockStep, Apply, Snapshot, Adopt, Release, Execute, Finish
<1>6. CASE FetchStep
    BY <1>2, <1>5, <1>6 DEF FetchStep, FetchRead, FetchNow, Jobs
<1>7. ASSUME NEW p \in Pods, PodStep(p) PROVE pushes' = pushes
    BY <1>7 DEF PodStep, PodEnds, Route, BeginAttempt, PatchPod, WatchGone
<1>8. ASSUME NEW l \in Leases, Request(l) \/ LeaseStep(l) PROVE pushes' = pushes
    BY <1>8 DEF Request, LeaseStep, ListLease, AdmitLease, Revoke, Teardown
<1>9. ASSUME NEW m \in pushes, Lose(m) \/ \E h \in Handlers : Receive(h, m)
      PROVE  pushes' \subseteq pushes
    BY <1>9 DEF Lose, Receive
<1>10. CASE ClockTick \/ UNCHANGED vars
    BY <1>2, <1>10 DEF ClockTick, vars
<1>11. \A h \in Handlers : h \in Jobs
    BY DEF Jobs
<1> QED BY <1>2, <1>4, <1>5, <1>6, <1>7, <1>8, <1>9, <1>10, <1>11 DEF Next

\* Where a job is once it has applied its rows.
LEMMA ApplyJob ==
    ASSUME TypeOK, NEW h \in Jobs, Apply(h)
    PROVE  LET cancelled == CancelledInWindow(job[h].rows, job[h].at)
               moved == OwnerChanged(job[h].rows, job[h].at)
           IN  /\ \A k \in Jobs \ {h} : job'[k] = job[k]
               /\ \/ cancelled = {} /\ moved = {} /\ job'[h] = Idle
                  \/ /\ job'[h].pc = "snapshot" /\ job'[h].rows = job[h].rows
                     /\ job'[h].at = job[h].at
                     /\ job'[h].cancelled = cancelled /\ job'[h].moved = moved
                     /\ job'[h].todo = job[h].todo /\ job'[h].plan = job[h].plan
<1> DEFINE cancelled == CancelledInWindow(job[h].rows, job[h].at)
           moved == OwnerChanged(job[h].rows, job[h].at)
           next == [job[h] EXCEPT !.pc = "snapshot", !.cancelled = cancelled, !.moved = moved]
<1>1. job' = [job EXCEPT ![h] = IF cancelled \cup moved = {} THEN Idle ELSE next]
    BY DEF Apply
<1> HIDE DEF cancelled, moved
<1>2. job[h] \in JobType /\ job \in [Jobs -> JobType]
    BY DEF TypeOK
<1>3. CASE cancelled \cup moved = {}
    BY <1>1, <1>2, <1>3 DEF cancelled, moved
<1>4. CASE cancelled \cup moved # {}
    <2>1. job'[h] = next /\ \A k \in Jobs \ {h} : job'[k] = job[k]
        BY <1>1, <1>2, <1>4
    <2>2. /\ next.pc = "snapshot" /\ next.rows = job[h].rows /\ next.at = job[h].at
          /\ next.cancelled = cancelled /\ next.moved = moved
          /\ next.todo = job[h].todo /\ next.plan = job[h].plan
        BY <1>2 DEF JobType
    <2> QED BY <2>1, <2>2 DEF cancelled, moved
<1> QED BY <1>3, <1>4

\* Where it is after its snapshot.
LEMMA SnapshotJob ==
    ASSUME TypeOK, NEW h \in Jobs, Snapshot(h)
    PROVE  LET running == {p \in Pods : pod[p] = "running"}
           IN  /\ \A k \in Jobs \ {h} : job'[k] = job[k]
               /\ job'[h].pc = "adopt" /\ job'[h].rows = job[h].rows /\ job'[h].at = job[h].at
               /\ job'[h].cancelled = job[h].cancelled /\ job'[h].moved = job[h].moved
               /\ \/ /\ job'[h].todo = {<<p, ref[p]>> :
                            p \in {q \in running : ref[q] \in job[h].cancelled}}
                     /\ job'[h].plan = {<<p, ref[p], "reassigned">> :
                            p \in {q \in running : <<ref[q], UserOf[q]>> \in job[h].moved}}
                  \/ /\ job'[h].todo = job[h].todo /\ job'[h].plan = job[h].plan
                     /\ \A p \in running : ref[p] \in job[h].cancelled
                                            \/ <<ref[p], UserOf[p]>> \in job[h].moved
                                            => p \in failed'
<1> DEFINE running == {p \in Pods : pod[p] = "running"}
           todo == {<<p, ref[p]>> : p \in {q \in running : ref[q] \in job[h].cancelled}}
           plan == {<<p, ref[p], "reassigned">> :
                       p \in {q \in running : <<ref[q], UserOf[q]>> \in job[h].moved}}
           missed == \A p \in running : ref[p] \in job[h].cancelled
                                        \/ <<ref[p], UserOf[p]>> \in job[h].moved
                                        => p \in failed'
<1>1. \/ job' = [job EXCEPT ![h].pc = "adopt", ![h].todo = todo, ![h].plan = plan]
      \/ job' = [job EXCEPT ![h].pc = "adopt"] /\ missed
    BY DEF Snapshot
<1>2. job[h] \in JobType /\ job \in [Jobs -> JobType]
    BY DEF TypeOK
<1> HIDE DEF todo, plan, missed
<1>3. CASE job' = [job EXCEPT ![h].pc = "adopt", ![h].todo = todo, ![h].plan = plan]
    <2>1. /\ \A k \in Jobs \ {h} : job'[k] = job[k]
          /\ job'[h].pc = "adopt" /\ job'[h].rows = job[h].rows /\ job'[h].at = job[h].at
          /\ job'[h].cancelled = job[h].cancelled /\ job'[h].moved = job[h].moved
          /\ job'[h].todo = todo /\ job'[h].plan = plan
        BY <1>2, <1>3 DEF JobType
    <2> QED BY <1>3, <2>1 DEF todo, plan
<1>4. CASE job' = [job EXCEPT ![h].pc = "adopt"] /\ missed
    <2>1. /\ \A k \in Jobs \ {h} : job'[k] = job[k]
          /\ job'[h].pc = "adopt" /\ job'[h].rows = job[h].rows /\ job'[h].at = job[h].at
          /\ job'[h].cancelled = job[h].cancelled /\ job'[h].moved = job[h].moved
          /\ job'[h].todo = job[h].todo /\ job'[h].plan = job[h].plan
        BY <1>2, <1>4 DEF JobType
    <2> QED BY <1>4, <2>1 DEF missed
<1> QED BY <1>1, <1>3, <1>4

\* Where it is after one adoption, or one eviction.
LEMMA AdoptJob ==
    ASSUME TypeOK, NEW h \in Jobs, NEW x, Adopt(h, x)
    PROVE  /\ \A k \in Jobs \ {h} : job'[k] = job[k]
           /\ job'[h].pc = job[h].pc /\ job'[h].rows = job[h].rows /\ job'[h].at = job[h].at
           /\ job'[h].cancelled = job[h].cancelled /\ job'[h].moved = job[h].moved
           /\ job'[h].todo = job[h].todo \ {x}
           /\ \/ /\ job'[h].plan = job[h].plan
                 /\ \E b \in Bookings : /\ list[b] = UserOf[x[1]]
                                        /\ pod[x[1]] = "running"
                                        /\ ref' = [ref EXCEPT ![x[1]] = b]
              \/ /\ job'[h].plan = job[h].plan \cup {<<x[1], x[2], "cancelled">>}
                 /\ ref' = ref
<1>1. job[h] \in JobType /\ job \in [Jobs -> JobType]
    BY DEF TypeOK
<1>2. CASE /\ job' = [job EXCEPT ![h].todo = @ \ {x}]
           /\ \E b \in Bookings : /\ list[b] = UserOf[x[1]]
                                  /\ pod[x[1]] = "running"
                                  /\ ref' = [ref EXCEPT ![x[1]] = b]
    BY <1>1, <1>2 DEF JobType
<1>3. CASE /\ job' = [job EXCEPT ![h].todo = @ \ {x},
                                 ![h].plan = @ \cup {<<x[1], x[2], "cancelled">>}]
           /\ ref' = ref
    <2> DEFINE plan == job[h].plan \cup {<<x[1], x[2], "cancelled">>}
    <2>1. job' = [job EXCEPT ![h].todo = @ \ {x}, ![h].plan = plan]
        BY <1>1, <1>3 DEF JobType
    <2> HIDE DEF plan
    <2>2. /\ \A k \in Jobs \ {h} : job'[k] = job[k]
          /\ job'[h].pc = job[h].pc /\ job'[h].rows = job[h].rows /\ job'[h].at = job[h].at
          /\ job'[h].cancelled = job[h].cancelled /\ job'[h].moved = job[h].moved
          /\ job'[h].todo = job[h].todo \ {x} /\ job'[h].plan = plan
        BY <1>1, <2>1 DEF JobType
    <2> QED BY <1>3, <2>2 DEF plan
<1> QED BY <1>2, <1>3 DEF Adopt

LEMMA ExecuteJob ==
    ASSUME TypeOK, NEW h \in Jobs, NEW x, Execute(h, x)
    PROVE  /\ \A k \in Jobs \ {h} : job'[k] = job[k]
           /\ job'[h].pc = job[h].pc /\ job'[h].rows = job[h].rows /\ job'[h].at = job[h].at
           /\ job'[h].cancelled = job[h].cancelled /\ job'[h].moved = job[h].moved
           /\ job'[h].todo = job[h].todo /\ job'[h].plan = job[h].plan \ {x}
<1>1. job[h] \in JobType /\ job \in [Jobs -> JobType]
    BY DEF TypeOK
<1>2. job' = [job EXCEPT ![h].plan = @ \ {x}]
    BY DEF Execute
<1> QED BY <1>1, <1>2 DEF JobType

\* A job's rows are the app's, or those of a push.
LEMMA JobRows ==
    ASSUME TypeOK, [Next]_vars, NEW h \in Jobs
    PROVE  job'[h].rows \in {job[h].rows, Idle.rows, app} \cup pushes
<1> USE DEF Jobs
<1>1. \A k \in Jobs : job[k] \in JobType
    BY DEF TypeOK
<1>2. ASSUME NEW k \in Jobs, LockStep(k)
      PROVE  job'[h].rows \in {job[h].rows, Idle.rows}
    <2>1. CASE h # k
        <3>1. job'[h] = job[h]
            BY <1>1, <1>2, <2>1, ApplyJob, SnapshotJob, AdoptJob, ExecuteJob
               DEF LockStep, Release, Finish, TypeOK
        <3> QED BY <3>1
    <2>2. CASE h = k /\ \/ Apply(k) \/ Snapshot(k)
                        \/ \E x : Adopt(k, x) \/ Execute(k, x)
        <3>1. job'[k] = Idle \/ job'[k].rows = job[k].rows
            BY <2>2, ApplyJob, SnapshotJob, AdoptJob, ExecuteJob
        <3> QED BY <2>2, <3>1
    <2>3. CASE h = k /\ (Release(k) \/ Finish(k))
        BY <1>1, <2>3 DEF Release, Finish, TypeOK, JobType
    <2> QED BY <1>2, <2>1, <2>2, <2>3 DEF LockStep
<1>3. CASE FetchRead \/ FetchNow
    BY <1>1, <1>3 DEF FetchRead, FetchNow, TypeOK, JobType
<1>4. ASSUME NEW m \in pushes, NEW k \in Handlers, Receive(k, m)
      PROVE  job'[h].rows \in {job[h].rows, m}
    BY <1>1, <1>4 DEF Receive, TypeOK, JobType
<1>5. CASE FetchStep
    BY <1>2, <1>3, <1>5 DEF FetchStep
<1>6. CASE ClockTick \/ AppStep \/ UNCHANGED vars
    <2>1. job' = job
        BY <1>6 DEF ClockTick, vars, AppStep, Book, Reassign, Cancel, Supersede, AppChange, control
    <2> QED BY <2>1
<1>7. ASSUME NEW p \in Pods, PodStep(p) PROVE job' = job
    BY <1>7 DEF PodStep, PodEnds, Route, BeginAttempt, PatchPod, WatchGone, control
<1>8. ASSUME NEW l \in Leases, Request(l) \/ LeaseStep(l) PROVE job' = job
    BY <1>8 DEF Request, LeaseStep, ListLease, AdmitLease, Revoke, Teardown
<1>9. ASSUME NEW m \in pushes, Lose(m) PROVE job' = job
    BY <1>9 DEF Lose, control
<1>10. \A k \in Handlers : k \in Jobs
    OBVIOUS
<1> QED BY <1>2, <1>4, <1>5, <1>6, <1>7, <1>8, <1>9, <1>10 DEF Next

\* The steps that change the list, and those that change the record of job h.
LEMMA ListSteps ==
    ASSUME TypeOK, [Next]_vars
    PROVE  \/ list' = list
           \/ \E h \in Jobs : Apply(h)
           \/ \E l \in Leases : ListLease(l) \/ Revoke(l) \/ Teardown(l)
<1>1. CASE ClockTick \/ AppStep \/ UNCHANGED vars
    BY <1>1 DEF ClockTick, vars, AppStep, Book, Reassign, Cancel, Supersede, AppChange, control
<1>2. ASSUME NEW h \in Jobs, LockStep(h) PROVE list' = list \/ Apply(h)
    BY <1>2 DEF LockStep, Snapshot, Adopt, Release, Execute, Finish
<1>3. FetchStep => list' = list \/ Apply(Fetch)
    BY <1>2 DEF FetchStep, FetchRead, FetchNow, Jobs
<1>4. ASSUME NEW p \in Pods, PodStep(p) PROVE list' = list
    BY <1>4 DEF PodStep, PodEnds, Route, BeginAttempt, PatchPod, WatchGone, control
<1>5. ASSUME NEW m \in pushes, Lose(m) \/ \E h \in Handlers : Receive(h, m) PROVE list' = list
    BY <1>5 DEF Lose, Receive, control
<1>6. ASSUME NEW l \in Leases, Request(l) \/ AdmitLease(l) PROVE list' = list
    BY <1>6 DEF Request, AdmitLease
<1>7. Fetch \in Jobs /\ \A h \in Handlers : h \in Jobs
    BY DEF Jobs
<1> QED BY <1>1, <1>2, <1>3, <1>4, <1>5, <1>6, <1>7 DEF Next, LeaseStep

LEMMA JobSteps ==
    ASSUME TypeOK, [Next]_vars, NEW h \in Jobs
    PROVE  \/ job'[h] = job[h]
           \/ Apply(h) \/ Snapshot(h) \/ Release(h) \/ Finish(h)
           \/ \E x \in job[h].todo : Adopt(h, x)
           \/ \E x \in job[h].plan : Execute(h, x)
           \/ h = Fetch /\ (FetchRead \/ FetchNow)
           \/ \E m \in pushes : Receive(h, m)
<1>1. \A k \in Jobs \ {h} : LockStep(k) => job'[h] = job[h]
    BY ApplyJob, SnapshotJob, AdoptJob, ExecuteJob DEF LockStep, Release, Finish, TypeOK
<1>2. h # Fetch => (FetchRead \/ FetchNow => job'[h] = job[h])
    BY DEF FetchRead, FetchNow, TypeOK
<1>3. \A k \in Handlers, m \in pushes : k # h /\ Receive(k, m) => job'[h] = job[h]
    BY DEF Receive, TypeOK
<1>4. CASE ClockTick \/ AppStep \/ UNCHANGED vars
    BY <1>4 DEF ClockTick, vars, AppStep, Book, Reassign, Cancel, Supersede, AppChange, control
<1>5. ASSUME NEW p \in Pods, PodStep(p) PROVE job' = job
    BY <1>5 DEF PodStep, PodEnds, Route, BeginAttempt, PatchPod, WatchGone, control
<1>6. ASSUME NEW l \in Leases, Request(l) \/ LeaseStep(l) PROVE job' = job
    BY <1>6 DEF Request, LeaseStep, ListLease, AdmitLease, Revoke, Teardown
<1>7. ASSUME NEW m \in pushes, Lose(m) PROVE job' = job
    BY <1>7 DEF Lose, control
<1>8. Fetch \in Jobs /\ \A k \in Handlers : k \in Jobs
    BY DEF Jobs
<1>9. CASE FetchStep \/ \E k \in Handlers : LockStep(k)
    <2>1. \/ FetchRead \/ FetchNow
          \/ \E k \in Jobs : LockStep(k)
        BY <1>8, <1>9 DEF FetchStep
    <2>2. ASSUME NEW k \in Jobs, LockStep(k) PROVE k = h \/ job'[h] = job[h]
        BY <1>1, <2>2
    <2>3. LockStep(h) =>
             \/ Apply(h) \/ Snapshot(h) \/ Release(h) \/ Finish(h)
             \/ \E x \in job[h].todo : Adopt(h, x)
             \/ \E x \in job[h].plan : Execute(h, x)
        BY DEF LockStep
    <2> QED BY <1>2, <2>1, <2>2, <2>3
<1> QED BY <1>3, <1>4, <1>5, <1>6, <1>7, <1>9 DEF Next

-----------------------------------------------------------------------------
(* The invariant is kept: rows and jobs *)

LEMMA RowsStep ==
    ASSUME TypeOK, IInv, [Next]_vars PROVE RowsInv'
<1> USE ConstantsAssumption DEF Resv
<1>1. Sent(app)' /\ \A r \in Resv : app[r] = Cancelled => app'[r] = Cancelled
    BY AppKept DEF IInv, RowsInv
<1>2. \A m \in pushes' : Sent(m)'
    BY PushesSent DEF IInv, RowsInv
<1>3. (\A h \in Jobs : Sent(job[h].rows))'
    <2> SUFFICES ASSUME NEW h \in Jobs PROVE Sent(job[h].rows)'
        OBVIOUS
    <2>1. Sent(Idle.rows)
        BY DEF Sent, Idle
    <2>2. \A m \in {job[h].rows, Idle.rows, app} \cup pushes : Sent(m)
        BY <2>1 DEF IInv, RowsInv
    <2>3. Sent(job'[h].rows)
        BY <2>2, JobRows
    <2> QED BY <1>1, <2>3 DEF Sent
<1>4. ASSUME NEW l \in Leases PROVE list'[l] \in {None, UserOf[LeaseFor[l]]}
    <2>1. list[l] \in {None, UserOf[LeaseFor[l]]}
        BY DEF IInv, RowsInv
    <2>2. ASSUME NEW h \in Jobs, Apply(h) PROVE list'[l] \in {None, UserOf[LeaseFor[l]]}
        <3> DEFINE rows == job[h].rows
                   t == job[h].at
        <3>1. rows[l] \in {None, Cancelled, UserOf[LeaseFor[l]]}
            BY DEF IInv, RowsInv, Sent
        <3>2. list' = IF h = Fetch THEN Fetched(rows, t) ELSE Merged(rows)
            BY <2>2 DEF Apply
        <3>3. Fetched(rows, t)[l] \in {None, rows[l], list[l]} \ {Cancelled}
              /\ Merged(rows)[l] \in {None, rows[l], list[l]} \ {Cancelled}
            <4> HIDE DEF rows, t
            <4> QED BY <2>1, <3>1 DEF Fetched, Merged
        <3> HIDE DEF rows, t
        <3> QED BY <2>1, <3>1, <3>2, <3>3
    <2>3. ASSUME NEW k \in Leases, ListLease(k) \/ Revoke(k) \/ Teardown(k)
          PROVE  list'[l] \in {None, UserOf[LeaseFor[l]]}
        BY <2>1, <2>3 DEF ListLease, Revoke, Teardown, TypeOK
    <2> QED BY <2>1, <2>2, <2>3, ListSteps
<1> QED BY <1>1, <1>2, <1>3, <1>4 DEF RowsInv

\* Time does not go back.
LEMMA NowSteps ==
    ASSUME TypeOK, [Next]_vars PROVE now' \in Nat /\ now <= now'
<1>1. ASSUME NEW h \in Jobs, LockStep(h) PROVE now' = now
    BY <1>1 DEF LockStep, Apply, Snapshot, Adopt, Release, Execute, Finish
<1>2. ASSUME NEW p \in Pods, PodStep(p) PROVE now' = now
    BY <1>2 DEF PodStep, PodEnds, Route, BeginAttempt, PatchPod, WatchGone
<1>3. ASSUME NEW l \in Leases, Request(l) \/ LeaseStep(l) PROVE now' = now
    BY <1>3 DEF Request, LeaseStep, ListLease, AdmitLease, Revoke, Teardown
<1>4. ASSUME NEW m \in pushes, Lose(m) \/ \E h \in Handlers : Receive(h, m) PROVE now' = now
    BY <1>4 DEF Lose, Receive
<1>5. Fetch \in Jobs /\ \A h \in Handlers : h \in Jobs
    BY DEF Jobs
<1>6. AppStep \/ UNCHANGED vars \/ FetchStep => now' = now
    BY <1>1, <1>5 DEF vars, AppStep, Book, Reassign, Cancel, Supersede, AppChange,
          FetchStep, FetchRead, FetchNow
<1>7. ClockTick => now' = now + 1
    BY DEF ClockTick
<1>8. now' = now \/ now' = now + 1
    BY <1>1, <1>2, <1>3, <1>4, <1>5, <1>6, <1>7 DEF Next
<1> QED BY <1>8 DEF TypeOK

LEMMA JobStep ==
    ASSUME TypeOK, IInv, [Next]_vars PROVE JobInv'
<1> SUFFICES ASSUME NEW h \in Jobs
             PROVE  /\ job'[h].at <= now'
                    /\ job'[h].pc # "adopt" => job'[h].todo = {}
                    /\ job'[h].pc \notin {"adopt", "evict"} => job'[h].plan = {}
                    /\ \A r \in job'[h].cancelled : app'[r] = Cancelled
    BY DEF JobInv
<1>1. /\ job[h] \in JobType /\ job \in [Jobs -> JobType] /\ now \in Nat
      /\ job[h].at \in Nat /\ job[h].cancelled \subseteq Resv
    BY DEF TypeOK, JobType
<1>2. now' \in Nat /\ now <= now'
    BY NowSteps
<1>3. /\ job[h].at <= now
      /\ job[h].pc # "adopt" => job[h].todo = {}
      /\ job[h].pc \notin {"adopt", "evict"} => job[h].plan = {}
      /\ \A r \in job[h].cancelled : app[r] = Cancelled
    BY DEF IInv, JobInv
<1>4. \A r \in Resv : app[r] = Cancelled => app'[r] = Cancelled
    BY AppKept DEF IInv, RowsInv
<1>5. job[h].at <= now' /\ \A r \in job[h].cancelled : app'[r] = Cancelled
    BY <1>1, <1>2, <1>3, <1>4
<1>6. CASE job'[h] = job[h]
    BY <1>3, <1>5, <1>6
<1>7. CASE Apply(h)
    <2> DEFINE cancelled == CancelledInWindow(job[h].rows, job[h].at)
               moved == OwnerChanged(job[h].rows, job[h].at)
    <2>1. \A r \in cancelled : app'[r] = Cancelled
        <3>1. \A r \in cancelled : r \in Resv /\ app[r] = Cancelled
            BY DEF CancelledInWindow, IInv, RowsInv, Sent
        <3> QED BY <1>4, <3>1
    <2>2. \/ job'[h] = Idle
          \/ /\ job'[h].pc = "snapshot" /\ job'[h].at = job[h].at
             /\ job'[h].cancelled = cancelled
             /\ job'[h].todo = job[h].todo /\ job'[h].plan = job[h].plan
        BY <1>7, ApplyJob
    <2>3. job[h].todo = {} /\ job[h].plan = {}
        BY <1>3, <1>7 DEF Apply
    <2> HIDE DEF cancelled, moved
    <2>4. CASE job'[h] = Idle
        BY <1>2, <2>4 DEF Idle
    <2> QED BY <1>5, <2>1, <2>2, <2>3, <2>4
<1>8. CASE Snapshot(h)
    <2>1. job'[h].pc = "adopt" /\ job'[h].at = job[h].at /\ job'[h].cancelled = job[h].cancelled
        BY <1>8, SnapshotJob
    <2> QED BY <1>5, <2>1
<1>9. ASSUME NEW x, Adopt(h, x)
      PROVE  /\ job'[h].pc = "adopt" /\ job'[h].at = job[h].at
             /\ job'[h].cancelled = job[h].cancelled
    BY <1>9, AdoptJob DEF Adopt
<1>10. ASSUME NEW x, Execute(h, x)
       PROVE  /\ job'[h].pc = "evict" /\ job'[h].at = job[h].at
              /\ job'[h].cancelled = job[h].cancelled /\ job'[h].todo = {}
    BY <1>3, <1>10, ExecuteJob DEF Execute
<1>11. CASE Release(h)
    BY <1>1, <1>5, <1>11 DEF Release, JobType
<1>12. CASE Finish(h)
    BY <1>1, <1>2, <1>12 DEF Finish, Idle
<1>13. CASE h = Fetch /\ FetchRead
    BY <1>1, <1>3, <1>5, <1>13 DEF FetchRead, JobType
<1>14. CASE h = Fetch /\ FetchNow
    BY <1>1, <1>2, <1>3, <1>5, <1>14 DEF FetchNow, JobType
<1>15. ASSUME NEW m \in pushes, Receive(h, m)
       PROVE  /\ job'[h].at = now /\ job'[h].cancelled = job[h].cancelled
              /\ job'[h].todo = {} /\ job'[h].plan = {}
    BY <1>1, <1>3, <1>15 DEF Receive, JobType
<1> QED BY <1>2, <1>5, <1>6, <1>7, <1>8, <1>9, <1>10, <1>11, <1>12, <1>13, <1>14, <1>15, JobSteps

LEMMA JustifiedStep ==
    ASSUME TypeOK, IInv, [Next]_vars PROVE EvictionsJustified'
<1> SUFFICES ASSUME NEW h \in Jobs
             PROVE  /\ \A x \in job'[h].todo : app'[x[2]] = Cancelled
                    /\ \A x \in job'[h].plan : x[3] = "cancelled" => app'[x[2]] = Cancelled
    BY DEF EvictionsJustified
<1>1. job[h] \in JobType /\ job \in [Jobs -> JobType]
      /\ job[h].todo \subseteq Pods \X Resv
      /\ job[h].plan \subseteq Pods \X Resv \X {"cancelled", "reassigned"}
      /\ job[h].cancelled \subseteq Resv
    BY DEF TypeOK, JobType
<1>2. \A r \in Resv : app[r] = Cancelled => app'[r] = Cancelled
    BY AppKept DEF IInv, RowsInv
<1>3. /\ \A x \in job[h].todo : app'[x[2]] = Cancelled
      /\ \A x \in job[h].plan : x[3] = "cancelled" => app'[x[2]] = Cancelled
      /\ \A r \in job[h].cancelled : app'[r] = Cancelled
    BY <1>1, <1>2 DEF IInv, EvictionsJustified, JobInv
<1>4. CASE job'[h].todo \subseteq job[h].todo /\ job'[h].plan \subseteq job[h].plan
    BY <1>3, <1>4
<1>5. CASE Snapshot(h)
    <2>1. CASE job'[h].todo = job[h].todo /\ job'[h].plan = job[h].plan
        BY <1>4, <2>1
    <2>2. CASE /\ job'[h].todo = {<<p, ref[p]>> : p \in {q \in {p \in Pods : pod[p] = "running"} :
                                                     ref[q] \in job[h].cancelled}}
               /\ job'[h].plan = {<<p, ref[p], "reassigned">> :
                                     p \in {q \in {p \in Pods : pod[p] = "running"} :
                                               <<ref[q], UserOf[q]>> \in job[h].moved}}
        <3>1. \A x \in job'[h].todo : x[2] \in job[h].cancelled
            BY <2>2
        <3>2. ASSUME NEW x \in job'[h].plan PROVE x[3] = "reassigned"
            <4>1. PICK p \in Pods : x = <<p, ref[p], "reassigned">>
                BY <2>2, <3>2, Zenon
            <4> QED BY <4>1
        <3> QED BY <1>3, <3>1, <3>2
    <2> QED BY <1>5, <2>1, <2>2, SnapshotJob
<1>6. ASSUME NEW x \in job[h].todo, Adopt(h, x)
      PROVE  /\ job'[h].todo \subseteq job[h].todo
             /\ job'[h].plan \subseteq job[h].plan \cup {<<x[1], x[2], "cancelled">>}
             /\ app'[x[2]] = Cancelled
    BY <1>3, <1>6, AdoptJob
<1>7. CASE Apply(h)
    <2>1. job'[h] = Idle \/ (job'[h].todo = job[h].todo /\ job'[h].plan = job[h].plan)
        BY <1>7, ApplyJob
    <2>2. Idle.todo = {} /\ Idle.plan = {}
        BY DEF Idle
    <2> QED BY <1>4, <2>1, <2>2
<1>8. ASSUME NEW x \in job[h].plan, Execute(h, x)
      PROVE  job'[h].todo \subseteq job[h].todo /\ job'[h].plan \subseteq job[h].plan
    BY <1>8, ExecuteJob
<1>9. CASE Release(h) \/ Finish(h)
    BY <1>1, <1>4, <1>9 DEF Release, Finish, Idle, JobType
<1>10. CASE h = Fetch /\ (FetchRead \/ FetchNow)
    BY <1>1, <1>4, <1>10 DEF FetchRead, FetchNow, JobType
<1>11. ASSUME NEW m \in pushes, Receive(h, m)
       PROVE  job'[h].todo = job[h].todo /\ job'[h].plan = job[h].plan
    BY <1>1, <1>11 DEF Receive, JobType
<1>12. CASE \E x \in job[h].todo : Adopt(h, x)
    <2>1. PICK x \in job[h].todo : Adopt(h, x)
        BY <1>12
    <2>2. \A y \in job'[h].todo : y \in job[h].todo
        BY <1>6, <2>1
    <2>3. \A y \in job'[h].plan : y \in job[h].plan \/ y[2] = x[2]
        BY <1>6, <2>1
    <2> QED BY <1>3, <1>6, <2>1, <2>2, <2>3
<1> QED BY <1>4, <1>5, <1>7, <1>8, <1>9, <1>10, <1>11, <1>12, JobSteps

-----------------------------------------------------------------------------
(* The invariant is kept: pods and leases *)

\* Nothing in the history is forgotten.
LEMMA HistorySteps ==
    ASSUME TypeOK, [Next]_vars
    PROVE  raced \subseteq raced' /\ slipped \subseteq slipped' /\ failed \subseteq failed'
<1> DEFINE Kept == raced \subseteq raced' /\ slipped \subseteq slipped' /\ failed \subseteq failed'
<1>1. ASSUME NEW h \in Jobs, LockStep(h) PROVE Kept
    BY <1>1 DEF LockStep, Apply, Snapshot, Adopt, Release, Execute, Finish, history
<1>2. ASSUME NEW p \in Pods, PodStep(p) PROVE Kept
    BY <1>2 DEF PodStep, PodEnds, Route, BeginAttempt, PatchPod, WatchGone, history
<1>3. ASSUME NEW l \in Leases, Request(l) \/ LeaseStep(l) PROVE Kept
    BY <1>3 DEF Request, LeaseStep, ListLease, AdmitLease, Revoke, Teardown, history
<1>4. ASSUME NEW m \in pushes, Lose(m) \/ \E h \in Handlers : Receive(h, m) PROVE Kept
    BY <1>4 DEF Lose, Receive, history
<1>5. Fetch \in Jobs /\ \A h \in Handlers : h \in Jobs
    BY DEF Jobs
<1>6. CASE ClockTick \/ AppStep \/ UNCHANGED vars
    BY <1>6 DEF ClockTick, vars, AppStep, Book, Reassign, Cancel, Supersede, AppChange, history
<1>7. CASE FetchStep
    BY <1>1, <1>5, <1>7 DEF FetchStep, FetchRead, FetchNow, history
<1> QED BY <1>1, <1>2, <1>3, <1>4, <1>5, <1>6, <1>7 DEF Next

\* What can happen to a pod and its reference: it ends, or is admitted to the
\* booking of its attempt or to its lease, or is adopted; none comes back.
LEMMA PodSteps ==
    ASSUME TypeOK, LeaseInv, [Next]_vars, NEW p \in Pods
    PROVE  \/ pod'[p] = pod[p] /\ ref'[p] = ref[p]
           \/ pod'[p] \in {"ended", "gone"} /\ ref'[p] = ref[p] /\ pod[p] # "gone"
           \/ /\ pod[p] \in {"waiting", "running"} /\ pod'[p] = "running"
              /\ list' = list /\ grant' = grant
              /\ ref'[p] \in Bookings
              /\ list[ref'[p]] = UserOf[p] \/ p \in raced'
           \/ \E l \in Leases :
                 /\ LeaseFor[l] = p /\ AdmitLease(l) /\ list' = list
                 /\ pod[p] \in {"waiting", "running"} /\ pod'[p] = "running" /\ ref'[p] = l
<1> DEFINE Same == pod'[p] = pod[p] /\ ref'[p] = ref[p]
           Ends == pod'[p] \in {"ended", "gone"} /\ ref'[p] = ref[p] /\ pod[p] # "gone"
           Admitted == /\ pod[p] \in {"waiting", "running"} /\ pod'[p] = "running"
                       /\ list' = list /\ grant' = grant
                       /\ ref'[p] \in Bookings
                       /\ list[ref'[p]] = UserOf[p] \/ p \in raced'
           Leased == \E l \in Leases :
                 /\ LeaseFor[l] = p /\ AdmitLease(l) /\ list' = list
                 /\ pod[p] \in {"waiting", "running"} /\ pod'[p] = "running" /\ ref'[p] = l
<1>1. /\ pod \in [Pods -> {"waiting", "running", "ended", "gone"}]
      /\ ref \in [Pods -> Resv \cup {None}] /\ attempt \in [Pods -> Bookings \cup {None}]
    BY DEF TypeOK
<1>2. CASE pod' = pod /\ ref' = ref
    BY <1>2
<1>3. ASSUME NEW h \in Jobs, NEW x, Adopt(h, x) PROVE Same \/ Admitted
    <2>1. CASE ref' = ref
        BY <1>3, <2>1 DEF Adopt
    <2>2. ASSUME NEW b \in Bookings, list[b] = UserOf[x[1]], pod[x[1]] = "running",
                 ref' = [ref EXCEPT ![x[1]] = b]
          PROVE  Same \/ Admitted
        BY <1>1, <1>3, <2>2 DEF Adopt
    <2> QED BY <1>3, <2>1, <2>2 DEF Adopt
<1>4. ASSUME NEW h \in Jobs, NEW x \in job[h].plan, Execute(h, x) PROVE Same \/ Ends
    <2>1. ref' = ref
        BY <1>4 DEF Execute
    <2>2. pod' = [pod EXCEPT ![x[1]] = IF @ = "running" THEN "ended" ELSE @] \/ pod' = pod
        BY <1>4 DEF Execute
    <2>3. pod'[p] = pod[p] \/ (pod[p] = "running" /\ pod'[p] = "ended")
        BY <1>1, <2>2
    <2> QED BY <2>1, <2>3
<1>5. ASSUME NEW h \in Jobs, LockStep(h) PROVE Same \/ Ends \/ Admitted
    <2>1. CASE Apply(h) \/ Snapshot(h) \/ Release(h) \/ Finish(h)
        BY <1>2, <2>1 DEF Apply, Snapshot, Release, Finish, cluster
    <2> QED BY <1>3, <1>4, <1>5, <2>1 DEF LockStep
<1>6. ASSUME NEW q \in Pods, PodStep(q) PROVE Same \/ Ends \/ Admitted
    <2>1. CASE PodEnds(q)
        BY <1>1, <2>1 DEF PodEnds
    <2>2. CASE Route(q) \/ BeginAttempt(q)
        BY <1>2, <2>2 DEF Route, BeginAttempt, cluster
    <2>3. CASE PatchPod(q)
        <3>1. CASE UNCHANGED cluster
            BY <3>1 DEF cluster
        <3>2. CASE /\ pod[q] \in {"waiting", "running"}
                   /\ pod' = [pod EXCEPT ![q] = "running"]
                   /\ ref' = [ref EXCEPT ![q] = attempt[q]]
            <4>1. CASE q # p
                BY <1>1, <3>2, <4>1
            <4>2. CASE q = p
                <5>1. /\ attempt[p] \in Bookings /\ list' = list /\ grant' = grant
                      /\ raced' = IF ref' # ref /\ list[attempt[p]] # UserOf[p]
                                  THEN raced \cup {p} ELSE raced
                    BY <1>1, <2>3, <4>2 DEF PatchPod
                <5>2. pod'[p] = "running" /\ ref'[p] = attempt[p]
                    BY <1>1, <3>2, <4>2
                <5>3. CASE ref' # ref
                    BY <3>2, <4>2, <5>1, <5>2, <5>3
                <5>4. CASE ref' = ref /\ pod[p] = "running"
                    BY <5>2, <5>4
                <5>5. CASE ref' = ref /\ pod[p] = "waiting"
                    <6>1. ref[p] = None /\ ref'[p] \in Bookings
                        BY <4>2, <5>1, <5>2, <5>5 DEF LeaseInv
                    <6> QED BY <5>5, <6>1, ConstantsAssumption DEF Resv
                <5> QED BY <3>2, <4>2, <5>3, <5>4, <5>5
            <4> QED BY <4>1, <4>2
        <3> QED BY <2>3, <3>1, <3>2 DEF PatchPod, Tolerate
    <2>4. CASE WatchGone(q)
        BY <1>1, <2>4 DEF WatchGone
    <2> QED BY <1>6, <2>1, <2>2, <2>3, <2>4 DEF PodStep
<1>7. ASSUME NEW l \in Leases, AdmitLease(l) PROVE Same \/ Leased
    <2>1. LeaseFor[l] \in Pods /\ list' = list
        BY <1>7, ConstantsAssumption DEF AdmitLease
    <2>2. CASE UNCHANGED cluster
        BY <2>2 DEF cluster
    <2>3. CASE /\ pod[LeaseFor[l]] \in {"waiting", "running"}
               /\ pod' = [pod EXCEPT ![LeaseFor[l]] = "running"]
               /\ ref' = [ref EXCEPT ![LeaseFor[l]] = l]
        <3>1. CASE LeaseFor[l] = p
            BY <1>1, <1>7, <2>1, <2>3, <3>1
        <3>2. CASE LeaseFor[l] # p
            BY <1>1, <2>1, <2>3, <3>2
        <3> QED BY <3>1, <3>2
    <2> QED BY <1>7, <2>2, <2>3 DEF AdmitLease, Tolerate
<1>8. ASSUME NEW l \in Leases, Request(l) \/ LeaseStep(l) PROVE Same \/ Leased
    BY <1>7, <1>8 DEF Request, LeaseStep, ListLease, Revoke, Teardown, cluster
<1>9. ASSUME NEW m \in pushes, Lose(m) \/ \E h \in Handlers : Receive(h, m) PROVE Same
    BY <1>9 DEF Lose, Receive, cluster
<1>10. ASSUME ClockTick \/ AppStep \/ FetchRead \/ FetchNow \/ UNCHANGED vars PROVE Same
    BY <1>10 DEF ClockTick, AppStep, Book, Reassign, Cancel, Supersede, AppChange,
          FetchRead, FetchNow, vars, cluster
<1>11. Fetch \in Jobs /\ \A h \in Handlers : h \in Jobs
    BY DEF Jobs
<1> HIDE DEF Same, Ends, Admitted, Leased
<1>12. Same \/ Ends \/ Admitted \/ Leased
    BY <1>5, <1>6, <1>8, <1>9, <1>10, <1>11 DEF Next, FetchStep
<1> QED BY <1>12 DEF Same, Ends, Admitted, Leased

\* The steps that move the grant of lease l.
LEMMA GrantSteps ==
    ASSUME TypeOK, [Next]_vars, NEW l \in Leases
    PROVE  \/ grant'[l] = grant[l]
           \/ grant'[l] \in {"none", "granted"}
           \/ ListLease(l) /\ grant'[l] = "admit"
           \/ AdmitLease(l) /\ grant'[l] = "revoke"
           \/ \E p \in Pods : ref[p] = l /\ pod' = [pod EXCEPT ![p] = "gone"] /\ grant'[l] = "cancel"
<1>1. grant \in [Leases -> {"none", "granted", "admit", "revoke", "cancel"}]
    BY DEF TypeOK
<1>2. ASSUME NEW h \in Jobs, LockStep(h) PROVE grant' = grant
    BY <1>2 DEF LockStep, Apply, Snapshot, Adopt, Release, Execute, Finish
<1>3. FetchStep => grant' = grant
    BY <1>2 DEF FetchStep, FetchRead, FetchNow, Jobs
<1>4. ASSUME NEW p \in Pods, PodStep(p)
      PROVE  \/ grant'[l] = grant[l]
             \/ ref[p] = l /\ pod' = [pod EXCEPT ![p] = "gone"] /\ grant'[l] = "cancel"
    <2>1. CASE WatchGone(p)
        BY <1>1, <2>1 DEF WatchGone
    <2> QED BY <1>4, <2>1 DEF PodStep, PodEnds, Route, BeginAttempt, PatchPod, control
<1>5. ASSUME NEW m \in pushes, Lose(m) \/ \E h \in Handlers : Receive(h, m) PROVE grant' = grant
    BY <1>5 DEF Lose, Receive, control
<1>6. CASE ClockTick \/ AppStep \/ UNCHANGED vars
    BY <1>6 DEF ClockTick, AppStep, Book, Reassign, Cancel, Supersede, AppChange, vars, control
<1>7. ASSUME NEW k \in Leases, Request(k) \/ LeaseStep(k)
      PROVE  \/ grant'[l] = grant[l]
             \/ grant'[l] \in {"none", "granted"}
             \/ ListLease(l) /\ grant'[l] = "admit"
             \/ AdmitLease(l) /\ grant'[l] = "revoke"
    <2>1. CASE AdmitLease(k)
        BY <1>1, <2>1 DEF AdmitLease
    <2>2. CASE Request(k) \/ ListLease(k) \/ Revoke(k) \/ Teardown(k)
        BY <1>1, <2>2 DEF Request, ListLease, Revoke, Teardown
    <2> QED BY <1>7, <2>1, <2>2 DEF LeaseStep
<1>8. \A h \in Handlers : h \in Jobs
    BY DEF Jobs
<1> QED BY <1>2, <1>3, <1>4, <1>5, <1>6, <1>7, <1>8 DEF Next

LEMMA LeaseInvStep ==
    ASSUME TypeOK, IInv, [Next]_vars PROVE LeaseInv'
<1> USE ConstantsAssumption DEF Resv
<1>1. LeaseInv /\ \A l \in Leases : LeaseFor[l] \in Pods
    BY DEF IInv
<1>2. /\ pod \in [Pods -> {"waiting", "running", "ended", "gone"}]
      /\ ref \in [Pods -> Resv \cup {None}]
      /\ grant \in [Leases -> {"none", "granted", "admit", "revoke", "cancel"}]
    BY DEF TypeOK
<1>3. raced \subseteq raced' /\ failed \subseteq failed'
    BY HistorySteps
<1>4. ASSUME NEW p \in Pods
      PROVE  /\ ref'[p] \in Leases => LeaseFor[ref'[p]] = p
             /\ pod'[p] = "waiting" => ref'[p] = None
    <2>1. /\ ref[p] \in Leases => LeaseFor[ref[p]] = p
          /\ pod[p] = "waiting" => ref[p] = None
        BY <1>1 DEF LeaseInv
    <2> QED BY <1>1, <2>1, PodSteps
<1>5. ASSUME NEW l \in Leases, grant'[l] = "admit" PROVE list'[l] = UserOf[LeaseFor[l]]
    <2>1. CASE ListLease(l)
        BY <2>1 DEF ListLease, TypeOK
    <2>2. CASE grant[l] = "admit"
        <3>1. list[l] = UserOf[LeaseFor[l]] /\ ~LockFree
            BY <1>1, <2>2 DEF LeaseInv, LockFree
        <3>2. \A h \in Jobs : ~Apply(h)
            BY <3>1 DEF Apply
        <3>3. \A k \in Leases : ListLease(k) \/ Revoke(k) \/ Teardown(k) => list'[l] = list[l]
            BY <1>2, <2>2, <1>5, <3>1 DEF ListLease, Revoke, Teardown, TypeOK
        <3> QED BY <3>1, <3>2, <3>3, ListSteps
    <2> QED BY <1>5, <2>1, <2>2, GrantSteps
<1>6. ASSUME NEW l \in Leases, grant'[l] = "cancel" PROVE pod'[LeaseFor[l]] = "gone"
    <2>1. ASSUME NEW p \in Pods, ref[p] = l, pod' = [pod EXCEPT ![p] = "gone"]
          PROVE  pod'[LeaseFor[l]] = "gone"
        <3>1. LeaseFor[l] = p
            BY <1>1, <2>1 DEF LeaseInv
        <3> QED BY <1>2, <2>1, <3>1
    <2>2. CASE grant[l] = "cancel"
        <3>1. pod[LeaseFor[l]] = "gone"
            BY <1>1, <2>2 DEF LeaseInv
        <3> QED BY <1>1, <3>1, PodSteps
    <2> QED BY <1>6, <2>1, <2>2, GrantSteps
<1>7. ASSUME NEW l \in Leases, grant'[l] = "revoke", LeaseFor[l] \notin raced' \cup failed',
             pod'[LeaseFor[l]] = "running", ref'[LeaseFor[l]] = l
      PROVE  FALSE
    <2>1. ~AdmitLease(l)
        <3> SUFFICES ASSUME AdmitLease(l) PROVE FALSE
            OBVIOUS
        <3>1. \/ grant' = [grant EXCEPT ![l] = "none"]
              \/ raced' = raced \cup {LeaseFor[l]}
              \/ failed' = failed \cup {LeaseFor[l]}
              \/ pod[LeaseFor[l]] \notin {"waiting", "running"} /\ UNCHANGED cluster
            BY DEF AdmitLease
        <3> QED BY <1>2, <1>7, <3>1 DEF cluster
    <2>2. grant[l] = "revoke"
        BY <1>7, <2>1, GrantSteps
    <2>3. ~(pod[LeaseFor[l]] = "running" /\ ref[LeaseFor[l]] = l)
        BY <1>1, <1>3, <1>7, <2>2 DEF LeaseInv
    <2> QED BY <1>1, <1>7, <2>1, <2>3, PodSteps
<1> QED BY <1>4, <1>5, <1>6, <1>7 DEF LeaseInv

-----------------------------------------------------------------------------
(* The invariant is kept: no pod is left behind *)

\* A pod that is admitted or adopted is listed, or its patch raced.
LEMMA AdmittedListed ==
    ASSUME TypeOK, IInv, [Next]_vars, NEW p \in Pods, p \notin raced',
           pod'[p] = "running", ~(pod[p] = "running" /\ ref'[p] = ref[p])
    PROVE  list'[ref'[p]] = UserOf[p]
<1>1. CASE \E l \in Leases : /\ LeaseFor[l] = p /\ AdmitLease(l) /\ list' = list
                             /\ pod'[p] = "running" /\ ref'[p] = l
    BY <1>1 DEF AdmitLease, IInv, LeaseInv
<1>2. LeaseInv
    BY DEF IInv
<1> QED BY <1>1, <1>2, PodSteps

\* A row that takes the reservation r of a pod's user from the list, inside its
\* window, is one that a detector sees or counts as slipped.
LEMMA TakenDetected ==
    ASSUME TypeOK, IInv, NEW h \in Jobs, Apply(h),
           NEW p \in Pods, NEW r \in Resv, now < End[r], list[r] = UserOf[p],
           r \in Leases => LeaseFor[r] = p,
           list'[r] # UserOf[p], r \notin slipped'
    PROVE  \/ r \in CancelledInWindow(job[h].rows, job[h].at)
           \/ <<r, UserOf[p]>> \in OwnerChanged(job[h].rows, job[h].at)
<1> DEFINE rows == job[h].rows
           t == job[h].at
           new == IF h = Fetch THEN Fetched(rows, t) ELSE Merged(rows)
<1>1. /\ rows \in [Resv -> Row] /\ t \in Nat /\ now \in Nat /\ End[r] \in Nat
      /\ UserOf[p] \in Users
    BY ConstantsAssumption DEF TypeOK, JobType
<1>2. t < End[r]
    <2>1. t <= now
        BY DEF IInv, JobInv
    <2> QED BY <1>1, <2>1
<1>3. list' = new /\ Undetected(rows, t, new) \subseteq slipped'
    BY DEF Apply
<1>4. None \notin Users /\ Cancelled \notin Users /\ None # Cancelled
    BY ConstantsAssumption
<1> HIDE DEF rows, t
<1>5. CASE rows[r] = Cancelled
    BY <1>1, <1>2, <1>4, <1>5 DEF CancelledInWindow, rows, t
<1>6. CASE r \in Leases /\ rows[r] # Cancelled
    <2>1. rows[r] \in {None, UserOf[p]}
        BY <1>6 DEF IInv, RowsInv, Sent, rows
    <2>2. new[r] = UserOf[p]
        BY <1>1, <1>2, <1>4, <1>6, <2>1 DEF Fetched, Merged, Preserved
    <2> QED BY <1>3, <2>2
<1>7. CASE r \in Bookings /\ rows[r] = None
    <2>1. r \in Undetected(rows, t, new)
        BY <1>1, <1>3, <1>4, <1>7 DEF Undetected
    <2> QED BY <1>3, <2>1
<1>8. CASE r \in Bookings /\ rows[r] \in Users
    <2>1. new[r] = rows[r] /\ rows[r] # list[r]
        BY <1>3, <1>4, <1>8 DEF Fetched, Merged
    <2>2. t < Start[r] => r \in Undetected(rows, t, new)
        BY <1>1, <1>4, <1>8, <2>1 DEF Undetected
    <2>3. Start[r] <= t
        BY <1>1, <1>3, <2>2, ConstantsAssumption
    <2>4. <<r, list[r]>> \in OwnerChanged(rows, t)
        BY <1>1, <1>2, <1>4, <1>8, <2>1, <2>3 DEF OwnerChanged, Open
    <2> QED BY <2>4 DEF rows, t
<1> QED BY <1>1, <1>5, <1>6, <1>7, <1>8 DEF Resv, Row

\* A pod that is listed stays so, or is doomed by the step that takes its
\* reservation from the list.
LEMMA ListedKept ==
    ASSUME TypeOK, IInv, [Next]_vars, NEW p \in Pods, NEW r \in Resv,
           p \notin raced' \cup failed', r \notin slipped',
           pod[p] = "running", ref[p] = r, now < End[r], list[r] = UserOf[p]
    PROVE  list'[r] = UserOf[p] \/ \E h \in Jobs : Doomed(h, p, r)'
<1>1. r \in Leases => LeaseFor[r] = p
    BY DEF IInv, LeaseInv
<1>2. CASE list' = list
    BY <1>2
<1>3. ASSUME NEW h \in Jobs, Apply(h), list'[r] # UserOf[p] PROVE Doomed(h, p, r)'
    <2>1. \/ r \in CancelledInWindow(job[h].rows, job[h].at)
          \/ <<r, UserOf[p]>> \in OwnerChanged(job[h].rows, job[h].at)
        BY <1>1, <1>3, TakenDetected
    <2>2. /\ job'[h].pc = "snapshot"
          /\ job'[h].cancelled = CancelledInWindow(job[h].rows, job[h].at)
          /\ job'[h].moved = OwnerChanged(job[h].rows, job[h].at)
        BY <1>3, <2>1, ApplyJob
    <2> QED BY <2>1, <2>2 DEF Doomed
<1>4. ASSUME NEW l \in Leases, ListLease(l) PROVE list'[r] = UserOf[p]
    BY <1>1, <1>4 DEF ListLease, TypeOK
<1>5. ASSUME NEW l \in Leases, Revoke(l) \/ Teardown(l) PROVE list'[r] = UserOf[p]
    <2>1. p \notin raced \cup failed
        BY HistorySteps
    <2>2. l # r
        BY <1>1, <1>5, <2>1 DEF IInv, LeaseInv, Revoke, Teardown
    <2> QED BY <1>5, <2>2 DEF Revoke, Teardown, TypeOK
<1> QED BY <1>2, <1>3, <1>4, <1>5, ListSteps

\* A pod that is doomed stays so until it is evicted or adopted.
LEMMA DoomedKept ==
    ASSUME TypeOK, IInv, [Next]_vars, NEW p \in Pods, NEW r \in Resv, NEW h \in Jobs,
           p \notin failed', pod[p] = "running", ref[p] = r, pod'[p] = "running", ref'[p] = r,
           Doomed(h, p, r)
    PROVE  list'[r] = UserOf[p] \/ Doomed(h, p, r)'
<1>1. /\ job[h].pc # "adopt" => job[h].todo = {}
      /\ job[h].pc \notin {"adopt", "evict"} => job[h].plan = {}
    BY DEF IInv, JobInv
<1>2. job[h].pc \in {"snapshot", "adopt", "evict"}
    BY <1>1 DEF Doomed
<1>3. CASE job'[h] = job[h]
    BY <1>3 DEF Doomed
<1>4. CASE Snapshot(h)
    <2>1. job[h].todo = {} /\ job[h].plan = {}
        BY <1>1, <1>4 DEF Snapshot
    <2>2. r \in job[h].cancelled \/ <<r, UserOf[p]>> \in job[h].moved
        BY <2>1 DEF Doomed
    <2>3. /\ job'[h].todo = {<<q, ref[q]>> : q \in {q \in {q \in Pods : pod[q] = "running"} :
                                               ref[q] \in job[h].cancelled}}
          /\ job'[h].plan = {<<q, ref[q], "reassigned">> :
                                q \in {q \in {q \in Pods : pod[q] = "running"} :
                                          <<ref[q], UserOf[q]>> \in job[h].moved}}
        BY <1>4, <2>2, SnapshotJob
    <2>4. CASE r \in job[h].cancelled
        <3>1. <<p, r>> \in job'[h].todo
            BY <2>3, <2>4
        <3> QED BY <3>1 DEF Doomed
    <2>5. CASE <<r, UserOf[p]>> \in job[h].moved
        <3>1. <<p, r, "reassigned">> \in job'[h].plan
            BY <2>3, <2>5
        <3> QED BY <3>1 DEF Doomed
    <2> QED BY <2>2, <2>4, <2>5
<1>5. ASSUME NEW x \in job[h].todo, Adopt(h, x)
      PROVE  list'[r] = UserOf[p] \/ Doomed(h, p, r)'
    <2>1. /\ job[h].pc = "adopt" /\ job'[h].todo = job[h].todo \ {x}
          /\ job[h].plan \subseteq job'[h].plan /\ list' = list
        BY <1>5, AdoptJob DEF Adopt
    <2>2. CASE x # <<p, r>> \/ <<p, r>> \notin job[h].todo
        BY <2>1, <2>2 DEF Doomed
    <2>3. CASE x = <<p, r>>
        <3>1. x[1] = p /\ x[2] = r
            BY <2>3
        <3>2. ASSUME NEW b \in Bookings, list[b] = UserOf[p], ref' = [ref EXCEPT ![p] = b]
              PROVE  list'[r] = UserOf[p]
            BY <2>1, <3>2 DEF TypeOK
        <3>3. CASE job'[h].plan = job[h].plan \cup {<<p, r, "cancelled">>}
            BY <3>3 DEF Doomed
        <3> QED BY <1>5, <3>1, <3>2, <3>3, AdoptJob
    <2> QED BY <2>2, <2>3
<1>6. CASE Release(h)
    <2>1. job[h].todo = {} /\ job[h].pc = "adopt" /\ job'[h].plan = job[h].plan
        BY <1>6 DEF Release, TypeOK, JobType
    <2> QED BY <2>1 DEF Doomed
<1>7. ASSUME NEW x \in job[h].plan, Execute(h, x) PROVE Doomed(h, p, r)'
    <2>1. /\ job[h].pc = "evict" /\ job[h].todo = {} /\ job'[h].plan = job[h].plan \ {x}
        BY <1>1, <1>7, ExecuteJob DEF Execute
    <2>2. PICK why \in {"cancelled", "reassigned"} : <<p, r, why>> \in job[h].plan
        BY <2>1 DEF Doomed
    <2>3. x # <<p, r, why>>
        <3> SUFFICES ASSUME x = <<p, r, why>> PROVE FALSE
            OBVIOUS
        <3>1. x[1] = p
            OBVIOUS
        <3>2. pod' = [pod EXCEPT ![p] = IF @ = "running" THEN "ended" ELSE @]
            BY <1>7, <3>1 DEF Execute
        <3> QED BY <3>2 DEF TypeOK
    <2>4. <<p, r, why>> \in job'[h].plan
        BY <2>1, <2>2, <2>3
    <2> QED BY <2>4 DEF Doomed
<1>8. ~Finish(h)
    BY <1>1 DEF Finish, Doomed
<1>9. ~Apply(h) /\ ~(h = Fetch /\ (FetchRead \/ FetchNow)) /\ \A m \in pushes : ~Receive(h, m)
    BY <1>2 DEF Apply, FetchRead, FetchNow, Receive
<1> QED BY <1>3, <1>4, <1>5, <1>6, <1>7, <1>8, <1>9, JobSteps

LEMMA HolderStep ==
    ASSUME TypeOK, IInv, [Next]_vars PROVE HolderListedOrDoomed'
<1> SUFFICES ASSUME NEW p \in Pods, p \notin raced' \cup failed', NEW r \in Resv, r \notin slipped',
                    pod'[p] = "running", ref'[p] = r, now' < End[r]
             PROVE  list'[r] = UserOf[p] \/ \E h \in Jobs : Doomed(h, p, r)'
    BY DEF HolderListedOrDoomed
<1>1. CASE ~(pod[p] = "running" /\ ref[p] = r)
    BY <1>1, AdmittedListed
<1>2. CASE pod[p] = "running" /\ ref[p] = r
    <2>1. p \notin raced \cup failed /\ r \notin slipped
        BY HistorySteps
    <2>2. now < End[r]
        <3>1. now \in Nat /\ now' \in Nat /\ now <= now' /\ End[r] \in Nat
            BY NowSteps, ConstantsAssumption DEF TypeOK
        <3> QED BY <3>1
    <2>3. list[r] = UserOf[p] \/ \E h \in Jobs : Doomed(h, p, r)
        BY <1>2, <2>1, <2>2 DEF IInv, HolderListedOrDoomed
    <2> QED BY <1>2, <2>2, <2>3, ListedKept, DoomedKept
<1> QED BY <1>1, <1>2

-----------------------------------------------------------------------------
(* The theorems *)

LEMMA InitIInv ==
    ASSUME Init PROVE IInv
<1>1. \A h \in Jobs : job[h] = Idle
    BY DEF Init
<1>2. Sent(app) /\ Sent(Idle.rows) /\ pushes = {} /\ list = app
    BY ConstantsAssumption DEF Init, Sent, Idle, Resv
<1>3. RowsInv
    BY <1>1, <1>2, ConstantsAssumption DEF Init, RowsInv, Resv
<1>4. JobInv /\ EvictionsJustified
    BY <1>1 DEF Init, JobInv, EvictionsJustified, Idle
<1>5. LeaseInv /\ HolderListedOrDoomed
    BY ConstantsAssumption DEF Init, LeaseInv, HolderListedOrDoomed, Resv
<1> QED BY <1>3, <1>4, <1>5 DEF IInv

LEMMA Inductive == Spec => [](TypeOK /\ IInv)
<1>1. Init => TypeOK /\ IInv
    BY InitType, InitIInv
<1>2. TypeOK /\ IInv /\ [Next]_vars => (TypeOK /\ IInv)'
    BY StepType, RowsStep, JobStep, LeaseInvStep, JustifiedStep, HolderStep DEF IInv
<1> QED BY <1>1, <1>2, PTL DEF Spec

\* A pod inside its window runs under a reservation that is listed for its user,
\* or it is about to be adopted or evicted, whatever calls fail for other pods;
\* unless its own patch raced or failed, its eviction failed, or its booking
\* slipped past the detectors: replacing the list leaves no pod behind
\* (fetch_and_update, apply_reservation_push, _grant_and_admit).
THEOREM HoldersKept == Spec => []HolderListedOrDoomed
<1>1. TypeOK /\ IInv => HolderListedOrDoomed
    BY DEF IInv
<1> QED BY <1>1, Inductive, PTL

\* A pod is adopted away from, or evicted for, a cancelled reservation only if
\* the app cancelled it (_plan_cancelled_reservations).
THEOREM EvictionsAreJustified == Spec => []EvictionsJustified
<1>1. TypeOK /\ IInv => EvictionsJustified
    BY DEF IInv
<1> QED BY <1>1, Inductive, PTL
=============================================================================
