--------------------------- MODULE AdmissionProofs ---------------------------
(***************************************************************************)
(* Proofs about Admission, for every set of pods and reservations and      *)
(* every value of the other constants: types, the ledger and the budget,   *)
(* no pod before its slot, the refinement of Bookings, and where a         *)
(* holder's record may be lost.                                            *)
(***************************************************************************)
EXTENDS Admission, FiniteSetTheorems, SequenceTheorems, TLAPS

-----------------------------------------------------------------------------
(* SumGpus *)

GpuPairs(S) == {x \in S \X (1..MaxGpus) : x[2] <= Gpus[x[1]]}

\* The sum over a set of pods is a natural number (available() is defined).
LEMMA SumGpusNat ==
    ASSUME NEW S \in SUBSET Pods
    PROVE  IsFiniteSet(GpuPairs(S)) /\ SumGpus(S) \in Nat
<1>1. IsFiniteSet(S) /\ IsFiniteSet(1..MaxGpus)
    BY FS_Subset, FS_Interval, ConstantsAssumption
<1>2. IsFiniteSet(S \X (1..MaxGpus))
    BY <1>1, FS_Product
<1>3. GpuPairs(S) \in SUBSET (S \X (1..MaxGpus))
    BY DEF GpuPairs
<1>4. IsFiniteSet(GpuPairs(S))
    BY <1>2, <1>3, FS_Subset
<1> QED BY <1>4, FS_CardinalityType DEF SumGpus, GpuPairs

\* More pods never use fewer GPUs.
LEMMA SumGpusMonotonic ==
    ASSUME NEW T \in SUBSET Pods, NEW S \in SUBSET T
    PROVE  SumGpus(S) <= SumGpus(T)
<1>1. IsFiniteSet(GpuPairs(T))
    BY SumGpusNat
<1>2. GpuPairs(S) \in SUBSET GpuPairs(T)
    BY DEF GpuPairs
<1>3. Cardinality(GpuPairs(S)) <= Cardinality(GpuPairs(T))
    BY <1>1, <1>2, FS_Subset
<1> QED BY <1>3 DEF SumGpus, GpuPairs

\* A pod alone uses what it requests.
LEMMA SumGpusOne ==
    ASSUME NEW p \in Pods
    PROVE  SumGpus({p}) = Gpus[p]
<1> DEFINE f == [i \in 1..Gpus[p] |-> <<p, i>>]
<1>1. Gpus[p] \in 1..MaxGpus /\ MaxGpus \in Nat
    BY ConstantsAssumption
<1>2. GpuPairs({p}) = {<<p, i>> : i \in 1..Gpus[p]}
    BY <1>1 DEF GpuPairs
<1>3. f \in Bijection(1..Gpus[p], GpuPairs({p}))
    BY <1>2 DEF Bijection, Injection, Surjection, IsInjective
<1>4. ExistsBijection(1..Gpus[p], GpuPairs({p}))
    BY <1>3 DEF ExistsBijection
<1>5. IsFiniteSet(1..Gpus[p]) /\ Cardinality(1..Gpus[p]) = Gpus[p]
    BY <1>1, FS_Interval
<1>6. Cardinality(GpuPairs({p})) = Gpus[p]
    BY <1>4, <1>5, FS_Bijection
<1> QED BY <1>6 DEF SumGpus, GpuPairs

\* One more pod adds at most what it requests.
LEMMA SumGpusAdd ==
    ASSUME NEW S \in SUBSET Pods, NEW p \in Pods
    PROVE  SumGpus(S \cup {p}) <= SumGpus(S) + Gpus[p]
<1>1. IsFiniteSet(GpuPairs(S)) /\ IsFiniteSet(GpuPairs({p}))
    BY SumGpusNat
<1>2. GpuPairs(S \cup {p}) = GpuPairs(S) \cup GpuPairs({p})
    BY DEF GpuPairs
<1>3. Cardinality(GpuPairs(S) \cup GpuPairs({p}))
        = Cardinality(GpuPairs(S)) + Cardinality(GpuPairs({p}))
            - Cardinality(GpuPairs(S) \cap GpuPairs({p}))
    BY <1>1, FS_Union
<1>4. IsFiniteSet(GpuPairs(S) \cap GpuPairs({p}))
    BY <1>1, FS_Intersection
<1>5. /\ Cardinality(GpuPairs(S) \cap GpuPairs({p})) \in Nat
      /\ Cardinality(GpuPairs(S)) \in Nat
      /\ Cardinality(GpuPairs({p})) \in Nat
    BY <1>1, <1>4, FS_CardinalityType
<1>6. Cardinality(GpuPairs(S) \cup GpuPairs({p}))
        <= Cardinality(GpuPairs(S)) + Cardinality(GpuPairs({p}))
    BY <1>3, <1>5
<1>7. Cardinality(GpuPairs({p})) = Gpus[p]
    BY SumGpusOne DEF SumGpus, GpuPairs
<1>8. Cardinality(GpuPairs(S \cup {p})) <= Cardinality(GpuPairs(S)) + Gpus[p]
    BY <1>2, <1>6, <1>7, Zenon
<1> QED BY <1>8 DEF SumGpus, GpuPairs

-----------------------------------------------------------------------------
(* The event queue *)

\* _offer keeps the bound and only adds the event it is given.
LEMMA OfferEvents ==
    ASSUME TypeOK, NEW e \in Event, Offer(e)
    PROVE  /\ events' \in Seq(Event) /\ Len(events') <= EventCap
           /\ \A i \in 1..Len(events') :
                 events'[i] = e \/ \E j \in 1..Len(events) : events'[i] = events[j]
<1>1. events \in Seq(Event) /\ Len(events) <= EventCap /\ EventCap \in Nat \ {0}
    BY ConstantsAssumption DEF TypeOK
<1> DEFINE rest == IF Len(events) >= EventCap THEN Tail(events) ELSE events
<1>2. /\ rest \in Seq(Event) /\ Len(rest) < EventCap
      /\ \A i \in 1..Len(rest) : \E j \in 1..Len(events) : rest[i] = events[j]
    BY <1>1
<1>3. events' = Append(rest, e)
    BY DEF Offer
<1> HIDE DEF rest
<1> QED BY <1>1, <1>2, <1>3

\* Taking the oldest event leaves a shorter queue of the same events.
LEMMA ConsumeEvents ==
    ASSUME TypeOK, events # <<>>, Consume
    PROVE  /\ Head(events) \in Event /\ Head(events) = events[1] /\ 1 \in 1..Len(events)
           /\ events' \in Seq(Event) /\ Len(events') <= EventCap
           /\ \A i \in 1..Len(events') : \E j \in 1..Len(events) : events'[i] = events[j]
<1>1. events \in Seq(Event) /\ Len(events) <= EventCap /\ EventCap \in Nat
    BY ConstantsAssumption DEF TypeOK
<1> QED BY <1>1 DEF Consume

-----------------------------------------------------------------------------
(* Types and what the controller knows: TypeOK, Unknown, Captured *)

Base == TypeOK /\ Unknown /\ Captured

\* The bookkeeping of slipped holders is typed whatever the step.
LEMMA TrackType == Track => slipped' \in SUBSET (Resv \X Pods)
BY DEF Track

\* A failure counts once and within its bound.
LEMMA FaultType ==
    ASSUME TypeOK, Fault \/ faults' = faults PROVE faults' \in 0..MaxFaults
<1>1. faults \in 0..MaxFaults
    BY DEF TypeOK
<1> QED BY <1>1, ConstantsAssumption DEF Fault

LEMMA InitBase == Init => Base
<1> SUFFICES ASSUME Init PROVE Base
    OBVIOUS
<1> USE ConstantsAssumption DEF Init, NoAttempt, Tasks, Phases
<1>1. TypeOK
    BY DEF TypeOK
<1>2. Unknown
    BY DEF Unknown
<1>3. Captured
    BY DEF Captured
<1> QED BY <1>1, <1>2, <1>3 DEF Base

LEMMA ClockBase == Base /\ Track /\ ClockTick => Base'
<1> SUFFICES ASSUME Base, Track, ClockTick PROVE Base'
    OBVIOUS
<1> USE DEF Base, api, ledger, queue, watching, ticking, syncing
<1>1. now' \in 0..MaxTime
    BY ConstantsAssumption DEF ClockTick, TypeOK
<1>2. UNCHANGED <<api, ledger, queue, attempt, held, watching, ticking, syncing, faults>>
    BY DEF ClockTick
<1>3. TypeOK'
    BY <1>1, <1>2, TrackType DEF TypeOK
<1>4. Unknown'
    BY <1>2 DEF Unknown
<1>5. Captured'
    BY <1>2 DEF Captured
<1> QED BY <1>3, <1>4, <1>5

\* A pod step changes one pod object and posts one event about it.
LEMMA PodBase ==
    ASSUME Base, Track, NEW p \in Pods, PodStep(p) \/ Resync(p)
    PROVE  Base'
<1> DEFINE e(type) == [type |-> type, pod |-> p, phase |-> phase'[p], ref |-> ref'[p]]
<1>1. /\ phase' \in [Pods -> Phases] /\ ref' = ref /\ phase'[p] # "absent"
      /\ \A q \in Pods : q # p => phase'[q] = phase[q]
      /\ ControllerIdle
      /\ \E type \in {"ADDED", "MODIFIED", "DELETED"} : Offer(e(type))
    BY DEF Base, TypeOK, Phases, PodStep, CreatePod, FinishPod, DeletePod, PodGone,
           Resync, Notify
<1>2. PICK type \in {"ADDED", "MODIFIED", "DELETED"} : Offer(e(type))
    BY <1>1
<1>3. e(type) \in Event /\ e(type).pod = p
    BY <1>1 DEF Event, Base, TypeOK
<1>4. /\ events' \in Seq(Event) /\ Len(events') <= EventCap
      /\ \A i \in 1..Len(events') :
            events'[i] = e(type) \/ \E j \in 1..Len(events) : events'[i] = events[j]
    BY <1>2, <1>3, OfferEvents DEF Base
<1> USE DEF Base, ControllerIdle, ledger, queue, watching, ticking, syncing
<1> HIDE DEF e
<1>5. TypeOK'
    BY <1>1, <1>4, TrackType DEF TypeOK
<1>6. Unknown'
    BY <1>1, <1>3, <1>4 DEF Unknown
<1>7. Captured'
    BY <1>1 DEF Captured
<1> QED BY <1>5, <1>6, <1>7

LEMMA CooldownBase ==
    ASSUME Base, Track, NEW p \in Pods, CooldownOver(p)
    PROVE  Base'
<1> USE DEF Base, CooldownOver, api, ledger, watching, ticking, syncing
<1>1. TypeOK'
    BY TrackType DEF TypeOK
<1>2. Unknown'
    BY DEF Unknown
<1>3. Captured'
    BY DEF Captured
<1> QED BY <1>1, <1>2, <1>3

\* Re-homed entries belong to pods that had one, and are no longer captured.
LEMMA RefreshBase ==
    ASSUME Base, Track, NEW R \in SUBSET Resv, NEW C \in SUBSET Resv,
           ReservationsChange(R, C)
    PROVE  Base'
<1> DEFINE stale == {p \in Pods : task_queue[p] \in Resv \ R}
<1> USE DEF Base, api, watching, ticking
<1>1. /\ task_queue' \in [Pods -> Resv \cup {None}]
      /\ \A p \in Pods \ stale : task_queue'[p] = task_queue[p]
      /\ cooling' \in SUBSET Pods
      /\ held' = [t \in Tasks |-> held[t] \ stale]
    BY DEF ReservationsChange, ReconcileQueue, Forget, TypeOK
<1>2. /\ sync' \in [pc : {"idle", "snapshot"}, cancelled : SUBSET Resv]
      /\ edits' \in 0..MaxEdits
      /\ reservations' \in SUBSET Resv
      /\ UNCHANGED <<now, api, occupancy, attempt, watching, ticking, evict, faults>>
    BY ConstantsAssumption DEF ReservationsChange, TypeOK
<1> HIDE DEF stale
<1>3. TypeOK'
    BY <1>1, <1>2, TrackType DEF TypeOK
<1>4. \A p \in stale : task_queue[p] # None
    BY ConstantsAssumption DEF stale
<1>5. Unknown'
    BY <1>1, <1>2, <1>4 DEF Unknown
<1>6. Captured'
    BY <1>1, <1>2 DEF Captured, TypeOK
<1> QED BY <1>3, <1>5, <1>6

LEMMA SnapshotBase == Base /\ Track /\ SyncSnapshot => Base'
<1> SUFFICES ASSUME Base, Track, SyncSnapshot PROVE Base'
    OBVIOUS
<1> USE DEF Base, api, ledger, queue, watching, ticking
<1>1. /\ sync' \in [pc : {"idle", "snapshot"}, cancelled : SUBSET Resv]
      /\ evict' \in SUBSET Pods
    BY DEF SyncSnapshot, TypeOK
<1>2. faults' \in 0..MaxFaults
    BY FaultType DEF SyncSnapshot
<1>3. UNCHANGED <<now, api, ledger, queue, attempt, held, watching, ticking, edits>>
    BY DEF SyncSnapshot
<1>4. TypeOK'
    BY <1>1, <1>2, <1>3, TrackType DEF TypeOK
<1>5. Unknown'
    BY <1>3 DEF Unknown
<1>6. Captured'
    BY <1>3 DEF Captured
<1> QED BY <1>4, <1>5, <1>6

\* release_pod leaves a typed ledger and names a bucket or nothing.
LEMMA ReleaseType ==
    ASSUME TypeOK, NEW p \in Pods, NEW rid \in Resv \cup {None}, ReleasePod(p, rid)
    PROVE  occupancy' \in [Resv -> SUBSET Pods]
BY DEF ReleasePod, TypeOK

LEMMA EvictionBase ==
    ASSUME Base, Track, NEW p \in Pods, ExecuteEviction(p)
    PROVE  Base'
<1> DEFINE e(type) == [type |-> type, pod |-> p, phase |-> phase'[p], ref |-> ref'[p]]
<1> USE DEF Base
<1>1. /\ phase' \in [Pods -> Phases] /\ ref' = ref
      /\ \A q \in Pods : phase'[q] = "absent" <=> phase[q] = "absent"
      /\ evict' \in SUBSET Pods
      /\ \/ events' = events
         \/ /\ phase[p] # "absent"
            /\ \E type \in {"MODIFIED", "DELETED"} : Offer(e(type))
    BY DEF ExecuteEviction, TypeOK, Phases, api, Notify
<1>2. occupancy' \in [Resv -> SUBSET Pods] /\ faults' \in 0..MaxFaults
    <2>1. (\E rid \in Resv \cup {None} : ReleasePod(p, rid)) \/ occupancy' = occupancy
        BY DEF ExecuteEviction
    <2>2. faults' \in 0..MaxFaults
        BY FaultType DEF ExecuteEviction
    <2> QED BY <2>1, <2>2, ReleaseType DEF TypeOK
<1>3. UNCHANGED <<now, reservations, queue, attempt, held, watching, ticking, sync, edits>>
    BY DEF ExecuteEviction
<1>4. /\ events' \in Seq(Event) /\ Len(events') <= EventCap
      /\ \A i \in 1..Len(events') :
            \/ phase[p] # "absent" /\ events'[i].pod = p
            \/ \E j \in 1..Len(events) : events'[i] = events[j]
    <2>1. CASE events' = events
        BY <2>1 DEF TypeOK
    <2>2. CASE /\ phase[p] # "absent"
               /\ \E type \in {"MODIFIED", "DELETED"} : Offer(e(type))
        <3>1. PICK type \in {"MODIFIED", "DELETED"} : Offer(e(type))
            BY <2>2
        <3>2. e(type) \in Event /\ e(type).pod = p
            BY <1>1 DEF Event, TypeOK
        <3> HIDE DEF e
        <3> QED BY <2>2, <3>1, <3>2, OfferEvents
    <2> QED BY <1>1, <2>1, <2>2
<1> USE DEF queue, watching, ticking
<1> HIDE DEF e
<1>5. TypeOK'
    BY <1>1, <1>2, <1>3, <1>4, TrackType DEF TypeOK
<1>6. Unknown'
    BY <1>1, <1>3, <1>4 DEF Unknown
<1>7. Captured'
    BY <1>3 DEF Captured
<1> QED BY <1>5, <1>6, <1>7

-----------------------------------------------------------------------------
(* Attempts *)

AttemptSet == [st : {"idle", "read", "patch", "applied"},
               pod : Pods \cup {None}, res : Resv \cup {None}]
NewAttempt(p, r) == [st |-> "read", pod |-> p, res |-> r]

\* What a started and what an ended attempt look like.
LEMMA AttemptValues ==
    ASSUME NEW p \in Pods, NEW r \in Resv
    PROVE  /\ NewAttempt(p, r) \in AttemptSet /\ NewAttempt(p, r) # NoAttempt
           /\ NewAttempt(p, r).pod = p /\ NewAttempt(p, r).res = r
           /\ NewAttempt(p, r).st = "read"
           /\ NoAttempt \in AttemptSet /\ NoAttempt.pod = None /\ NoAttempt.res = None
BY DEF NewAttempt, NoAttempt, AttemptSet

\* What the budget check of p under r leaves when h was captured before.
Begun(t, p, r, h) ==
    /\ occupancy' \in [Resv -> SUBSET Pods]
    /\ cooling' \in SUBSET Pods
    /\ held' \in [Tasks -> SUBSET Pods]
    /\ \A u \in Tasks : held'[u] \subseteq h[u] \cup {p}
    /\ \/ attempt' = attempt
       \/ attempt' = [attempt EXCEPT ![t] = NewAttempt(p, r)]

\* The budget check either cools the entry down or starts a recorded attempt.
LEMMA BeginAttemptType ==
    ASSUME TypeOK, NEW t \in Tasks, NEW p \in Pods, NEW r \in Resv,
           NEW cool \in SUBSET Pods, NEW h \in [Tasks -> SUBSET Pods],
           BeginAttempt(t, p, r, cool, h)
    PROVE  Begun(t, p, r, h)
<1> USE DEF Begun
<1>1. CASE /\ cooling' = cool \cup {p} /\ held' = [h EXCEPT ![t] = @ \ {p}]
           /\ UNCHANGED <<occupancy, attempt>>
    BY <1>1 DEF TypeOK
<1>2. CASE /\ cooling' = cool /\ held' = [h EXCEPT ![t] = @ \cup {p}]
           /\ RecordPlacement(r, p)
           /\ attempt' = [attempt EXCEPT ![t] = NewAttempt(p, r)]
    BY <1>2 DEF TypeOK, RecordPlacement
<1> QED BY <1>1, <1>2, Zenon DEF BeginAttempt, NewAttempt

\* A started attempt is typed and names a pod and a reservation.
LEMMA ReservedType ==
    ASSUME TypeOK, Captured, NEW t \in Tasks, NEW p \in Pods, NEW r \in Resv,
           attempt' = attempt \/ attempt' = [attempt EXCEPT ![t] = NewAttempt(p, r)]
    PROVE  /\ attempt' \in [Tasks -> AttemptSet]
           /\ \A u \in Tasks : attempt'[u] # NoAttempt =>
                 /\ attempt'[u].pod \in Pods /\ attempt'[u].res \in Resv
                 /\ attempt'[u].st # "idle"
           /\ \A u \in Tasks : attempt'[u].pod = attempt[u].pod \/ attempt'[u].pod = p
<1>1. attempt \in [Tasks -> AttemptSet]
    BY DEF TypeOK, AttemptSet
<1>2. \A u \in Tasks : attempt'[u] = attempt[u] \/ attempt'[u] = NewAttempt(p, r)
    BY <1>1
<1>3. attempt' \in [Tasks -> AttemptSet]
    BY <1>1, AttemptValues
<1> QED BY <1>2, <1>3, AttemptValues DEF Captured

\* Either way an attempt ends, it leaves typed state and nothing new behind.
LEMMA AttemptEndType ==
    ASSUME Base, NEW t \in Tasks, attempt[t].st # "idle",
           \/ AttemptTrue(t) /\ UNCHANGED occupancy
           \/ /\ AttemptTrue(t)
              /\ \E rid \in Resv \cup {None} : ReleasePod(attempt[t].pod, rid)
           \/ AttemptFails(t)
    PROVE  /\ attempt' = [attempt EXCEPT ![t] = NoAttempt]
           /\ occupancy' \in [Resv -> SUBSET Pods]
           /\ cooling' \in SUBSET Pods /\ to_remove' \in SUBSET Pods
           /\ held' \in [Tasks -> SUBSET Pods]
           /\ task_queue' \in [Pods -> Resv \cup {None}]
           /\ \A p \in Pods : task_queue'[p] = task_queue[p] \/ task_queue'[p] = None
           /\ \A u \in Tasks : \A p \in held'[u] :
                 p \in held[u] /\ task_queue'[p] = task_queue[p]
<1> DEFINE p == attempt[t].pod
<1> USE DEF Base
<1>1. p \in Pods
    BY DEF Captured, NoAttempt
<1>2. /\ attempt \in [Tasks -> [st : {"idle", "read", "patch", "applied"},
                               pod : Pods \cup {None}, res : Resv \cup {None}]]
      /\ held \in [Tasks -> SUBSET Pods] /\ cooling \in SUBSET Pods
      /\ to_remove \in SUBSET Pods /\ task_queue \in [Pods -> Resv \cup {None}]
      /\ occupancy \in [Resv -> SUBSET Pods]
    BY DEF TypeOK
<1>3. occupancy' \in [Resv -> SUBSET Pods]
    BY <1>1, <1>2, ReleaseType DEF AttemptFails
<1>4. CASE AttemptTrue(t)
    <2>1. CASE /\ t = "watch" /\ DequeuePod(p) /\ held' = Forget(held, {p})
               /\ to_remove' = to_remove
        BY <1>1, <1>2, <1>3, <1>4, <2>1 DEF AttemptTrue, DequeuePod, Forget
    <2>2. CASE /\ to_remove' = to_remove \cup {p}
               /\ held' = [held EXCEPT ![t] = @ \ {p}] /\ UNCHANGED queue
        BY <1>1, <1>2, <1>3, <1>4, <2>2 DEF AttemptTrue, queue
    <2> QED BY <1>4, <2>1, <2>2 DEF AttemptTrue
<1>5. CASE AttemptFails(t)
    BY <1>1, <1>2, <1>3, <1>5 DEF AttemptFails
<1> QED BY <1>4, <1>5

\* A step that ends an attempt, with nothing outside the controller changed.
LEMMA AttemptEndBase ==
    ASSUME Base, Track, NEW t \in Tasks, attempt[t].st # "idle",
           \/ AttemptTrue(t) /\ UNCHANGED occupancy
           \/ /\ AttemptTrue(t)
              /\ \E rid \in Resv \cup {None} : ReleasePod(attempt[t].pod, rid)
           \/ AttemptFails(t),
           faults' = faults \/ Fault, UNCHANGED api, AttemptFrame
    PROVE  Base'
<1> USE DEF Base
<1>1. /\ attempt' = [attempt EXCEPT ![t] = NoAttempt]
      /\ occupancy' \in [Resv -> SUBSET Pods]
      /\ cooling' \in SUBSET Pods /\ to_remove' \in SUBSET Pods
      /\ held' \in [Tasks -> SUBSET Pods]
      /\ task_queue' \in [Pods -> Resv \cup {None}]
      /\ \A p \in Pods : task_queue'[p] = task_queue[p] \/ task_queue'[p] = None
      /\ \A u \in Tasks : \A p \in held'[u] :
            p \in held[u] /\ task_queue'[p] = task_queue[p]
    BY AttemptEndType
<1>2. faults' \in 0..MaxFaults
    BY FaultType
<1>3. /\ attempt' \in [Tasks -> AttemptSet]
      /\ \A u \in Tasks : attempt'[u] = attempt[u] \/ attempt'[u] = NoAttempt
    <2>1. attempt \in [Tasks -> AttemptSet] /\ NoAttempt \in AttemptSet
        BY DEF TypeOK, AttemptSet, NoAttempt
    <2> QED BY <1>1, <2>1
<1>4. TypeOK'
    BY <1>1, <1>2, <1>3, TrackType
       DEF TypeOK, api, AttemptFrame, watching, syncing, AttemptSet
<1>5. Unknown'
    <2>1. UNCHANGED <<phase, ref, events>> /\ Unknown
        BY DEF api
    <2>2. \A q \in Pods : \A u \in Tasks : attempt'[u].pod # q \/ attempt'[u].pod = attempt[u].pod
        BY <1>3, ConstantsAssumption DEF NoAttempt
    <2>3. \A q \in Pods : task_queue[q] = None => task_queue'[q] = None
        BY <1>1
    <2> HIDE DEF Base
    <2> QED BY <2>1, <2>2, <2>3 DEF Unknown
<1>6. Captured'
    BY <1>1, <1>3 DEF Captured, AttemptFrame, watching
<1> QED BY <1>4, <1>5, <1>6

Advances(t, st) ==
    /\ attempt' \in [Tasks -> AttemptSet]
    /\ attempt'[t].st = st
    /\ \A u \in Tasks : attempt'[u].pod = attempt[u].pod /\ attempt'[u].res = attempt[u].res
    /\ \A u \in Tasks : u # t => attempt'[u] = attempt[u]

\* An attempt that goes on keeps its pod and its reservation.
LEMMA AttemptAdvances ==
    ASSUME TypeOK, NEW t \in Tasks, NEW st \in {"patch", "applied"},
           attempt' = [attempt EXCEPT ![t].st = st]
    PROVE  Advances(t, st)
<1>1. attempt \in [Tasks -> AttemptSet]
    BY DEF TypeOK, AttemptSet
<1>2. [attempt[t] EXCEPT !.st = st] \in AttemptSet
    BY <1>1 DEF AttemptSet
<1>3. /\ [attempt[t] EXCEPT !.st = st].pod = attempt[t].pod
      /\ [attempt[t] EXCEPT !.st = st].res = attempt[t].res
      /\ [attempt[t] EXCEPT !.st = st].st = st
    BY <1>1 DEF AttemptSet
<1>4. attempt' = [attempt EXCEPT ![t] = [attempt[t] EXCEPT !.st = st]]
    OBVIOUS
<1> DEFINE a == [attempt[t] EXCEPT !.st = st]
<1> HIDE DEF a
<1>5. attempt' \in [Tasks -> AttemptSet] /\ attempt'[t] = a
      /\ \A u \in Tasks : u # t => attempt'[u] = attempt[u]
    BY <1>1, <1>2, <1>4 DEF a
<1> QED BY <1>3, <1>5 DEF Advances, a

LEMMA ReadBase == ASSUME Base, Track, NEW t \in Tasks, ReadPod(t) PROVE Base'
<1> DEFINE p == attempt[t].pod
<1>1. CASE /\ attempt' = [attempt EXCEPT ![t].st = "patch"]
           /\ UNCHANGED <<occupancy, queue, held, to_remove, faults>>
    <2> USE <1>1 DEF Base, api, queue, watching, syncing, AttemptFrame
    <2>1. attempt[t].st = "read" /\ UNCHANGED api /\ AttemptFrame
        BY DEF ReadPod
    <2>5. Advances(t, "patch")
        BY AttemptAdvances, Zenon
    <2>2. TypeOK'
        BY <2>1, <2>5, TrackType DEF TypeOK, Advances, AttemptSet
    <2>3. Unknown'
        BY <2>1, <2>5 DEF Unknown, Advances
    <2>4. Captured'
        BY <2>1, <2>5 DEF Captured, Advances, NoAttempt
    <2> QED BY <2>2, <2>3, <2>4
<1>2. CASE AttemptTrue(t) /\ UNCHANGED <<occupancy, faults>>
    BY <1>2, AttemptEndBase DEF ReadPod
<1>3. CASE /\ AttemptTrue(t) /\ faults' = faults
           /\ \E rid \in Resv \cup {None} : ReleasePod(p, rid)
    BY <1>3, AttemptEndBase DEF ReadPod
<1>4. CASE AttemptFails(t) /\ (faults' = faults \/ Fault)
    BY <1>4, AttemptEndBase DEF ReadPod
<1> QED BY <1>1, <1>2, <1>3, <1>4 DEF ReadPod

LEMMA PatchBase == ASSUME Base, Track, NEW t \in Tasks, PatchPod(t) PROVE Base'
<1> DEFINE p == attempt[t].pod
           e == [type |-> "MODIFIED", pod |-> p, phase |-> phase'[p], ref |-> ref'[p]]
<1>1. CASE /\ phase' = phase /\ ref' = [ref EXCEPT ![p] = attempt[t].res]
           /\ Notify("MODIFIED", p)
           /\ attempt' = [attempt EXCEPT ![t].st = "applied"]
           /\ UNCHANGED <<occupancy, queue, held, to_remove, faults>>
    <2> USE <1>1 DEF Base, queue, watching, syncing, AttemptFrame
    <2>1. attempt[t].st = "patch" /\ AttemptFrame
        BY DEF PatchPod
    <2>2. p \in Pods /\ attempt[t].res \in Resv /\ phase[p] # "absent"
        BY <2>1 DEF Captured, Unknown, NoAttempt
    <2>3. ref' \in [Pods -> Resv \cup {None}] /\ e \in Event /\ e.pod = p
        BY <2>2 DEF TypeOK, Event
    <2>4. Offer(e)
        BY DEF Notify
    <2> HIDE DEF e
    <2>5. /\ events' \in Seq(Event) /\ Len(events') <= EventCap
          /\ \A i \in 1..Len(events') :
                events'[i] = e \/ \E j \in 1..Len(events) : events'[i] = events[j]
        BY <2>3, <2>4, OfferEvents
    <2>9. Advances(t, "applied")
        BY AttemptAdvances, Zenon
    <2>6. TypeOK'
        BY <2>1, <2>3, <2>5, <2>9, TrackType DEF TypeOK, Advances, AttemptSet
    <2>7. Unknown'
        <3>1. /\ \A q \in Pods : phase[q] = "absent" => q # p /\ ref'[q] = ref[q]
              /\ task_queue' = task_queue /\ phase' = phase
            BY <2>2 DEF TypeOK
        <3> HIDE <1>1
        <3>2. ASSUME NEW q \in Pods, phase[q] = "absent", NEW u \in Tasks
              PROVE  attempt'[u].pod # q
            <4>1. attempt'[u].pod = attempt[u].pod
                BY <2>9 DEF Advances
            <4>2. attempt[u].pod # q
                BY <3>2 DEF Unknown
            <4> QED BY <4>1, <4>2
        <3>3. ASSUME NEW q \in Pods, phase[q] = "absent", q # p,
                     NEW i \in 1..Len(events')
              PROVE  events'[i].pod # q
            BY <2>3, <2>5, <3>3 DEF Unknown
        <3> QED BY <3>1, <3>2, <3>3 DEF Unknown
    <2>8. Captured'
        BY <2>1, <2>2, <2>9 DEF Captured, Advances, NoAttempt
    <2> QED BY <2>6, <2>7, <2>8
<1>2. CASE AttemptFails(t) /\ (faults' = faults \/ Fault) /\ UNCHANGED api
    BY <1>2, AttemptEndBase DEF PatchPod
<1> QED BY <1>1, <1>2 DEF PatchPod

LEMMA ReturnBase == ASSUME Base, Track, NEW t \in Tasks, PatchReturns(t) PROVE Base'
BY AttemptEndBase DEF PatchReturns

\* What an enqueue with or without a started attempt leaves behind for pod p.
Started(p) ==
    /\ occupancy' \in [Resv -> SUBSET Pods] /\ cooling' \in SUBSET Pods
    /\ held' \in [Tasks -> SUBSET Pods]
    /\ task_queue' \in [Pods -> Resv \cup {None}]
    /\ \A q \in Pods : q # p => task_queue'[q] = task_queue[q]
    /\ attempt' \in [Tasks -> AttemptSet]
    /\ \A u \in Tasks : attempt'[u] # NoAttempt =>
          /\ attempt'[u].pod \in Pods /\ attempt'[u].res \in Resv
          /\ attempt'[u].st # "idle"
    /\ \A u \in Tasks : attempt'[u].pod = attempt[u].pod \/ attempt'[u].pod = p
    /\ \A u \in Tasks : \A q \in held'[u] : task_queue'[q] \in Resv

LEMMA StartedHolds ==
    ASSUME Base, NEW t \in Tasks, NEW p \in Pods, NEW r \in Resv,
           NEW cool \in SUBSET Pods, NEW h \in [Tasks -> SUBSET Pods],
           \A u \in Tasks : h[u] \subseteq held[u],
           task_queue' = [task_queue EXCEPT ![p] = r],
           \/ BeginAttempt(t, p, r, cool, h)
           \/ /\ cooling' = cool /\ held' \in [Tasks -> SUBSET Pods]
              /\ \A u \in Tasks : held'[u] \subseteq h[u]
              /\ UNCHANGED <<occupancy, attempt>>
    PROVE  Started(p)
<1>1. /\ occupancy' \in [Resv -> SUBSET Pods] /\ cooling' \in SUBSET Pods
      /\ held' \in [Tasks -> SUBSET Pods]
      /\ \A u \in Tasks : held'[u] \subseteq h[u] \cup {p}
      /\ \/ attempt' = attempt
         \/ attempt' = [attempt EXCEPT ![t] = NewAttempt(p, r)]
    <2>1. TypeOK
        BY DEF Base
    <2>2. CASE BeginAttempt(t, p, r, cool, h)
        <3>1. Begun(t, p, r, h)
            BY <2>1, <2>2, BeginAttemptType
        <3> QED BY <3>1 DEF Begun
    <2>3. CASE /\ cooling' = cool /\ held' \in [Tasks -> SUBSET Pods]
               /\ \A u \in Tasks : held'[u] \subseteq h[u]
               /\ UNCHANGED <<occupancy, attempt>>
        <3>1. occupancy \in [Resv -> SUBSET Pods]
            BY <2>1 DEF TypeOK
        <3>2. \A u \in Tasks : held'[u] \subseteq h[u] \cup {p}
            BY <2>3
        <3> QED BY <2>3, <3>1, <3>2
    <2> QED BY <2>2, <2>3
<1>2. /\ attempt' \in [Tasks -> AttemptSet]
      /\ \A u \in Tasks : attempt'[u] # NoAttempt =>
            /\ attempt'[u].pod \in Pods /\ attempt'[u].res \in Resv
            /\ attempt'[u].st # "idle"
      /\ \A u \in Tasks : attempt'[u].pod = attempt[u].pod \/ attempt'[u].pod = p
    BY <1>1, ReservedType DEF Base
<1>3. /\ task_queue' \in [Pods -> Resv \cup {None}]
      /\ \A q \in Pods : q # p => task_queue'[q] = task_queue[q]
      /\ task_queue'[p] \in Resv
    BY DEF Base, TypeOK
<1>4. \A u \in Tasks : \A q \in held'[u] : task_queue'[q] \in Resv
    BY <1>1, <1>3 DEF Base, Captured
<1> QED BY <1>1, <1>2, <1>3, <1>4 DEF Started

\* It preserves Base, whatever events and loop positions the step changes.
LEMMA StartedBase ==
    ASSUME Base, Track, NEW p \in Pods, Started(p), phase[p] # "absent",
           UNCHANGED <<now, phase, ref, reservations, syncing, faults, watch, tick>>,
           to_remove' \in SUBSET Pods,
           events' \in Seq(Event) /\ Len(events') <= EventCap,
           \A i \in 1..Len(events') : \E j \in 1..Len(events) : events'[i] = events[j]
    PROVE  Base'
<1> USE DEF Base, Started, syncing
<1>1. TypeOK'
    BY TrackType DEF TypeOK, AttemptSet
<1>2. Unknown'
    <2> SUFFICES ASSUME NEW q \in Pods, phase[q] = "absent"
                 PROVE  /\ ref[q] = None /\ task_queue'[q] = None
                        /\ \A t \in Tasks : attempt'[t].pod # q
                        /\ \A i \in 1..Len(events') : events'[i].pod # q
        BY DEF Unknown
    <2>1. q # p
        OBVIOUS
    <2>2. ref[q] = None /\ task_queue'[q] = None
        BY <2>1 DEF Unknown
    <2>3. \A t \in Tasks : attempt'[t].pod # q
        BY <2>1 DEF Unknown
    <2>4. \A i \in 1..Len(events') : events'[i].pod # q
        BY DEF Unknown
    <2> QED BY <2>2, <2>3, <2>4
<1>3. Captured'
    BY DEF Captured
<1> QED BY <1>1, <1>2, <1>3

-----------------------------------------------------------------------------
(* The watch loop *)

\* dequeue_pod, with the entry no longer captured by any task.
LEMMA DequeueType ==
    ASSUME Base, NEW p \in Pods, DequeuePod(p), held' = Forget(held, {p})
    PROVE  /\ task_queue' \in [Pods -> Resv \cup {None}] /\ cooling' \in SUBSET Pods
           /\ held' \in [Tasks -> SUBSET Pods]
           /\ \A q \in Pods : task_queue'[q] = task_queue[q] \/ task_queue'[q] = None
           /\ \A u \in Tasks : \A q \in held'[u] : task_queue'[q] \in Resv
BY DEF Base, TypeOK, Captured, DequeuePod, Forget

\* A watch event of a pod is about a pod that exists or existed.
LEMMA HeadKnown ==
    ASSUME Base, WatchReady, Consume
    PROVE  /\ Head(events) \in Event /\ Head(events).pod \in Pods
           /\ Head(events).ref \in Resv \cup {None}
           /\ phase[Head(events).pod] # "absent"
           /\ events' \in Seq(Event) /\ Len(events') <= EventCap
           /\ \A i \in 1..Len(events') : \E j \in 1..Len(events) : events'[i] = events[j]
<1>1. /\ Head(events) \in Event /\ Head(events) = events[1] /\ 1 \in 1..Len(events)
      /\ events' \in Seq(Event) /\ Len(events') <= EventCap
      /\ \A i \in 1..Len(events') : \E j \in 1..Len(events) : events'[i] = events[j]
    BY ConsumeEvents DEF Base, WatchReady
<1>2. Head(events).pod \in Pods /\ Head(events).ref \in Resv \cup {None}
    BY <1>1 DEF Event
<1>3. phase[Head(events).pod] # "absent"
    BY <1>1, <1>2 DEF Base, Unknown
<1> QED BY <1>1, <1>2, <1>3

LEMMA WatchDropBase ==
    ASSUME Base, Track, WatchGone \/ WatchTolerated
    PROVE  Base'
<1> DEFINE p == Head(events).pod
<1>1. /\ WatchReady /\ Consume /\ DequeuePod(p) /\ held' = Forget(held, {p})
      /\ attempt' = attempt /\ WatchFrame
    BY DEF WatchGone, WatchTolerated
<1>2. /\ p \in Pods /\ phase[p] # "absent" /\ Head(events).ref \in Resv \cup {None}
      /\ events' \in Seq(Event) /\ Len(events') <= EventCap
      /\ \A i \in 1..Len(events') : \E j \in 1..Len(events) : events'[i] = events[j]
    BY <1>1, HeadKnown
<1>3. /\ task_queue' \in [Pods -> Resv \cup {None}] /\ cooling' \in SUBSET Pods
      /\ held' \in [Tasks -> SUBSET Pods]
      /\ \A q \in Pods : task_queue'[q] = task_queue[q] \/ task_queue'[q] = None
      /\ \A u \in Tasks : \A q \in held'[u] : task_queue'[q] \in Resv
    BY <1>1, <1>2, DequeueType
<1>4. /\ occupancy' \in [Resv -> SUBSET Pods]
      /\ watch' \in [pc : {"idle", "freed", "retry"}, res : Resv \cup {None}, at : 0..MaxTime]
      /\ watch'.pc # "idle" => watch'.res \in Resv
    <2>1. CASE WatchGone
        <3>1. PICK rid \in Resv \cup {None} :
                 /\ ReleasePod(p, rid)
                 /\ watch' = IF rid = None THEN watch
                             ELSE [watch EXCEPT !.pc = "freed", !.res = rid]
            BY <2>1 DEF WatchGone
        <3>2. occupancy' \in [Resv -> SUBSET Pods]
            BY <1>2, <3>1, ReleaseType DEF Base
        <3> QED BY <3>1, <3>2 DEF Base, TypeOK, Captured
    <2>2. CASE WatchTolerated
        BY <1>2, <2>2 DEF WatchTolerated, RecordPlacement, Base, TypeOK, Captured
    <2> QED BY <2>1, <2>2
<1> HIDE DEF p
<1> USE DEF Base, WatchFrame, ticking, syncing
<1>5. TypeOK'
    BY <1>1, <1>2, <1>3, <1>4, TrackType DEF TypeOK
<1>6. Unknown'
    BY <1>1, <1>2, <1>3 DEF Unknown
<1>7. Captured'
    BY <1>1, <1>3, <1>4 DEF Captured
<1> QED BY <1>5, <1>6, <1>7

\* Routing to a reservation: one the ledger or the listing offers.
LEMMA RouteShape ==
    ASSUME TypeOK, WatchRoute, ~UNCHANGED <<occupancy, queue, attempt, held>>
    PROVE  \E r \in Resv, cool \in SUBSET Pods, h \in {held, Forget(held, {Head(events).pod})} :
              /\ task_queue' = [task_queue EXCEPT ![Head(events).pod] = r]
              /\ \/ BeginAttempt("watch", Head(events).pod, r, cool, h)
                 \/ /\ cooling' = cool /\ held' = h
                    /\ UNCHANGED <<occupancy, attempt>>
<1> DEFINE p == Head(events).pod
           admittable == FindAdmittable(p, now, Horizon)
           best == FindBest(reservations, p)
<1>1. admittable \subseteq Resv /\ best \subseteq Resv
    BY DEF FindAdmittable, FindBest, Earliest, TypeOK
<1>2. PICK r \in IF admittable # {} THEN admittable ELSE best :
        LET cool == IF Kept(p, r) THEN cooling ELSE cooling \ {p}
            h == IF Kept(p, r) THEN held ELSE Forget(held, {p})
        IN
        /\ task_queue' = [task_queue EXCEPT ![p] = r]
        /\ IF admittable # {} /\ Head(events).type = "ADDED" /\ Open(r, now) /\ p \notin cool
           THEN BeginAttempt("watch", p, r, cool, h)
           ELSE cooling' = cool /\ held' = h /\ UNCHANGED <<occupancy, attempt>>
    BY Zenon DEF WatchRoute
<1> DEFINE cool == IF Kept(p, r) THEN cooling ELSE cooling \ {p}
           h == IF Kept(p, r) THEN held ELSE Forget(held, {p})
<1>3. r \in Resv /\ cool \in SUBSET Pods /\ h \in {held, Forget(held, {p})}
    BY <1>1, <1>2 DEF TypeOK
<1>4. /\ task_queue' = [task_queue EXCEPT ![p] = r]
      /\ \/ BeginAttempt("watch", p, r, cool, h)
         \/ cooling' = cool /\ held' = h /\ UNCHANGED <<occupancy, attempt>>
    BY <1>2, Zenon
<1> HIDE DEF cool, h, p
<1> QED BY <1>3, <1>4, Zenon DEF p

\* enqueue_pod, and the attempt the fast path may start.
LEMMA RouteBase ==
    ASSUME Base, Track, WatchRoute
    PROVE  Base'
<1> DEFINE p == Head(events).pod
<1>1. WatchReady /\ Consume /\ WatchFrame /\ watch' = watch
    BY DEF WatchRoute
<1>2. /\ p \in Pods /\ phase[p] # "absent"
      /\ events' \in Seq(Event) /\ Len(events') <= EventCap
      /\ \A i \in 1..Len(events') : \E j \in 1..Len(events) : events'[i] = events[j]
    BY <1>1, HeadKnown
<1>3. ~UNCHANGED <<occupancy, queue, attempt, held>> =>
        \E r \in Resv, cool \in SUBSET Pods, h \in {held, Forget(held, {p})} :
          /\ task_queue' = [task_queue EXCEPT ![p] = r]
          /\ \/ BeginAttempt("watch", p, r, cool, h)
             \/ /\ cooling' = cool /\ held' = h
                /\ UNCHANGED <<occupancy, attempt>>
    BY RouteShape, Zenon DEF Base
<1> HIDE DEF p
<1>4. Started(p)
    <2>1. CASE UNCHANGED <<occupancy, queue, attempt, held>>
        BY <2>1 DEF Base, TypeOK, Captured, AttemptSet, queue, Started
    <2>2. CASE ~UNCHANGED <<occupancy, queue, attempt, held>>
        <3>1. PICK r \in Resv, cool \in SUBSET Pods, h \in {held, Forget(held, {p})} :
                 /\ task_queue' = [task_queue EXCEPT ![p] = r]
                 /\ \/ BeginAttempt("watch", p, r, cool, h)
                    \/ /\ cooling' = cool /\ held' = h
                       /\ UNCHANGED <<occupancy, attempt>>
            BY <1>3, <2>2, Zenon
        <3>2. h \in [Tasks -> SUBSET Pods] /\ \A u \in Tasks : h[u] \subseteq held[u]
            BY DEF Base, TypeOK, Forget
        <3>3. "watch" \in Tasks
            BY DEF Tasks
        <3> QED BY <1>2, <3>1, <3>2, <3>3, StartedHolds
    <2> QED BY <2>1, <2>2
<1>5. to_remove' \in SUBSET Pods
    BY <1>1 DEF WatchFrame, ticking, Base, TypeOK
<1> QED BY <1>1, <1>2, <1>4, <1>5, StartedBase DEF WatchFrame, ticking

\* Capturing the waiters of the freed reservation, and the end of the retry.
LEMMA RetryPosition ==
    ASSUME Base, Track, RetryStart \/ RetryEnd
    PROVE  Base'
<1> USE DEF Base, api, ledger, queue, ticking, syncing
<1>1. /\ held' \in [Tasks -> SUBSET Pods]
      /\ \A u \in Tasks : \A p \in held'[u] : task_queue[p] \in Resv
    <2>1. held \in [Tasks -> SUBSET Pods] /\ "watch" \in Tasks
        BY DEF TypeOK, Tasks
    <2>2. CASE RetryStart
        <3>1. watch.res \in Resv
            BY <2>2 DEF RetryStart, Captured
        <3> QED BY <2>1, <2>2, <3>1 DEF RetryStart, Captured
    <2>3. CASE RetryEnd
        BY <2>1, <2>3 DEF RetryEnd, Captured
    <2> QED BY <2>2, <2>3
<1>2. /\ watch' \in [pc : {"idle", "freed", "retry"}, res : Resv \cup {None}, at : 0..MaxTime]
      /\ watch'.pc # "idle" => watch'.res \in Resv
    <2>1. CASE RetryStart
        <3>1. watch' = [watch EXCEPT !.pc = "retry", !.at = now]
            BY <2>1 DEF RetryStart
        <3>2. watch.res \in Resv /\ now \in 0..MaxTime
            BY <2>1 DEF RetryStart, TypeOK, Captured
        <3> QED BY <3>1, <3>2 DEF TypeOK
    <2>2. CASE RetryEnd
        <3>1. 0 \in 0..MaxTime
            BY ConstantsAssumption
        <3>2. watch' = [watch EXCEPT !.pc = "idle", !.res = None, !.at = 0]
            BY <2>2 DEF RetryEnd
        <3> QED BY <3>1, <3>2 DEF TypeOK
    <2> QED BY <2>1, <2>2
<1>3. /\ UNCHANGED <<now, phase, ref, events, reservations, occupancy, task_queue, cooling>>
      /\ UNCHANGED <<attempt, tick, to_remove, sync, evict, edits, faults>>
    BY DEF RetryStart, RetryEnd
<1>4. TypeOK'
    BY <1>1, <1>2, <1>3, TrackType DEF TypeOK
<1>5. Unknown'
    BY <1>3 DEF Unknown
<1>6. Captured'
    BY <1>1, <1>2, <1>3 DEF Captured
<1> QED BY <1>4, <1>5, <1>6

LEMMA RetryEntryBase ==
    ASSUME Base, Track, NEW p \in Pods, RetryEntry(p)
    PROVE  Base'
<1> DEFINE r == watch.res
<1>1. /\ watch.pc = "retry" /\ p \in held["watch"]
      /\ UNCHANGED <<task_queue, events, watch>> /\ WatchFrame
      /\ \/ /\ held' = [held EXCEPT !["watch"] = @ \ {p}]
            /\ UNCHANGED <<occupancy, attempt, cooling>>
         \/ BeginAttempt("watch", p, r, cooling, held)
    BY DEF RetryEntry
<1>2. "watch" \in Tasks /\ task_queue[p] \in Resv /\ r \in Resv
    BY <1>1 DEF Base, Captured, Tasks
<1>3. phase[p] # "absent"
    BY <1>2, ConstantsAssumption DEF Base, Unknown
<1> HIDE DEF r
<1>4. Started(p)
    <2>1. CASE BeginAttempt("watch", p, r, cooling, held)
        <3>1. /\ TypeOK /\ Captured /\ cooling \in SUBSET Pods
              /\ held \in [Tasks -> SUBSET Pods]
            BY DEF Base, TypeOK
        <3>2. /\ occupancy' \in [Resv -> SUBSET Pods]
              /\ cooling' \in SUBSET Pods
              /\ held' \in [Tasks -> SUBSET Pods]
              /\ \A u \in Tasks : held'[u] \subseteq held[u] \cup {p}
              /\ \/ attempt' = attempt
                 \/ attempt' = [attempt EXCEPT !["watch"] = NewAttempt(p, r)]
            <4>1. Begun("watch", p, r, held)
                BY <1>2, <2>1, <3>1, BeginAttemptType
            <4> QED BY <4>1 DEF Begun
        <3>3. /\ attempt' \in [Tasks -> AttemptSet]
              /\ \A u \in Tasks : attempt'[u] # NoAttempt =>
                    /\ attempt'[u].pod \in Pods /\ attempt'[u].res \in Resv
                    /\ attempt'[u].st # "idle"
              /\ \A u \in Tasks : attempt'[u].pod = attempt[u].pod \/ attempt'[u].pod = p
            BY <1>2, <3>1, <3>2, ReservedType
        <3>4. task_queue' = task_queue /\ task_queue \in [Pods -> Resv \cup {None}]
            BY <1>1 DEF Base, TypeOK
        <3>5. \A u \in Tasks : \A q \in held'[u] : task_queue'[q] \in Resv
            BY <1>2, <3>1, <3>2, <3>4 DEF Captured
        <3> QED BY <3>2, <3>3, <3>4, <3>5 DEF Started
    <2>2. CASE /\ held' = [held EXCEPT !["watch"] = @ \ {p}]
               /\ UNCHANGED <<occupancy, attempt, cooling>>
        BY <1>1, <2>2 DEF Started, Base, TypeOK, Captured, AttemptSet
    <2> QED BY <1>1, <2>1, <2>2
<1>5. /\ to_remove' \in SUBSET Pods /\ events' = events
      /\ events \in Seq(Event) /\ Len(events) <= EventCap
    BY <1>1 DEF WatchFrame, ticking, Base, TypeOK
<1> QED BY <1>1, <1>3, <1>4, <1>5, StartedBase DEF WatchFrame, ticking

-----------------------------------------------------------------------------
(* The queue tick *)

\* Steps of the tick that leave the queue, attempts and captured entries alone,
\* except that the loop captures the queued pods when it starts.
LEMMA TickPosition ==
    ASSUME Base, Track, TickBegin \/ TickSnapshot \/ TickReconcile \/ TickLoop
    PROVE  Base'
<1> USE DEF Base
<1>1. /\ UNCHANGED <<now, phase, ref, events, reservations, task_queue, cooling>>
      /\ UNCHANGED <<attempt, watch, to_remove, sync, evict, edits>>
    BY DEF TickBegin, TickSnapshot, TickReconcile, TickLoop, api, ledger, queue,
           watching, syncing
<1>2. faults' \in 0..MaxFaults
    BY FaultType DEF TickBegin, TickSnapshot, TickReconcile, TickLoop
<1>3. /\ held' \in [Tasks -> SUBSET Pods]
      /\ \A u \in Tasks : \A p \in held'[u] : task_queue[p] \in Resv
    <2>1. CASE TickLoop
        BY <2>1 DEF TickLoop, TypeOK, Captured
    <2>2. CASE ~TickLoop
        BY <2>2 DEF TickBegin, TickSnapshot, TickReconcile, TypeOK, Captured
    <2> QED BY <2>1, <2>2
<1> DEFINE Snaps == [Resv -> SUBSET Pods]
           Ticks == [pc : {"idle", "list", "listed", "drain", "loop"},
                     at : 0..MaxTime, snap : Snaps]
<1>4. tick' \in Ticks /\ occupancy' \in Snaps
    <2>1. tick \in Ticks /\ tick.snap \in Snaps /\ occupancy \in Snaps /\ now \in 0..MaxTime
        BY DEF TypeOK
    <2>2. CASE TickBegin
        BY <2>1, <2>2 DEF TickBegin, ledger
    <2>3. CASE TickSnapshot
        <3> DEFINE snap == [r \in Resv |-> {p \in Pods : /\ phase[p] \in {"live", "terminating"}
                                                        /\ ref[p] = r}]
        <3>1. snap \in Snaps
            OBVIOUS
        <3> HIDE DEF snap, Snaps
        <3>2. \/ tick' = [tick EXCEPT !.pc = "listed", !.snap = snap]
              \/ tick' = [tick EXCEPT !.pc = "drain"]
            BY <2>3 DEF TickSnapshot, snap
        <3>3. occupancy' = occupancy
            BY <2>3 DEF TickSnapshot, ledger
        <3> QED BY <2>1, <3>1, <3>2, <3>3
    <2>4. CASE TickReconcile
        <3> DEFINE none == [r \in Resv |-> {}]
        <3>1. none \in Snaps
            OBVIOUS
        <3> HIDE DEF none, Snaps
        <3>2. tick' = [tick EXCEPT !.pc = "drain", !.snap = none] /\ occupancy' = tick.snap
            BY <2>4 DEF TickReconcile, none
        <3> QED BY <2>1, <3>1, <3>2
    <2>5. CASE TickLoop
        BY <2>1, <2>5 DEF TickLoop, ledger
    <2> QED BY <2>2, <2>3, <2>4, <2>5
<1>5. TypeOK'
    BY <1>1, <1>2, <1>3, <1>4, TrackType DEF TypeOK
<1>6. Unknown'
    BY <1>1 DEF Unknown
<1>7. Captured'
    BY <1>1, <1>3 DEF Captured
<1> QED BY <1>5, <1>6, <1>7

\* The tick's turn for one entry, reduced to what it does to the queue.
LEMMA TickEntryShape ==
    ASSUME TypeOK, NEW p \in Pods, TickEntry(p), task_queue[p] \in Resv
    PROVE  \E r \in Resv, cool \in SUBSET Pods, h \in [Tasks -> SUBSET Pods] :
              /\ \A u \in Tasks : h[u] \subseteq held[u]
              /\ task_queue' = [task_queue EXCEPT ![p] = r]
              /\ \/ BeginAttempt("tick", p, r, cool, h)
                 \/ /\ cooling' = cool /\ held' = [h EXCEPT !["tick"] = @ \ {p}]
                    /\ UNCHANGED <<occupancy, attempt>>
              /\ to_remove' \in SUBSET Pods
<1> DEFINE cur == task_queue[p]
           fits == Open(cur, tick.at) /\ Available(cur, {p}) >= Gpus[p]
           better == FindAdmittable(p, tick.at, 0)
           cool(r) == IF Kept(p, r) THEN cooling ELSE cooling \ {p}
           h(r) == IF Kept(p, r) THEN held ELSE [held EXCEPT !["watch"] = @ \ {p}]
           expired(r) == tick.at > End[r]
           skip(r) == tick.at < Start[r] \/ p \in cool(r)
<1>1. PICK r \in IF fits \/ better = {} THEN {cur} ELSE better :
        /\ task_queue' = [task_queue EXCEPT ![p] = r]
        /\ \/ /\ expired(r) \/ skip(r)
              /\ to_remove' = IF expired(r) THEN to_remove \cup {p} ELSE to_remove
              /\ cooling' = cool(r)
              /\ held' = [h(r) EXCEPT !["tick"] = @ \ {p}]
              /\ UNCHANGED <<occupancy, attempt>>
           \/ /\ ~expired(r) /\ ~skip(r)
              /\ BeginAttempt("tick", p, r, cool(r), h(r))
              /\ to_remove' = to_remove
    BY Zenon DEF TickEntry
<1>2. better \subseteq Resv
    BY DEF FindAdmittable, Earliest, TypeOK
<1>3. r \in Resv /\ cool(r) \in SUBSET Pods /\ h(r) \in [Tasks -> SUBSET Pods]
    BY <1>1, <1>2 DEF TypeOK
<1>4. \A u \in Tasks : h(r)[u] \subseteq held[u]
    BY DEF TypeOK
<1>5. to_remove' \in SUBSET Pods
    BY <1>1 DEF TypeOK
<1>6. \/ BeginAttempt("tick", p, r, cool(r), h(r))
      \/ /\ cooling' = cool(r) /\ held' = [h(r) EXCEPT !["tick"] = @ \ {p}]
         /\ UNCHANGED <<occupancy, attempt>>
    BY <1>1, Zenon
<1> HIDE DEF cool, h
<1> QED BY <1>1, <1>3, <1>4, <1>5, <1>6, Zenon

LEMMA TickEntryBase ==
    ASSUME Base, Track, NEW p \in Pods, TickEntry(p)
    PROVE  Base'
<1>1. /\ p \in held["tick"] /\ "tick" \in Tasks
      /\ UNCHANGED <<now, api, reservations, watching, tick, syncing, faults>>
    BY DEF TickEntry, Tasks
<1>2. task_queue[p] \in Resv /\ phase[p] # "absent"
    BY <1>1, ConstantsAssumption DEF Base, Captured, Unknown
<1>3. PICK r \in Resv, cool \in SUBSET Pods, h \in [Tasks -> SUBSET Pods] :
              /\ \A u \in Tasks : h[u] \subseteq held[u]
              /\ task_queue' = [task_queue EXCEPT ![p] = r]
              /\ \/ BeginAttempt("tick", p, r, cool, h)
                 \/ /\ cooling' = cool /\ held' = [h EXCEPT !["tick"] = @ \ {p}]
                    /\ UNCHANGED <<occupancy, attempt>>
              /\ to_remove' \in SUBSET Pods
    BY <1>2, TickEntryShape DEF Base
<1>4. held' = [h EXCEPT !["tick"] = @ \ {p}] =>
        held' \in [Tasks -> SUBSET Pods] /\ \A u \in Tasks : held'[u] \subseteq h[u]
    OBVIOUS
<1>5. Started(p)
    BY <1>1, <1>3, <1>4, StartedHolds
<1>6. events \in Seq(Event) /\ Len(events) <= EventCap
    BY DEF Base, TypeOK
<1> QED BY <1>1, <1>2, <1>3, <1>5, <1>6, StartedBase DEF api, watching

LEMMA TickEndBase ==
    ASSUME Base, Track, TickEnd
    PROVE  Base'
<1> USE DEF Base, TickEnd, api, ledger, watching, syncing
<1>1. /\ task_queue' \in [Pods -> Resv \cup {None}] /\ cooling' \in SUBSET Pods
      /\ held' \in [Tasks -> SUBSET Pods]
      /\ \A p \in Pods : task_queue'[p] = task_queue[p] \/ task_queue'[p] = None
      /\ \A u \in Tasks : \A p \in held'[u] : task_queue'[p] \in Resv
    BY DEF TypeOK, Captured, Forget
<1>2. tick' \in [pc : {"idle", "list", "listed", "drain", "loop"},
                at : 0..MaxTime, snap : [Resv -> SUBSET Pods]]
    <2>1. 0 \in 0..MaxTime
        BY ConstantsAssumption
    <2> QED BY <2>1 DEF TypeOK
<1>3. TypeOK'
    BY <1>1, <1>2, TrackType DEF TypeOK
<1>4. Unknown'
    BY <1>1 DEF Unknown
<1>5. Captured'
    BY <1>1 DEF Captured
<1> QED BY <1>3, <1>4, <1>5

\* Base is inductive.
LEMMA StepBase == Base /\ [Next]_vars => Base'
<1> SUFFICES ASSUME Base, [Next]_vars PROVE Base'
    OBVIOUS
<1>1. CASE Next
    <2>1. Step /\ Track
        BY <1>1 DEF Next
    <2>2. CASE ClockTick
        BY <2>1, <2>2, ClockBase
    <2>3. CASE \E p \in Pods : PodStep(p) \/ Resync(p) \/ CooldownOver(p)
        BY <2>1, <2>3, PodBase, CooldownBase
    <2>4. CASE \E R, C \in SUBSET Resv : ReservationsChange(R, C)
        BY <2>1, <2>4, RefreshBase
    <2>5. CASE SyncStep
        BY <2>1, <2>5, SnapshotBase, EvictionBase DEF SyncStep
    <2>6. CASE WatchStep
        BY <2>1, <2>6, ReadBase, PatchBase, ReturnBase, WatchDropBase, RouteBase,
           RetryPosition, RetryEntryBase DEF WatchStep, AttemptStep, Tasks
    <2>7. CASE TickStep
        BY <2>1, <2>7, ReadBase, PatchBase, ReturnBase, TickPosition, TickEntryBase,
           TickEndBase DEF TickStep, AttemptStep, Tasks
    <2> QED BY <2>1, <2>2, <2>3, <2>4, <2>5, <2>6, <2>7 DEF Step
<1>2. CASE UNCHANGED vars
    BY <1>2 DEF vars, api, ledger, queue, watching, ticking, syncing,
                Base, TypeOK, Unknown, Captured
<1> QED BY <1>1, <1>2

\* Every state is well typed, and the watcher's event queue keeps its bound.
THEOREM TypeCorrect == Spec => []TypeOK
<1>1. Base => TypeOK
    BY DEF Base
<1> QED BY InitBase, StepBase, <1>1, PTL DEF Spec

-----------------------------------------------------------------------------
(* Holders: a step adds at most one, and records it within the budget *)

KeepsHolders ==
    \A r \in Resv, p \in Pods : Holds(r, p)' => Holds(r, p)

AddsHolder(r, p) ==
    /\ Gpus[p] <= Available(r, {p})
    /\ occupancy' = [occupancy EXCEPT ![r] = @ \cup {p}]
    /\ \A s \in Resv, q \in Pods : Holds(s, q)' => Holds(s, q) \/ (s = r /\ q = p)

HoldersBounded == KeepsHolders \/ \E r \in Resv, p \in Pods : AddsHolder(r, p)

\* Same pods and references, and no attempt that was not there.
LEMMA FewerAttempts ==
    ASSUME UNCHANGED <<phase, ref>>,
           \A t \in Tasks : attempt'[t] = NoAttempt
                              \/ /\ attempt'[t].pod = attempt[t].pod
                                 /\ attempt'[t].res = attempt[t].res,
           None \notin Resv
    PROVE  KeepsHolders
BY DEF KeepsHolders, Holds, NoAttempt

\* A pod that leaves "live" or was never known holds nothing new.
LEMMA PodHolders ==
    ASSUME Base, NEW p \in Pods, PodStep(p) \/ Resync(p)
    PROVE  KeepsHolders
<1>1. attempt' = attempt /\ ref' = ref
    BY DEF PodStep, CreatePod, FinishPod, DeletePod, PodGone, Resync, ControllerIdle
<1>2. \A q \in Pods : phase'[q] = "live" => phase[q] = "live" \/ phase[q] = "absent"
    BY DEF PodStep, CreatePod, FinishPod, DeletePod, PodGone, Resync, Base, TypeOK
<1>3. \A q \in Pods : phase[q] = "absent" =>
        ref[q] = None /\ \A t \in Tasks : attempt[t].pod # q
    BY DEF Base, Unknown
<1> QED BY <1>1, <1>2, <1>3, ConstantsAssumption DEF KeepsHolders, Holds

\* The budget check and the record made with it.
LEMMA BeginHolders ==
    ASSUME Base, NEW t \in Tasks, NEW p \in Pods, NEW r \in Resv, NEW cool, NEW h,
           BeginAttempt(t, p, r, cool, h), UNCHANGED <<phase, ref>>
    PROVE  HoldersBounded
<1>1. CASE UNCHANGED <<occupancy, attempt>>
    BY <1>1 DEF HoldersBounded, KeepsHolders, Holds
<1>2. CASE /\ Gpus[p] <= Available(r, {p}) /\ RecordPlacement(r, p)
           /\ attempt' = [attempt EXCEPT ![t] = NewAttempt(p, r)]
    <2>1. attempt \in [Tasks -> AttemptSet]
        BY DEF Base, TypeOK, AttemptSet
    <2>2. \A u \in Tasks : attempt'[u] = attempt[u]
                              \/ (attempt'[u].pod = p /\ attempt'[u].res = r)
        BY <1>2, <2>1, AttemptValues
    <2>3. \A s \in Resv, q \in Pods : Holds(s, q)' => Holds(s, q) \/ (s = r /\ q = p)
        BY <2>2 DEF Holds
    <2> QED BY <1>2, <2>3 DEF HoldersBounded, AddsHolder, RecordPlacement
<1> QED BY <1>1, <1>2, Zenon DEF BeginAttempt, NewAttempt

\* An attempt's own steps add no holder: the patch sets the reference of a pod
\* that held the reservation through the attempt.
LEMMA AttemptHolders ==
    ASSUME Base, NEW t \in Tasks, AttemptStep(t)
    PROVE  KeepsHolders
<1>0. None \notin Resv /\ attempt \in [Tasks -> AttemptSet]
    BY ConstantsAssumption DEF Base, TypeOK, AttemptSet
<1>1. CASE attempt' = [attempt EXCEPT ![t] = NoAttempt] /\ UNCHANGED <<phase, ref>>
    <2>1. \A u \in Tasks : attempt'[u] = NoAttempt \/ attempt'[u] = attempt[u]
        BY <1>0, <1>1
    <2> QED BY <1>0, <1>1, <2>1, FewerAttempts
<1>2. ASSUME NEW st \in {"patch", "applied"}, attempt' = [attempt EXCEPT ![t].st = st]
      PROVE  \A u \in Tasks : /\ attempt'[u].pod = attempt[u].pod
                               /\ attempt'[u].res = attempt[u].res
    BY <1>2, AttemptAdvances DEF Base, Advances
<1>3. CASE attempt' = [attempt EXCEPT ![t].st = "patch"] /\ UNCHANGED <<phase, ref>>
    BY <1>0, <1>2, <1>3, FewerAttempts
<1>4. CASE /\ attempt' = [attempt EXCEPT ![t].st = "applied"] /\ phase' = phase
           /\ ref' = [ref EXCEPT ![attempt[t].pod] = attempt[t].res]
    <2>1. \A u \in Tasks : /\ attempt'[u].pod = attempt[u].pod
                            /\ attempt'[u].res = attempt[u].res
        BY <1>2, <1>4
    <2>2. \A q \in Pods : 
              ref'[q] = ref[q] \/ (q = attempt[t].pod /\ ref'[q] = attempt[t].res)
        BY <1>4 DEF Base, TypeOK
    <2> QED BY <1>4, <2>1, <2>2 DEF KeepsHolders, Holds
<1> QED BY <1>1, <1>3, <1>4
       DEF AttemptStep, ReadPod, PatchPod, PatchReturns, AttemptTrue, AttemptFails, api

\* The three steps that may start an attempt.
MayStart ==
    WatchRoute \/ (\E p \in Pods : RetryEntry(p)) \/ (\E p \in Pods : TickEntry(p))

\* The other steps add no holder.
LEMMA OtherHolders ==
    ASSUME Base, Step, ~MayStart PROVE KeepsHolders
<1>1. CASE UNCHANGED <<phase, ref, attempt>>
    BY <1>1 DEF KeepsHolders, Holds
<1>2. CASE ClockTick
    BY <1>1, <1>2 DEF ClockTick, api
<1>3. CASE \E p \in Pods : PodStep(p) \/ Resync(p) \/ CooldownOver(p)
    BY <1>1, <1>3, PodHolders DEF CooldownOver, api
<1>4. CASE \E R, C \in SUBSET Resv : ReservationsChange(R, C)
    BY <1>1, <1>4 DEF ReservationsChange, api
<1>5. CASE SyncStep
    <2>1. CASE SyncSnapshot
        BY <1>1, <2>1 DEF SyncSnapshot, api
    <2>2. ASSUME NEW p \in Pods, ExecuteEviction(p) PROVE KeepsHolders
        <3>1. /\ UNCHANGED <<ref, attempt>>
              /\ \A q \in Pods : phase'[q] = "live" => phase[q] = "live"
            BY <2>2 DEF ExecuteEviction, api, Base, TypeOK
        <3> QED BY <3>1 DEF KeepsHolders, Holds
    <2> QED BY <1>5, <2>1, <2>2 DEF SyncStep
<1>6. CASE \E t \in Tasks : AttemptStep(t)
    BY <1>6, AttemptHolders
<1>7. CASE WatchGone \/ WatchTolerated \/ RetryStart \/ RetryEnd
    BY <1>1, <1>7 DEF WatchGone, WatchTolerated, RetryStart, RetryEnd, WatchFrame, api
<1>8. CASE TickBegin \/ TickSnapshot \/ TickReconcile \/ TickLoop \/ TickEnd
    BY <1>1, <1>8 DEF TickBegin, TickSnapshot, TickReconcile, TickLoop, TickEnd, api
<1> QED BY <1>2, <1>3, <1>4, <1>5, <1>6, <1>7, <1>8
       DEF Step, WatchStep, TickStep, Tasks, MayStart

LEMMA StepHolders == Base /\ [Next]_vars => HoldersBounded
<1> SUFFICES ASSUME Base, [Next]_vars PROVE HoldersBounded
    OBVIOUS
<1>1. CASE UNCHANGED <<phase, ref, attempt>>
    BY <1>1 DEF HoldersBounded, KeepsHolders, Holds
<1>2. CASE Next
    <2>1. Step
        BY <1>2 DEF Next
    <2>2. CASE ~MayStart
        BY <2>1, <2>2, OtherHolders DEF HoldersBounded
    <2>3. CASE WatchRoute
        <3>1. UNCHANGED <<phase, ref>>
            BY <2>3 DEF WatchRoute, WatchFrame
        <3>2. CASE UNCHANGED <<occupancy, queue, attempt, held>>
            BY <1>1, <3>1, <3>2
        <3>3. CASE ~UNCHANGED <<occupancy, queue, attempt, held>>
            <4>1. PICK r \in Resv, cool \in SUBSET Pods,
                       h \in {held, Forget(held, {Head(events).pod})} :
                     \/ BeginAttempt("watch", Head(events).pod, r, cool, h)
                     \/ UNCHANGED <<occupancy, attempt>>
                BY <2>3, <3>3, RouteShape DEF Base
            <4>2. Head(events).pod \in Pods /\ "watch" \in Tasks
                BY <2>3, HeadKnown DEF WatchRoute, Tasks
            <4> QED BY <1>1, <3>1, <4>1, <4>2, BeginHolders
        <3> QED BY <3>2, <3>3
    <2>4. ASSUME NEW p \in Pods, RetryEntry(p) PROVE HoldersBounded
        <3>1. /\ UNCHANGED <<phase, ref>> /\ watch.res \in Resv /\ "watch" \in Tasks
            BY <2>4 DEF RetryEntry, WatchFrame, Base, Captured, Tasks
        <3>2. \/ UNCHANGED <<occupancy, attempt>>
              \/ BeginAttempt("watch", p, watch.res, cooling, held)
            BY <2>4 DEF RetryEntry
        <3> QED BY <1>1, <3>1, <3>2, BeginHolders
    <2>5. ASSUME NEW p \in Pods, TickEntry(p) PROVE HoldersBounded
        <3>1. /\ UNCHANGED <<phase, ref>> /\ task_queue[p] \in Resv /\ "tick" \in Tasks
            BY <2>5 DEF TickEntry, api, Base, Captured, Tasks
        <3>2. PICK r \in Resv, cool \in SUBSET Pods, h \in [Tasks -> SUBSET Pods] :
                 \/ BeginAttempt("tick", p, r, cool, h)
                 \/ UNCHANGED <<occupancy, attempt>>
            BY <2>5, <3>1, TickEntryShape DEF Base
        <3> QED BY <1>1, <3>1, <3>2, BeginHolders
    <2> QED BY <2>2, <2>3, <2>4, <2>5 DEF MayStart
<1>3. CASE UNCHANGED vars
    BY <1>1, <1>3 DEF vars, api
<1> QED BY <1>2, <1>3

-----------------------------------------------------------------------------
(* The budget *)

Unslipped(r) == {p \in Pods : Holds(r, p) /\ <<r, p>> \notin slipped}

\* Whatever holds after a step and has not slipped either held before without
\* having slipped, and then is still recorded, or is the holder just added.
LEMMA TrackUnslipped ==
    ASSUME Track, Recorded, NEW r \in Resv, NEW p \in Pods,
           p \in Unslipped(r)', Holds(r, p)
    PROVE  p \in Unslipped(r) /\ p \in occupancy[r] /\ p \in occupancy'[r]
BY DEF Track, Recorded, Unslipped

LEMMA StepLedger == LedgerInv /\ TypeOK /\ [Next]_vars => LedgerInv'
<1> SUFFICES ASSUME LedgerInv, TypeOK, [Next]_vars PROVE LedgerInv'
    OBVIOUS
<1>1. Base /\ Base'
    BY StepBase DEF LedgerInv, Base
<1>2. CASE UNCHANGED vars
    BY <1>2 DEF vars, api, ledger, queue, watching, ticking, syncing, LedgerInv,
           Unknown, Captured, Recorded, UnslippedHoldersFit, Holds, SumGpus
<1>3. CASE Next
    <2>1. Track /\ Recorded /\ UnslippedHoldersFit
        BY <1>3 DEF Next, LedgerInv
    <2>2. occupancy \in [Resv -> SUBSET Pods]
        BY DEF TypeOK
    <2>3. CASE KeepsHolders
        <3>1. Recorded'
            BY <2>1, <2>3, TrackUnslipped DEF KeepsHolders, Recorded, Unslipped
        <3>2. ASSUME NEW r \in Resv PROVE SumGpus(Unslipped(r)') <= GpuCount[r]
            <4>1. Unslipped(r)' \in SUBSET Unslipped(r) /\ Unslipped(r) \in SUBSET Pods
                BY <2>1, <2>3, TrackUnslipped DEF KeepsHolders, Unslipped
            <4>2. SumGpus(Unslipped(r)') <= SumGpus(Unslipped(r))
                BY <4>1, SumGpusMonotonic
            <4>3. SumGpus(Unslipped(r)) <= GpuCount[r]
                BY <2>1 DEF UnslippedHoldersFit, Unslipped
            <4>4. SumGpus(Unslipped(r)') \in Nat /\ SumGpus(Unslipped(r)) \in Nat
                BY <4>1, SumGpusNat
            <4> QED BY <4>2, <4>3, <4>4, ConstantsAssumption
        <3> QED BY <1>1, <3>1, <3>2 DEF LedgerInv, Base, UnslippedHoldersFit, Unslipped, SumGpus
    <2>4. ASSUME NEW s \in Resv, NEW p \in Pods, AddsHolder(s, p)
          PROVE  LedgerInv'
        <3>1. /\ occupancy'[s] = occupancy[s] \cup {p}
              /\ \A r \in Resv \ {s} : occupancy'[r] = occupancy[r]
            BY <2>2, <2>4 DEF AddsHolder
        <3>2. Recorded'
            BY <2>1, <2>4, <3>1, TrackUnslipped DEF AddsHolder, Recorded, Unslipped
        <3>3. ASSUME NEW r \in Resv PROVE SumGpus(Unslipped(r)') <= GpuCount[r]
            <4>1. Unslipped(r)' \in SUBSET Pods /\ Unslipped(r) \in SUBSET Pods
                BY DEF Unslipped
            <4>2. CASE r # s
                <5>1. Unslipped(r)' \in SUBSET Unslipped(r)
                    BY <2>1, <2>4, <4>2, TrackUnslipped DEF AddsHolder, Unslipped
                <5>2. SumGpus(Unslipped(r)') <= SumGpus(Unslipped(r))
                    BY <4>1, <5>1, SumGpusMonotonic
                <5>3. SumGpus(Unslipped(r)) <= GpuCount[r]
                    BY <2>1 DEF UnslippedHoldersFit, Unslipped
                <5>4. SumGpus(Unslipped(r)') \in Nat /\ SumGpus(Unslipped(r)) \in Nat
                    BY <4>1, SumGpusNat
                <5> QED BY <5>2, <5>3, <5>4, ConstantsAssumption
            <4>3. CASE r = s
                <5> DEFINE others == occupancy[r] \ {p}
                <5>1. others \in SUBSET Pods /\ others \cup {p} \in SUBSET Pods
                    BY <2>2
                <5>2. Unslipped(r)' \in SUBSET (others \cup {p})
                    BY <2>1, <2>4, <4>3, TrackUnslipped DEF AddsHolder, Unslipped
                <5>3. SumGpus(Unslipped(r)') <= SumGpus(others \cup {p})
                    BY <5>1, <5>2, SumGpusMonotonic
                <5>4. SumGpus(others \cup {p}) <= SumGpus(others) + Gpus[p]
                    BY <5>1, SumGpusAdd
                <5>5. /\ SumGpus(others) \in Nat /\ SumGpus(others \cup {p}) \in Nat
                      /\ SumGpus(Unslipped(r)') \in Nat
                    BY <4>1, <5>1, SumGpusNat
                <5>6. SumGpus(others) + Gpus[p] <= GpuCount[r]
                    <6>1. Gpus[p] <= IF SumGpus(others) > GpuCount[r] THEN 0
                                     ELSE GpuCount[r] - SumGpus(others)
                        BY <2>4, <4>3, Zenon DEF AddsHolder, Available
                    <6>2. Gpus[p] \in Nat \ {0} /\ GpuCount[r] \in Nat
                        BY ConstantsAssumption
                    <6> HIDE DEF others
                    <6> QED BY <5>5, <6>1, <6>2
                <5> HIDE DEF others
                <5>7. Gpus[p] \in Nat /\ GpuCount[r] \in Nat
                    BY ConstantsAssumption
                <5> QED BY <5>3, <5>4, <5>5, <5>6, <5>7
            <4> QED BY <4>2, <4>3
        <3> QED BY <1>1, <3>2, <3>3 DEF LedgerInv, Base, UnslippedHoldersFit, Unslipped, SumGpus
    <2> QED BY <1>1, <2>3, <2>4, StepHolders DEF HoldersBounded
<1> QED BY <1>2, <1>3

LEMMA InitLedger == Init => LedgerInv
<1> SUFFICES ASSUME Init PROVE LedgerInv
    OBVIOUS
<1>1. Base
    BY InitBase
<1>2. \A r \in Resv, p \in Pods : ~Holds(r, p)
    BY DEF Init, Holds
<1>3. Recorded
    BY <1>2 DEF Recorded
<1>4. ASSUME NEW r \in Resv PROVE SumGpus(Unslipped(r)) <= GpuCount[r]
    <2>1. GpuPairs(Unslipped(r)) = {}
        BY <1>2 DEF Unslipped, GpuPairs
    <2>2. SumGpus(Unslipped(r)) = 0
        BY <2>1, FS_EmptySet DEF SumGpus, GpuPairs
    <2> QED BY <2>2, ConstantsAssumption
<1> QED BY <1>1, <1>3, <1>4 DEF LedgerInv, Base, UnslippedHoldersFit, Unslipped

\* The whole of LedgerInv: besides the budget, nothing in the queue, the captured
\* entries or the events is about a pod that does not exist yet, every attempt in
\* flight is about a pod and a booking, and a holder is in the ledger until a
\* rebuild or a rollback drops its record.
THEOREM LedgerKept == Spec => []LedgerInv
<1>1. Init => TypeOK /\ LedgerInv
    BY InitBase, InitLedger DEF Base
<1>2. TypeOK /\ LedgerInv /\ [Next]_vars => (TypeOK /\ LedgerInv)'
    BY StepBase, StepLedger DEF Base, LedgerInv
<1> QED BY <1>1, <1>2, PTL DEF Spec

\* No reservation is handed to more GPUs than it books by pods whose ledger
\* record was never dropped: the check and record of _try_apply_toleration
\* before its first await suffice, for any number of pods and bookings.
THEOREM BudgetKept == Spec => []UnslippedHoldersFit
<1>1. LedgerInv => UnslippedHoldersFit
    BY DEF LedgerInv
<1> QED BY LedgerKept, <1>1, PTL

-----------------------------------------------------------------------------
(* The inductive invariant: what waits, runs or is attempted is in order *)

\* r is a booking of p's own and has begun.
Begins(r, p) == r \in Matches[p] /\ Start[r] <= now

QueueBooked == \A p \in Pods : task_queue[p] \in Matches[p] \cup {None}
RefBooked == \A p \in Pods : ref[p] # None => Begins(ref[p], p)
AttemptBooked ==
    \A t \in Tasks : attempt[t] # NoAttempt => Begins(attempt[t].res, attempt[t].pod)
\* The clocks the loops judge slots by are not ahead of the wall clock.
ClocksPast == watch.at <= now /\ tick.at <= now
\* What _retry_waiters still has to try waits for the freed booking.
RetryCaptured ==
    watch.pc = "retry" => \A p \in held["watch"] : task_queue[p] = watch.res

Booked == QueueBooked /\ RefBooked /\ AttemptBooked /\ ClocksPast /\ RetryCaptured

LEMMA InitBooked == Init => Booked
<1> SUFFICES ASSUME Init PROVE Booked
    OBVIOUS
<1>1. QueueBooked /\ RefBooked /\ AttemptBooked
    BY DEF Init, QueueBooked, RefBooked, AttemptBooked
<1>2. ClocksPast /\ RetryCaptured
    BY DEF Init, ClocksPast, RetryCaptured
<1> QED BY <1>1, <1>2 DEF Booked

\* Both searches look only at bookings of the pod's own.
LEMMA SearchOwn ==
    ASSUME NEW p \in Pods, NEW R \in SUBSET Resv, NEW t, NEW horizon
    PROVE  FindBest(R, p) \subseteq Matches[p] /\ FindAdmittable(p, t, horizon) \subseteq Matches[p]
BY DEF FindBest, FindAdmittable, Earliest

\* An attempt of task t for pod p under r starts, within the budget, its record
\* made in the same step.
Starts(t, p, r) ==
    /\ attempt[t] = NoAttempt
    /\ attempt' = [attempt EXCEPT ![t] = NewAttempt(p, r)]
    /\ Gpus[p] <= Available(r, {p}) /\ RecordPlacement(r, p)
    /\ Begins(r, p)

MayBegin ==
    \/ UNCHANGED <<occupancy, attempt>>
    \/ \E t \in Tasks, p \in Pods, r \in Resv : Starts(t, p, r)

LEMMA BeginStarts ==
    ASSUME NEW t \in Tasks, NEW p \in Pods, NEW r \in Resv, NEW cool, NEW h,
           BeginAttempt(t, p, r, cool, h), attempt[t] = NoAttempt, Begins(r, p)
    PROVE  MayBegin
<1>1. CASE UNCHANGED <<occupancy, attempt>>
    BY <1>1 DEF MayBegin
<1>2. CASE /\ Gpus[p] <= Available(r, {p}) /\ RecordPlacement(r, p)
           /\ attempt' = [attempt EXCEPT ![t] = NewAttempt(p, r)]
    BY <1>2 DEF MayBegin, Starts
<1> QED BY <1>1, <1>2, Zenon DEF BeginAttempt, NewAttempt

\* The watch loop enqueues under a booking of the pod's own, and tries at once
\* only when the slot is open now.
LEMMA RouteOwn ==
    ASSUME Base, Booked, WatchRoute
    PROVE  MayBegin /\ QueueBooked'
<1> DEFINE p == Head(events).pod
           admittable == FindAdmittable(p, now, Horizon)
           best == FindBest(reservations, p)
<1>1. p \in Pods /\ WatchReady
    BY HeadKnown DEF WatchRoute
<1>2. CASE UNCHANGED <<occupancy, queue, attempt, held>>
    BY <1>2 DEF MayBegin, Booked, QueueBooked, queue
<1>3. CASE ~UNCHANGED <<occupancy, queue, attempt, held>>
    <2>1. PICK r \in IF admittable # {} THEN admittable ELSE best :
            LET cool == IF Kept(p, r) THEN cooling ELSE cooling \ {p}
                h == IF Kept(p, r) THEN held ELSE Forget(held, {p})
            IN
            /\ task_queue' = [task_queue EXCEPT ![p] = r]
            /\ IF admittable # {} /\ Head(events).type = "ADDED" /\ Open(r, now) /\ p \notin cool
               THEN BeginAttempt("watch", p, r, cool, h)
               ELSE cooling' = cool /\ held' = h /\ UNCHANGED <<occupancy, attempt>>
        BY <1>3, Zenon DEF WatchRoute
    <2>2. r \in Matches[p] /\ r \in Resv
        BY <1>1, <2>1, SearchOwn, ConstantsAssumption DEF Base, TypeOK
    <2>3. QueueBooked'
        BY <1>1, <2>1, <2>2 DEF Booked, QueueBooked, Base, TypeOK
    <2> DEFINE cool == IF Kept(p, r) THEN cooling ELSE cooling \ {p}
               h == IF Kept(p, r) THEN held ELSE Forget(held, {p})
    <2>4. \/ Open(r, now) /\ BeginAttempt("watch", p, r, cool, h)
          \/ UNCHANGED <<occupancy, attempt>>
        BY <2>1, Zenon
    <2> HIDE DEF cool, h, p
    <2>5. MayBegin
        <3>1. CASE UNCHANGED <<occupancy, attempt>>
            BY <3>1 DEF MayBegin
        <3>2. CASE Open(r, now) /\ BeginAttempt("watch", p, r, cool, h)
            <4>1. "watch" \in Tasks /\ attempt["watch"] = NoAttempt /\ Begins(r, p)
                BY <1>1, <2>2, <3>2 DEF WatchReady, Tasks, Open, Begins
            <4> QED BY <1>1, <2>2, <3>2, <4>1, BeginStarts
        <3> QED BY <2>4, <3>1, <3>2
    <2> QED BY <2>3, <2>5
<1> QED BY <1>2, <1>3

\* _retry_waiters tries an entry for the booking it waits for.
LEMMA RetryOwn ==
    ASSUME Base, Booked, NEW p \in Pods, RetryEntry(p)
    PROVE  MayBegin /\ QueueBooked'
<1>1. /\ watch.pc = "retry" /\ attempt["watch"] = NoAttempt /\ p \in held["watch"]
      /\ task_queue' = task_queue
      /\ \/ UNCHANGED <<occupancy, attempt>>
         \/ /\ Open(watch.res, watch.at)
            /\ BeginAttempt("watch", p, watch.res, cooling, held)
    BY DEF RetryEntry
<1>2. /\ task_queue[p] = watch.res /\ watch.res \in Resv /\ watch.res \in Matches[p]
      /\ "watch" \in Tasks
    BY <1>1, ConstantsAssumption DEF Booked, QueueBooked, RetryCaptured, Base, Captured, Tasks
<1>3. Open(watch.res, watch.at) => Begins(watch.res, p)
    <2>1. /\ watch.at \in Int /\ now \in Int /\ Start[watch.res] \in Int
        BY <1>2, ConstantsAssumption DEF Base, TypeOK
    <2> QED BY <1>2, <2>1 DEF Open, Begins, Booked, ClocksPast
<1>4. MayBegin
    <2>1. CASE UNCHANGED <<occupancy, attempt>>
        BY <2>1 DEF MayBegin
    <2> QED BY <1>1, <1>2, <1>3, <2>1, BeginStarts
<1> QED BY <1>1, <1>4 DEF Booked, QueueBooked

\* The tick keeps an entry or moves it to a booking of the pod's own, and tries
\* it only when the slot has begun.
LEMMA TickOwn ==
    ASSUME Base, Booked, NEW p \in Pods, TickEntry(p)
    PROVE  MayBegin /\ QueueBooked'
<1> DEFINE cur == task_queue[p]
           fits == Open(cur, tick.at) /\ Available(cur, {p}) >= Gpus[p]
           better == FindAdmittable(p, tick.at, 0)
           cool(r) == IF Kept(p, r) THEN cooling ELSE cooling \ {p}
           h(r) == IF Kept(p, r) THEN held ELSE [held EXCEPT !["watch"] = @ \ {p}]
           expired(r) == tick.at > End[r]
           skip(r) == tick.at < Start[r] \/ p \in cool(r)
<1>1. PICK r \in IF fits \/ better = {} THEN {cur} ELSE better :
        /\ task_queue' = [task_queue EXCEPT ![p] = r]
        /\ \/ /\ expired(r) \/ skip(r)
              /\ to_remove' = IF expired(r) THEN to_remove \cup {p} ELSE to_remove
              /\ cooling' = cool(r)
              /\ held' = [h(r) EXCEPT !["tick"] = @ \ {p}]
              /\ UNCHANGED <<occupancy, attempt>>
           \/ /\ ~expired(r) /\ ~skip(r)
              /\ BeginAttempt("tick", p, r, cool(r), h(r))
              /\ to_remove' = to_remove
    BY Zenon DEF TickEntry
<1>2. p \in held["tick"] /\ "tick" \in Tasks /\ attempt["tick"] = NoAttempt
    BY DEF TickEntry, Tasks
<1>3. cur \in Resv /\ cur \in Matches[p]
    BY <1>2, ConstantsAssumption DEF Base, Captured, Booked, QueueBooked
<1>4. r \in Matches[p] /\ r \in Resv
    BY <1>1, <1>3, SearchOwn, ConstantsAssumption
<1>5. QueueBooked'
    BY <1>1, <1>4 DEF Booked, QueueBooked, Base, TypeOK
<1>6. \/ UNCHANGED <<occupancy, attempt>>
      \/ ~(tick.at < Start[r]) /\ BeginAttempt("tick", p, r, cool(r), h(r))
    BY <1>1, Zenon
<1>7. ~(tick.at < Start[r]) => Begins(r, p)
    <2>1. tick.at \in Int /\ now \in Int /\ Start[r] \in Int
        BY <1>4, ConstantsAssumption DEF Base, TypeOK
    <2> QED BY <1>4, <2>1 DEF Begins, Booked, ClocksPast
<1> HIDE DEF cool, h
<1>8. MayBegin
    <2>1. CASE UNCHANGED <<occupancy, attempt>>
        BY <2>1 DEF MayBegin
    <2> QED BY <1>2, <1>4, <1>6, <1>7, <2>1, BeginStarts
<1> QED BY <1>5, <1>8

LEMMA StartOwn ==
    ASSUME Base, Booked, MayStart
    PROVE  /\ MayBegin /\ QueueBooked' /\ UNCHANGED <<now, phase, ref>>
           /\ watch' = watch /\ tick' = tick
<1>1. MayBegin /\ QueueBooked'
    BY RouteOwn, RetryOwn, TickOwn DEF MayStart
<1>2. UNCHANGED <<now, phase, ref>> /\ watch' = watch /\ tick' = tick
    BY DEF MayStart, WatchRoute, RetryEntry, TickEntry, WatchFrame, api, watching, ticking
<1> QED BY <1>1, <1>2

-----------------------------------------------------------------------------
(* The bookings' invariant is inductive *)

\* How an attempt's own steps change it: it goes on, or it ends.
LEMMA AttemptGoesOn ==
    ASSUME Base, NEW t \in Tasks, AttemptStep(t)
    PROVE  /\ attempt[t] # NoAttempt
           /\ attempt[t].pod \in Pods /\ attempt[t].res \in Resv
           /\ \A u \in Tasks :
                 \/ attempt'[u] = NoAttempt
                 \/ /\ attempt[u] # NoAttempt
                    /\ attempt'[u].pod = attempt[u].pod /\ attempt'[u].res = attempt[u].res
<1>1. attempt[t].st # "idle" /\ attempt[t] # NoAttempt
    BY DEF AttemptStep, ReadPod, PatchPod, PatchReturns, NoAttempt
<1>2. attempt[t].pod \in Pods /\ attempt[t].res \in Resv
    BY <1>1 DEF Base, Captured
<1>3. attempt \in [Tasks -> AttemptSet]
    BY DEF Base, TypeOK, AttemptSet
<1>4. CASE attempt' = [attempt EXCEPT ![t] = NoAttempt]
    BY <1>1, <1>2, <1>3, <1>4
<1>5. ASSUME NEW st \in {"patch", "applied"}, attempt' = [attempt EXCEPT ![t].st = st]
      PROVE  \A u \in Tasks :
                 \/ attempt'[u] = NoAttempt
                 \/ /\ attempt[u] # NoAttempt
                    /\ attempt'[u].pod = attempt[u].pod /\ attempt'[u].res = attempt[u].res
    <2>1. Advances(t, st)
        BY <1>5, AttemptAdvances DEF Base
    <2> QED BY <1>1, <2>1 DEF Advances
<1>6. CASE \E st \in {"patch", "applied"} : attempt' = [attempt EXCEPT ![t].st = st]
    BY <1>1, <1>2, <1>5, <1>6
<1> QED BY <1>1, <1>2, <1>4, <1>6
       DEF AttemptStep, ReadPod, PatchPod, PatchReturns, AttemptTrue, AttemptFails

\* A step other than those that may start one leaves every attempt or ends it.
LEMMA OtherAttempts ==
    ASSUME Base, Step, ~MayStart, NEW u \in Tasks, attempt'[u] # NoAttempt
    PROVE  /\ attempt[u] # NoAttempt
           /\ attempt'[u].pod = attempt[u].pod /\ attempt'[u].res = attempt[u].res
<1>1. CASE \E t \in Tasks : AttemptStep(t)
    BY <1>1, AttemptGoesOn
<1>2. CASE ~\E t \in Tasks : AttemptStep(t)
    <2>1. attempt' = attempt
        BY <1>2 DEF Step, SyncStep, WatchStep, TickStep, Tasks, MayStart, ClockTick, PodStep,
               CreatePod, FinishPod, DeletePod, PodGone, Resync, ControllerIdle, CooldownOver,
               ReservationsChange, SyncSnapshot, ExecuteEviction, WatchGone, WatchTolerated,
               RetryStart, RetryEnd, TickBegin, TickSnapshot, TickReconcile, TickLoop, TickEnd
    <2> QED BY <2>1
<1> QED BY <1>1, <1>2

\* The wall clock and the clocks the loops read.
LEMMA StepClocks ==
    ASSUME Base, Booked, Step PROVE now' \in {now, now + 1} /\ ClocksPast'
<1>1. now \in Nat /\ watch.at <= now /\ tick.at <= now /\ watch.at \in Nat /\ tick.at \in Nat
    BY ConstantsAssumption DEF Base, TypeOK, Booked, ClocksPast
<1>2. /\ watch \in [pc : {"idle", "freed", "retry"}, res : Resv \cup {None}, at : 0..MaxTime]
      /\ tick \in [pc : {"idle", "list", "listed", "drain", "loop"},
                    at : 0..MaxTime, snap : [Resv -> SUBSET Pods]]
    BY DEF Base, TypeOK
<1>3. now' \in {now, now + 1}
    BY DEF Step, SyncStep, WatchStep, TickStep, AttemptStep, ReadPod, PatchPod, PatchReturns,
           AttemptFrame, ClockTick, PodStep, CreatePod, FinishPod, DeletePod, PodGone, Resync,
           ControllerIdle, CooldownOver, ReservationsChange, SyncSnapshot, ExecuteEviction,
           WatchGone, WatchTolerated, WatchRoute, RetryStart, RetryEntry, RetryEnd, WatchFrame,
           TickBegin, TickSnapshot, TickReconcile, TickLoop, TickEntry, TickEnd
<1>4. watch'.at \in {watch.at, now, 0}
    <2>1. CASE WatchGone \/ RetryStart \/ RetryEnd
        BY <1>2, <2>1 DEF WatchGone, RetryStart, RetryEnd
    <2>2. CASE ~(WatchGone \/ RetryStart \/ RetryEnd)
        <3>1. watch' = watch
            BY <2>2 DEF Step, SyncStep, WatchStep, TickStep, AttemptStep, ReadPod, PatchPod,
                   PatchReturns, AttemptFrame, ClockTick, PodStep, CreatePod, FinishPod,
                   DeletePod, PodGone, Resync, ControllerIdle, CooldownOver, ReservationsChange,
                   SyncSnapshot, ExecuteEviction, WatchTolerated, WatchRoute, RetryEntry,
                   TickBegin, TickSnapshot, TickReconcile, TickLoop, TickEntry, TickEnd, watching
        <3> QED BY <3>1
    <2> QED BY <2>1, <2>2
<1>5. tick'.at \in {tick.at, now, 0}
    <2>1. CASE TickBegin \/ TickSnapshot \/ TickReconcile \/ TickLoop \/ TickEnd
        BY <1>2, <2>1 DEF TickBegin, TickSnapshot, TickReconcile, TickLoop, TickEnd
    <2>2. CASE ~(TickBegin \/ TickSnapshot \/ TickReconcile \/ TickLoop \/ TickEnd)
        <3>1. tick' = tick
            BY <2>2 DEF Step, SyncStep, WatchStep, TickStep, AttemptStep, ReadPod, PatchPod,
                   PatchReturns, AttemptFrame, ClockTick, PodStep, CreatePod, FinishPod,
                   DeletePod, PodGone, Resync, ControllerIdle, CooldownOver, ReservationsChange,
                   SyncSnapshot, ExecuteEviction, WatchGone, WatchTolerated, WatchRoute,
                   RetryStart, RetryEntry, RetryEnd, WatchFrame, TickEntry, ticking
        <3> QED BY <3>1
    <2> QED BY <2>1, <2>2
<1> QED BY <1>1, <1>3, <1>4, <1>5 DEF ClocksPast

\* Entries are dropped, moved by a refresh to a booking of the pod's own, or
\* enqueued by one of the three steps above.
LEMMA StepQueue ==
    ASSUME Base, Booked, Step PROVE QueueBooked'
<1>1. CASE MayStart
    BY <1>1, StartOwn
<1>2. ASSUME NEW R \in SUBSET Resv, NEW C \in SUBSET Resv, ReservationsChange(R, C)
      PROVE  QueueBooked'
    <2> DEFINE stale == {p \in Pods : task_queue[p] \in Resv \ R}
    <2>1. PICK home \in [stale -> Resv \cup {None}] :
             /\ \A p \in stale : LET best == FindBest(R, p)
                                 IN IF best = {} THEN home[p] = None ELSE home[p] \in best
             /\ task_queue' = [p \in Pods |-> IF p \in stale THEN home[p] ELSE task_queue[p]]
        BY <1>2, Zenon DEF ReservationsChange, ReconcileQueue
    <2>2. \A p \in stale : home[p] \in Matches[p] \cup {None}
        BY <2>1, SearchOwn
    <2> HIDE DEF stale
    <2> QED BY <2>1, <2>2 DEF Booked, QueueBooked
<1>3. CASE ~MayStart /\ ~\E R, C \in SUBSET Resv : ReservationsChange(R, C)
    <2>1. \A p \in Pods : task_queue'[p] \in {task_queue[p], None}
        <3>1. CASE task_queue' = task_queue
            BY <3>1
        <3>2. CASE \E t \in Tasks : AttemptStep(t)
            <4>1. PICK t \in Tasks : AttemptStep(t)
                BY <3>2
            <4>2. DequeuePod(attempt[t].pod) => \A p \in Pods : task_queue'[p] \in {task_queue[p], None}
                BY DEF DequeuePod, Base, TypeOK
            <4> QED BY <4>1, <4>2 DEF AttemptStep, ReadPod, PatchPod, PatchReturns,
                        AttemptTrue, AttemptFails, queue
        <3>3. CASE WatchGone \/ WatchTolerated
            <4>1. DequeuePod(Head(events).pod)
                BY <3>3 DEF WatchGone, WatchTolerated
            <4> QED BY <4>1 DEF DequeuePod, Base, TypeOK
        <3>4. CASE TickEnd
            BY <3>4 DEF TickEnd
        <3> QED BY <1>3, <3>1, <3>2, <3>3, <3>4
               DEF Step, SyncStep, WatchStep, TickStep, Tasks, MayStart, ClockTick, PodStep,
                   CreatePod, FinishPod, DeletePod, PodGone, Resync, ControllerIdle, CooldownOver,
                   SyncSnapshot, ExecuteEviction, RetryStart, RetryEnd, TickBegin, TickSnapshot,
                   TickReconcile, TickLoop, queue
    <2> QED BY <2>1 DEF Booked, QueueBooked
<1> QED BY <1>1, <1>2, <1>3

\* A reference is set only by the patch of an attempt.
LEMMA StepRef ==
    ASSUME Base, Booked, Step PROVE RefBooked'
<1>1. now' \in {now, now + 1}
    BY StepClocks
<1>2. \A p \in Pods : ref'[p] # None => Begins(ref'[p], p)
    <2>1. CASE \E t \in Tasks : PatchPod(t) /\ ref' = [ref EXCEPT ![attempt[t].pod] = attempt[t].res]
        <3>1. PICK t \in Tasks : PatchPod(t) /\ ref' = [ref EXCEPT ![attempt[t].pod] = attempt[t].res]
            BY <2>1
        <3>2. attempt[t] # NoAttempt
            BY <3>1, AttemptGoesOn DEF AttemptStep
        <3> QED BY <3>1, <3>2 DEF Booked, RefBooked, AttemptBooked, Base, TypeOK
    <2>2. CASE ~\E t \in Tasks : PatchPod(t) /\ ref' = [ref EXCEPT ![attempt[t].pod] = attempt[t].res]
        <3>1. ref' = ref
            BY <2>2
               DEF Step, SyncStep, WatchStep, TickStep, AttemptStep, Tasks, ClockTick, PodStep,
                   CreatePod, FinishPod, DeletePod, PodGone, Resync, ControllerIdle, CooldownOver,
                   ReservationsChange, SyncSnapshot, ExecuteEviction, ReadPod, PatchPod,
                   PatchReturns, WatchGone, WatchTolerated, WatchRoute, RetryStart, RetryEntry,
                   RetryEnd, WatchFrame, TickBegin, TickSnapshot, TickReconcile, TickLoop,
                   TickEntry, TickEnd, api
        <3> QED BY <3>1 DEF Booked, RefBooked
    <2> QED BY <2>1, <2>2
<1> SUFFICES ASSUME NEW p \in Pods, ref'[p] # None
             PROVE  ref'[p] \in Matches[p] /\ Start[ref'[p]] <= now'
    BY DEF RefBooked, Begins
<1>3. ref'[p] \in Matches[p] /\ Start[ref'[p]] <= now /\ ref'[p] \in Resv
    BY <1>2, ConstantsAssumption DEF Begins
<1> QED BY <1>1, <1>3, ConstantsAssumption DEF Base, TypeOK

LEMMA StepAttempts ==
    ASSUME Base, Booked, Step PROVE AttemptBooked'
<1> SUFFICES ASSUME NEW t \in Tasks, attempt'[t] # NoAttempt
             PROVE  /\ attempt'[t].res \in Matches[attempt'[t].pod]
                    /\ Start[attempt'[t].res] <= now'
    BY DEF AttemptBooked, Begins
<1>1. /\ Begins(attempt'[t].res, attempt'[t].pod)
      /\ attempt'[t].res \in Resv /\ attempt'[t].pod \in Pods
    <2>1. CASE ~MayStart
        BY <2>1, OtherAttempts DEF Booked, AttemptBooked, Base, Captured
    <2>2. CASE MayStart /\ attempt' = attempt
        BY <2>2 DEF Booked, AttemptBooked, Base, Captured
    <2>3. CASE MayStart /\ attempt' # attempt
        <3>1. PICK u \in Tasks, p \in Pods, r \in Resv : Starts(u, p, r)
            BY <2>3, StartOwn DEF MayBegin
        <3>2. attempt'[t] = attempt[t] \/ attempt'[t] = NewAttempt(p, r)
            BY <3>1 DEF Starts, Base, TypeOK
        <3>3. CASE attempt'[t] = attempt[t]
            BY <3>3 DEF Booked, AttemptBooked, Base, Captured
        <3>4. CASE attempt'[t] = NewAttempt(p, r)
            BY <3>1, <3>4, AttemptValues DEF Starts
        <3> QED BY <3>2, <3>3, <3>4
    <2> QED BY <2>1, <2>2, <2>3
<1>2. now' \in {now, now + 1}
    BY StepClocks
<1> QED BY <1>1, <1>2, ConstantsAssumption DEF Begins, Base, TypeOK

\* The tick takes an entry it moves away from the watch loop.
LEMMA TickLeavesWatch ==
    ASSUME Base, NEW p \in Pods, TickEntry(p)
    PROVE  \A q \in held'["watch"] : q \in held["watch"] /\ task_queue'[q] = task_queue[q]
<1> DEFINE cur == task_queue[p]
           fits == Open(cur, tick.at) /\ Available(cur, {p}) >= Gpus[p]
           better == FindAdmittable(p, tick.at, 0)
           cool(r) == IF Kept(p, r) THEN cooling ELSE cooling \ {p}
           h(r) == IF Kept(p, r) THEN held ELSE [held EXCEPT !["watch"] = @ \ {p}]
           expired(r) == tick.at > End[r]
           skip(r) == tick.at < Start[r] \/ p \in cool(r)
<1>1. PICK r \in IF fits \/ better = {} THEN {cur} ELSE better :
        /\ task_queue' = [task_queue EXCEPT ![p] = r]
        /\ \/ /\ expired(r) \/ skip(r)
              /\ to_remove' = IF expired(r) THEN to_remove \cup {p} ELSE to_remove
              /\ cooling' = cool(r)
              /\ held' = [h(r) EXCEPT !["tick"] = @ \ {p}]
              /\ UNCHANGED <<occupancy, attempt>>
           \/ /\ ~expired(r) /\ ~skip(r)
              /\ BeginAttempt("tick", p, r, cool(r), h(r))
              /\ to_remove' = to_remove
    BY Zenon DEF TickEntry
<1>2. /\ held \in [Tasks -> SUBSET Pods] /\ "watch" \in Tasks /\ "tick" # "watch"
      /\ task_queue \in [Pods -> Resv \cup {None}]
    BY DEF Base, TypeOK, Tasks
<1>3. \/ held' = [h(r) EXCEPT !["tick"] = @ \ {p}]
      \/ held' = [h(r) EXCEPT !["tick"] = @ \cup {p}]
    BY <1>1, Zenon DEF BeginAttempt
<1>4. task_queue' = [task_queue EXCEPT ![p] = r]
    BY <1>1, Zenon
<1>5. CASE Kept(p, r)
    <2>1. h(r) = held /\ task_queue[p] = r
        BY <1>5 DEF Kept
    <2>2. \/ held' = [held EXCEPT !["tick"] = @ \ {p}]
          \/ held' = [held EXCEPT !["tick"] = @ \cup {p}]
        BY <1>3, <2>1, Zenon
    <2> QED BY <1>2, <1>4, <2>1, <2>2
<1>6. CASE ~Kept(p, r)
    <2> DEFINE g == [held EXCEPT !["watch"] = @ \ {p}]
    <2>1. h(r) = g
        BY <1>6
    <2>2. \/ held' = [g EXCEPT !["tick"] = @ \ {p}]
          \/ held' = [g EXCEPT !["tick"] = @ \cup {p}]
        BY <1>3, <2>1, Zenon
    <2>3. g \in [Tasks -> SUBSET Pods] /\ g["watch"] = held["watch"] \ {p}
        BY <1>2
    <2> HIDE DEF g
    <2>4. held'["watch"] = held["watch"] \ {p}
        BY <1>2, <2>2, <2>3
    <2> QED BY <1>2, <1>4, <2>4
<1> QED BY <1>5, <1>6

LEMMA StepRetry ==
    ASSUME Base, Booked, Step PROVE RetryCaptured'
<1> SUFFICES ASSUME watch'.pc = "retry", NEW p \in held'["watch"]
             PROVE  task_queue'[p] = watch'.res
    BY DEF RetryCaptured
<1>1. /\ watch \in [pc : {"idle", "freed", "retry"}, res : Resv \cup {None}, at : 0..MaxTime]
      /\ held \in [Tasks -> SUBSET Pods] /\ "watch" \in Tasks
      /\ task_queue \in [Pods -> Resv \cup {None}]
    BY DEF Base, TypeOK, Tasks
<1>2. CASE RetryStart
    BY <1>1, <1>2 DEF RetryStart, queue
<1>3. CASE ~RetryStart
    <2>1. ~WatchGone /\ ~RetryEnd /\ watch' = watch
        <3>1. ~WatchGone /\ ~RetryEnd
            BY <1>1 DEF WatchGone, RetryEnd, WatchReady
        <3> QED BY <1>3, <3>1
               DEF Step, SyncStep, WatchStep, TickStep, AttemptStep, ReadPod, PatchPod,
                   PatchReturns, AttemptFrame, ClockTick, PodStep, CreatePod, FinishPod,
                   DeletePod, PodGone, Resync, ControllerIdle, CooldownOver, ReservationsChange,
                   SyncSnapshot, ExecuteEviction, WatchTolerated, WatchRoute, RetryEntry,
                   TickBegin, TickSnapshot, TickReconcile, TickLoop, TickEntry, TickEnd, watching
    <2>2. watch.pc = "retry" /\ ~WatchTolerated /\ ~WatchRoute
        BY <2>1 DEF WatchTolerated, WatchRoute, WatchReady
    <2>3. p \in held["watch"] /\ task_queue'[p] = task_queue[p]
        <3>1. CASE UNCHANGED <<held, task_queue>>
            BY <3>1
        <3>2. ASSUME NEW R \in SUBSET Resv, NEW C \in SUBSET Resv, ReservationsChange(R, C)
              PROVE  p \in held["watch"] /\ task_queue'[p] = task_queue[p]
            BY <1>1, <3>2 DEF ReservationsChange, ReconcileQueue, Forget
        <3>3. ASSUME NEW t \in Tasks, AttemptStep(t)
              PROVE  p \in held["watch"] /\ task_queue'[p] = task_queue[p]
            <4>1. CASE UNCHANGED <<held, queue>>
                BY <4>1 DEF queue
            <4>2. CASE AttemptTrue(t) \/ AttemptFails(t)
                <5>1. attempt[t].pod \in Pods
                    BY <3>3, AttemptGoesOn
                <5> QED BY <1>1, <4>2, <5>1
                        DEF AttemptTrue, AttemptFails, DequeuePod, Forget, queue
            <4> QED BY <3>3, <4>1, <4>2 DEF AttemptStep, ReadPod, PatchPod, PatchReturns
        <3>4. ASSUME NEW q \in Pods, RetryEntry(q)
              PROVE  p \in held["watch"] /\ task_queue'[p] = task_queue[p]
            BY <1>1, <3>4 DEF RetryEntry, BeginAttempt
        <3>5. CASE \E q \in Pods : TickEntry(q)
            BY <3>5, TickLeavesWatch
        <3>6. CASE TickLoop
            BY <1>1, <3>6 DEF TickLoop, queue
        <3>7. CASE TickEnd
            BY <1>1, <3>7 DEF TickEnd, Forget
        <3> QED BY <1>3, <2>1, <2>2, <3>1, <3>2, <3>3, <3>4, <3>5, <3>6, <3>7
               DEF Step, SyncStep, WatchStep, TickStep, Tasks, ClockTick, PodStep,
                   CreatePod, FinishPod, DeletePod, PodGone, Resync, ControllerIdle, CooldownOver,
                   SyncSnapshot, ExecuteEviction, TickBegin, TickSnapshot,
                   TickReconcile, queue
    <2> QED BY <2>1, <2>2, <2>3 DEF Booked, RetryCaptured
<1> QED BY <1>2, <1>3

LEMMA StepBooked == Base /\ Booked /\ [Next]_vars => Booked'
<1> SUFFICES ASSUME Base, Booked, [Next]_vars PROVE Booked'
    OBVIOUS
<1>1. CASE Next
    BY <1>1, StepQueue, StepRef, StepAttempts, StepClocks, StepRetry DEF Next, Booked
<1>2. CASE UNCHANGED vars
    BY <1>2 DEF vars, api, queue, watching, ticking, Booked, QueueBooked, RefBooked,
           AttemptBooked, ClocksPast, RetryCaptured, Begins
<1> QED BY <1>1, <1>2

\* No pod is admitted before its slot, for every instance: the clocks read before
\* an await only lag, and what an attempt is started for has begun by them.
THEOREM WindowKept == Spec => []NeverBeforeWindow
<1>1. Booked => NeverBeforeWindow
    BY DEF Booked, RefBooked, Begins, NeverBeforeWindow
<1> QED BY InitBase, InitBooked, StepBase, StepBooked, <1>1, PTL DEF Spec

-----------------------------------------------------------------------------
(* The refinement of Bookings *)

Has == [r \in Resv |-> Unslipped(r)]

LEMMA InitRefines == Init => Promise!Init
<1> SUFFICES ASSUME Init PROVE Promise!Init
    OBVIOUS
<1>1. \A r \in Resv, p \in Pods : ~Holds(r, p)
    BY DEF Init, Holds
<1> QED BY <1>1 DEF Init, Promise!Init

\* A step that starts no attempt and lets no time pass only takes holders away.
LEMMA LeaveRefines ==
    ASSUME Track, Recorded, KeepsHolders, now' = now PROVE Promise!Leave
<1>1. \A r \in Resv : Unslipped(r)' \subseteq Unslipped(r) /\ Unslipped(r)' \subseteq Pods
    BY TrackUnslipped DEF KeepsHolders, Unslipped
<1> QED BY <1>1 DEF Promise!Leave, Unslipped

\* The clock changes no holder.
LEMMA TickRefines ==
    ASSUME Base, Track, ClockTick PROVE Promise!Tick
<1>1. \A r \in Resv, p \in Pods : Holds(r, p)' <=> Holds(r, p)
    BY DEF ClockTick, Holds, api
<1>2. occupancy' = occupancy /\ now' = now + 1
    BY DEF ClockTick, ledger
<1>3. \A r \in Resv, p \in Pods :
        Holds(r, p) => (<<r, p>> \in slipped' <=> <<r, p>> \in slipped)
    BY <1>1, <1>2 DEF Track
<1>4. \A r \in Resv : Unslipped(r)' = Unslipped(r)
    BY <1>1, <1>3 DEF Unslipped
<1> QED BY <1>2, <1>4 DEF Promise!Tick, Unslipped

\* A started attempt takes nothing from the other holders.
LEMMA StartKeeps ==
    ASSUME Base, Track, Recorded, NEW t \in Tasks, NEW p \in Pods, NEW r \in Resv,
           Starts(t, p, r), UNCHANGED <<phase, ref>>
    PROVE  /\ \A s \in Resv : Unslipped(s) \subseteq Unslipped(s)'
           /\ \A s \in Resv \ {r} : Unslipped(s)' \subseteq Unslipped(s)
           /\ Unslipped(r)' \subseteq Unslipped(r) \cup {p}
           /\ Unslipped(r) \subseteq occupancy[r]
<1>1. /\ attempt \in [Tasks -> AttemptSet] /\ occupancy \in [Resv -> SUBSET Pods]
      /\ occupancy' = [occupancy EXCEPT ![r] = @ \cup {p}]
      /\ attempt[t] = NoAttempt /\ attempt' = [attempt EXCEPT ![t] = NewAttempt(p, r)]
    BY DEF Starts, Base, TypeOK, AttemptSet, RecordPlacement
<1>2. \A s \in Resv, q \in Pods : Holds(s, q) => Holds(s, q)'
    <2> SUFFICES ASSUME NEW s \in Resv, NEW q \in Pods, NEW u \in Tasks,
                        attempt[u].pod = q, attempt[u].res = s
                 PROVE  attempt'[u] = attempt[u]
        BY DEF Holds
    <2>1. u # t
        BY <1>1, AttemptValues, ConstantsAssumption
    <2> QED BY <1>1, <2>1
<1>3. \A s \in Resv, q \in Pods : Holds(s, q)' => Holds(s, q) \/ (s = r /\ q = p)
    <2>1. \A u \in Tasks : attempt'[u] = attempt[u]
                              \/ (attempt'[u].pod = p /\ attempt'[u].res = r)
        BY <1>1, AttemptValues
    <2> QED BY <2>1 DEF Holds
<1>4. \A s \in Resv : occupancy[s] \subseteq occupancy'[s]
    BY <1>1
<1>5. \A s \in Resv : \A q \in Unslipped(s) : <<s, q>> \notin slipped'
    BY <1>4 DEF Track, Unslipped
<1>6. \A s \in Resv : Unslipped(s) \subseteq Unslipped(s)'
    BY <1>2, <1>5 DEF Unslipped
<1>7. \A s \in Resv : \A q \in Unslipped(s)' : q \in Unslipped(s) \/ (s = r /\ q = p)
    <2> SUFFICES ASSUME NEW s \in Resv, NEW q \in Unslipped(s)', ~(s = r /\ q = p)
                 PROVE  q \in Unslipped(s)
        OBVIOUS
    <2>1. q \in Pods /\ Holds(s, q)
        BY <1>3 DEF Unslipped
    <2> QED BY <2>1, TrackUnslipped
<1> QED BY <1>6, <1>7 DEF Recorded, Unslipped

\* It takes GPUs of a booking that is the pod's own, has begun and has room.
LEMMA TakeRefines ==
    ASSUME Base, Track, Recorded, NEW t \in Tasks, NEW p \in Pods, NEW r \in Resv,
           Starts(t, p, r), UNCHANGED <<now, phase, ref>>
    PROVE  [Promise!Next]_(Promise!vars)
<1>1. /\ \A s \in Resv : Unslipped(s) \subseteq Unslipped(s)'
      /\ \A s \in Resv \ {r} : Unslipped(s)' \subseteq Unslipped(s)
      /\ Unslipped(r)' \subseteq Unslipped(r) \cup {p}
      /\ Unslipped(r) \subseteq occupancy[r]
    BY StartKeeps
<1>2. CASE p \notin Unslipped(r)'
    <2>1. \A s \in Resv : Unslipped(s)' = Unslipped(s)
        BY <1>1, <1>2
    <2> QED BY <2>1 DEF Promise!vars, Unslipped
<1>3. CASE p \in Unslipped(r)'
    <2>1. SumGpus(Unslipped(r) \cup {p}) <= GpuCount[r]
        <3> DEFINE others == occupancy[r] \ {p}
        <3>1. others \in SUBSET Pods /\ others \cup {p} \in SUBSET Pods
              /\ Unslipped(r) \cup {p} \in SUBSET (others \cup {p})
            BY <1>1 DEF Base, TypeOK
        <3>2. SumGpus(Unslipped(r) \cup {p}) <= SumGpus(others \cup {p})
            BY <3>1, SumGpusMonotonic
        <3>3. SumGpus(others \cup {p}) <= SumGpus(others) + Gpus[p]
            BY <3>1, SumGpusAdd
        <3>4. /\ SumGpus(others) \in Nat /\ SumGpus(others \cup {p}) \in Nat
              /\ SumGpus(Unslipped(r) \cup {p}) \in Nat
            <4>1. Unslipped(r) \cup {p} \in SUBSET Pods
                BY DEF Unslipped
            <4> QED BY <3>1, <4>1, SumGpusNat
        <3>5. Gpus[p] <= IF SumGpus(others) > GpuCount[r] THEN 0
                         ELSE GpuCount[r] - SumGpus(others)
            BY Zenon DEF Starts, Available
        <3>6. Gpus[p] \in Nat \ {0} /\ GpuCount[r] \in Nat
            BY ConstantsAssumption
        <3> HIDE DEF others
        <3> QED BY <3>2, <3>3, <3>4, <3>5, <3>6
    <2>2. r \in Matches[p] /\ Start[r] <= now
        BY DEF Starts, Begins
    <2>3. \A s \in Resv : Unslipped(s)' = IF s = r THEN Unslipped(s) \cup {p} ELSE Unslipped(s)
        BY <1>1, <1>3
    <2>4. Has' = [Has EXCEPT ![r] = @ \cup {p}] /\ Has[r] = Unslipped(r)
        BY <2>3 DEF Has
    <2>5. Promise!SumGpus(Has[r] \cup {p}) <= GpuCount[r]
        <3>1. Promise!SumGpus(Unslipped(r) \cup {p}) = SumGpus(Unslipped(r) \cup {p})
            BY Zenon DEF Promise!SumGpus, SumGpus, Promise!Cardinality, Cardinality
        <3> QED BY <2>1, <2>4, <3>1
    <2>6. Promise!Take(r, p)
        BY <2>2, <2>4, <2>5, Zenon DEF Promise!Take, Has, Unslipped
    <2> QED BY <2>6 DEF Promise!Next
<1> QED BY <1>2, <1>3

LEMMA StepRefines ==
    Base /\ Booked /\ Recorded /\ [Next]_vars => [Promise!Next]_(Promise!vars)
<1> SUFFICES ASSUME Base, Booked, Recorded, [Next]_vars
             PROVE  [Promise!Next]_(Promise!vars)
    OBVIOUS
<1>1. CASE UNCHANGED vars
    <2>1. /\ now' = now /\ slipped' = slipped
          /\ \A r \in Resv, p \in Pods : Holds(r, p)' <=> Holds(r, p)
        BY <1>1 DEF vars, api, Holds
    <2> QED BY <2>1 DEF Promise!vars
<1>2. CASE Next
    <2>1. Step /\ Track
        BY <1>2 DEF Next
    <2>2. CASE ClockTick
        BY <2>1, <2>2, TickRefines DEF Promise!Next
    <2>3. CASE ~ClockTick /\ ~MayStart
        <3>1. now' = now
            BY <2>1, <2>3
               DEF Step, SyncStep, WatchStep, TickStep, AttemptStep, ReadPod, PatchPod,
                   PatchReturns, AttemptFrame, PodStep, CreatePod, FinishPod, DeletePod,
                   PodGone, Resync, ControllerIdle, CooldownOver, ReservationsChange,
                   SyncSnapshot, ExecuteEviction, WatchGone, WatchTolerated, RetryStart,
                   RetryEnd, WatchFrame, TickBegin, TickSnapshot, TickReconcile, TickLoop,
                   TickEnd, MayStart
        <3> QED BY <2>1, <2>3, <3>1, OtherHolders, LeaveRefines DEF Promise!Next
    <2>4. CASE MayStart
        <3>1. MayBegin /\ UNCHANGED <<now, phase, ref>>
            BY <2>4, StartOwn
        <3>2. CASE UNCHANGED <<occupancy, attempt>>
            <4>1. KeepsHolders
                BY <3>1, <3>2 DEF KeepsHolders, Holds
            <4> QED BY <2>1, <3>1, <4>1, LeaveRefines DEF Promise!Next
        <3> QED BY <2>1, <3>1, <3>2, TakeRefines DEF MayBegin
    <2> QED BY <2>2, <2>3, <2>4
<1> QED BY <1>1, <1>2

\* The code keeps the promise of Bookings, for any number of pods, bookings,
\* refreshes and failed calls.
THEOREM BookingsKept == Spec => BookingsPromise
<1>1. Init => TypeOK /\ LedgerInv /\ Booked /\ Promise!Init
    BY InitBase, InitLedger, InitBooked, InitRefines DEF Base
<1>2. TypeOK /\ LedgerInv /\ Booked /\ [Next]_vars
        => (TypeOK /\ LedgerInv /\ Booked)' /\ [Promise!Next]_(Promise!vars)
    BY StepBase, StepLedger, StepBooked, StepRefines DEF Base, LedgerInv
<1> QED BY <1>1, <1>2, PTL DEF Spec, BookingsPromise, Promise!Spec

-----------------------------------------------------------------------------
(* Where a holder's record may be lost *)

\* An event of an end is about a pod that has ended: the watch loop does not
\* release the record of a pod that runs.
Ended == {"done", "gone"}
EventsPast ==
    \A i \in 1..Len(events) :
        events[i].type = "DELETED" \/ events[i].phase = "done" => phase[events[i].pod] \in Ended

\* Pods that ended stay ended, and the event a step posts is true of its pod.
LEMMA EventsStayPast ==
    ASSUME Base, EventsPast,
           \A q \in Pods : phase[q] \in Ended => phase'[q] \in Ended,
           \/ /\ events' \in Seq(Event)
              /\ \A i \in 1..Len(events') : \E j \in 1..Len(events) : events'[i] = events[j]
           \/ \E e \in Event :
                 /\ Offer(e)
                 /\ e.type = "DELETED" \/ e.phase = "done" => phase'[e.pod] \in Ended
    PROVE  EventsPast'
<1>1. events \in Seq(Event)
    BY DEF Base, TypeOK
<1>2. \A i \in 1..Len(events) : events[i] \in Event /\ events[i].pod \in Pods
    <2>1. \A i \in 1..Len(events) : events[i] \in Event
        BY <1>1
    <2> QED BY <2>1 DEF Event
<1>3. CASE \A i \in 1..Len(events') : \E j \in 1..Len(events) : events'[i] = events[j]
    BY <1>2, <1>3 DEF EventsPast
<1>4. ASSUME NEW e \in Event, Offer(e),
             e.type = "DELETED" \/ e.phase = "done" => phase'[e.pod] \in Ended
      PROVE  EventsPast'
    <2>1. \A i \in 1..Len(events') :
                 events'[i] = e \/ \E j \in 1..Len(events) : events'[i] = events[j]
        BY <1>4, OfferEvents DEF Base
    <2> QED BY <1>2, <1>4, <2>1 DEF EventsPast
<1> QED BY <1>3, <1>4

\* Pod steps and evictions: the phase goes on and the event carries it.
LEMMA PodPast ==
    ASSUME Base, EventsPast, NEW p \in Pods, PodStep(p) \/ Resync(p) \/ ExecuteEviction(p)
    PROVE  EventsPast'
<1> DEFINE e(type) == [type |-> type, pod |-> p, phase |-> phase'[p], ref |-> ref'[p]]
<1>1. /\ phase \in [Pods -> Phases] /\ ref \in [Pods -> Resv \cup {None}]
      /\ events \in Seq(Event)
    BY DEF Base, TypeOK
<1>2. /\ phase' \in [Pods -> Phases] /\ ref' = ref
      /\ \A q \in Pods : phase[q] \in Ended => phase'[q] \in Ended
    BY <1>1 DEF PodStep, CreatePod, FinishPod, DeletePod, PodGone, Resync, ExecuteEviction,
           api, Phases, Ended
<1>3. \/ events' = events
      \/ \E type \in {"ADDED", "MODIFIED", "DELETED"} :
            Offer(e(type)) /\ (type = "DELETED" => phase'[p] \in Ended)
    BY <1>1 DEF PodStep, CreatePod, FinishPod, DeletePod, PodGone, Resync, ExecuteEviction,
           api, Notify, Ended
<1>4. \A type \in {"ADDED", "MODIFIED", "DELETED"} :
        /\ e(type) \in Event /\ e(type).pod = p /\ e(type).type = type
        /\ e(type).phase = phase'[p]
    BY <1>1, <1>2 DEF Event
<1>5. CASE events' = events
    BY <1>1, <1>2, <1>5, EventsStayPast
<1>6. CASE \E type \in {"ADDED", "MODIFIED", "DELETED"} :
            Offer(e(type)) /\ (type = "DELETED" => phase'[p] \in Ended)
    <2>1. PICK type \in {"ADDED", "MODIFIED", "DELETED"} :
            Offer(e(type)) /\ (type = "DELETED" => phase'[p] \in Ended)
        BY <1>6
    <2>2. e(type) \in Event
        BY <1>4
    <2>3. e(type).type = "DELETED" \/ e(type).phase = "done" => phase'[e(type).pod] \in Ended
        BY <1>4, <2>1 DEF Ended
    <2> HIDE DEF e
    <2> QED BY <1>2, <2>1, <2>2, <2>3, EventsStayPast
<1> QED BY <1>3, <1>5, <1>6

LEMMA StepPast == Base /\ EventsPast /\ [Next]_vars => EventsPast'
<1> SUFFICES ASSUME Base, EventsPast, [Next]_vars PROVE EventsPast'
    OBVIOUS
<1>0. events \in Seq(Event)
    BY DEF Base, TypeOK
<1>1. CASE UNCHANGED <<phase, events>>
    BY <1>1 DEF EventsPast
<1>2. CASE \E p \in Pods : PodStep(p) \/ Resync(p) \/ ExecuteEviction(p)
    BY <1>2, PodPast
<1>3. CASE WatchGone \/ WatchTolerated \/ WatchRoute
    <2>1. WatchReady /\ Consume /\ phase' = phase
        BY <1>3 DEF WatchGone, WatchTolerated, WatchRoute, WatchFrame
    <2> QED BY <2>1, HeadKnown, EventsStayPast
<1>4. ASSUME NEW t \in Tasks, PatchPod(t) PROVE EventsPast'
    <2> DEFINE p == attempt[t].pod
               e == [type |-> "MODIFIED", pod |-> p, phase |-> phase'[p], ref |-> ref'[p]]
    <2>1. CASE UNCHANGED api
        BY <1>1, <2>1 DEF api
    <2>2. CASE ~UNCHANGED api
        <3>1. /\ phase' = phase /\ ref' = [ref EXCEPT ![p] = attempt[t].res] /\ Offer(e)
            BY <1>4, <2>2 DEF PatchPod, Notify
        <3>2. p \in Pods /\ attempt[t].res \in Resv
            BY <1>4, AttemptGoesOn DEF AttemptStep
        <3>3. e \in Event /\ e.type = "MODIFIED" /\ e.pod = p /\ e.phase = phase'[p]
            BY <3>1, <3>2 DEF Event, Base, TypeOK
        <3> HIDE DEF e
        <3> QED BY <3>1, <3>3, EventsStayPast DEF Ended
    <2> QED BY <2>1, <2>2
<1>5. CASE UNCHANGED vars
    BY <1>1, <1>5 DEF vars, api
<1>6. CASE Step
    BY <1>1, <1>2, <1>3, <1>4, <1>6
       DEF Step, SyncStep, WatchStep, TickStep, AttemptStep, Tasks, ReadPod, PatchReturns,
           ClockTick, CooldownOver, ReservationsChange, SyncSnapshot, RetryStart, RetryEntry,
           RetryEnd, WatchFrame, TickBegin, TickSnapshot, TickReconcile, TickLoop, TickEntry,
           TickEnd, api
<1> QED BY <1>5, <1>6 DEF Next

\* release_pod takes no record but the pod's.
LEMMA ReleaseTakes ==
    ASSUME TypeOK, NEW p \in Pods, NEW rid \in Resv \cup {None}, ReleasePod(p, rid)
    PROVE  \A r \in Resv : occupancy[r] \ {p} \subseteq occupancy'[r]
BY DEF ReleasePod, TypeOK

\* An attempt gives up its own pod's record, and then it has ended or the pod has.
LEMMA AttemptRecords ==
    ASSUME Base, NEW t \in Tasks, AttemptStep(t), NEW r \in Resv, NEW q \in Pods,
           q \in occupancy[r], q \notin occupancy'[r], phase'[q] = "live"
    PROVE  attempt[t].pod = q /\ attempt'[t] = NoAttempt
<1>1. attempt[t].pod \in Pods /\ attempt \in [Tasks -> AttemptSet]
    BY AttemptGoesOn DEF Base, TypeOK, AttemptSet
<1>2. /\ phase' = phase
      /\ \/ AttemptFails(t)
         \/ /\ phase[attempt[t].pod] = "done"
            /\ \E rid \in Resv \cup {None} : ReleasePod(attempt[t].pod, rid)
    BY DEF AttemptStep, ReadPod, PatchPod, PatchReturns, api
<1>3. \E rid \in Resv \cup {None} : ReleasePod(attempt[t].pod, rid)
    BY <1>2 DEF AttemptFails
<1>4. attempt[t].pod = q
    BY <1>1, <1>3, ReleaseTakes DEF Base
<1>5. AttemptFails(t)
    BY <1>2, <1>4
<1> QED BY <1>1, <1>4, <1>5 DEF AttemptFails

LEMMA StepSlips ==
    ASSUME Base, Booked, EventsPast, Next, NEW x \in slipped' \ slipped
    PROVE  \/ tick.pc = "listed" /\ tick'.pc = "drain" /\ x[2] \notin tick.snap[x[1]]
           \/ \E t \in Tasks : attempt[t].pod = x[2] /\ attempt'[t] = NoAttempt
<1>1. PICK r \in Resv, q \in Pods : x = <<r, q>>
    BY DEF Next, Track
<1>2. phase'[q] = "live" /\ q \in occupancy[r] /\ q \notin occupancy'[r]
    BY <1>1 DEF Next, Track, Holds
<1>3. occupancy \in [Resv -> SUBSET Pods]
    BY DEF Base, TypeOK
<1>4. CASE TickReconcile
    <2>1. /\ tick.pc = "listed" /\ occupancy' = tick.snap
          /\ tick \in [pc : {"idle", "list", "listed", "drain", "loop"},
                       at : 0..MaxTime, snap : [Resv -> SUBSET Pods]]
        BY <1>4 DEF TickReconcile, Base, TypeOK
    <2>2. tick'.pc = "drain"
        <3> DEFINE none == [s \in Resv |-> {}]
        <3>1. tick' = [tick EXCEPT !.pc = "drain", !.snap = none]
            BY <1>4 DEF TickReconcile
        <3> HIDE DEF none
        <3> QED BY <2>1, <3>1
    <2> QED BY <1>1, <1>2, <2>1, <2>2
<1>5. CASE \E t \in Tasks : AttemptStep(t)
    BY <1>1, <1>2, <1>5, AttemptRecords
<1>6. ~MayStart
    <2>1. ASSUME MayStart PROVE FALSE
        <3>1. CASE occupancy' = occupancy
            BY <1>2, <3>1
        <3>2. CASE \E t \in Tasks, p \in Pods, s \in Resv : Starts(t, p, s)
            BY <1>2, <1>3, <3>2 DEF Starts, RecordPlacement
        <3> QED BY <2>1, <3>1, <3>2, StartOwn DEF MayBegin
    <2> QED BY <2>1
<1>7. ~\E p \in Pods : ExecuteEviction(p)
    <2>1. ASSUME NEW p \in Pods, ExecuteEviction(p) PROVE FALSE
        <3>1. p = q
            BY <1>2, <2>1, ReleaseTakes DEF ExecuteEviction, Base
        <3>2. phase'[p] # "live"
            BY <1>2, <2>1 DEF ExecuteEviction, Base, TypeOK
        <3> QED BY <1>2, <3>1, <3>2
    <2> QED BY <2>1
<1>8. ~WatchGone
    <2>1. ASSUME WatchGone PROVE FALSE
        <3> DEFINE e == Head(events)
        <3>1. WatchReady /\ Consume /\ WatchFrame /\ (e.type = "DELETED" \/ e.phase = "done")
            BY <2>1 DEF WatchGone
        <3>2. e.pod \in Pods /\ phase[e.pod] \in Ended
            <4>1. e = events[1] /\ 1 \in 1..Len(events)
                BY <3>1, ConsumeEvents DEF WatchReady, Base
            <4> QED BY <3>1, <4>1, HeadKnown DEF EventsPast
        <3>3. e.pod = q
            BY <1>2, <2>1, <3>2, ReleaseTakes DEF WatchGone, Base
        <3> QED BY <1>2, <3>1, <3>2, <3>3 DEF WatchFrame, Ended
    <2> QED BY <2>1
<1>9. ~WatchTolerated
    <2>1. ASSUME WatchTolerated PROVE FALSE
        <3>1. RecordPlacement(Head(events).ref, Head(events).pod)
            BY <2>1 DEF WatchTolerated
        <3> QED BY <1>2, <1>3, <3>1 DEF RecordPlacement
    <2> QED BY <2>1
<1>10. occupancy' # occupancy
    BY <1>2
<1> QED BY <1>4, <1>5, <1>6, <1>7, <1>8, <1>9, <1>10
       DEF Next, Step, SyncStep, WatchStep, TickStep, Tasks, MayStart, ClockTick, PodStep,
           CreatePod, FinishPod, DeletePod, PodGone, Resync, ControllerIdle, CooldownOver,
           ReservationsChange, SyncSnapshot, RetryStart, RetryEnd, TickBegin, TickSnapshot,
           TickLoop, TickEnd, ledger

\* A live holder's record is lost only to the tick's rebuild from a snapshot that
\* lacks it or to the rollback of an attempt of that pod, whatever the order of
\* events, evictions and retries.
THEOREM SlipsNamed == Spec => SlipsOnlyByRebuildOrRollback
<1>1. Init => Base /\ Booked /\ EventsPast
    BY InitBase, InitBooked DEF Init, EventsPast
<1>2. Base /\ Booked /\ EventsPast /\ [Next]_vars => (Base /\ Booked /\ EventsPast)'
    BY StepBase, StepBooked, StepPast
<1>3. Base /\ Booked /\ EventsPast /\ [Next]_vars =>
        [\A x \in slipped' \ slipped :
          \/ tick.pc = "listed" /\ tick'.pc = "drain" /\ x[2] \notin tick.snap[x[1]]
          \/ \E t \in Tasks : attempt[t].pod = x[2] /\ attempt'[t] = NoAttempt]_vars
    BY StepSlips
<1> QED BY <1>1, <1>2, <1>3, PTL DEF Spec, SlipsOnlyByRebuildOrRollback

=============================================================================
