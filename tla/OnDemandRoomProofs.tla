------------------------- MODULE OnDemandRoomProofs -------------------------
(***************************************************************************)
(* Proofs about what OnDemand promises of GPUs: the leases in use stay      *)
(* within those that exist (OversoldFits), and an admitted pod has a node   *)
(* with room for it (Startable).                                            *)
(***************************************************************************)
EXTENDS OnDemandProofs

-----------------------------------------------------------------------------
(* SumGpus *)

GpuPairs(S) == {x \in S \X (1..MaxGpus) : x[2] <= Gpus[x[1]]}

LEMMA GpuFacts ==
    /\ MaxGpus \in Nat /\ Gpus \in [Pods -> 1..MaxGpus]
    /\ CalendarGpus \in Nat /\ PhysicalGpus \in Nat /\ Alloc \in [Nodes -> Nat]
    /\ Allowed \in [Pods -> SUBSET Nodes] /\ BestEffort \subseteq Pods
BY ConstantsAssumption

\* The sum over a set of pods is a natural number.
LEMMA SumGpusNat ==
    ASSUME NEW S \in SUBSET Pods
    PROVE  IsFiniteSet(GpuPairs(S)) /\ SumGpus(S) \in Nat
<1>1. IsFiniteSet(S) /\ IsFiniteSet(1..MaxGpus)
    <2>1. IsFiniteSet(S)
        BY FS_Subset, ConstantFacts
    <2>2. IsFiniteSet(1..MaxGpus)
        BY FS_Interval, GpuFacts
    <2> QED BY <2>1, <2>2
<1>2. IsFiniteSet(S \X (1..MaxGpus))
    BY <1>1, FS_Product
<1>3. GpuPairs(S) \in SUBSET (S \X (1..MaxGpus))
    BY DEF GpuPairs
<1>4. IsFiniteSet(GpuPairs(S))
    BY <1>2, <1>3, FS_Subset
<1> QED BY <1>4, FS_CardinalityType DEF SumGpus, GpuPairs

\* More pods never use fewer GPUs.
LEMMA SumGpusMonotonic ==
    ASSUME NEW T \in SUBSET Pods, NEW S \in SUBSET T
    PROVE  SumGpus(S) <= SumGpus(T)
<1>1. IsFiniteSet(GpuPairs(T)) /\ GpuPairs(S) \in SUBSET GpuPairs(T)
    BY SumGpusNat DEF GpuPairs
<1>2. Cardinality(GpuPairs(S)) <= Cardinality(GpuPairs(T))
    BY <1>1, FS_Subset
<1> QED BY <1>2 DEF SumGpus, GpuPairs

\* Pods counted once each: the sum is additive, and bounds that of overlapping sets.
LEMMA SumGpusUnion ==
    ASSUME NEW S \in SUBSET Pods, NEW T \in SUBSET Pods
    PROVE  /\ SumGpus(S \cup T) <= SumGpus(S) + SumGpus(T)
           /\ S \cap T = {} => SumGpus(S \cup T) = SumGpus(S) + SumGpus(T)
<1>1. IsFiniteSet(GpuPairs(S)) /\ IsFiniteSet(GpuPairs(T))
    BY SumGpusNat
<1>2. /\ GpuPairs(S \cup T) = GpuPairs(S) \cup GpuPairs(T)
      /\ GpuPairs(S) \cap GpuPairs(T) = GpuPairs(S \cap T)
    BY DEF GpuPairs
<1>3. Cardinality(GpuPairs(S) \cup GpuPairs(T))
        = Cardinality(GpuPairs(S)) + Cardinality(GpuPairs(T)) - Cardinality(GpuPairs(S \cap T))
    BY <1>1, <1>2, FS_Union
<1>4. SumGpus(S \cup T) = SumGpus(S) + SumGpus(T) - SumGpus(S \cap T)
    BY <1>2, <1>3, Zenon DEF SumGpus, GpuPairs
<1>5. S \cap T = {} => SumGpus(S \cap T) = 0
    BY FS_EmptySet DEF SumGpus
<1>6. S \cap T \in SUBSET Pods /\ S \cup T \in SUBSET Pods
    OBVIOUS
<1>7. SumGpus(S) \in Nat /\ SumGpus(T) \in Nat /\ SumGpus(S \cap T) \in Nat
    BY <1>6, SumGpusNat
<1> QED BY <1>4, <1>5, <1>7

\* A pod alone uses what it requests.
LEMMA SumGpusOne ==
    ASSUME NEW p \in Pods
    PROVE  SumGpus({p}) = Gpus[p]
<1> DEFINE f == [i \in 1..Gpus[p] |-> <<p, i>>]
<1>1. Gpus[p] \in 1..MaxGpus /\ MaxGpus \in Nat
    BY GpuFacts
<1>2. GpuPairs({p}) = {<<p, i>> : i \in 1..Gpus[p]}
    BY <1>1 DEF GpuPairs
<1>3. f \in Bijection(1..Gpus[p], GpuPairs({p}))
    BY <1>2 DEF Bijection, Injection, Surjection, IsInjective
<1>4. ExistsBijection(1..Gpus[p], GpuPairs({p}))
    BY <1>3 DEF ExistsBijection
<1>5. IsFiniteSet(1..Gpus[p]) /\ Cardinality(1..Gpus[p]) = Gpus[p]
    BY <1>1, FS_Interval
<1>6. Cardinality(GpuPairs({p})) = Gpus[p]
    BY <1>4, <1>5, FS_Bijection
<1> QED BY <1>6 DEF SumGpus, GpuPairs

\* One more pod adds what it requests, if it was not counted yet.
LEMMA SumGpusAdd ==
    ASSUME NEW S \in SUBSET Pods, NEW p \in Pods
    PROVE  /\ Gpus[p] \in Nat \ {0} /\ SumGpus(S) \in Nat /\ SumGpus(S \cup {p}) \in Nat
           /\ SumGpus(S \cup {p}) <= SumGpus(S) + Gpus[p]
           /\ p \notin S => SumGpus(S \cup {p}) = SumGpus(S) + Gpus[p]
<1>1. {p} \in SUBSET Pods /\ S \cup {p} \in SUBSET Pods /\ (p \notin S => S \cap {p} = {})
    OBVIOUS
<1>2. SumGpus(S) \in Nat /\ SumGpus(S \cup {p}) \in Nat
    BY <1>1, SumGpusNat
<1>3. /\ SumGpus(S \cup {p}) <= SumGpus(S) + SumGpus({p})
      /\ S \cap {p} = {} => SumGpus(S \cup {p}) = SumGpus(S) + SumGpus({p})
    BY <1>1, SumGpusUnion
<1>4. Gpus[p] \in Nat \ {0}
    BY GpuFacts
<1> QED BY <1>1, <1>2, <1>3, <1>4, SumGpusOne

-----------------------------------------------------------------------------
(* The leases the app has sold *)

\* Pods with an active lease that counts against the class.
Sold == {p \in Pods \ BestEffort : lease[p] = "active"}

\* The app keeps to its calendar, whatever call fails.
CalendarKept == SumGpus(Sold) <= CalendarGpus

\* On a class the app over-counts, the batch keeps to what exists, and a create
\* it makes still fits when the app carries it out.
PhysicalKept ==
    faults = 0 /\ CalendarGpus > PhysicalGpus =>
        /\ SumGpus(Sold) <= PhysicalGpus
        /\ batch.pc = "create" /\ batch.cur \notin BestEffort
              => SumGpus(Sold \cup {batch.cur}) <= PhysicalGpus

SoldInv == CalendarKept /\ PhysicalKept

LEMMA SoldType ==
    /\ Sold \in SUBSET Pods /\ SumGpus(Sold) \in Nat
    /\ \A p \in Pods : SumGpus(Sold \cup {p}) \in Nat
<1>1. Sold \in SUBSET Pods /\ \A p \in Pods : Sold \cup {p} \in SUBSET Pods
    BY DEF Sold
<1> QED BY <1>1, SumGpusNat

LEMMA InitSold == Init => SoldInv
<1> SUFFICES ASSUME Init PROVE SoldInv
    OBVIOUS
<1>1. Sold = {}
    BY DEF Init, Sold
<1>2. SumGpus(Sold) = 0
    BY <1>1, FS_EmptySet DEF SumGpus
<1>3. batch.pc = "idle"
    BY DEF Init, NoBatch
<1> QED BY <1>2, <1>3, GpuFacts DEF SoldInv, CalendarKept, PhysicalKept

\* Only the create adds to what is sold; a batch comes to a create only from the
\* grants, and stays at it.
LEMMA SoldShrinks ==
    ASSUME Core, Step, ~ CreateLease PROVE Sold' \subseteq Sold
<1>1. lease \in [Pods -> {"none", "active", "over"}]
    BY DEF Core, ClusterShape
<1>2. CASE lease' = lease
    BY <1>2 DEF Sold
<1>3. ASSUME NEW p, lease' = [lease EXCEPT ![p] = "over"] PROVE Sold' \subseteq Sold
    BY <1>1, <1>3 DEF Sold
<1>4. lease' = lease \/ \E p : lease' = [lease EXCEPT ![p] = "over"]
    <2>1. CASE Fetch \/ TickBatch \/ \E p \in Pods : PodStep(p) \/ AppStep(p)
        BY <2>1, Zenon DEF Fetch, TickBatch, PodStep, AppStep, CreatePod, Rule, Bind, Finish, Delete,
               BookingOpens, AdmitBooked, LeaseExpires, RetryTimeComes, app
    <2>2. CASE WatchStep
        <3>1. CASE TeardownCancels
            BY <3>1 DEF TeardownCancels
        <3> QED BY <2>2, <3>1, Zenon DEF WatchStep, WatchGone, WatchTolerated, WatchRoute,
                    WatchCandidate, TeardownFinds, WatchFrame, app
    <2>3. CASE BatchStep
        BY <2>3, Zenon DEF BatchStep, NextCandidate, PreflightFails, PreflightRemoves,
               PreflightHolds, PreflightReady, Selected, GrantNext, AdmitBegins, AdmitReads,
               AdmitPatches, AdmitEnds, Revoke, Withhold, PassEnds, PreflightFrame, AppFrame, app
    <2> QED BY <2>1, <2>2, <2>3 DEF Step
<1> QED BY <1>2, <1>3, <1>4

\* A step fails a call or not.
LEMMA FaultsCount == ASSUME Step PROVE Fault \/ faults' = faults
<1>1. CASE Fetch \/ TickBatch \/ \E p \in Pods : PodStep(p) \/ AppStep(p)
    BY <1>1, Zenon DEF Fetch, TickBatch, PodStep, AppStep, CreatePod, Rule, Bind, Finish, Delete,
           BookingOpens, AdmitBooked, LeaseExpires, RetryTimeComes, Controller
<1>2. CASE WatchStep
    BY <1>2, Zenon DEF WatchStep, WatchGone, WatchTolerated, WatchRoute, WatchCandidate,
           TeardownFinds, TeardownCancels, WatchFrame
<1>3. CASE BatchStep
    BY <1>3, Zenon DEF BatchStep, NextCandidate, PreflightFails, PreflightRemoves, PreflightHolds,
           PreflightReady, Selected, GrantNext, CreateLease, AdmitBegins, AdmitReads,
           AdmitPatches, AdmitEnds, Revoke, Withhold, PassEnds
<1> QED BY <1>1, <1>2, <1>3 DEF Step

\* Every other step of the batch leads elsewhere, and the rest leaves it where it
\* is or starts a pass.
LEMMA CreateComes ==
    ASSUME Core, Step, batch'.pc = "create", batch' # batch
    PROVE  /\ GrantNext /\ ~ Overcommitted(Head(batch.granted))
           /\ batch'.cur = Head(batch.granted) /\ batch'.cur \in Pods
<1>1. batch \in BatchStates
    BY DEF Core, LoopShape
<1>2. ASSUME NEW by, StartPass(by) PROVE FALSE
    BY <1>2 DEF StartPass, NoBatch
<1>3. ASSUME EndPass PROVE FALSE
    BY <1>2, <1>3 DEF EndPass, NoBatch
<1>4. ASSUME NEW by, Trigger(by) PROVE FALSE
    BY <1>2, <1>4 DEF Trigger
<1>5. ASSUME NEW pc, pc # "create", batch' = [batch EXCEPT !.pc = pc] PROVE FALSE
    BY <1>1, <1>5 DEF BatchStates
<1>6. ~ NextGrant
    BY <1>1 DEF NextGrant, BatchStates
<1>7. ~ (Fetch \/ TickBatch \/ \E p \in Pods : PodStep(p) \/ AppStep(p))
    BY <1>4 DEF Fetch, TickBatch, PodStep, AppStep, CreatePod, Rule, Bind, Finish, Delete,
           BookingOpens, AdmitBooked, LeaseExpires, RetryTimeComes, Controller
<1>8. ~ WatchStep
    BY <1>4 DEF WatchStep, WatchGone, WatchTolerated, WatchRoute, WatchCandidate, TeardownFinds,
           TeardownCancels, WatchDone, NoTrigger
<1>9. CASE GrantNext
    <2>1. batch.pc = "grant" /\ Head(batch.granted) \in Pods
        BY <1>9, GrantNextFacts
    <2>2. batch'.pc = "create" => batch' # [batch EXCEPT !.granted = Tail(@)]
        BY <1>1, <2>1 DEF BatchStates
    <2>3. /\ batch' = [batch EXCEPT !.pc = "create", !.cur = Head(batch.granted),
                                    !.granted = Tail(@)]
          /\ ~ Overcommitted(Head(batch.granted))
        BY <1>9, <2>2, Zenon DEF GrantNext
    <2>4. batch'.cur = Head(batch.granted)
        BY <1>1, <2>1, <2>3 DEF BatchStates
    <2> QED BY <1>9, <2>1, <2>3, <2>4
<1>10. ASSUME BatchStep, ~ GrantNext PROVE FALSE
    <2>1. CASE NextCandidate \/ PreflightFails \/ PreflightRemoves \/ PreflightHolds
               \/ PreflightReady \/ Selected
        BY <1>1, <2>1 DEF NextCandidate, PreflightFails, PreflightRemoves, PreflightHolds,
               PreflightReady, Selected, PreflightFrame, BatchStates
    <2>2. CASE CreateLease \/ AdmitBegins \/ AdmitReads \/ AdmitPatches \/ AdmitEnds \/ Revoke
        BY <1>5, <1>6, <2>2 DEF CreateLease, AdmitBegins, AdmitReads, AdmitPatches, AdmitEnds,
               Revoke, AttemptTrue, AttemptEnds
    <2>3. CASE Withhold
        BY <1>1, <2>3 DEF Withhold, BatchStates
    <2>4. CASE PassEnds
        BY <1>3, <2>4 DEF PassEnds
    <2> QED BY <1>10, <2>1, <2>2, <2>3, <2>4 DEF BatchStep
<1> QED BY <1>7, <1>8, <1>9, <1>10 DEF Step

\* Guard 4 judges a grant by all that is listed, and every lease sold is listed
\* while the batch is between grants.
LEMMA GrantFits ==
    ASSUME Core, GrantNext, faults = 0, CalendarGpus > PhysicalGpus,
           NEW p \in Pods \ BestEffort, ~ Overcommitted(p)
    PROVE  SumGpus(Sold \cup {p}) <= PhysicalGpus
<1>1. batch.pc = "grant" /\ batch.cur \notin Pods
    BY ConstantFacts DEF GrantNext, Core, AtHand
<1>2. Sold \subseteq listed \ BestEffort
    BY <1>1 DEF Core, ListedInv, Sold
<1> DEFINE taken == booked \cup (listed \ BestEffort)
<1>3. taken \in SUBSET Pods /\ Sold \in SUBSET taken
    BY <1>2, ConstantFacts DEF Core, ClusterShape, LoopShape
<1>4. SumGpus(taken) + Gpus[p] <= PhysicalGpus
    <2>1. SumGpus(taken) \in Nat /\ Gpus[p] \in Nat
        BY <1>3, SumGpusAdd
    <2> QED BY <2>1, GpuFacts DEF Overcommitted
<1> HIDE DEF taken
<1>5. SumGpus(Sold) <= SumGpus(taken)
    BY <1>3, SumGpusMonotonic
<1>6. SumGpus(Sold \cup {p}) <= SumGpus(Sold) + Gpus[p]
    BY SoldType, SumGpusAdd
<1>7. /\ SumGpus(taken) \in Nat /\ SumGpus(Sold) \in Nat /\ SumGpus(Sold \cup {p}) \in Nat
      /\ Gpus[p] \in Nat
    BY <1>3, SumGpusAdd, SoldType
<1> QED BY <1>4, <1>5, <1>6, <1>7, GpuFacts

\* The create: within the calendar by the app's own check, within what exists by
\* the judgement of the grant.
LEMMA CreateSold ==
    ASSUME Core, SoldInv, CreateLease
    PROVE  SoldInv'
<1> DEFINE p == batch.cur
<1>1. /\ batch.pc = "create" /\ p \in Pods /\ lease \in [Pods -> {"none", "active", "over"}]
      /\ batch \in BatchStates /\ faults \in Nat
    BY ConstantFacts DEF CreateLease, Core, AtHand, ClusterShape, LoopShape
<1>2. batch'.pc # "create"
    BY <1>1 DEF CreateLease, NextGrant, BatchStates
<1>3. faults' = 0 => faults = 0
    BY <1>1 DEF CreateLease, Fault
<1>4. \/ lease' = lease
      \/ /\ lease' = [lease EXCEPT ![p] = "active"]
         /\ lease[p] = "active" \/ CalendarRoom(p)
    BY Zenon DEF CreateLease
<1>5. CASE Sold' = Sold
    BY <1>2, <1>3, <1>5 DEF SoldInv, CalendarKept, PhysicalKept, SumGpus
<1>6. CASE Sold' # Sold
    <2>1. /\ lease' = [lease EXCEPT ![p] = "active"] /\ lease[p] # "active" /\ p \notin BestEffort
          /\ Sold' = Sold \cup {p}
        BY <1>1, <1>4, <1>6 DEF Sold
    <2>2. SumGpus(booked \cup Sold) + Gpus[p] <= CalendarGpus
        BY <1>4, <2>1, <1>6 DEF CalendarRoom, Sold
    <2>3. booked \cup Sold \in SUBSET Pods /\ Sold \in SUBSET (booked \cup Sold)
        BY SoldType, ConstantFacts DEF Core, ClusterShape
    <2>4. SumGpus(Sold) <= SumGpus(booked \cup Sold)
        BY <2>3, SumGpusMonotonic
    <2>5. SumGpus(Sold \cup {p}) <= SumGpus(Sold) + Gpus[p]
        BY <1>1, SoldType, SumGpusAdd
    <2>6. /\ SumGpus(booked \cup Sold) \in Nat /\ SumGpus(Sold) \in Nat /\ Gpus[p] \in Nat
          /\ SumGpus(Sold \cup {p}) \in Nat
        BY <1>1, <2>3, SoldType, SumGpusAdd
    <2>7. SumGpus(Sold \cup {p}) <= CalendarGpus
        BY <2>2, <2>4, <2>5, <2>6, GpuFacts
    <2>8. CalendarKept'
        BY <2>1, <2>7 DEF CalendarKept, SumGpus
    <2>9. PhysicalKept'
        <3> SUFFICES ASSUME faults' = 0, CalendarGpus > PhysicalGpus
                     PROVE  SumGpus(Sold') <= PhysicalGpus
            BY <1>2 DEF PhysicalKept, SumGpus
        <3>1. SumGpus(Sold \cup {p}) <= PhysicalGpus
            BY <1>1, <1>3, <2>1 DEF SoldInv, PhysicalKept
        <3> QED BY <2>1, <3>1
    <2> QED BY <2>8, <2>9 DEF SoldInv
<1> QED BY <1>5, <1>6

LEMMA StepSold == IInv /\ SoldInv /\ [Next]_vars => SoldInv'
<1> SUFFICES ASSUME IInv, SoldInv, [Next]_vars PROVE SoldInv'
    OBVIOUS
<1>1. Core
    BY DEF IInv
<1>2. CASE UNCHANGED vars
    <2>1. Sold' = Sold /\ batch' = batch /\ faults' = faults
        BY <1>2, Zenon DEF vars, app, Sold
    <2> QED BY <2>1 DEF SoldInv, CalendarKept, PhysicalKept, SumGpus
<1>3. CASE CreateLease
    BY <1>1, <1>3, CreateSold
<1>4. CASE Step /\ ~ CreateLease
    <2>1. Sold' \in SUBSET Sold
        BY <1>1, <1>4, SoldShrinks
    <2>2. SumGpus(Sold') <= SumGpus(Sold)
        BY <2>1, SoldType, SumGpusMonotonic
    <2>3. Sold' \in SUBSET Pods
        BY <2>1, SoldType
    <2>4. SumGpus(Sold') \in Nat /\ SumGpus(Sold) \in Nat
        BY <2>3, SoldType, SumGpusNat
    <2>5. CalendarKept'
        BY <2>2, <2>4, GpuFacts DEF SoldInv, CalendarKept, SumGpus
    <2>6. faults' = 0 => faults = 0
        BY <1>1, <1>4, FaultsCount, FaultFacts
    <2>7. PhysicalKept'
        <3> SUFFICES ASSUME faults' = 0, CalendarGpus > PhysicalGpus
                     PROVE  /\ SumGpus(Sold') <= PhysicalGpus
                            /\ batch'.pc = "create" /\ batch'.cur \notin BestEffort
                                  => SumGpus(Sold' \cup {batch'.cur}) <= PhysicalGpus
            BY DEF PhysicalKept, SumGpus
        <3>1. SumGpus(Sold) <= PhysicalGpus
            BY <2>6 DEF SoldInv, PhysicalKept
        <3>2. SumGpus(Sold') <= PhysicalGpus
            BY <2>2, <2>4, <3>1, GpuFacts
        <3>3. ASSUME batch'.pc = "create", batch'.cur \notin BestEffort
              PROVE  SumGpus(Sold' \cup {batch'.cur}) <= PhysicalGpus
            <4>1. SumGpus(Sold \cup {batch'.cur}) <= PhysicalGpus /\ batch'.cur \in Pods
                <5>1. CASE batch' = batch
                    BY <1>1, <2>6, <3>3, <5>1 DEF SoldInv, PhysicalKept, Core, AtHand
                <5>2. CASE batch' # batch
                    BY <1>1, <1>4, <2>6, <3>3, <5>2, CreateComes, GrantFits
                <5> QED BY <5>1, <5>2
            <4>2. Sold' \cup {batch'.cur} \in SUBSET (Sold \cup {batch'.cur})
                  /\ Sold \cup {batch'.cur} \in SUBSET Pods
                BY <2>1, <4>1, SoldType
            <4>3. SumGpus(Sold' \cup {batch'.cur}) <= SumGpus(Sold \cup {batch'.cur})
                BY <4>2, SumGpusMonotonic
            <4>4. /\ SumGpus(Sold' \cup {batch'.cur}) \in Nat
                  /\ SumGpus(Sold \cup {batch'.cur}) \in Nat
                BY <4>2, SumGpusNat
            <4> QED BY <4>1, <4>3, <4>4, GpuFacts
        <3> QED BY <3>2, <3>3
    <2> QED BY <2>5, <2>7 DEF SoldInv
<1> QED BY <1>2, <1>3, <1>4 DEF Next

LEMMA SoldInvariance == Spec => [](IInv /\ SoldInv)
<1>1. Init => IInv /\ SoldInv
    BY InitInv, InitSold
<1>2. IInv /\ SoldInv /\ [Next]_vars => (IInv /\ SoldInv)'
    BY NextInv, StutterInv, StepSold
<1> QED BY <1>1, <1>2, PTL DEF Spec

\* On a class the app over-counts, whatever is sold and the ask in flight fit the
\* GPUs that exist: guard 4 judges an ask before the create's await, beside what the
\* grants before it took, and the app carries it out later (_hold_on_fit, _grant_and_admit).
THEOREM GrantsFit == Spec => []PhysicalKept
<1>1. SoldInv => PhysicalKept
    BY DEF SoldInv
<1> QED BY <1>1, SoldInvariance, PTL

\* The leases in use stay within the GPUs that exist, for every class, although
\* guard 4 judges each grant of a batch alone and before its await: what the
\* grants before it took is listed by then, and nothing else is sold meanwhile.
THEOREM OversoldKept == Spec => []OversoldFits
<1>1. IInv /\ SoldInv => OversoldFits
    <2> SUFFICES ASSUME IInv, SoldInv, faults = 0
                 PROVE  SumGpus({p \in Pods \ BestEffort :
                                   /\ lease[p] = "active" /\ ref[p] = "lease"
                                   /\ phase[p] \in {"pending", "bound"}}) <= PhysicalGpus
        BY DEF OversoldFits
    <2> DEFINE used == {p \in Pods \ BestEffort : /\ lease[p] = "active" /\ ref[p] = "lease"
                                                   /\ phase[p] \in {"pending", "bound"}}
    <2>1. used \in SUBSET Sold /\ used \in SUBSET Pods
        BY DEF Sold
    <2> HIDE DEF used
    <2>2. SumGpus(used) <= SumGpus(Sold) /\ SumGpus(used) \in Nat /\ SumGpus(Sold) \in Nat
        BY <2>1, SoldType, SumGpusMonotonic, SumGpusNat
    <2>3. SumGpus(Sold) <= PhysicalGpus
        BY <2>2, GpuFacts DEF SoldInv, CalendarKept, PhysicalKept
    <2>4. SumGpus(used) <= PhysicalGpus
        BY <2>2, <2>3, GpuFacts
    <2> QED BY <2>4 DEF used
<1> QED BY <1>1, SoldInvariance, PTL

-----------------------------------------------------------------------------
(***************************************************************************)
(* Room for the admitted pods.  Guard 5 judges a grant by gpu_pods, which   *)
(* lags behind the cluster, while the room is a matter of the pods; so the  *)
(* invariant relates the two.  Every admitted pod is tracked, but for the   *)
(* one whose patch has landed and whose claim the batch is about to make    *)
(* (Tracked); what a grant was judged to have room for, it has until it is  *)
(* patched (GrantHasRoom); and a claim is dropped only for a pod that has   *)
(* gone, since events and records do not run ahead of it (Standing).        *)
(***************************************************************************)

Over == {"done", "gone"}

\* Where a pod is: only a tolerated one is bound, where its placement allows, or tracked.
PodsPlaced ==
    \A p \in Pods :
        /\ phase[p] = "absent" => ref[p] = "none"
        /\ phase[p] \in {"absent", "pending"} => node[p] = None
        /\ phase[p] = "bound" => ref[p] # "none" /\ node[p] \in Allowed[p]
        /\ ref[p] = "none" => gpu_pods[p] = "none"

\* What an event says of a node, of a toleration and of an end is still so.
EventsTrue ==
    \A i \in 1..Len(events) :
        LET e == events[i] IN
        /\ e.node \in {None, node[e.pod]}
        /\ e.ref # "none" => ref[e.pod] # "none"
        /\ Going(e) => phase[e.pod] \in Over

\* The pod being admitted is still recorded, unless it is over.
StillRecorded ==
    batch.pc \in {"admit", "patch", "applied"}
        => batch.cur \in occupied \/ phase[batch.cur] \in Over

Standing == PodsPlaced /\ EventsTrue /\ StillRecorded

LEMMA InitStanding == Init => Standing
<1> SUFFICES ASSUME Init PROVE Standing
    OBVIOUS
<1>1. PodsPlaced
    BY DEF Init, PodsPlaced
<1>2. EventsTrue
    <2>1. Len(events) = 0
        BY EmptySeq DEF Init
    <2> QED BY <2>1 DEF EventsTrue
<1>3. StillRecorded
    BY DEF Init, NoBatch, StillRecorded
<1> QED BY <1>1, <1>2, <1>3 DEF Standing

\* The event of a change comes last, and says what the pod has become.
LEMMA NotifyTells ==
    ASSUME Core, NEW type \in {"ADDED", "MODIFIED", "DELETED"}, NEW p \in Pods, Notify(type, p),
           phase' \in [Pods -> Phases], ref' \in [Pods -> Refs],
           node' \in [Pods -> Nodes \cup {None}]
    PROVE  \E e \in Event :
               /\ e.type = type /\ e.pod = p /\ e.phase = phase'[p] /\ e.ref = ref'[p]
               /\ e.node = node'[p]
               /\ Len(events) \in Nat /\ Len(events') = Len(events) + 1
               /\ \A i \in 1..Len(events) : events'[i] = events[i] /\ events[i] \in Event
               /\ events'[Len(events) + 1] = e
<1> DEFINE e == [type |-> type, pod |-> p, phase |-> phase'[p], ref |-> ref'[p],
                 node |-> node'[p], ruled |-> p \in ruled']
<1>1. events' = Append(events, e)
    BY Zenon DEF Notify
<1>2. /\ e.type = type /\ e.pod = p /\ e.phase = phase'[p] /\ e.ref = ref'[p]
      /\ e.node = node'[p]
    OBVIOUS
<1>3. (p \in ruled') \in BOOLEAN
    OBVIOUS
<1>4. phase'[p] \in Phases /\ ref'[p] \in Refs /\ node'[p] \in Nodes \cup {None}
    OBVIOUS
<1>5. e \in Event
    BY <1>3, <1>4, Zenon DEF Event
<1>6. events \in Seq(Event)
    BY DEF Core, ClusterShape
<1> HIDE DEF e
<1>7. \A i \in 1..Len(events) : events[i] \in Event
    BY <1>6, ElementOfSeq
<1>8. /\ Len(events) \in Nat /\ Len(events') = Len(events) + 1
      /\ \A i \in 1..Len(events) : events'[i] = events[i]
      /\ events'[Len(events) + 1] = e
    BY <1>1, <1>5, <1>6, Appended
<1> QED BY <1>2, <1>5, <1>7, <1>8 DEF e

\* A change of one pod that keeps its earlier events true.
LEMMA EventsStay ==
    ASSUME Core, EventsTrue, NEW type \in {"ADDED", "MODIFIED", "DELETED"}, NEW p \in Pods,
           Notify(type, p), phase' \in [Pods -> Phases], ref' \in [Pods -> Refs],
           node' \in [Pods -> Nodes \cup {None}],
           \A q \in Pods : /\ ref[q] # "none" => ref'[q] # "none"
                           /\ phase[q] \in Over => phase'[q] \in Over
                           /\ node'[q] = node[q] \/ node[q] = None,
           type = "DELETED" => phase'[p] = "gone"
    PROVE  EventsTrue'
<1>1. PICK e \in Event :
               /\ e.type = type /\ e.pod = p /\ e.phase = phase'[p] /\ e.ref = ref'[p]
               /\ e.node = node'[p]
               /\ Len(events) \in Nat /\ Len(events') = Len(events) + 1
               /\ \A i \in 1..Len(events) : events'[i] = events[i] /\ events[i] \in Event
               /\ events'[Len(events) + 1] = e
    BY NotifyTells
<1>2. ASSUME NEW i \in 1..Len(events)
      PROVE  /\ events[i].node \in {None, node'[events[i].pod]}
             /\ events[i].ref # "none" => ref'[events[i].pod] # "none"
             /\ Going(events[i]) => phase'[events[i].pod] \in Over
    <2>1. events[i].pod \in Pods
        BY <1>1 DEF Event
    <2> QED BY <2>1 DEF EventsTrue
<1>3. Going(e) => phase'[p] \in Over
    BY <1>1 DEF Going, Over
<1>4. \A i \in 1..Len(events') : i = Len(events) + 1 \/ i \in 1..Len(events)
    BY <1>1
<1>5. ASSUME NEW i \in 1..Len(events')
      PROVE  /\ events'[i].node \in {None, node'[events'[i].pod]}
             /\ events'[i].ref # "none" => ref'[events'[i].pod] # "none"
             /\ Going(events'[i]) => phase'[events'[i].pod] \in Over
    <2>1. CASE i \in 1..Len(events)
        BY <1>1, <1>2, <2>1
    <2>2. CASE i = Len(events) + 1
        BY <1>1, <1>3, <2>2
    <2> QED BY <1>4, <2>1, <2>2
<1> QED BY <1>5 DEF EventsTrue, Going

\* Events only leave the queue, and nothing changes for the pods.
LEMMA EventsHeard ==
    ASSUME Core, EventsTrue, UNCHANGED <<phase, ref, node>>,
           \/ events' = events
           \/ events # <<>> /\ events' = Tail(events)
    PROVE  EventsTrue'
<1>1. CASE events' = events
    BY <1>1 DEF EventsTrue, Going
<1>2. CASE events # <<>> /\ events' = Tail(events)
    <2>1. events \in Seq(Event)
        BY DEF Core, ClusterShape
    <2>2. /\ Len(events) \in Nat \ {0} /\ Len(events') = Len(events) - 1
          /\ \A i \in 1..Len(events) - 1 : events'[i] = events[i + 1]
        BY <1>2, <2>1, Tailed
    <2>3. \A i \in 1..Len(events') : events'[i] = events[i + 1] /\ i + 1 \in 1..Len(events)
        BY <2>2
    <2> QED BY <2>3 DEF EventsTrue, Going
<1> QED BY <1>1, <1>2

\* The event at the head of the queue.
LEMMA HeadTrue ==
    ASSUME Core, EventsTrue, WatchReady
    PROVE  LET e == Head(events) IN
           /\ e.pod \in Pods /\ e.node \in {None, node[e.pod]}
           /\ e.ref # "none" => ref[e.pod] # "none"
           /\ Going(e) => phase[e.pod] \in Over
<1>1. events \in Seq(Event) /\ events # <<>>
    BY DEF Core, ClusterShape, WatchReady
<1>2. Head(events) = events[1] /\ Head(events) \in Event /\ 1 \in 1..Len(events)
    BY <1>1, Tailed
<1> QED BY <1>2 DEF EventsTrue, Event, Going

LEMMA PodStepStanding ==
    ASSUME Core, Standing, NEW p \in Pods, PodStep(p)
    PROVE  Standing'
<1>1. Core'
    BY PodStepInv
<1>2. /\ phase \in [Pods -> Phases] /\ node \in [Pods -> Nodes \cup {None}]
      /\ phase' \in [Pods -> Phases] /\ ref' \in [Pods -> Refs]
      /\ node' \in [Pods -> Nodes \cup {None}]
    BY <1>1 DEF Core, ClusterShape
<1>3. UNCHANGED <<ref, gpu_pods, occupied, batch>>
    <2>1. UNCHANGED <<ref, Controller>>
        BY Zenon DEF PodStep, CreatePod, Rule, Bind, Finish, Delete
    <2> QED BY <2>1 DEF Controller
<1>4. PICK type \in {"ADDED", "MODIFIED", "DELETED"} :
          /\ Notify(type, p) /\ (type = "DELETED" => phase'[p] = "gone")
          /\ \A q \in Pods : /\ phase[q] \in Over => phase'[q] \in Over
                             /\ node'[q] = node[q] \/ node[q] = None
          /\ \A q \in Pods :
                /\ phase'[q] = "absent" => phase[q] = "absent"
                /\ phase'[q] \in {"absent", "pending"}
                      => phase[q] \in {"absent", "pending"} /\ node'[q] = node[q]
                /\ phase'[q] = "bound" => /\ ref[q] # "none" /\ node'[q] \in Allowed[q]
    <2>1. CASE CreatePod(p)
        <3>1. Notify("ADDED", p)
            BY <2>1, Zenon DEF CreatePod
        <3>2. phase[p] = "absent" /\ phase' = [phase EXCEPT ![p] = "pending"] /\ node' = node
            BY <2>1 DEF CreatePod
        <3> QED BY <1>2, <3>1, <3>2 DEF Over, Standing, PodsPlaced
    <2>2. CASE Rule(p)
        <3>1. Notify("MODIFIED", p)
            BY <2>2, Zenon DEF Rule
        <3>2. phase' = phase /\ node' = node
            BY <2>2 DEF Rule
        <3> QED BY <1>2, <3>1, <3>2 DEF Over, Standing, PodsPlaced
    <2>3. CASE Finish(p)
        <3>1. Notify("MODIFIED", p)
            BY <2>3, Zenon DEF Finish
        <3>2. phase' = [phase EXCEPT ![p] = "done"] /\ node' = node
            BY <2>3 DEF Finish
        <3> QED BY <1>2, <3>1, <3>2 DEF Over, Standing, PodsPlaced
    <2>4. CASE Delete(p)
        <3>1. Notify("DELETED", p)
            BY <2>4, Zenon DEF Delete
        <3>2. phase' = [phase EXCEPT ![p] = "gone"] /\ node' = node
            BY <2>4 DEF Delete
        <3> QED BY <1>2, <3>1, <3>2 DEF Over, Standing, PodsPlaced
    <2>5. ASSUME NEW n \in Nodes, Bind(p, n)
          PROVE  \E type \in {"ADDED", "MODIFIED", "DELETED"} :
                     /\ Notify(type, p) /\ (type = "DELETED" => phase'[p] = "gone")
                     /\ \A q \in Pods : /\ phase[q] \in Over => phase'[q] \in Over
                                        /\ node'[q] = node[q] \/ node[q] = None
                     /\ \A q \in Pods :
                           /\ phase'[q] = "absent" => phase[q] = "absent"
                           /\ phase'[q] \in {"absent", "pending"}
                                 => phase[q] \in {"absent", "pending"} /\ node'[q] = node[q]
                           /\ phase'[q] = "bound" => /\ ref[q] # "none" /\ node'[q] \in Allowed[q]
        <3>1. Notify("MODIFIED", p)
            BY <2>5, Zenon DEF Bind
        <3>2. /\ phase[p] = "pending" /\ ref[p] # "none" /\ n \in Allowed[p]
              /\ phase' = [phase EXCEPT ![p] = "bound"] /\ node' = [node EXCEPT ![p] = n]
            BY <2>5 DEF Bind
        <3>3. node[p] = None
            BY <3>2 DEF Standing, PodsPlaced
        <3> QED BY <1>2, <3>1, <3>2, <3>3 DEF Over, Standing, PodsPlaced
    <2> QED BY <2>1, <2>2, <2>3, <2>4, <2>5 DEF PodStep
<1>5. EventsTrue'
    BY <1>2, <1>3, <1>4, EventsStay DEF Standing
<1>6. PodsPlaced'
    BY <1>3, <1>4 DEF Standing, PodsPlaced
<1>7. StillRecorded'
    <2>1. batch.pc \in {"admit", "patch", "applied"} => batch.cur \in Pods
        BY DEF Core, AtHand
    <2> QED BY <1>3, <1>4, <2>1 DEF Standing, StillRecorded
<1> QED BY <1>5, <1>6, <1>7 DEF Standing

\* The pod gets a toleration from the reserved path or from the batch.
LEMMA PatchStanding ==
    ASSUME Core, Standing, Core', NEW p \in Pods, Notify("MODIFIED", p),
           phase[p] # "absent", UNCHANGED <<phase, node>>,
           \A q \in Pods : /\ ref'[q] = ref[q] \/ (q = p /\ ref'[q] # "none")
                           /\ gpu_pods'[q] = gpu_pods[q] \/ q = p,
           ref'[p] # "none",
           batch'.pc \in {"admit", "patch", "applied"}
               => batch'.cur = batch.cur /\ batch.pc \in {"admit", "patch", "applied"},
           occupied' = occupied
    PROVE  Standing'
<1>1. /\ phase' \in [Pods -> Phases] /\ ref' \in [Pods -> Refs]
      /\ node' \in [Pods -> Nodes \cup {None}]
    BY DEF Core, ClusterShape
<1>2. EventsTrue'
    BY <1>1, EventsStay DEF Standing
<1>3. PodsPlaced'
    BY DEF Standing, PodsPlaced
<1>4. StillRecorded'
    BY DEF Standing, StillRecorded
<1> QED BY <1>2, <1>3, <1>4 DEF Standing

LEMMA AdmitBookedStanding ==
    ASSUME Core, Standing, NEW p \in Pods, AdmitBooked(p)
    PROVE  Standing'
<1>1. Core' /\ Notify("MODIFIED", p)
    BY AdmitBookedInv, Zenon DEF AdmitBooked
<1>2. /\ phase[p] = "pending" /\ ref' = [ref EXCEPT ![p] = "booking"]
      /\ UNCHANGED <<phase, node, occupied, batch>>
      /\ gpu_pods' = gpu_pods \/ gpu_pods' = [gpu_pods EXCEPT ![p] = "claim"]
    BY DEF AdmitBooked
<1>3. ref \in [Pods -> Refs] /\ gpu_pods \in [Pods -> {"none", "claim"} \cup Nodes]
    BY DEF Core, ClusterShape, LoopShape
<1>4. /\ ref'[p] # "none" /\ phase[p] # "absent"
      /\ \A q \in Pods : /\ ref'[q] = ref[q] \/ (q = p /\ ref'[q] # "none")
                         /\ gpu_pods'[q] = gpu_pods[q] \/ q = p
    BY <1>2, <1>3
<1> QED BY <1>1, <1>2, <1>4, PatchStanding

\* The patch that tolerates the candidate reaches the API server.
Lands ==
    /\ batch.pc = "patch" /\ phase[batch.cur] # "gone"
    /\ ref' = [ref EXCEPT ![batch.cur] = "lease"] /\ Notify("MODIFIED", batch.cur)
    /\ UNCHANGED <<phase, node, occupied, gpu_pods, faults>>
    /\ batch' = [batch EXCEPT !.pc = "applied"]

LEMMA LandsStanding ==
    ASSUME Core, Standing, BatchStep, Lands
    PROVE  Standing'
<1>1. Core'
    BY NextCandidateInv, PreflightInv, SelectedInv, GrantNextInv, CreateLeaseInv, AdmitBeginsInv,
       AdmitReadsInv, AdmitPatchesInv, AdmitEndsInv, RevokeInv, WithholdInv, PassEndsInv
       DEF BatchStep
<1>2. batch.pc = "patch" /\ batch.cur \in Pods /\ batch \in BatchStates
    BY DEF Lands, Core, AtHand, LoopShape
<1>3. batch'.pc = "applied" /\ batch'.cur = batch.cur
    BY <1>2 DEF Lands, BatchStates
<1>4. phase[batch.cur] # "absent"
    BY <1>2 DEF Core, NewInv, New
<1>5. /\ ref'[batch.cur] # "none"
      /\ \A q \in Pods : ref'[q] = ref[q] \/ (q = batch.cur /\ ref'[q] # "none")
    <2>1. ref \in [Pods -> Refs]
        BY DEF Core, ClusterShape
    <2> QED BY <1>2, <2>1 DEF Lands
<1> QED BY <1>1, <1>2, <1>3, <1>4, <1>5, PatchStanding DEF Lands

\* What the watch does to what it tracks: it forgets a pod that is over, and
\* follows an event that is still true.
LEMMA WatchEffects ==
    ASSUME Core, Standing, WatchStep
    PROVE  /\ UNCHANGED <<phase, ref, node>>
           /\ \/ events' = events
              \/ events # <<>> /\ events' = Tail(events)
           /\ batch' = batch \/ (Rested /\ Between)
           /\ \A q \in Pods :
                 \/ gpu_pods'[q] = gpu_pods[q]
                 \/ gpu_pods'[q] = "none" /\ phase[q] \in Over
                 \/ gpu_pods'[q] = "claim" /\ ref[q] # "none"
                 \/ gpu_pods'[q] = node[q] /\ ref[q] # "none" /\ phase[q] # "pending"
           /\ \A q \in occupied \ occupied' : phase[q] \in Over
<1>1. Core'
    BY WatchGoneInv, WatchToleratedInv, WatchRouteInv, WatchCandidateInv, TeardownFindsInv,
       TeardownCancelsInv DEF WatchStep
<1>2. UNCHANGED <<phase, ref, node>>
    <2>1. UNCHANGED cluster
        BY Zenon DEF WatchStep, WatchGone, WatchTolerated, WatchRoute, WatchCandidate,
               TeardownFinds, TeardownCancels, WatchFrame, TeardownFrame
    <2> QED BY <2>1 DEF cluster
<1>3. \/ events' = events
      \/ WatchReady /\ events' = Tail(events)
    BY Zenon DEF WatchStep, WatchGone, WatchTolerated, WatchRoute, WatchCandidate,
           TeardownFinds, TeardownCancels, TeardownFrame
<1>4. \/ events' = events
      \/ events # <<>> /\ events' = Tail(events)
    BY <1>3 DEF WatchReady
<1>5. batch' = batch \/ (Rested /\ Between)
    <2>1. Trigger("watch") \/ NoTrigger
        BY Zenon DEF WatchStep, WatchGone, WatchTolerated, WatchRoute, WatchCandidate,
               TeardownFinds, TeardownCancels, WatchDone
    <2>2. FlagShape' /\ batch \in BatchStates /\ rerun \in BOOLEAN
        BY <1>1, Zenon DEF Core, LoopShape
    <2> QED BY <2>1, <2>2, TriggerFacts
<1>6. gpu_pods \in [Pods -> {"none", "claim"} \cup Nodes]
    BY DEF Core, LoopShape
<1>7. /\ \A q \in Pods :
                 \/ gpu_pods'[q] = gpu_pods[q]
                 \/ gpu_pods'[q] = "none" /\ phase[q] \in Over
                 \/ gpu_pods'[q] = "claim" /\ ref[q] # "none"
                 \/ gpu_pods'[q] = node[q] /\ ref[q] # "none" /\ phase[q] # "pending"
      /\ \A q \in occupied \ occupied' : phase[q] \in Over
    <2>1. CASE WatchGone
        <3> DEFINE p == Head(events).pod
        <3>1. WatchReady /\ Going(Head(events)) /\ occupied' = occupied \ {p}
              /\ NoteGpuPod(p, "none")
            BY <2>1, Zenon DEF WatchGone, Going
        <3>2. p \in Pods /\ phase[p] \in Over
            BY <3>1, HeadTrue DEF Standing
        <3>3. gpu_pods' = [gpu_pods EXCEPT ![p] = "none"]
            BY <3>1, Zenon DEF NoteGpuPod
        <3> QED BY <1>6, <3>1, <3>2, <3>3
    <2>2. CASE WatchTolerated
        <3> DEFINE e == Head(events)
                   p == e.pod
                   rec == IF e.node = None THEN "claim" ELSE e.node
        <3>1. /\ WatchReady /\ e.ref # "none" /\ NoteGpuPod(p, rec)
              /\ occupied' = IF e.ref = "lease" THEN occupied \cup {p} ELSE occupied
            BY <2>2, Zenon DEF WatchTolerated
        <3>2. p \in Pods /\ e.node \in {None, node[p]} /\ ref[p] # "none"
            BY <3>1, HeadTrue DEF Standing
        <3>3. gpu_pods' = [gpu_pods EXCEPT ![p] = rec]
            BY <3>1, Zenon DEF NoteGpuPod
        <3>4. rec = "claim" \/ (rec = node[p] /\ node[p] # None)
            BY <3>2
        <3> HIDE DEF rec
        <3>5. gpu_pods'[p] = rec /\ \A q \in Pods \ {p} : gpu_pods'[q] = gpu_pods[q]
            BY <1>6, <3>2, <3>3
        <3>6. node[p] # None => phase[p] # "pending"
            BY <3>2 DEF Standing, PodsPlaced
        <3>7. occupied \ occupied' = {}
            BY <3>1
        <3> QED BY <3>2, <3>4, <3>5, <3>6, <3>7
    <2>3. CASE WatchRoute \/ WatchCandidate \/ TeardownFinds \/ TeardownCancels
        <3>1. gpu_pods' = gpu_pods /\ occupied' = occupied
            BY <2>3, Zenon DEF WatchRoute, WatchCandidate, TeardownFinds, TeardownCancels,
                   TeardownFrame
        <3> QED BY <3>1
    <2> QED BY <2>1, <2>2, <2>3 DEF WatchStep
<1> QED BY <1>2, <1>4, <1>5, <1>7

\* How the batch comes to have a candidate in hand.
Comes ==
    \/ batch'.pc \notin {"create", "lock", "admit", "patch", "applied"}
    \/ batch'.pc = "create" /\ GrantNext
    \/ /\ batch'.cur = batch.cur
       /\ \/ batch.pc = "create" /\ batch'.pc = "lock"
          \/ batch.pc = "lock" /\ batch'.pc = "admit" /\ batch.cur \in occupied'
          \/ /\ batch.pc = "admit" /\ batch'.pc = "patch" /\ occupied' = occupied
             /\ ref[batch.cur] = "none"

\* The attempt returned True: the pod is tracked, or over.
LEMMA AttemptTracks ==
    ASSUME Core, Standing, batch.pc \in {"admit", "applied"}, ref[batch.cur] # "none",
           NEW unbound \in BOOLEAN, AttemptTrue(batch.cur, unbound)
    PROVE  /\ batch'.pc \in {"grant", "revoke"}
           /\ \A q \in Pods : \/ gpu_pods'[q] = gpu_pods[q]
                              \/ gpu_pods'[q] = "claim" /\ ref[q] # "none"
           /\ unbound => gpu_pods'[batch.cur] # "none" \/ phase[batch.cur] \in Over
<1>1. /\ batch.cur \in Pods /\ batch \in BatchStates
      /\ gpu_pods \in [Pods -> {"none", "claim"} \cup Nodes]
    BY DEF Core, AtHand, LoopShape
<1>2. CASE batch.cur \in occupied /\ Claim(batch.cur, unbound) /\ NextGrant
    <2>1. batch'.pc = "grant"
        BY <1>1, <1>2 DEF NextGrant, BatchStates
    <2>2. gpu_pods' = IF unbound /\ gpu_pods[batch.cur] = "none"
                      THEN [gpu_pods EXCEPT ![batch.cur] = "claim"] ELSE gpu_pods
        BY <1>2, Zenon DEF Claim
    <2> QED BY <1>1, <2>1, <2>2
<1>3. CASE /\ batch.cur \notin occupied /\ batch' = [batch EXCEPT !.pc = "revoke"]
           /\ gpu_pods' = gpu_pods
    <2>1. batch'.pc = "revoke"
        BY <1>1, <1>3 DEF BatchStates
    <2>2. phase[batch.cur] \in Over
        BY <1>3 DEF Standing, StillRecorded
    <2> QED BY <1>3, <2>1, <2>2
<1> QED BY <1>2, <1>3, Zenon DEF AttemptTrue

\* What the batch does to what is tracked.
LEMMA BatchEffects ==
    ASSUME Core, Standing, BatchStep
    PROVE  \/ Lands
           \/ /\ UNCHANGED <<phase, ref, node, events>> /\ Comes
              /\ \A q \in Pods : \/ gpu_pods'[q] = gpu_pods[q]
                                 \/ gpu_pods'[q] = "claim" /\ ref[q] # "none"
              /\ batch.pc = "applied"
                    => gpu_pods'[batch.cur] # "none" \/ phase[batch.cur] \in Over \/ Fault
<1>1. /\ batch \in BatchStates /\ gpu_pods \in [Pods -> {"none", "claim"} \cup Nodes]
    BY DEF Core, LoopShape
<1>2. CASE \/ NextCandidate \/ PreflightFails \/ PreflightRemoves \/ PreflightHolds
           \/ PreflightReady \/ Selected \/ Withhold
    <2>1. /\ UNCHANGED <<cluster, events, gpu_pods>>
          /\ batch.pc \in {"next", "read", "grant"}
        BY <1>2, Zenon DEF NextCandidate, PreflightFails, PreflightRemoves, PreflightHolds,
               PreflightReady, Selected, Withhold, PreflightFrame, AppFrame, Judged
    <2>2. batch'.pc \notin {"create", "lock", "admit", "patch", "applied"}
        BY <1>1, <1>2 DEF NextCandidate, PreflightFails, PreflightRemoves, PreflightHolds,
               PreflightReady, Selected, Withhold, PreflightFrame, BatchStates
    <2> QED BY <2>1, <2>2 DEF cluster, Comes
<1>3. CASE PassEnds
    <2>1. /\ UNCHANGED <<cluster, events, gpu_pods>> /\ EndPass /\ batch.pc \in {"next", "grant"}
        BY <1>3, Zenon DEF PassEnds, AppFrame
    <2>2. FlagShape' /\ rerun \in BOOLEAN
        BY <1>3, PassEndsInv, Zenon DEF Core, LoopShape
    <2>3. batch'.pc \notin {"create", "lock", "admit", "patch", "applied"}
        BY <1>1, <2>1, <2>2, EndPassFacts DEF Rested
    <2> QED BY <2>1, <2>3 DEF cluster, Comes
<1>4. CASE GrantNext
    <2>1. /\ UNCHANGED <<cluster, events, gpu_pods>> /\ batch.pc = "grant"
        BY <1>4, Zenon DEF GrantNext, AppFrame
    <2>2. batch'.pc \in {"grant", "create"}
        BY <1>4, GrantNextFacts
    <2> QED BY <1>4, <2>1, <2>2 DEF cluster, Comes
<1>5. CASE CreateLease \/ AdmitBegins \/ Revoke
    <2>1. /\ UNCHANGED <<cluster, events, gpu_pods>>
          /\ batch.pc \in {"create", "lock", "revoke", "revoke_retry"}
        BY <1>5, Zenon DEF CreateLease, AdmitBegins, Revoke, AppFrame
    <2>2. Comes
        <3>1. CASE NextGrant
            <4>1. batch'.pc = "grant"
                BY <1>1, <3>1 DEF NextGrant, BatchStates
            <4> QED BY <4>1 DEF Comes
        <3>2. CASE CreateLease /\ ~ NextGrant
            <4>1. batch.pc = "create" /\ batch' = [batch EXCEPT !.pc = "lock"]
                BY <3>2, Zenon DEF CreateLease
            <4>2. batch'.pc = "lock" /\ batch'.cur = batch.cur
                BY <1>1, <4>1 DEF BatchStates
            <4> QED BY <4>1, <4>2 DEF Comes
        <3>3. CASE AdmitBegins
            <4>1. /\ batch.pc = "lock" /\ batch' = [batch EXCEPT !.pc = "admit"]
                  /\ occupied' = occupied \cup {batch.cur}
                BY <3>3, Zenon DEF AdmitBegins
            <4>2. batch'.pc = "admit" /\ batch'.cur = batch.cur
                BY <1>1, <4>1 DEF BatchStates
            <4> QED BY <4>1, <4>2 DEF Comes
        <3> QED BY <1>5, <3>1, <3>2, <3>3 DEF Revoke
    <2> QED BY <2>1, <2>2 DEF cluster
<1>6. ASSUME NEW pc \in {"revoke", "revoke_retry"}, AttemptEnds(batch.cur, pc)
      PROVE  gpu_pods' = gpu_pods /\ Comes
    <2>1. gpu_pods' = gpu_pods /\ batch' = [batch EXCEPT !.pc = pc]
        BY <1>6, Zenon DEF AttemptEnds
    <2>2. batch'.pc = pc
        BY <1>1, <2>1 DEF BatchStates
    <2> QED BY <2>1, <2>2 DEF Comes
<1>7. CASE AdmitReads
    <2>1. UNCHANGED <<cluster, events>> /\ batch.pc = "admit"
        BY <1>7, Zenon DEF AdmitReads, AppFrame
    <2>2. CASE /\ ref[batch.cur] = "none" /\ batch' = [batch EXCEPT !.pc = "patch"]
               /\ UNCHANGED <<occupied, gpu_pods>>
        <3>1. batch'.pc = "patch" /\ batch'.cur = batch.cur
            BY <1>1, <2>2 DEF BatchStates
        <3> QED BY <2>1, <2>2, <3>1 DEF cluster, Comes
    <2>3. CASE ref[batch.cur] # "none" /\ AttemptTrue(batch.cur, phase[batch.cur] = "pending")
        <3>1. (phase[batch.cur] = "pending") \in BOOLEAN
            OBVIOUS
        <3> QED BY <2>1, <2>3, <3>1, AttemptTracks DEF cluster, Comes
    <2>4. CASE AttemptEnds(batch.cur, "revoke") \/ AttemptEnds(batch.cur, "revoke_retry")
        BY <1>6, <2>1, <2>4 DEF cluster
    <2> QED BY <1>7, <2>2, <2>3, <2>4, Zenon DEF AdmitReads
<1>8. CASE AdmitPatches
    <2>1. CASE AttemptEnds(batch.cur, "revoke_retry") /\ UNCHANGED <<cluster, events>>
        <3>1. batch.pc = "patch"
            BY <1>8, Zenon DEF AdmitPatches
        <3> QED BY <1>6, <2>1, <3>1 DEF cluster
    <2> QED BY <1>8, <2>1, Zenon DEF AdmitPatches, Lands
<1>9. CASE AdmitEnds
    <2>1. UNCHANGED <<cluster, events>> /\ batch.pc = "applied"
        BY <1>9, Zenon DEF AdmitEnds, AppFrame
    <2>2. CASE AttemptTrue(batch.cur, TRUE)
        <3>1. ref[batch.cur] # "none"
            BY <2>1 DEF Core, RefInv
        <3> QED BY <2>1, <2>2, <3>1, AttemptTracks DEF cluster, Comes
    <2>3. CASE Fault /\ AttemptEnds(batch.cur, "revoke_retry")
        BY <1>6, <2>1, <2>3 DEF cluster
    <2> QED BY <1>9, <2>2, <2>3, Zenon DEF AdmitEnds
<1> QED BY <1>2, <1>3, <1>4, <1>5, <1>7, <1>8, <1>9 DEF BatchStep

\* The steps that touch neither the pods nor what is tracked of them.
LEMMA AsideEffects ==
    ASSUME Core, Fetch \/ TickBatch \/ \E p \in Pods : AppStep(p) /\ ~ AdmitBooked(p)
    PROVE  /\ UNCHANGED <<phase, ref, node, events, gpu_pods, occupied>>
           /\ batch' = batch \/ (Rested /\ Between)
<1>1. CASE Fetch \/ \E p \in Pods : AppStep(p) /\ ~ AdmitBooked(p)
    <2>1. UNCHANGED <<cluster, events, gpu_pods, occupied, batch>>
        BY <1>1, Zenon DEF Fetch, AppStep, BookingOpens, LeaseExpires, RetryTimeComes, Controller
    <2> QED BY <2>1 DEF cluster
<1>2. CASE TickBatch
    <2>1. UNCHANGED <<cluster, events, gpu_pods, occupied>> /\ Trigger("tick")
        BY <1>2, Zenon DEF TickBatch
    <2>2. FlagShape' /\ batch \in BatchStates /\ rerun \in BOOLEAN
        BY <1>2, TickBatchInv, Zenon DEF Core, LoopShape
    <2>3. batch' = batch \/ (Rested /\ Between)
        BY <2>1, <2>2, TriggerFacts
    <2> QED BY <2>1, <2>3 DEF cluster
<1> QED BY <1>1, <1>2

\* A step that leaves the pods alone, and tracks only what is so.
LEMMA TrackStanding ==
    ASSUME Core, Standing, UNCHANGED <<phase, ref, node>>,
           \/ events' = events
           \/ events # <<>> /\ events' = Tail(events),
           \A q \in Pods : \/ gpu_pods'[q] = gpu_pods[q]
                           \/ gpu_pods'[q] = "none"
                           \/ ref[q] # "none",
           batch'.pc \in {"admit", "patch", "applied"} =>
               /\ batch'.cur = batch.cur
               /\ \/ batch.cur \in occupied'
                  \/ /\ batch.pc \in {"admit", "patch", "applied"}
                     /\ \A q \in occupied \ occupied' : phase[q] \in Over
    PROVE  Standing'
<1>1. EventsTrue'
    BY EventsHeard DEF Standing
<1>2. PodsPlaced'
    BY DEF Standing, PodsPlaced
<1>3. StillRecorded'
    BY DEF Standing, StillRecorded
<1> QED BY <1>1, <1>2, <1>3 DEF Standing

LEMMA StepStanding == ASSUME Core, Standing, Step PROVE Standing'
<1>1. ASSUME NEW p \in Pods, PodStep(p) PROVE Standing'
    BY <1>1, PodStepStanding
<1>2. ASSUME NEW p \in Pods, AdmitBooked(p) PROVE Standing'
    BY <1>2, AdmitBookedStanding
<1>3. CASE Fetch \/ TickBatch \/ \E p \in Pods : AppStep(p) /\ ~ AdmitBooked(p)
    <2>1. /\ UNCHANGED <<phase, ref, node, events, gpu_pods, occupied>>
          /\ batch' = batch \/ (Rested /\ Between)
        BY <1>3, AsideEffects
    <2> QED BY <2>1, TrackStanding DEF Rested
<1>4. CASE WatchStep
    BY <1>4, WatchEffects, TrackStanding DEF Rested
<1>5. CASE BatchStep
    <2>1. CASE Lands
        BY <1>5, <2>1, LandsStanding
    <2>2. CASE ~ Lands
        <3>1. /\ UNCHANGED <<phase, ref, node, events>> /\ Comes
              /\ \A q \in Pods : \/ gpu_pods'[q] = gpu_pods[q]
                                 \/ gpu_pods'[q] = "claim" /\ ref[q] # "none"
            BY <1>5, <2>2, BatchEffects
        <3>2. batch'.pc \in {"admit", "patch", "applied"} =>
                  /\ batch'.cur = batch.cur
                  /\ batch.cur \in occupied' \/ (batch.pc = "admit" /\ occupied' = occupied)
            BY <3>1 DEF Comes
        <3> QED BY <3>1, <3>2, TrackStanding
    <2> QED BY <2>1, <2>2
<1> QED BY <1>1, <1>2, <1>3, <1>4, <1>5 DEF Step

-----------------------------------------------------------------------------
(* Load and room *)

\* Admitted pods that may be placed on n, and those that are there.
Waiting(n) == {q \in Unbound : n \in Allowed[q]}
Placing(n) == {q \in Pods : phase[q] = "bound" /\ node[q] = n}

Load(n) == SumGpus(Waiting(n))

LEMMA LoadType ==
    ASSUME NEW n \in Nodes
    PROVE  /\ Waiting(n) \in SUBSET Pods /\ Placing(n) \in SUBSET Pods
           /\ Load(n) \in Nat /\ SumGpus(Placing(n)) \in Nat /\ Alloc[n] \in Nat
           /\ Room(n) = Alloc[n] - SumGpus(Placing(n))
<1>1. Waiting(n) \in SUBSET Pods /\ Placing(n) \in SUBSET Pods
    BY DEF Waiting, Placing, Unbound
<1>2. Load(n) \in Nat /\ SumGpus(Placing(n)) \in Nat
    BY <1>1, SumGpusNat DEF Load
<1>3. Room(n) = Alloc[n] - SumGpus(Placing(n))
    BY DEF Room, Placing
<1> QED BY <1>1, <1>2, <1>3, GpuFacts

\* The same of the next state.
LEMMA NextLoadType ==
    ASSUME NEW n \in Nodes
    PROVE  /\ Waiting(n)' \in SUBSET Pods /\ Placing(n)' \in SUBSET Pods
           /\ Load(n)' = SumGpus(Waiting(n)') /\ Load(n)' \in Nat
           /\ SumGpus(Placing(n)') \in Nat /\ Room(n)' = Alloc[n] - SumGpus(Placing(n)')
<1>1. Waiting(n)' \in SUBSET Pods /\ Placing(n)' \in SUBSET Pods
    BY DEF Waiting, Placing, Unbound
<1>2. Load(n)' = SumGpus(Waiting(n)')
    BY DEF Load, SumGpus
<1>3. SumGpus(Waiting(n)') \in Nat /\ SumGpus(Placing(n)') \in Nat
    BY <1>1, SumGpusNat
<1>4. Room(n)' = Alloc[n] - SumGpus(Placing(n)')
    BY DEF Room, Placing, SumGpus
<1> QED BY <1>1, <1>2, <1>3, <1>4

\* No more pods wait for a node and no more are on it: its load does not grow, nor
\* its room shrink.
LEMMA LoadShrinks ==
    ASSUME NEW n \in Nodes, Waiting(n)' \subseteq Waiting(n), Placing(n)' \subseteq Placing(n)
    PROVE  /\ Load(n) \in Nat /\ Load(n)' \in Nat /\ Room(n) \in Int /\ Room(n)' \in Int
           /\ Load(n)' <= Load(n) /\ Room(n) <= Room(n)'
<1>1. SumGpus(Waiting(n)') <= SumGpus(Waiting(n)) /\ SumGpus(Placing(n)') <= SumGpus(Placing(n))
    BY LoadType, SumGpusMonotonic
<1> QED BY <1>1, LoadType, NextLoadType DEF Load

-----------------------------------------------------------------------------
(* What is tracked, and what a grant has room for *)

\* Startable's condition, but for a booking that takes the pod while the batch is
\* about to patch it: the patch makes the lease its reference.
Calm ==
    /\ faults = 0
    /\ \A q \in Pods : /\ ref[q] = "booking" => batch.cur = q /\ batch.pc = "patch"
                       /\ ref[q] # "none" => Checked(q)

\* The patch of q has landed; the batch makes its claim when the call returns.
Unclaimed(q) == batch.cur = q /\ batch.pc = "applied" /\ gpu_pods[q] = "none"

\* An admitted pod is tracked as a claim, or on the node it is bound to.
Tracked ==
    \A q \in Pods :
        /\ q \in Unbound => gpu_pods[q] = "claim" \/ Unclaimed(q)
        /\ phase[q] = "bound" => gpu_pods[q] \in {"claim", node[q]} \/ Unclaimed(q)

RoomLeft == Unbound # {} => \E n \in Nodes : Load(n) <= Room(n)

\* The candidate in hand was judged, and still fits.
GrantHasRoom ==
    batch.pc \in {"create", "lock", "admit", "patch"} /\ ref[batch.cur] = "none"
            /\ Checked(batch.cur)
        => \E n \in Allowed[batch.cur] : Load(n) + Gpus[batch.cur] <= Room(n)

RoomInv == Standing /\ (Calm => Tracked /\ RoomLeft /\ GrantHasRoom)

\* No pod is admitted: what is tracked stays, and so does the room.
LEMMA RoomKept ==
    ASSUME Core, Tracked, RoomLeft, ref' = ref,
           \A q \in Pods : /\ phase'[q] = "pending" => phase[q] = "pending" \/ ref[q] = "none"
                           /\ phase'[q] = "bound" => phase[q] = "bound" /\ node'[q] = node[q],
           \A q \in Pods : \/ gpu_pods'[q] = gpu_pods[q]
                           \/ phase'[q] \in Over
                           \/ gpu_pods'[q] = "claim"
                           \/ gpu_pods'[q] = node'[q] /\ phase'[q] # "pending",
           \/ batch' = batch \/ batch.pc # "applied"
           \/ gpu_pods'[batch.cur] # "none" \/ phase'[batch.cur] \in Over
    PROVE  /\ Tracked' /\ RoomLeft'
           /\ \A n \in Nodes : /\ Load(n) \in Nat /\ Load(n)' \in Nat
                               /\ Room(n) \in Int /\ Room(n)' \in Int
                               /\ Load(n)' <= Load(n) /\ Room(n) <= Room(n)'
<1>1. Unbound' \subseteq Unbound
    BY DEF Unbound
<1>2. \A n \in Nodes : Waiting(n)' \subseteq Waiting(n) /\ Placing(n)' \subseteq Placing(n)
    BY <1>1 DEF Waiting, Placing
<1>3. \A n \in Nodes : /\ Load(n) \in Nat /\ Load(n)' \in Nat
                       /\ Room(n) \in Int /\ Room(n)' \in Int
                       /\ Load(n)' <= Load(n) /\ Room(n) <= Room(n)'
    BY <1>2, LoadShrinks
<1>4. RoomLeft'
    <2> SUFFICES ASSUME Unbound' # {} PROVE \E n \in Nodes : Load(n)' <= Room(n)'
        BY DEF RoomLeft
    <2>1. PICK n \in Nodes : Load(n) <= Room(n)
        BY <1>1 DEF RoomLeft
    <2> QED BY <1>3, <2>1
<1>5. Tracked'
    <2> SUFFICES ASSUME NEW q \in Pods
                 PROVE  /\ q \in Unbound' => gpu_pods'[q] = "claim" \/ Unclaimed(q)'
                        /\ phase'[q] = "bound"
                              => gpu_pods'[q] \in {"claim", node'[q]} \/ Unclaimed(q)'
        BY DEF Tracked
    <2>1. Unclaimed(q) => \/ Unclaimed(q)'
                          \/ gpu_pods'[q] # gpu_pods[q]
                          \/ phase'[q] \in Over
        BY DEF Unclaimed
    <2>2. phase'[q] \in Over => phase'[q] # "bound" /\ q \notin Unbound'
        BY DEF Over, Unbound
    <2>3. q \in Unbound' => phase'[q] = "pending" /\ q \in Unbound
        BY <1>1 DEF Unbound
    <2>4. CASE gpu_pods'[q] = gpu_pods[q]
        BY <2>1, <2>2, <2>3, <2>4 DEF Tracked
    <2>5. CASE gpu_pods'[q] # gpu_pods[q]
        BY <2>2, <2>3, <2>5
    <2> QED BY <2>4, <2>5
<1> QED BY <1>3, <1>4, <1>5

\* The candidate in hand stays the same.
LEMMA GrantKept ==
    ASSUME Core, GrantHasRoom, ref' = ref,
           \A n \in Nodes : /\ Load(n) \in Nat /\ Load(n)' \in Nat
                            /\ Room(n) \in Int /\ Room(n)' \in Int
                            /\ Load(n)' <= Load(n) /\ Room(n) <= Room(n)',
           batch'.pc \in {"create", "lock", "admit", "patch"} =>
               batch'.cur = batch.cur /\ batch.pc \in {"create", "lock", "admit", "patch"}
    PROVE  GrantHasRoom'
<1> SUFFICES ASSUME batch'.pc \in {"create", "lock", "admit", "patch"}, ref[batch.cur] = "none",
                    Checked(batch.cur)
             PROVE  \E n \in Allowed[batch.cur] : Load(n)' + Gpus[batch.cur] <= Room(n)'
    BY DEF GrantHasRoom, Checked
<1>1. batch.cur \in Pods
    BY DEF Core, AtHand
<1>2. Allowed[batch.cur] \subseteq Nodes /\ Gpus[batch.cur] \in Nat
    BY <1>1, GpuFacts
<1>3. PICK n \in Allowed[batch.cur] : Load(n) + Gpus[batch.cur] <= Room(n)
    BY DEF GrantHasRoom
<1> QED BY <1>2, <1>3

\* Guard 5's arithmetic: what is tracked bounds what the pods use, so a grant that
\* fits by gpu_pods has room in the cluster.
LEMMA GrantRoom ==
    ASSUME Core, Standing, Tracked, batch.pc # "applied", NEW p \in Pods, ref[p] = "none",
           Checked(p), Fits(gpu_pods, p)
    PROVE  \E n \in Allowed[p] : Load(n) + Gpus[p] <= Room(n)
<1>1. PICK n \in Allowed[p] : Free(gpu_pods, n) - Claims(gpu_pods, p) >= Gpus[p]
    BY DEF Fits
<1>2. n \in Nodes /\ Gpus[p] \in Nat
    BY GpuFacts
<1> DEFINE on == {q \in Pods : gpu_pods[q] = n}
           claims == {q \in Pods \ {p} : gpu_pods[q] = "claim" /\ Allowed[q] \cap Allowed[p] # {}}
<1>3. /\ Free(gpu_pods, n) = Alloc[n] - SumGpus(on) /\ Claims(gpu_pods, p) = SumGpus(claims)
    BY DEF Free, Claims
<1>4. on \in SUBSET Pods /\ claims \in SUBSET Pods
    OBVIOUS
<1>5. Waiting(n) \subseteq claims
    <2> SUFFICES ASSUME NEW q \in Waiting(n) PROVE q \in claims
        OBVIOUS
    <2>1. q \in Pods /\ q \in Unbound /\ n \in Allowed[q] /\ ref[q] # "none"
        BY DEF Waiting, Unbound
    <2>2. gpu_pods[q] = "claim"
        BY <2>1 DEF Tracked, Unclaimed
    <2> QED BY <2>1, <2>2
<1>6. Placing(n) \subseteq on \cup claims
    <2> SUFFICES ASSUME NEW q \in Placing(n) PROVE q \in on \cup claims
        OBVIOUS
    <2>1. q \in Pods /\ phase[q] = "bound" /\ node[q] = n
        BY DEF Placing
    <2>2. gpu_pods[q] \in {"claim", n} /\ ref[q] # "none" /\ n \in Allowed[q]
        BY <2>1 DEF Tracked, Unclaimed, Standing, PodsPlaced
    <2> QED BY <2>1, <2>2
<1>7. Waiting(n) \cap Placing(n) = {}
    BY DEF Waiting, Placing, Unbound
<1> HIDE DEF on, claims
<1>8. /\ Waiting(n) \in SUBSET Pods /\ Placing(n) \in SUBSET Pods /\ Load(n) \in Nat
      /\ SumGpus(Placing(n)) \in Nat /\ Alloc[n] \in Nat
      /\ Room(n) = Alloc[n] - SumGpus(Placing(n))
    BY <1>2, LoadType
<1>9. SumGpus(Waiting(n) \cup Placing(n)) = Load(n) + SumGpus(Placing(n))
    BY <1>7, <1>8, SumGpusUnion DEF Load
<1>10. on \cup claims \in SUBSET Pods /\ Waiting(n) \cup Placing(n) \in SUBSET (on \cup claims)
    BY <1>4, <1>5, <1>6
<1>11. SumGpus(Waiting(n) \cup Placing(n)) <= SumGpus(on \cup claims)
    BY <1>10, SumGpusMonotonic
<1>12. SumGpus(on \cup claims) <= SumGpus(on) + SumGpus(claims)
    BY <1>4, SumGpusUnion
<1>13. SumGpus(on \cup claims) \in Nat /\ SumGpus(on) \in Nat /\ SumGpus(claims) \in Nat
    BY <1>4, <1>10, SumGpusNat
<1>14. Load(n) + Gpus[p] <= Room(n)
    BY <1>1, <1>2, <1>3, <1>8, <1>9, <1>11, <1>12, <1>13
<1> QED BY <1>14

\* The scheduler places an admitted pod: its node has as much less room as load,
\* and the others no more load.
LEMMA BindRoom ==
    ASSUME Core, Standing, Tracked, RoomLeft, GrantHasRoom, NEW p \in Pods, NEW n \in Nodes,
           Bind(p, n)
    PROVE  Tracked' /\ RoomLeft' /\ GrantHasRoom'
<1>1. /\ phase[p] = "pending" /\ ref[p] # "none" /\ n \in Allowed[p]
      /\ phase' = [phase EXCEPT ![p] = "bound"] /\ node' = [node EXCEPT ![p] = n]
      /\ UNCHANGED <<ref, gpu_pods, batch>>
    BY DEF Bind, Controller
<1>2. phase \in [Pods -> Phases] /\ node \in [Pods -> Nodes \cup {None}]
    BY DEF Core, ClusterShape
<1>3. /\ p \in Unbound /\ Unbound' = Unbound \ {p}
      /\ \A q \in Pods : phase'[q] = "bound" => q = p \/ (phase[q] = "bound" /\ node'[q] = node[q])
    BY <1>1, <1>2 DEF Unbound
<1>4. Tracked'
    <2> SUFFICES ASSUME NEW q \in Pods
                 PROVE  /\ q \in Unbound' => gpu_pods'[q] = "claim" \/ Unclaimed(q)'
                        /\ phase'[q] = "bound"
                              => gpu_pods'[q] \in {"claim", node'[q]} \/ Unclaimed(q)'
        BY DEF Tracked
    <2>1. Unclaimed(q)' <=> Unclaimed(q)
        BY <1>1 DEF Unclaimed
    <2> QED BY <1>1, <1>3, <2>1 DEF Tracked
<1>5. /\ p \in Waiting(n) /\ Waiting(n)' = Waiting(n) \ {p}
      /\ p \notin Placing(n) /\ Placing(n)' = Placing(n) \cup {p}
    BY <1>1, <1>2, <1>3 DEF Waiting, Placing
<1>6. Load(n) = Load(n)' + Gpus[p]
    <2>1. Waiting(n)' \in SUBSET Pods /\ p \notin Waiting(n)' /\ Waiting(n) = Waiting(n)' \cup {p}
        BY <1>5, NextLoadType
    <2>2. SumGpus(Waiting(n)' \cup {p}) = SumGpus(Waiting(n)') + Gpus[p]
        BY <2>1, SumGpusAdd
    <2>3. Load(n)' = SumGpus(Waiting(n)')
        BY NextLoadType
    <2> QED BY <2>1, <2>2, <2>3 DEF Load
<1>7. SumGpus(Placing(n)') = SumGpus(Placing(n)) + Gpus[p]
    BY <1>5, LoadType, SumGpusAdd
<1>8. Gpus[p] \in Nat
    BY GpuFacts
<1>9. Room(n) = Room(n)' + Gpus[p] /\ Room(n) \in Int /\ Room(n)' \in Int
    BY <1>7, <1>8, LoadType, NextLoadType
<1>10. ASSUME NEW m \in Nodes, m # n
       PROVE  /\ Load(m) \in Nat /\ Load(m)' \in Nat /\ Room(m) \in Int /\ Room(m)' \in Int
              /\ Load(m)' <= Load(m) /\ Room(m) <= Room(m)'
    <2>1. Waiting(m)' \subseteq Waiting(m) /\ Placing(m)' \subseteq Placing(m)
        BY <1>1, <1>2, <1>3, <1>10 DEF Waiting, Placing
    <2> QED BY <2>1, LoadShrinks
<1>11. ASSUME NEW m \in Nodes, NEW k \in Nat, Load(m) + k <= Room(m)
       PROVE  Load(m)' + k <= Room(m)'
    <2>1. CASE m = n
        BY <1>6, <1>8, <1>9, <1>11, <2>1, LoadType, NextLoadType
    <2>2. CASE m # n
        BY <1>10, <1>11, <2>2
    <2> QED BY <2>1, <2>2
<1>12. RoomLeft'
    <2>1. PICK m \in Nodes : Load(m) <= Room(m)
        BY <1>3 DEF RoomLeft
    <2>2. Load(m) + 0 <= Room(m)
        BY <2>1, LoadType
    <2>3. Load(m)' + 0 <= Room(m)'
        BY <1>11, <2>2
    <2>4. Load(m)' <= Room(m)'
        BY <2>3, NextLoadType
    <2> QED BY <2>4 DEF RoomLeft
<1>13. GrantHasRoom'
    <2> SUFFICES ASSUME batch.pc \in {"create", "lock", "admit", "patch"},
                        ref[batch.cur] = "none", Checked(batch.cur)
                 PROVE  \E m \in Allowed[batch.cur] : Load(m)' + Gpus[batch.cur] <= Room(m)'
        BY <1>1 DEF GrantHasRoom, Checked
    <2>1. batch.cur \in Pods
        BY DEF Core, AtHand
    <2>2. Allowed[batch.cur] \subseteq Nodes /\ Gpus[batch.cur] \in Nat
        BY <2>1, GpuFacts
    <2>3. PICK m \in Allowed[batch.cur] : Load(m) + Gpus[batch.cur] <= Room(m)
        BY DEF GrantHasRoom
    <2> QED BY <1>11, <2>2, <2>3
<1> QED BY <1>4, <1>12, <1>13

\* The candidate in hand is tolerated: it takes the room its grant was judged to
\* have, and the batch is to claim it, unless the reserved path did.
LEMMA AdmittedRoom ==
    ASSUME Core, Standing, Tracked, RoomLeft, GrantHasRoom, batch.pc = "patch",
           UNCHANGED <<phase, node>>, Checked(batch.cur), batch'.cur = batch.cur,
           ref'[batch.cur] # "none", \A q \in Pods \ {batch.cur} : ref'[q] = ref[q],
           \A q \in Pods \ {batch.cur} : gpu_pods'[q] = gpu_pods[q],
           \/ gpu_pods'[batch.cur] = gpu_pods[batch.cur] /\ batch'.pc = "applied"
           \/ gpu_pods'[batch.cur] = "claim"
    PROVE  Tracked' /\ RoomLeft' /\ GrantHasRoom'
<1> DEFINE p == batch.cur
<1>1. p \in Pods
    BY DEF Core, AtHand
<1>2. GrantHasRoom'
    BY DEF GrantHasRoom
<1>3. /\ Unbound' \subseteq Unbound \cup {p}
      /\ ref[p] # "none" => Unbound' = Unbound
    BY <1>1 DEF Unbound
<1>4. Tracked'
    <2> SUFFICES ASSUME NEW q \in Pods
                 PROVE  /\ q \in Unbound' => gpu_pods'[q] = "claim" \/ Unclaimed(q)'
                        /\ phase'[q] = "bound"
                              => gpu_pods'[q] \in {"claim", node'[q]} \/ Unclaimed(q)'
        BY DEF Tracked
    <2>1. ~ Unclaimed(q)
        BY DEF Unclaimed
    <2>2. CASE q # p
        BY <1>3, <2>1, <2>2 DEF Tracked
    <2>3. CASE q = p /\ ref[p] # "none"
        BY <1>3, <2>1, <2>3 DEF Tracked
    <2>4. CASE q = p /\ ref[p] = "none"
        <3>1. gpu_pods[p] = "none"
            BY <1>1, <2>4 DEF Standing, PodsPlaced
        <3> QED BY <2>4, <3>1 DEF Unclaimed
    <2> QED BY <2>2, <2>3, <2>4
<1>5. \A n \in Nodes : Placing(n)' = Placing(n)
    BY DEF Placing
<1>6. RoomLeft'
    <2>1. CASE ref[p] # "none"
        <3>1. \A n \in Nodes : Waiting(n)' = Waiting(n)
            BY <1>3, <2>1 DEF Waiting
        <3>2. \A n \in Nodes : Load(n)' = Load(n) /\ Room(n)' = Room(n)
            BY <1>5, <3>1, LoadType, NextLoadType DEF Load
        <3> QED BY <1>3, <2>1, <3>2 DEF RoomLeft
    <2>2. CASE ref[p] = "none"
        <3>1. PICK n \in Allowed[p] : Load(n) + Gpus[p] <= Room(n)
            BY <2>2 DEF GrantHasRoom
        <3>2. n \in Nodes /\ Gpus[p] \in Nat
            BY <1>1, GpuFacts
        <3>3. Waiting(n)' \in SUBSET (Waiting(n) \cup {p}) /\ Waiting(n) \cup {p} \in SUBSET Pods
            BY <1>1, <1>3, <3>2, LoadType DEF Waiting
        <3>4. SumGpus(Waiting(n)') <= SumGpus(Waiting(n) \cup {p})
            BY <3>3, SumGpusMonotonic
        <3>5. SumGpus(Waiting(n) \cup {p}) <= SumGpus(Waiting(n)) + Gpus[p]
            BY <1>1, <3>2, LoadType, SumGpusAdd
        <3>6. SumGpus(Waiting(n) \cup {p}) \in Nat
            BY <3>3, SumGpusNat
        <3>7. Room(n)' = Room(n) /\ Room(n) \in Int
            BY <1>5, <3>2, LoadType, NextLoadType
        <3>8. Load(n)' <= Load(n) + Gpus[p]
            BY <3>2, <3>4, <3>5, <3>6, LoadType, NextLoadType DEF Load
        <3>9. Load(n)' <= Room(n)'
            BY <3>1, <3>2, <3>7, <3>8, LoadType, NextLoadType
        <3> QED BY <3>2, <3>9 DEF RoomLeft
    <2> QED BY <2>1, <2>2
<1> QED BY <1>2, <1>4, <1>6

\* A calm state comes only from a calm one, as long as no pod is tolerated.
LEMMA CalmBack ==
    ASSUME Core, Step, Calm', ref' = ref,
           \/ batch' = batch \/ batch'.pc # "patch"
           \/ batch'.cur = batch.cur /\ ref[batch.cur] = "none"
    PROVE  Calm
<1>1. faults = 0
    BY FaultsCount, FaultFacts DEF Calm
<1>2. ASSUME NEW q \in Pods
      PROVE  /\ ref[q] = "booking" => batch.cur = q /\ batch.pc = "patch"
             /\ ref[q] # "none" => Checked(q)
    <2>1. ref[q] = "booking" => batch'.cur = q /\ batch'.pc = "patch"
        BY DEF Calm
    <2>2. ref[q] # "none" => Checked(q)
        BY DEF Calm, Checked
    <2> QED BY <2>1, <2>2
<1> QED BY <1>1, <1>2 DEF Calm

LEMMA StepRoom == ASSUME Core, RoomInv, Step PROVE RoomInv'
<1>1. Standing /\ Standing'
    BY StepStanding DEF RoomInv
<1> SUFFICES ASSUME Calm' PROVE Tracked' /\ RoomLeft' /\ GrantHasRoom'
    BY <1>1 DEF RoomInv
<1>2. ASSUME NEW p \in Pods, NEW n \in Nodes, Bind(p, n)
      PROVE  Tracked' /\ RoomLeft' /\ GrantHasRoom'
    <2>1. ref' = ref /\ batch' = batch
        BY <1>2 DEF Bind, Controller
    <2>2. Calm
        BY <2>1, CalmBack
    <2> QED BY <1>1, <1>2, <2>2, BindRoom DEF RoomInv
<1>3. ASSUME NEW p \in Pods, PodStep(p), ~ \E n \in Nodes : Bind(p, n)
      PROVE  Tracked' /\ RoomLeft' /\ GrantHasRoom'
    <2>1. UNCHANGED <<ref, node, gpu_pods, batch>>
        <3>1. UNCHANGED <<ref, node, Controller>>
            BY <1>3, Zenon DEF PodStep, CreatePod, Rule, Finish, Delete
        <3> QED BY <3>1 DEF Controller
    <2>2. Calm
        BY <2>1, CalmBack
    <2>3. \A q \in Pods : /\ phase'[q] = "pending" => phase[q] = "pending" \/ ref[q] = "none"
                          /\ phase'[q] = "bound" => phase[q] = "bound"
        <3>1. phase \in [Pods -> Phases]
            BY DEF Core, ClusterShape
        <3>2. CASE CreatePod(p)
            BY <1>1, <3>1, <3>2 DEF CreatePod, Standing, PodsPlaced
        <3>3. CASE Rule(p)
            BY <3>3 DEF Rule
        <3>4. CASE Finish(p) \/ Delete(p)
            BY <3>1, <3>4 DEF Finish, Delete
        <3> QED BY <1>3, <3>2, <3>3, <3>4 DEF PodStep
    <2> QED BY <2>1, <2>2, <2>3, RoomKept, GrantKept DEF RoomInv
<1>4. ASSUME NEW p \in Pods, AdmitBooked(p) PROVE Tracked' /\ RoomLeft' /\ GrantHasRoom'
    <2>1. /\ phase[p] = "pending" /\ ref[p] = "none" /\ ref' = [ref EXCEPT ![p] = "booking"]
          /\ gpu_pods' = IF gpu_pods[p] = "none" THEN [gpu_pods EXCEPT ![p] = "claim"]
                         ELSE gpu_pods
          /\ UNCHANGED <<phase, node, batch, faults>>
        BY <1>4 DEF AdmitBooked
    <2>2. ref \in [Pods -> Refs] /\ gpu_pods \in [Pods -> {"none", "claim"} \cup Nodes]
        BY DEF Core, ClusterShape, LoopShape
    <2>3. ref'[p] = "booking" /\ \A q \in Pods \ {p} : ref'[q] = ref[q]
        BY <2>1, <2>2
    <2>4. batch.cur = p /\ batch.pc = "patch"
        BY <2>1, <2>3 DEF Calm
    <2>5. Checked(p)
        BY <2>3 DEF Calm, Checked
    <2>6. Calm
        <3>1. ASSUME NEW q \in Pods
              PROVE  /\ ref[q] = "booking" => batch.cur = q /\ batch.pc = "patch"
                     /\ ref[q] # "none" => Checked(q)
            <4>1. CASE q = p
                BY <2>1, <4>1
            <4>2. CASE q # p
                BY <2>1, <2>3, <4>2 DEF Calm, Checked
            <4> QED BY <4>1, <4>2
        <3> QED BY <2>1, <3>1 DEF Calm
    <2>7. gpu_pods[p] = "none"
        BY <1>1, <2>1 DEF Standing, PodsPlaced
    <2>8. gpu_pods'[p] = "claim" /\ \A q \in Pods \ {p} : gpu_pods'[q] = gpu_pods[q]
        BY <2>1, <2>2, <2>7
    <2> QED BY <1>1, <2>1, <2>3, <2>4, <2>5, <2>6, <2>8, AdmittedRoom DEF RoomInv
<1>5. CASE Fetch \/ TickBatch \/ \E p \in Pods : AppStep(p) /\ ~ AdmitBooked(p)
    <2>1. /\ UNCHANGED <<phase, ref, node, gpu_pods>>
          /\ batch' = batch \/ (Rested /\ Between)
        BY <1>5, AsideEffects
    <2>2. /\ batch' = batch \/ batch'.pc \notin {"create", "lock", "admit", "patch"}
          /\ batch' = batch \/ batch.pc # "applied"
        BY <2>1 DEF Rested, Between
    <2>3. Calm
        BY <2>1, <2>2, CalmBack
    <2> QED BY <2>1, <2>2, <2>3, RoomKept, GrantKept DEF RoomInv
<1>6. CASE WatchStep
    <2>1. /\ UNCHANGED <<phase, ref, node>>
          /\ batch' = batch \/ (Rested /\ Between)
          /\ \A q \in Pods : \/ gpu_pods'[q] = gpu_pods[q]
                             \/ phase[q] \in Over
                             \/ gpu_pods'[q] = "claim"
                             \/ gpu_pods'[q] = node[q] /\ phase[q] # "pending"
        BY <1>1, <1>6, WatchEffects
    <2>2. /\ batch' = batch \/ batch'.pc \notin {"create", "lock", "admit", "patch"}
          /\ batch' = batch \/ batch.pc # "applied"
        BY <2>1 DEF Rested, Between
    <2>3. Calm
        BY <2>1, <2>2, CalmBack
    <2> QED BY <2>1, <2>2, <2>3, RoomKept, GrantKept DEF RoomInv
<1>7. CASE BatchStep /\ Lands
    <2>1. /\ batch.pc = "patch" /\ ref' = [ref EXCEPT ![batch.cur] = "lease"]
          /\ UNCHANGED <<phase, node, gpu_pods, faults>>
          /\ batch' = [batch EXCEPT !.pc = "applied"]
        BY <1>7 DEF Lands
    <2>2. batch.cur \in Pods /\ batch \in BatchStates /\ ref \in [Pods -> Refs]
        BY <2>1 DEF Core, AtHand, LoopShape, ClusterShape
    <2>3. batch'.pc = "applied" /\ batch'.cur = batch.cur
        BY <2>1, <2>2 DEF BatchStates
    <2>4. ref'[batch.cur] = "lease" /\ \A q \in Pods \ {batch.cur} : ref'[q] = ref[q]
        BY <2>1, <2>2
    <2>5. Checked(batch.cur)
        BY <2>2, <2>4 DEF Calm, Checked
    <2>6. Calm
        <3>1. ASSUME NEW q \in Pods
              PROVE  /\ ref[q] = "booking" => batch.cur = q /\ batch.pc = "patch"
                     /\ ref[q] # "none" => Checked(q)
            <4>1. CASE q = batch.cur
                BY <2>1, <2>5, <4>1
            <4>2. CASE q # batch.cur
                BY <2>3, <2>4, <4>2 DEF Calm, Checked
            <4> QED BY <4>1, <4>2
        <3> QED BY <2>1, <3>1 DEF Calm
    <2> QED BY <1>1, <2>1, <2>3, <2>4, <2>5, <2>6, AdmittedRoom DEF RoomInv
<1>8. CASE BatchStep /\ ~ Lands
    <2>1. /\ UNCHANGED <<phase, ref, node>> /\ Comes
          /\ \A q \in Pods : \/ gpu_pods'[q] = gpu_pods[q]
                             \/ gpu_pods'[q] = "claim"
          /\ batch.pc = "applied"
                => gpu_pods'[batch.cur] # "none" \/ phase[batch.cur] \in Over \/ Fault
        BY <1>1, <1>8, BatchEffects
    <2>2. Calm
        BY <2>1, CalmBack DEF Comes
    <2>3. ~ Fault
        BY FaultIsOne DEF Calm
    <2>4. /\ Tracked' /\ RoomLeft'
          /\ \A n \in Nodes : /\ Load(n) \in Nat /\ Load(n)' \in Nat
                              /\ Room(n) \in Int /\ Room(n)' \in Int
                              /\ Load(n)' <= Load(n) /\ Room(n) <= Room(n)'
        BY <2>1, <2>2, <2>3, RoomKept DEF RoomInv
    <2>5. GrantHasRoom'
        <3>1. CASE batch'.pc = "create"
            <4>1. /\ GrantNext /\ batch.pc = "grant"
                BY <2>1, <3>1, GrantNextFacts DEF Comes
            <4>2. Fits(gpu_pods, batch'.cur) /\ batch'.cur \in Pods
                <5>1. batch \in BatchStates /\ Head(batch.granted) \in Pods
                    BY <4>1, GrantNextFacts DEF Core, LoopShape
                <5>2. batch' # [batch EXCEPT !.granted = Tail(@)]
                    BY <3>1, <4>1, <5>1 DEF BatchStates
                <5>3. /\ batch' = [batch EXCEPT !.pc = "create", !.cur = Head(batch.granted),
                                                !.granted = Tail(@)]
                      /\ Fits(gpu_pods, Head(batch.granted))
                    BY <4>1, <5>2, Zenon DEF GrantNext
                <5>4. batch'.cur = Head(batch.granted)
                    BY <5>1, <5>3 DEF BatchStates
                <5> QED BY <5>1, <5>3, <5>4
            <4> SUFFICES ASSUME ref[batch'.cur] = "none", Checked(batch'.cur)
                         PROVE  \E n \in Allowed[batch'.cur] :
                                    Load(n)' + Gpus[batch'.cur] <= Room(n)'
                BY <2>1 DEF GrantHasRoom, Checked
            <4>3. PICK n \in Allowed[batch'.cur] : Load(n) + Gpus[batch'.cur] <= Room(n)
                BY <1>1, <2>2, <4>1, <4>2, GrantRoom DEF RoomInv
            <4>4. n \in Nodes /\ Gpus[batch'.cur] \in Nat
                BY <4>2, GpuFacts
            <4> QED BY <2>4, <4>3, <4>4
        <3>2. CASE batch'.pc # "create"
            BY <2>1, <2>2, <2>4, <3>2, GrantKept DEF Comes, RoomInv
        <3> QED BY <3>1, <3>2
    <2> QED BY <2>4, <2>5
<1> QED BY <1>2, <1>3, <1>4, <1>5, <1>6, <1>7, <1>8 DEF Step

LEMMA InitRoom == Init => RoomInv
<1> SUFFICES ASSUME Init PROVE RoomInv
    OBVIOUS
<1>1. Standing
    BY InitStanding
<1>2. Unbound = {} /\ \A q \in Pods : phase[q] # "bound"
    BY DEF Init, Unbound
<1>3. batch.pc = "idle"
    BY DEF Init, NoBatch
<1> QED BY <1>1, <1>2, <1>3 DEF RoomInv, Tracked, RoomLeft, GrantHasRoom

LEMMA StutterRoom == ASSUME RoomInv, UNCHANGED vars PROVE RoomInv'
<1>1. UNCHANGED <<phase, ref, node, events, gpu_pods, occupied, batch, faults>>
    BY Zenon DEF vars, cluster
<1>2. Standing' = Standing
    BY <1>1 DEF Standing, PodsPlaced, EventsTrue, StillRecorded, Going
<1>3. Unbound' = Unbound /\ Calm' = Calm
    BY <1>1 DEF Unbound, Calm, Checked
<1>4. \A n \in Nodes : Load(n)' = Load(n) /\ Room(n)' = Room(n)
    BY <1>1, <1>3 DEF Load, Waiting, Room, SumGpus
<1>5. Tracked' = Tracked
    BY <1>1, <1>3 DEF Tracked, Unclaimed
<1>6. RoomLeft' = RoomLeft
    BY <1>3, <1>4 DEF RoomLeft
<1>7. GrantHasRoom' = GrantHasRoom
    BY <1>1, <1>3 DEF GrantHasRoom, Load, Waiting, Room, SumGpus, Checked
<1> QED BY <1>2, <1>3, <1>5, <1>6, <1>7 DEF RoomInv

LEMMA RoomInvariance == Spec => [](IInv /\ RoomInv)
<1>1. Init => IInv /\ RoomInv
    BY InitInv, InitRoom
<1>2. IInv /\ RoomInv /\ [Next]_vars => (IInv /\ RoomInv)'
    <2>1. ASSUME IInv, RoomInv, Next PROVE RoomInv'
        BY <2>1, StepRoom DEF IInv, Next
    <2>2. ASSUME RoomInv, UNCHANGED vars PROVE RoomInv'
        BY <2>2, StutterRoom
    <2> QED BY <2>1, <2>2, NextInv, StutterInv
<1> QED BY <1>1, <1>2, PTL DEF Spec

\* Every pod guard 5 admitted to any node of the class can be placed, beside every
\* other pod that may still be placed there, however far the watch lags behind the
\* cluster when the batch judges the next grant: for any nodes, requests and
\* placements, and any order of patch, claim, binding, finish and watch event.
THEOREM StartableKept == Spec => []Startable
<1>1. RoomInv => Startable
    <2> SUFFICES ASSUME RoomInv, Undisturbed, NEW p \in Unbound, Allowed[p] = Nodes
                 PROVE  \E n \in Nodes : SumGpus({q \in Unbound : n \in Allowed[q]}) <= Room(n)
        BY DEF Startable
    <2>1. Calm
        BY DEF Undisturbed, Calm
    <2>2. RoomLeft
        BY <2>1 DEF RoomInv
    <2> QED BY <2>2 DEF RoomLeft, Load, Waiting
<1> QED BY <1>1, RoomInvariance, PTL

=============================================================================
