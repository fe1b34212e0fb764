------------------------ MODULE SingletonLeaseProofs ------------------------
(* Proofs about SingletonLease. *)
EXTENDS SingletonLease, TLAPS

-----------------------------------------------------------------------------
(* Type correctness *)

\* A call that returns, and a process that stops, leave a well-typed process.
LEMMA SettleType ==
    ASSUME TypeOK, NEW i \in Instances, NEW h \in BOOLEAN, Settle(i, h),
           call[i] # "none", current' \subseteq current \ {i}
    PROVE  /\ st' \in [Instances -> {"down", "starting", "booting", "up", "fenced"}]
           /\ held' \in [Instances -> BOOLEAN]
           /\ call' \in [Instances -> {"none", "read", "write"}]
           /\ current' \in SUBSET {j \in Instances : call'[j] = "write"}
           /\ clock' \in [Instances -> Nat]
           /\ \A j \in Instances :
                 /\ st'[j] = "starting" => call'[j] # "none"
                 /\ call'[j] # "none" => st'[j] \in {"starting", "up"}
                 /\ IF Runs(j)' THEN clock'[j] <= Limit(j)' ELSE clock'[j] = 0
                 /\ held'[j] => st'[j] \in {"booting", "up"}
BY ConstantsAssumption DEF TypeOK, Settle, Runs, Limit

LEMMA StopType ==
    ASSUME TypeOK, NEW i \in Instances, NEW how \in {"down", "fenced"}, Stop(i, how),
           current' \subseteq current \ {i}
    PROVE  /\ st' \in [Instances -> {"down", "starting", "booting", "up", "fenced"}]
           /\ held' \in [Instances -> BOOLEAN]
           /\ call' \in [Instances -> {"none", "read", "write"}]
           /\ current' \in SUBSET {j \in Instances : call'[j] = "write"}
           /\ clock' \in [Instances -> Nat]
           /\ \A j \in Instances :
                 /\ st'[j] = "starting" => call'[j] # "none"
                 /\ call'[j] # "none" => st'[j] \in {"starting", "up"}
                 /\ IF Runs(j)' THEN clock'[j] <= Limit(j)' ELSE clock'[j] = 0
                 /\ held'[j] => st'[j] \in {"booting", "up"}
BY ConstantsAssumption DEF TypeOK, Stop, Runs, Limit

\* What reaches the API server keeps the Lease and the delayed writes typed.
LEMMA LandType ==
    ASSUME TypeOK, NEW i \in Instances, NEW age \in 0..MaxAge, Land(i, age)
    PROVE  /\ late' \in [Instances -> {NoWrite} \cup 0..MaxAge]
           /\ lease' \in [holder : Instances \cup {None}, age : 0..MaxAge]
           /\ current' = {}
BY DEF Land

LEMMA ClockBound ==
    ASSUME TypeOK, NEW i \in Instances, call[i] # "none"
    PROVE  clock[i] \in 0..MaxCall /\ clock[i] \in 0..MaxAge
BY ConstantsAssumption DEF TypeOK, Runs, Limit, MaxAge

LEMMA DelayType ==
    ASSUME TypeOK, NEW i \in Instances, MayDelay(i)
    PROVE  late' \in [Instances -> {NoWrite} \cup 0..MaxAge]
<1>1. i \in current => call[i] # "none"
    BY DEF TypeOK
<1>2. i \in current => clock[i] \in 0..MaxAge
    BY <1>1, ClockBound
<1> QED BY <1>2 DEF MayDelay, TypeOK

LEMMA InitType ==
    ASSUME Init PROVE TypeOK
BY ConstantsAssumption DEF Init, TypeOK, NoWrite, MaxAge, Runs

\* Every step keeps the types, the bounds of the clocks and who may have a call.
LEMMA StepType ==
    ASSUME TypeOK, [Next]_vars PROVE TypeOK'
<1> USE DEF vars, process, object
<1>1. CASE ClockTick
    <2>1. \A a \in 0..MaxAge : Older(a) \in 0..MaxAge
        BY ConstantsAssumption DEF Older, MaxAge
    <2>2. 0 \in 0..MaxAge
        BY ConstantsAssumption DEF MaxAge
    <2>3. /\ late' \in [Instances -> {NoWrite} \cup 0..MaxAge]
          /\ lease' \in [holder : Instances \cup {None}, age : 0..MaxAge]
        BY <1>1, <2>1, <2>2 DEF ClockTick, TypeOK
    <2>4. clock' \in [Instances -> Nat]
        BY <1>1 DEF ClockTick, TypeOK
    <2>5. \A i \in Instances : Limit(i) \in Nat /\ Limit(i)' = Limit(i) /\ Runs(i)' = Runs(i)
        BY <1>1, ConstantsAssumption DEF ClockTick, Limit, Runs
    <2>6. ASSUME NEW i \in Instances
          PROVE  IF Runs(i)' THEN clock'[i] <= Limit(i)' ELSE clock'[i] = 0
        <3>1. clock'[i] = IF Runs(i) THEN clock[i] + 1 ELSE clock[i]
            BY <1>1 DEF ClockTick
        <3>2. Runs(i) => clock[i] < Limit(i)
            BY <1>1 DEF ClockTick
        <3>3. clock[i] \in Nat /\ (~Runs(i) => clock[i] = 0)
            BY DEF TypeOK, Runs
        <3> HIDE DEF vars, process, object
        <3>4. CASE Runs(i)
            BY <2>5, <3>1, <3>2, <3>3, <3>4
        <3>5. CASE ~Runs(i)
            BY <2>5, <3>1, <3>3, <3>5
        <3> QED BY <3>4, <3>5
    <2> QED BY <1>1, <2>3, <2>4, <2>6 DEF ClockTick, TypeOK
<1>2. ASSUME NEW i \in Instances, Start(i) PROVE TypeOK'
    <2>1. clock[i] = 0 /\ ~held[i]
        <3>1. ~Runs(i) /\ ~(st[i] \in {"booting", "up"})
            BY <1>2 DEF Start, Runs
        <3>2. IF Runs(i) THEN clock[i] <= Limit(i) ELSE clock[i] = 0
            BY DEF TypeOK
        <3>3. held[i] => st[i] \in {"booting", "up"}
            BY DEF TypeOK
        <3>4. held[i] \in BOOLEAN
            BY DEF TypeOK
        <3> QED BY <3>1, <3>2, <3>3
    <2>2. /\ st' = [st EXCEPT ![i] = "starting"] /\ call' = [call EXCEPT ![i] = "read"]
          /\ call[i] = "none" /\ UNCHANGED <<held, clock, object, faults, crashes>>
        BY <1>2 DEF Start, TypeOK
    <2>3. \A j \in Instances :
            /\ st'[j] = "starting" => call'[j] # "none"
            /\ call'[j] # "none" => st'[j] \in {"starting", "up"}
            /\ held'[j] => st'[j] \in {"booting", "up"}
        <3> TAKE j \in Instances
        <3>1. /\ st[j] = "starting" => call[j] # "none"
              /\ call[j] # "none" => st[j] \in {"starting", "up"}
              /\ held[j] => st[j] \in {"booting", "up"}
            BY DEF TypeOK
        <3>2. CASE i = j
            BY <2>1, <2>2, <3>2 DEF TypeOK
        <3>3. CASE i # j
            BY <2>2, <3>1, <3>3 DEF TypeOK
        <3> QED BY <3>2, <3>3
    <2>4. \A j \in Instances : IF Runs(j)' THEN clock'[j] <= Limit(j)' ELSE clock'[j] = 0
        <3> TAKE j \in Instances
        <3>1. IF Runs(j) THEN clock[j] <= Limit(j) ELSE clock[j] = 0
            BY DEF TypeOK
        <3>2. CASE i = j
            BY <2>1, <2>2, <3>2, ConstantsAssumption DEF TypeOK, Limit
        <3>3. CASE i # j
            <4>1. Runs(j)' = Runs(j) /\ Limit(j)' = Limit(j) /\ clock'[j] = clock[j]
                BY <2>2, <3>3 DEF TypeOK, Runs, Limit
            <4> QED BY <3>1, <4>1
        <3> QED BY <3>2, <3>3
    <2> QED BY <2>2, <2>3, <2>4 DEF TypeOK
<1>3. ASSUME NEW i \in Instances, Crash(i) PROVE TypeOK'
    <2>1. Stop(i, "down") /\ MayDelay(i) /\ current' = current \ {i}
        BY <1>3 DEF Crash
    <2>2. crashes' \in 0..MaxCrashes /\ UNCHANGED <<lease, faults>>
        BY <1>3, ConstantsAssumption DEF Crash, TypeOK
    <2> QED BY <2>1, <2>2, StopType, DelayType DEF TypeOK
<1>4. ASSUME NEW i \in Instances, Booted(i) PROVE TypeOK'
    BY <1>4, ConstantsAssumption DEF Booted, TypeOK, Runs, Limit
<1>5. ASSUME NEW i \in Instances, Wake(i) PROVE TypeOK'
    BY <1>5, ConstantsAssumption DEF Wake, TypeOK, Runs, Limit
<1>6. ASSUME NEW i \in Instances, Read(i) PROVE TypeOK'
    <2>1. call[i] = "read" /\ i \notin current /\ UNCHANGED <<lease, late, crashes>>
        BY <1>6 DEF Read, TypeOK
    <2>2. CASE call' = [call EXCEPT ![i] = "write"] /\ current' = current \cup {i}
                 /\ UNCHANGED <<st, held, clock, faults>>
        BY <2>1, <2>2, ConstantsAssumption DEF TypeOK, Runs, Limit
    <2>3. CASE Stop(i, "fenced") /\ UNCHANGED <<current, faults>>
        BY <2>1, <2>3, StopType DEF TypeOK
    <2>4. CASE faults' \in {faults, faults + 1} /\ (faults' = faults \/ Fault)
                 /\ Settle(i, held[i]) /\ UNCHANGED current
        <3>1. held[i] \in BOOLEAN
            BY DEF TypeOK
        <3>2. faults' \in 0..MaxFaults
            BY <2>4, ConstantsAssumption DEF Fault, TypeOK
        <3> QED BY <2>1, <2>4, <3>1, <3>2, SettleType DEF TypeOK
    <2> QED BY <1>6, <2>2, <2>3, <2>4 DEF Read, Fault
<1>7. ASSUME NEW i \in Instances, Write(i) PROVE TypeOK'
    <2>1. call[i] # "none" /\ held[i] \in BOOLEAN /\ crashes' = crashes
        BY <1>7 DEF Write, TypeOK
    <2>2. PICK h \in BOOLEAN : Settle(i, h)
        BY <1>7, <2>1 DEF Write
    <2>3. faults' \in 0..MaxFaults
        <3>1. faults' = faults \/ Fault
            BY <1>7 DEF Write
        <3> QED BY <3>1, ConstantsAssumption DEF Fault, TypeOK
    <2>4. /\ late' \in [Instances -> {NoWrite} \cup 0..MaxAge]
          /\ lease' \in [holder : Instances \cup {None}, age : 0..MaxAge]
          /\ current' \subseteq current \ {i}
        <3>1. CASE Land(i, clock[i])
            BY <2>1, <3>1, ClockBound, LandType
        <3>2. CASE i \notin current /\ UNCHANGED object
            BY <3>2 DEF TypeOK
        <3>3. CASE MayDelay(i) /\ current' = current \ {i} /\ lease' = lease
            BY <3>3, DelayType DEF TypeOK
        <3> QED BY <1>7, <3>1, <3>2, <3>3 DEF Write
    <2> QED BY <2>1, <2>2, <2>3, <2>4, SettleType DEF TypeOK
<1>8. ASSUME NEW i \in Instances, LateWrite(i) PROVE TypeOK'
    <2>1. late[i] \in 0..MaxAge /\ Land(i, late[i]) /\ UNCHANGED <<process, faults, crashes>>
        BY <1>8 DEF LateWrite, TypeOK
    <2> QED BY <2>1, LandType DEF TypeOK, Runs, Limit
<1>9. CASE UNCHANGED vars
    BY <1>9 DEF TypeOK, Runs, Limit
<1> QED BY <1>1, <1>2, <1>3, <1>4, <1>5, <1>6, <1>7, <1>8, <1>9 DEF Next, Guard

\* The state is well typed and every clock keeps the bound of its phase, for
\* any number of controllers and any timing.
THEOREM TypeCorrect == Spec => []TypeOK
<1>1. Init => TypeOK
    BY InitType
<1>2. TypeOK /\ [Next]_vars => TypeOK'
    BY StepType
<1> QED BY <1>1, <1>2, PTL DEF Spec

-----------------------------------------------------------------------------
(* Every write that can still be stored was decided rightly *)

LEMMA InitJustified ==
    ASSUME Init PROVE WritesJustified
BY DEF Init, WritesJustified, NoWrite

\* Giving up a request leaves at most a delayed write that was justified.
LEMMA DelayJustified ==
    ASSUME TypeOK, WritesJustified, NEW i \in Instances, MayDelay(i),
           call[i] # "none", lease' = lease, call'[i] = "none",
           current' = current \ {i}, st[i] # "fenced", st'[i] # "fenced",
           \A j \in Instances \ {i} :
              call'[j] = call[j] /\ clock'[j] = clock[j] /\ st'[j] = st[j]
    PROVE  WritesJustified'
<1>1. \A j \in current' : lease'.holder \in {None, j} \/ Expired(j)'
    BY DEF WritesJustified, Expired, TypeOK
<1>2. i \in current => lease.holder \in {None, i} \/ lease.age > Duration
    <2>1. lease.age \in Nat /\ clock[i] \in Nat
        BY ConstantsAssumption DEF TypeOK, MaxAge
    <2> QED BY <2>1, ConstantsAssumption DEF WritesJustified, Expired
<1>3. ASSUME NEW j \in Instances, late'[j] # NoWrite
      PROVE  \/ lease'.holder \in {None, j}
             \/ lease'.age > Duration /\ (call'[j] # "none" => Expired(j)')
    <2>1. CASE j = i
        <3>1. late[i] # NoWrite \/ i \in current
            BY <1>3, <2>1 DEF MayDelay
        <3> QED BY <1>2, <2>1, <3>1 DEF WritesJustified
    <2>2. CASE j # i
        <3>1. late'[j] = late[j]
            BY <2>2 DEF MayDelay, TypeOK
        <3> QED BY <1>3, <2>2, <3>1 DEF WritesJustified, Expired
    <2> QED BY <2>1, <2>2
<1>4. ASSUME NEW j \in Instances, st'[j] = "fenced"
      PROVE  late'[j] = NoWrite
    BY <1>4 DEF WritesJustified, MayDelay, TypeOK
<1> QED BY <1>1, <1>3, <1>4 DEF WritesJustified

\* The version a write carries, the age it was decided on and the delayed
\* writes agree after every step.
LEMMA StepJustified ==
    ASSUME TypeOK, WritesJustified, [Next]_vars PROVE WritesJustified'
<1> USE DEF vars, process, object
<1>1. CASE ClockTick
    <2>1. /\ lease.age \in 0..MaxAge /\ \A j \in Instances : clock[j] \in Nat
          /\ \A j \in Instances : late'[j] # NoWrite => late[j] # NoWrite
        BY <1>1 DEF TypeOK, ClockTick
    <2>2. lease'.holder = lease.holder
        BY <1>1 DEF ClockTick, TypeOK
    <2>3. lease.holder # None => lease'.age = Older(lease.age)
        BY <1>1 DEF ClockTick, TypeOK
    <2>4. lease.age > Duration => Older(lease.age) > Duration
        BY <2>1, ConstantsAssumption DEF Older, MaxAge
    <2>5. ASSUME NEW j \in Instances, call[j] # "none", Expired(j), lease.holder # None
          PROVE  Expired(j)'
        <3>1. clock[j] < MaxCall /\ clock'[j] = clock[j] + 1
            BY <1>1, <2>5 DEF ClockTick, TypeOK, Runs, Limit
        <3> QED BY <2>1, <2>3, <2>5, <3>1, ConstantsAssumption DEF Expired, Older, MaxAge
    <2>6. \A j \in current : call[j] # "none" /\ j \in Instances
        BY DEF TypeOK
    <2>7. UNCHANGED <<st, call, current>>
        BY <1>1 DEF ClockTick
    <2>8. \A j \in Instances : late[j] = NoWrite => late'[j] = NoWrite
        BY <1>1 DEF ClockTick
    <2> QED BY <2>1, <2>2, <2>3, <2>4, <2>5, <2>6, <2>7, <2>8 DEF WritesJustified
<1>2. ASSUME NEW i \in Instances, Start(i) \/ Wake(i) PROVE WritesJustified'
    <2>1. /\ call[i] = "none" /\ i \notin current
          /\ st[i] # "fenced" \/ Start(i)
        BY <1>2 DEF Start, Wake, TypeOK
    <2>2. clock'[i] = 0
        BY <1>2 DEF Start, Wake, TypeOK, Runs
    <2>3. /\ UNCHANGED object
          /\ \A j \in Instances \ {i} :
                call'[j] = call[j] /\ clock'[j] = clock[j] /\ st'[j] = st[j]
          /\ st'[i] # "fenced"
        BY <1>2 DEF Start, Wake, TypeOK
    <2>4. lease.age \in Nat
        BY ConstantsAssumption DEF TypeOK, MaxAge
    <2> QED BY <2>1, <2>2, <2>3, <2>4, ConstantsAssumption DEF WritesJustified, Expired, TypeOK
<1>3. ASSUME NEW i \in Instances, Crash(i) PROVE WritesJustified'
    <2>1. /\ Stop(i, "down") /\ MayDelay(i) /\ current' = current \ {i} /\ lease' = lease
          /\ st[i] # "fenced"
        BY <1>3 DEF Crash
    <2>2. /\ call'[i] = "none" /\ st'[i] # "fenced"
          /\ \A j \in Instances \ {i} :
                call'[j] = call[j] /\ clock'[j] = clock[j] /\ st'[j] = st[j]
        BY <2>1 DEF Stop, TypeOK
    <2>3. CASE call[i] # "none"
        BY <2>1, <2>2, <2>3, DelayJustified
    <2>4. CASE call[i] = "none"
        <3>1. i \notin current /\ late' = late
            BY <2>1, <2>4 DEF TypeOK, MayDelay
        <3> QED BY <2>1, <2>2, <3>1 DEF WritesJustified, Expired, TypeOK
    <2> QED BY <2>3, <2>4
<1>4. ASSUME NEW i \in Instances, Booted(i) PROVE WritesJustified'
    <2>1. call[i] = "none" /\ i \notin current
        BY <1>4 DEF Booted, TypeOK
    <2> QED BY <1>4, <2>1 DEF Booted, WritesJustified, Expired, TypeOK
<1>5. ASSUME NEW i \in Instances, Read(i) PROVE WritesJustified'
    <2>1. call[i] = "read" /\ i \notin current /\ UNCHANGED <<lease, late>> /\ st[i] # "fenced"
        BY <1>5 DEF Read, TypeOK
    <2>2. CASE /\ ~HeldByOther(i)
               /\ call' = [call EXCEPT ![i] = "write"] /\ current' = current \cup {i}
               /\ UNCHANGED <<st, held, clock, faults>>
        <3>1. lease.holder \in {None, i} \/ Expired(i)
            BY <2>2 DEF HeldByOther
        <3>2. Expired(i)' <=> Expired(i)
            BY <2>1, <2>2 DEF Expired
        <3> QED BY <2>1, <2>2, <3>1, <3>2 DEF WritesJustified, Expired, TypeOK
    <2>3. CASE HeldByOther(i) /\ Stop(i, "fenced") /\ UNCHANGED <<current, faults>>
        <3>1. late[i] = NoWrite
            BY <2>1, <2>3 DEF HeldByOther, WritesJustified
        <3> QED BY <2>1, <2>3, <3>1 DEF Stop, WritesJustified, Expired, TypeOK
    <2>4. CASE Settle(i, held[i]) /\ UNCHANGED current
        BY <2>1, <2>4 DEF Settle, WritesJustified, Expired, TypeOK
    <2> QED BY <1>5, <2>2, <2>3, <2>4 DEF Read
<1>6. ASSUME NEW i \in Instances, Write(i) PROVE WritesJustified'
    <2>1. call[i] = "write" /\ st[i] \in {"starting", "up"}
        BY <1>6 DEF Write, TypeOK
    <2>2. PICK h \in {TRUE, held[i]} : Settle(i, h)
        BY <1>6 DEF Write
    <2>3. /\ call'[i] = "none" /\ st'[i] # "fenced"
          /\ \A j \in Instances \ {i} :
                call'[j] = call[j] /\ clock'[j] = clock[j] /\ st'[j] = st[j]
        BY <2>1, <2>2 DEF Settle, TypeOK
    <2>4. CASE Land(i, clock[i])
        BY <2>4 DEF Land, WritesJustified
    <2>5. CASE i \notin current /\ UNCHANGED object
        BY <2>1, <2>3, <2>5 DEF WritesJustified, Expired, TypeOK
    <2>6. CASE MayDelay(i) /\ current' = current \ {i} /\ lease' = lease
        BY <2>1, <2>3, <2>6, DelayJustified
    <2> QED BY <1>6, <2>4, <2>5, <2>6 DEF Write
<1>7. ASSUME NEW i \in Instances, LateWrite(i) PROVE WritesJustified'
    BY <1>7 DEF LateWrite, Land, WritesJustified
<1>8. CASE UNCHANGED vars
    BY <1>8 DEF WritesJustified, Expired
<1> QED BY <1>1, <1>2, <1>3, <1>4, <1>5, <1>6, <1>7, <1>8 DEF Next, Guard

\* No write that a live holder should exclude can ever be stored.
THEOREM WritesAreJustified == Spec => []WritesJustified
<1>1. Init => TypeOK /\ WritesJustified
    BY InitType, InitJustified
<1>2. TypeOK /\ WritesJustified /\ [Next]_vars => (TypeOK /\ WritesJustified)'
    BY StepType, StepJustified
<1> QED BY <1>1, <1>2, PTL DEF Spec

-----------------------------------------------------------------------------
(* Refinement *)

\* A write of a version that is still current is a write of the promise.
LEMMA LandRefines ==
    ASSUME TypeOK, NEW i \in Instances, NEW age \in 0..MaxAge, Land(i, age),
           lease.holder \in {None, i} \/ lease.age > Duration, st[i] # "fenced",
           \A j \in Instances : st'[j] = "fenced" <=> st[j] = "fenced"
    PROVE  Handover!Write(i)
<1>1. lease' = [holder |-> i, age |-> age]
    BY DEF Land
<1> QED BY <1>1 DEF Handover!Write

LEMMA AsideSame ==
    ASSUME lease' = lease,
           \A j \in Instances : st'[j] = "fenced" <=> st[j] = "fenced"
    PROVE  UNCHANGED Handover!vars
BY DEF Handover!vars

\* Every step of the code is a step of the promise or invisible to it.
LEMMA StepRefines ==
    ASSUME TypeOK, WritesJustified, [Next]_vars
    PROVE  [Handover!Next]_(Handover!vars)
<1> USE DEF vars, process, object
<1>1. CASE ClockTick
    <2>1. lease'.holder = lease.holder /\ st' = st
        BY <1>1 DEF ClockTick, TypeOK
    <2>2. CASE lease.holder = None
        BY <2>1, <2>2 DEF Handover!vars
    <2>3. CASE lease.holder # None
        <3>1. lease'.age = Older(lease.age) /\ lease.age \in 0..MaxAge
            BY <1>1, <2>3 DEF ClockTick, TypeOK
        <3>2. lease.age > Duration => lease'.age > Duration
            BY <3>1, ConstantsAssumption DEF Older, MaxAge
        <3>3. CASE lease'.age > Duration
            BY <2>1, <2>3, <3>3 DEF Handover!Next, Handover!Expire
        <3>4. CASE ~(lease'.age > Duration)
            BY <2>1, <2>3, <3>2, <3>4 DEF Handover!vars
        <3> QED BY <3>3, <3>4
    <2> QED BY <2>2, <2>3
<1>2. ASSUME NEW i \in Instances, Start(i) PROVE Handover!Next
    <2>1. lease' = lease /\ st' = [st EXCEPT ![i] = "starting"]
        BY <1>2 DEF Start
    <2>2. {j \in Instances : st'[j] = "fenced"} = {j \in Instances : st[j] = "fenced"} \ {i}
        BY <2>1 DEF TypeOK
    <2>3. Handover!Return(i)
        BY <2>1, <2>2 DEF Handover!Return
    <2> QED BY <2>3 DEF Handover!Next
<1>3. ASSUME NEW i \in Instances, Crash(i) \/ Booted(i) \/ Wake(i)
      PROVE  UNCHANGED Handover!vars
    <2>1. lease' = lease /\ \A j \in Instances : st'[j] = "fenced" <=> st[j] = "fenced"
        BY <1>3 DEF Crash, Stop, Booted, Wake, TypeOK
    <2> QED BY <2>1, AsideSame
<1>4. ASSUME NEW i \in Instances, Read(i) PROVE [Handover!Next]_(Handover!vars)
    <2>1. CASE HeldByOther(i) /\ Stop(i, "fenced")
        <3>1. lease' = lease /\ st' = [st EXCEPT ![i] = "fenced"]
            BY <1>4, <2>1 DEF Read, Stop
        <3>2. {j \in Instances : st'[j] = "fenced"} = {j \in Instances : st[j] = "fenced"} \cup {i}
            BY <3>1 DEF TypeOK
        <3>3. Handover!StepAside(i)
            BY <2>1, <3>1, <3>2 DEF Handover!StepAside, HeldByOther
        <3> QED BY <3>3 DEF Handover!Next
    <2>2. CASE st' = st \/ Settle(i, held[i])
        <3>1. lease' = lease /\ st[i] # "fenced"
            BY <1>4 DEF Read, TypeOK
        <3>2. \A j \in Instances : st'[j] = "fenced" <=> st[j] = "fenced"
            BY <2>2, <3>1 DEF Settle, TypeOK
        <3> QED BY <3>1, <3>2, AsideSame
    <2> QED BY <1>4, <2>1, <2>2 DEF Read
<1>5. ASSUME NEW i \in Instances, Write(i) PROVE [Handover!Next]_(Handover!vars)
    <2>1. call[i] = "write" /\ st[i] # "fenced"
        BY <1>5 DEF Write, TypeOK
    <2>2. PICK h \in {TRUE, held[i]} : Settle(i, h)
        BY <1>5 DEF Write
    <2>3. \A j \in Instances : st'[j] = "fenced" <=> st[j] = "fenced"
        BY <2>1, <2>2 DEF Settle, TypeOK
    <2>4. CASE i \in current /\ Land(i, clock[i])
        <3>1. clock[i] \in 0..MaxAge
            BY <2>1, ClockBound
        <3>2. lease.holder \in {None, i} \/ lease.age > Duration
            <4>1. lease.age \in Nat /\ clock[i] \in Nat
                BY ConstantsAssumption DEF TypeOK, MaxAge
            <4> QED BY <2>4, <4>1, ConstantsAssumption DEF WritesJustified, Expired
        <3>3. Handover!Write(i)
            BY <2>1, <2>3, <2>4, <3>1, <3>2, LandRefines
        <3> QED BY <3>3 DEF Handover!Next
    <2>5. CASE lease' = lease
        BY <2>3, <2>5, AsideSame
    <2> QED BY <1>5, <2>4, <2>5 DEF Write
<1>6. ASSUME NEW i \in Instances, LateWrite(i) PROVE Handover!Next
    <2>1. /\ late[i] # NoWrite /\ late[i] \in 0..MaxAge /\ Land(i, late[i])
          /\ st' = st
        BY <1>6 DEF LateWrite, TypeOK
    <2>2. st[i] # "fenced" /\ (lease.holder \in {None, i} \/ lease.age > Duration)
        BY <2>1 DEF WritesJustified
    <2>3. Handover!Write(i)
        BY <2>1, <2>2, LandRefines
    <2> QED BY <2>3 DEF Handover!Next
<1>7. CASE UNCHANGED vars
    BY <1>7 DEF Handover!vars
<1> QED BY <1>1, <1>2, <1>3, <1>4, <1>5, <1>6, <1>7 DEF Next, Guard

\* The code keeps the promise: a live Lease never changes hands and an instance
\* that stepped aside never becomes its holder, not even by a delayed write.
THEOREM LeaseKept == Spec => LeasePromise
<1>1. Init => TypeOK /\ WritesJustified /\ Handover!Init
    BY InitType, InitJustified DEF Init, Handover!Init
<1>2. TypeOK /\ WritesJustified /\ [Next]_vars
        => (TypeOK /\ WritesJustified)' /\ [Handover!Next]_(Handover!vars)
    BY StepType, StepJustified, StepRefines
<1> QED BY <1>1, <1>2, PTL DEF Spec, LeasePromise, Handover!Spec

-----------------------------------------------------------------------------
(* A punctual guard is right about the Lease *)

\* A renewal is due often enough: the time to start up, one slow call, and one
\* sleep and call for every request that may fail and for the one that works.
Timely ==
    MaxBoot + MaxCall + (MaxFaults + 1) * (RenewEvery + MaxCall) <= Duration

Cycle == RenewEvery + MaxCall
Spent == faults * Cycle

\* How old the Lease can be for a guard that holds it.  A write that lost its
\* version lost it to a delayed one, which was younger by a cycle.
Slack(i) ==
    MaxCall + Spent + clock[i]
      + (IF st[i] = "booting" THEN 0 ELSE MaxBoot)
      + (IF call[i] = "none" THEN 0 ELSE RenewEvery)
      - (IF call[i] = "write" /\ i \notin current THEN Cycle ELSE 0)

\* How old a delayed write of it can be: a fault of its own came before.
LateSlack(i) ==
    MaxCall + Spent - Cycle + clock[i] + (IF call[i] = "none" THEN 0 ELSE RenewEvery)

Right(i) ==
    /\ lease.holder = i
    /\ lease.age <= Slack(i)
    /\ late[i] # NoWrite =>
          /\ st[i] = "up"
          /\ late[i] <= LateSlack(i)
          /\ call[i] = "write" => i \in current

Punctual == \A i \in Instances : held[i] => Right(i)

LEMMA SpentFacts ==
    ASSUME TypeOK
    PROVE  /\ Cycle \in Nat /\ Spent \in Nat
           /\ Spent <= MaxFaults * Cycle
           /\ Fault => Spent' = Spent + Cycle
           /\ faults' = faults => Spent' = Spent
<1>1. Cycle \in Nat
    BY ConstantsAssumption DEF Cycle
<1>2. \A m, n \in Nat : m * n \in Nat /\ (m + 1) * n = m * n + n
    OBVIOUS
<1>3. faults \in Nat /\ MaxFaults - faults \in Nat /\ MaxFaults \in Nat
    BY ConstantsAssumption DEF TypeOK
<1>4. Spent \in Nat
    BY <1>1, <1>2, <1>3 DEF Spent
<1>5. Spent <= MaxFaults * Cycle
    <2>1. MaxFaults * Cycle = faults * Cycle + (MaxFaults - faults) * Cycle
        BY <1>1, <1>3
    <2>2. (MaxFaults - faults) * Cycle \in Nat
        BY <1>1, <1>2, <1>3
    <2> QED BY <1>4, <2>1, <2>2 DEF Spent
<1>6. Fault => Spent' = Spent + Cycle
    BY <1>1, <1>2, <1>3 DEF Fault, Spent, Cycle
<1>7. faults' = faults => Spent' = Spent
    BY DEF Spent, Cycle
<1> QED BY <1>1, <1>4, <1>5, <1>6, <1>7

\* While a renewal is due often enough, nobody finds the Lease expired.
LEMMA PunctualHolds ==
    ASSUME TypeOK, Timely, Punctual PROVE HeldIsHolder
<1> SUFFICES ASSUME NEW i \in Instances, held[i]
             PROVE  lease.holder = i /\ lease.age <= Duration
    BY DEF HeldIsHolder
<1>1. lease.holder = i /\ lease.age <= Slack(i) /\ lease.age \in Nat
    BY ConstantsAssumption DEF Punctual, Right, TypeOK, MaxAge
<1>2. /\ st[i] \in {"booting", "up"} /\ clock[i] \in Nat
      /\ clock[i] <= Limit(i)
    BY DEF TypeOK, Runs
<1>3. Spent \in Nat /\ Cycle \in Nat /\ Spent <= MaxFaults * Cycle
    BY SpentFacts
<1>4. (MaxFaults + 1) * Cycle = MaxFaults * Cycle + Cycle /\ MaxFaults * Cycle \in Nat
    BY <1>3, ConstantsAssumption
<1>5. MaxBoot + MaxCall + MaxFaults * Cycle + Cycle <= Duration
    BY <1>3, <1>4, ConstantsAssumption DEF Timely, Cycle
<1>6. call[i] # "none" => st[i] = "up"
    BY <1>2 DEF TypeOK
<1> DEFINE most == MaxFaults * Cycle
<1>7. most \in Nat /\ Spent <= most /\ MaxBoot + MaxCall + most + Cycle <= Duration
    BY <1>3, <1>4, <1>5
<1> HIDE DEF most
<1>8. Slack(i) <= Duration
    BY <1>2, <1>3, <1>6, <1>7, ConstantsAssumption DEF Slack, Limit, Cycle
<1>9. Slack(i) \in Int
    BY <1>2, <1>3, ConstantsAssumption DEF Slack
<1> QED BY <1>1, <1>8, <1>9, ConstantsAssumption

LEMMA InitPunctual ==
    ASSUME Init PROVE Punctual
BY DEF Init, Punctual

\* What another instance does leaves a guard that holds the Lease alone.
LEMMA OthersPunctual ==
    ASSUME TypeOK, Punctual, NEW i \in Instances,
           lease' = lease, faults' = faults \/ Fault,
           current' \in {current, current \ {i}, current \cup {i}},
           \A j \in Instances \ {i} :
              /\ held'[j] = held[j] /\ call'[j] = call[j] /\ clock'[j] = clock[j]
              /\ st'[j] = st[j] /\ late'[j] = late[j]
    PROVE  \A j \in Instances \ {i} : held'[j] => Right(j)'
<1> SUFFICES ASSUME NEW j \in Instances \ {i}, held'[j] PROVE Right(j)'
    OBVIOUS
<1>1. /\ lease.holder = j /\ lease.age <= Slack(j)
      /\ late[j] # NoWrite =>
            /\ st[j] = "up" /\ late[j] <= LateSlack(j)
            /\ call[j] = "write" => j \in current
    BY DEF Punctual, Right
<1>2. /\ Spent \in Nat /\ Spent' \in Nat /\ Spent <= Spent' /\ Cycle' = Cycle
      /\ Cycle \in Nat /\ clock[j] \in Nat /\ lease.age \in Nat
    <2>1. Spent \in Nat /\ Cycle \in Nat /\ (Spent' = Spent + Cycle \/ Spent' = Spent)
        BY SpentFacts
    <2> QED BY <2>1, ConstantsAssumption DEF TypeOK, MaxAge, Cycle
<1>3. Slack(j)' \in Int /\ Slack(j) \in Int /\ Slack(j) <= Slack(j)'
    BY <1>2, ConstantsAssumption DEF Slack
<1>4. LateSlack(j)' \in Int /\ LateSlack(j) \in Int /\ LateSlack(j) <= LateSlack(j)'
    BY <1>2, ConstantsAssumption DEF LateSlack
<1>5. late[j] # NoWrite => late[j] \in Nat
    BY ConstantsAssumption DEF TypeOK, MaxAge
<1> QED BY <1>1, <1>2, <1>3, <1>4, <1>5 DEF Right

\* The numbers a step of instance i, which holds the Lease, is judged by.
LEMMA HolderNumbers ==
    ASSUME TypeOK, NEW i \in Instances, held[i]
    PROVE  /\ clock[i] \in Nat /\ clock[i] <= Limit(i) /\ lease.age \in Nat
           /\ st[i] \in {"booting", "up"} /\ (call[i] # "none" => st[i] = "up")
           /\ Spent \in Nat /\ Cycle = RenewEvery + MaxCall
           /\ late[i] # NoWrite => late[i] \in Nat
BY SpentFacts, ConstantsAssumption DEF TypeOK, Runs, MaxAge, Cycle

\* A call of the holder that ends without a write of its own: a fault pays for
\* the next cycle, a lost version was already paid for.
LEMMA SettlePunctual ==
    ASSUME TypeOK, Punctual, NEW i \in Instances, held[i], call[i] # "none",
           Settle(i, held[i]), lease' = lease,
           \/ Fault
           \/ faults' = faults /\ call[i] = "write" /\ i \notin current,
           \/ late'[i] = late[i]
           \/ Fault /\ late'[i] = clock[i]
    PROVE  Right(i)'
<1>1. /\ st'[i] = "up" /\ held'[i] /\ call'[i] = "none" /\ clock'[i] = 0
    BY HolderNumbers DEF Settle, TypeOK
<1>2. /\ clock[i] \in Nat /\ clock[i] <= MaxCall /\ st[i] = "up"
      /\ Spent \in Nat /\ Cycle = RenewEvery + MaxCall /\ Cycle' = Cycle
      /\ late[i] # NoWrite => late[i] \in Nat
      /\ lease.age \in Nat
    BY HolderNumbers DEF Limit, Cycle
<1>3. Slack(i)' = MaxCall + Spent' + MaxBoot /\ LateSlack(i)' = MaxCall + Spent' - Cycle
    <2>1. Spent' \in Int
        BY <1>2, SpentFacts, ConstantsAssumption DEF Cycle
    <2> QED BY <1>1, <1>2, <2>1, ConstantsAssumption DEF Slack, LateSlack
<1>4. Right(i)
    BY DEF Punctual
<1>5. CASE Fault
    <2>1. Spent' = Spent + Cycle
        BY <1>5, SpentFacts
    <2>2. Slack(i) <= Slack(i)' /\ LateSlack(i) <= LateSlack(i)'
          /\ Slack(i) \in Int /\ LateSlack(i) \in Int /\ Slack(i)' \in Int /\ LateSlack(i)' \in Int
        BY <1>2, <1>3, <2>1, ConstantsAssumption DEF Slack, LateSlack
    <2>3. clock[i] <= LateSlack(i)'
        BY <1>2, <1>3, <2>1, ConstantsAssumption
    <2> QED BY <1>1, <1>2, <1>4, <2>2, <2>3 DEF Right
<1>6. CASE faults' = faults /\ call[i] = "write" /\ i \notin current
    <2>1. Spent' = Spent
        BY <1>6, SpentFacts
    <2>2. Slack(i) <= Slack(i)' /\ Slack(i) \in Int /\ Slack(i)' \in Int
        BY <1>2, <1>3, <1>6, <2>1, ConstantsAssumption DEF Slack
    <2>3. late[i] = NoWrite
        BY <1>4, <1>6 DEF Right
    <2>4. late'[i] = NoWrite \/ Fault
        BY <2>3
    <2>5. CASE late'[i] = NoWrite
        BY <1>1, <1>2, <1>4, <2>2, <2>5 DEF Right
    <2> QED BY <1>5, <1>6, <2>4, <2>5
<1> QED BY <1>5, <1>6

\* A write that reaches the API server finds no other guard holding the Lease.
LEMMA LandAlone ==
    ASSUME TypeOK, Timely, Punctual, NEW i \in Instances,
           lease.holder \in {None, i} \/ lease.age > Duration,
           NEW j \in Instances \ {i}
    PROVE  ~held[j]
<1>1. held[j] => lease.holder = j /\ lease.age <= Duration
    BY PunctualHolds DEF HeldIsHolder
<1>2. lease.age \in Nat /\ j # None
    BY ConstantsAssumption DEF TypeOK, MaxAge
<1> QED BY <1>1, <1>2, ConstantsAssumption

LEMMA StepPunctual ==
    ASSUME TypeOK, WritesJustified, Timely, Punctual, [Next]_vars
    PROVE  Punctual'
<1> USE DEF vars, process, object
<1>1. CASE ClockTick
    <2> SUFFICES ASSUME NEW i \in Instances, held'[i] PROVE Right(i)'
        BY DEF Punctual
    <2>1. /\ held[i] /\ st' = st /\ call' = call /\ current' = current /\ faults' = faults
          /\ Runs(i)
        BY <1>1 DEF ClockTick, TypeOK, Runs
    <2>2. Right(i)
        BY <2>1 DEF Punctual
    <2>3. lease.holder # None /\ Spent' = Spent /\ Cycle' = Cycle /\ NoWrite' = NoWrite
        BY <2>1, <2>2, SpentFacts, ConstantsAssumption DEF Right, Cycle
    <2>4. /\ clock'[i] = clock[i] + 1
          /\ lease' = [lease EXCEPT !.age = Older(lease.age)]
          /\ late'[i] = IF late[i] = NoWrite THEN NoWrite ELSE Older(late[i])
        BY <1>1, <2>1, <2>3 DEF ClockTick
    <2>5. lease'.holder = lease.holder /\ lease'.age = Older(lease.age)
        BY <2>4 DEF TypeOK
    <2>6. \A a \in Nat : Older(a) <= a + 1 /\ Older(a) \in Nat
        BY ConstantsAssumption DEF Older, MaxAge
    <2>7. /\ clock[i] \in Nat /\ lease.age \in Nat /\ Spent \in Nat /\ Cycle \in Nat
          /\ (late[i] # NoWrite => late[i] \in Nat)
        BY <2>1, HolderNumbers, SpentFacts
    <2>8. /\ Slack(i)' = Slack(i) + 1 /\ Slack(i) \in Int
          /\ LateSlack(i)' = LateSlack(i) + 1 /\ LateSlack(i) \in Int
        BY <2>1, <2>3, <2>4, <2>7, ConstantsAssumption DEF Slack, LateSlack
    <2>9. lease'.age <= Slack(i)'
        BY <2>2, <2>5, <2>6, <2>7, <2>8 DEF Right
    <2>10. late'[i] # NoWrite => late[i] # NoWrite /\ late'[i] <= LateSlack(i)'
        BY <2>2, <2>4, <2>6, <2>7, <2>8 DEF Right
    <2> QED BY <2>1, <2>2, <2>5, <2>9, <2>10 DEF Right
<1>2. ASSUME NEW i \in Instances, Start(i) \/ Crash(i) PROVE Punctual'
    <2>1. ~held'[i]
        BY <1>2 DEF Start, Crash, Stop, TypeOK
    <2>2. \A j \in Instances \ {i} : held'[j] => Right(j)'
        <3>1. lease' = lease /\ faults' = faults /\ current' \in {current, current \ {i}}
            BY <1>2 DEF Start, Crash
        <3>2. \A j \in Instances \ {i} :
                 /\ held'[j] = held[j] /\ call'[j] = call[j] /\ clock'[j] = clock[j]
                 /\ st'[j] = st[j] /\ late'[j] = late[j]
            BY <1>2 DEF Start, Crash, Stop, MayDelay, TypeOK
        <3> QED BY <3>1, <3>2, OthersPunctual
    <2> QED BY <2>1, <2>2 DEF Punctual
<1>3. ASSUME NEW i \in Instances, Booted(i) \/ Wake(i) PROVE Punctual'
    <2>1. /\ held' = held /\ UNCHANGED object /\ faults' = faults
          /\ \A j \in Instances \ {i} :
                call'[j] = call[j] /\ clock'[j] = clock[j] /\ st'[j] = st[j]
          /\ call[i] = "none"
        BY <1>3 DEF Booted, Wake, TypeOK
    <2>2. \A j \in Instances \ {i} : held'[j] => Right(j)'
        BY <2>1, OthersPunctual
    <2>3. ASSUME held[i] PROVE Right(i)'
        <3>1. Right(i) /\ Spent' = Spent /\ Cycle' = Cycle
            BY <2>1, <2>3, SpentFacts DEF Punctual, Cycle
        <3>2. /\ clock[i] \in Nat /\ clock[i] <= Limit(i) /\ lease.age \in Nat
              /\ Spent \in Nat /\ Cycle = RenewEvery + MaxCall
              /\ (late[i] # NoWrite => late[i] \in Nat)
            BY <2>3, HolderNumbers
        <3>3. CASE Booted(i)
            <4>1. st[i] = "booting" /\ st'[i] = "up" /\ clock'[i] = 0 /\ call'[i] = "none"
                BY <2>1, <3>3 DEF Booted, TypeOK
            <4>2. clock[i] <= MaxBoot
                BY <2>1, <3>2, <4>1 DEF Limit
            <4>3. Slack(i) <= Slack(i)' /\ Slack(i) \in Int /\ Slack(i)' \in Int
                BY <2>1, <3>1, <3>2, <4>1, <4>2, ConstantsAssumption DEF Slack
            <4> QED BY <2>1, <3>1, <3>2, <4>1, <4>3 DEF Right
        <3>4. CASE Wake(i)
            <4>1. /\ clock[i] = RenewEvery /\ st'[i] = st[i] /\ st[i] = "up"
                  /\ clock'[i] = 0 /\ call'[i] = "read"
                BY <3>4 DEF Wake, TypeOK
            <4>2. Slack(i)' = Slack(i) /\ LateSlack(i)' = LateSlack(i)
                BY <2>1, <3>1, <3>2, <4>1, ConstantsAssumption DEF Slack, LateSlack
            <4> QED BY <2>1, <3>1, <4>1, <4>2 DEF Right
        <3> QED BY <1>3, <3>3, <3>4
    <2> QED BY <2>1, <2>2, <2>3 DEF Punctual
<1>4. ASSUME NEW i \in Instances, Read(i) PROVE Punctual'
    <2>1. call[i] = "read" /\ i \notin current /\ lease' = lease /\ late' = late
        BY <1>4 DEF Read, TypeOK
    <2>2. faults' = faults \/ Fault
        BY <1>4 DEF Read
    <2>3. CASE /\ call' = [call EXCEPT ![i] = "write"] /\ current' = current \cup {i}
               /\ UNCHANGED <<st, held, clock, faults>>
        <3>1. \A j \in Instances \ {i} : held'[j] => Right(j)'
            BY <2>1, <2>3, OthersPunctual DEF TypeOK
        <3>2. ASSUME held[i] PROVE Right(i)'
            <4>1. Right(i) /\ Spent' = Spent /\ Cycle' = Cycle
                BY <2>3, <3>2, SpentFacts DEF Punctual, Cycle
            <4>2. call'[i] = "write" /\ i \in current'
                BY <2>3 DEF TypeOK
            <4>3. Slack(i)' = Slack(i) /\ LateSlack(i)' = LateSlack(i)
                BY <2>1, <2>3, <4>1, <4>2 DEF Slack, LateSlack
            <4> QED BY <2>1, <2>3, <4>1, <4>2, <4>3 DEF Right
        <3> QED BY <2>3, <3>1, <3>2 DEF Punctual
    <2>4. CASE Stop(i, "fenced") /\ UNCHANGED <<current, faults>>
        <3>1. /\ ~held'[i]
              /\ \A j \in Instances \ {i} :
                    /\ held'[j] = held[j] /\ call'[j] = call[j] /\ clock'[j] = clock[j]
                    /\ st'[j] = st[j] /\ late'[j] = late[j]
            BY <2>1, <2>4 DEF Stop, TypeOK
        <3>2. \A j \in Instances \ {i} : held'[j] => Right(j)'
            BY <2>1, <2>4, <3>1, OthersPunctual
        <3> QED BY <3>1, <3>2 DEF Punctual
    <2>5. CASE /\ Fault \/ (lease.holder = None /\ held[i] /\ faults' = faults)
               /\ Settle(i, held[i]) /\ UNCHANGED current
        <3>1. /\ held' = held
              /\ \A j \in Instances \ {i} :
                    call'[j] = call[j] /\ clock'[j] = clock[j] /\ st'[j] = st[j]
            BY <2>5 DEF Settle, TypeOK
        <3>2. \A j \in Instances \ {i} : held'[j] => Right(j)'
            BY <2>1, <2>2, <2>5, <3>1, OthersPunctual
        <3>3. held[i] => Fault
            BY <2>5, ConstantsAssumption DEF Punctual, Right
        <3>4. held[i] => Right(i)'
            BY <2>1, <2>5, <3>3, SettlePunctual
        <3> QED BY <3>1, <3>2, <3>4 DEF Punctual
    <2> QED BY <1>4, <2>3, <2>4, <2>5 DEF Read
<1>5. ASSUME NEW i \in Instances, Write(i) PROVE Punctual'
    <2>1. call[i] = "write" /\ st[i] \in {"starting", "up"} /\ (faults' = faults \/ Fault)
        BY <1>5 DEF Write, TypeOK
    <2>2. PICK h \in {TRUE, held[i]} : Settle(i, h)
        BY <1>5 DEF Write
    <2>3. \A j \in Instances \ {i} :
             /\ held'[j] = held[j] /\ call'[j] = call[j]
             /\ clock'[j] = clock[j] /\ st'[j] = st[j]
        BY <2>2 DEF Settle, TypeOK
    <2>4. CASE i \in current /\ Land(i, clock[i])
        <3>1. clock[i] \in Nat /\ clock[i] <= MaxCall /\ lease.age \in Nat
            BY <2>1, ClockBound, ConstantsAssumption DEF TypeOK, MaxAge
        <3>2. lease.holder \in {None, i} \/ lease.age > Duration
            BY <2>4, <3>1, ConstantsAssumption DEF WritesJustified, Expired
        <3>3. \A j \in Instances \ {i} : ~held'[j]
            BY <2>3, <3>2, LandAlone
        <3>4. ASSUME held'[i] PROVE Right(i)'
            <4>1. /\ call'[i] = "none" /\ clock'[i] = 0
                  /\ lease' = [holder |-> i, age |-> clock[i]]
                  /\ late'[i] = NoWrite
                BY <2>2, <2>4 DEF Settle, Land, TypeOK
            <4>2. Spent' \in Nat /\ Cycle \in Nat
                BY <2>1, SpentFacts
            <4>3. clock[i] <= Slack(i)'
                BY <3>1, <4>1, <4>2, ConstantsAssumption DEF Slack, Cycle
            <4> QED BY <4>1, <4>3 DEF Right
        <3> QED BY <3>3, <3>4 DEF Punctual
    <2>5. CASE i \notin current /\ Settle(i, held[i]) /\ UNCHANGED <<object, faults>>
        <3>1. \A j \in Instances \ {i} : held'[j] => Right(j)'
            BY <2>3, <2>5, OthersPunctual
        <3>2. held[i] => Right(i)'
            BY <2>1, <2>5, SettlePunctual
        <3> QED BY <2>5, <3>1, <3>2 DEF Punctual, Settle, TypeOK
    <2>6. CASE /\ Fault /\ MayDelay(i) /\ current' = current \ {i}
               /\ Settle(i, held[i]) /\ lease' = lease
        <3>1. /\ \A j \in Instances \ {i} : late'[j] = late[j]
              /\ late'[i] = late[i] \/ late'[i] = clock[i]
            BY <2>6 DEF MayDelay, TypeOK
        <3>2. \A j \in Instances \ {i} : held'[j] => Right(j)'
            BY <2>3, <2>6, <3>1, OthersPunctual
        <3>3. held[i] => Right(i)'
            BY <2>1, <2>6, <3>1, SettlePunctual
        <3> QED BY <2>6, <3>2, <3>3 DEF Punctual, Settle, TypeOK
    <2> QED BY <1>5, <2>4, <2>5, <2>6 DEF Write
<1>6. ASSUME NEW i \in Instances, LateWrite(i) PROVE Punctual'
    <2>1. late[i] # NoWrite /\ Land(i, late[i]) /\ UNCHANGED <<process, faults>>
        BY <1>6 DEF LateWrite
    <2>2. lease.holder \in {None, i} \/ lease.age > Duration
        BY <2>1 DEF WritesJustified
    <2>3. \A j \in Instances \ {i} : ~held'[j]
        BY <2>1, <2>2, LandAlone
    <2>4. ASSUME held[i] PROVE Right(i)'
        <3>1. Right(i) /\ Spent' = Spent /\ Cycle' = Cycle
            BY <2>1, <2>4, SpentFacts DEF Punctual, Cycle
        <3>2. /\ lease' = [holder |-> i, age |-> late[i]]
              /\ current' = {} /\ late'[i] = NoWrite
            BY <2>1 DEF Land
        <3>3. /\ clock[i] \in Nat /\ Spent \in Nat /\ Cycle = RenewEvery + MaxCall
              /\ late[i] \in Nat
            BY <2>1, <2>4, HolderNumbers
        <3>4. LateSlack(i) <= Slack(i)' /\ LateSlack(i) \in Int /\ Slack(i)' \in Int
            BY <2>1, <3>1, <3>3, ConstantsAssumption DEF Slack, LateSlack
        <3> QED BY <2>1, <3>1, <3>2, <3>3, <3>4 DEF Right
    <2> QED BY <2>1, <2>3, <2>4 DEF Punctual
<1>7. CASE UNCHANGED vars
    BY <1>7 DEF Punctual, Right, Slack, LateSlack, Spent, Cycle
<1> QED BY <1>1, <1>2, <1>3, <1>4, <1>5, <1>6, <1>7 DEF Next, Guard

\* When the duration leaves room for MaxFaults failed renewals, a guard that
\* believes it holds the Lease is right, whichever renewals fail and whenever.
THEOREM GuardRight ==
    ASSUME Timely PROVE Spec => []HeldIsHolder
<1> DEFINE IInv == TypeOK /\ WritesJustified /\ Punctual
<1>1. Init => IInv
    BY InitType, InitJustified, InitPunctual
<1>2. IInv /\ [Next]_vars => IInv'
    BY StepType, StepJustified, StepPunctual
<1>3. IInv => HeldIsHolder
    BY PunctualHolds
<1> QED BY <1>1, <1>2, <1>3, PTL DEF Spec

=============================================================================
